---------------------------- MODULE SchemaProofs ----------------------------
EXTENDS Factory, InductionLemmas

LEMMA StepType ==
  ASSUME NEW X, NEW done \in Seq(X), NEW part_ \in X
  PROVE  A!Step(done, part_) \in Seq(X)
<1>1. CASE done = << >>
  BY <1>1 DEF A!Step
<1>2. CASE done # << >>
  <2>1. SubSeq(done, 1, Len(done) - 1) \in Seq(X)
    BY <1>2
  <2> QED BY <2>1 DEF A!Step, A!Front
<1> QED BY <1>1, <1>2

StepsWithin(D, n, parts) == \A i \in 1..n, d \in D : A!Step(d, parts[i]) \in D

Walked(base, n, parts) ==
  (CHOOSE g : g = [m \in 0..n |-> IF m = 0 THEN base ELSE A!Step(g[m - 1], parts[m])])[n]

\* What is walked component by component stays in a set that every step stays in.
LEMMA WalkedType ==
  ASSUME NEW D, NEW base \in D, NEW n \in Nat, NEW parts, StepsWithin(D, n, parts)
  PROVE  Walked(base, n, parts) \in D
<1> DEFINE F == [i \in 1..n |-> [d \in D |-> A!Step(d, parts[i])]]
<1>1. F \in [1..n -> [D -> D]]
  BY DEF StepsWithin
<1>2. PICK f \in [0..n -> D] : f[0] = base /\ \A i \in 1..n : f[i] = F[i][f[i - 1]]
  <2> HIDE DEF F
  <2> QED BY <1>1, Iteration
<1>3. ASSUME NEW i \in 1..n PROVE f[i] = A!Step(f[i - 1], parts[i])
  <2>1. f[i - 1] \in D
    OBVIOUS
  <2> QED BY <1>2, <2>1
<1> DEFINE Walk(g) == g = [m \in 0..n |-> IF m = 0 THEN base ELSE A!Step(g[m - 1], parts[m])]
           walked == CHOOSE g : Walk(g)
<1>4. Walk(f)
  BY <1>2, <1>3
<1>5. Walk(walked)
  <2> HIDE DEF Walk
  <2> QED BY <1>4
<1> DEFINE T == { i \in 0..n : walked[i] \in D }
<1>6. 0 \in T
  <2> HIDE DEF walked
  <2> QED BY <1>5
<1>7. ASSUME NEW i \in 1..n, i - 1 \in T PROVE i \in T
  <2> HIDE DEF walked
  <2>1. walked[i] = A!Step(walked[i - 1], parts[i]) /\ walked[i - 1] \in D
    BY <1>5, <1>7
  <2>2. walked[i] \in D
    BY <2>1 DEF StepsWithin
  <2> QED BY <2>2
<1>8. 0..n \subseteq T
  <2> HIDE DEF T
  <2> QED BY <1>6, <1>7, UpTo
<1>9. walked[n] \in D
  BY <1>8
<1> QED BY <1>9 DEF Walked

LEMMA NormalizedType ==
  ASSUME NEW X, NEW parts \in Seq(X)
  PROVE  A!Normalized(parts) \in Seq(X)
<1>1. << >> \in Seq(X) /\ Len(parts) \in Nat
  OBVIOUS
<1>2. StepsWithin(Seq(X), Len(parts), parts)
  BY StepType DEF StepsWithin
<1>3. Walked(<< >>, Len(parts), parts) \in Seq(X)
  BY <1>1, <1>2, WalkedType
<1> QED BY <1>3 DEF A!Normalized, Walked

-----------------------------------------------------------------------------
(***************************************************************************)
(* The order on command grants.                                            *)
(***************************************************************************)

Differ(g, h) == { i \in 1..Len(g.tokens) : (g.tokens[i] = Star) # (h.tokens[i] = Star) }

\* At the least position where only one of the two has a wildcard, it is h.
LiteralFirst(g, h) ==
  Differ(g, h) # {} => \E i \in Differ(g, h) : /\ g.tokens[i] # Star
                                               /\ \A j \in Differ(g, h) : i <= j

LEMMA Specificity ==
  ASSUME NEW g, NEW h
  PROVE  A!AtLeastAsSpecific(g, h) <=>
           \/ Len(g.tokens) > Len(h.tokens)
           \/ Len(g.tokens) = Len(h.tokens) /\ LiteralFirst(g, h)
BY DEF A!AtLeastAsSpecific, LiteralFirst, Differ

LEMMA LeastDifference ==
  ASSUME NEW g, NEW h, Len(g.tokens) \in Nat, Differ(g, h) # {}
  PROVE  \E i \in Differ(g, h) : \A j \in Differ(g, h) : i <= j
<1> DEFINE D == Differ(g, h)
<1>1. D \subseteq Nat /\ D # {}
  BY DEF Differ
<1> HIDE DEF D
<1>2. \E i \in D : \A j \in D : i <= j
  BY <1>1, LeastNumber
<1> QED BY <1>2 DEF D

LEMMA SpecificityTotal ==
  ASSUME NEW g, NEW h, Len(g.tokens) \in Nat, Len(h.tokens) \in Nat
  PROVE  A!AtLeastAsSpecific(g, h) \/ A!AtLeastAsSpecific(h, g)
<1>1. CASE Len(g.tokens) # Len(h.tokens)
  BY <1>1, Specificity
<1>2. CASE Len(g.tokens) = Len(h.tokens)
  <2>1. Differ(g, h) = Differ(h, g)
    BY <1>2 DEF Differ
  <2>2. CASE Differ(g, h) = {}
    BY <1>2, <2>2, Specificity DEF LiteralFirst
  <2>3. CASE Differ(g, h) # {}
    <3>1. PICK i \in Differ(g, h) : \A j \in Differ(g, h) : i <= j
      BY <2>3, LeastDifference
    <3>2. g.tokens[i] # Star \/ h.tokens[i] # Star
      BY <3>1 DEF Differ
    <3>3. LiteralFirst(g, h) \/ LiteralFirst(h, g)
      BY <2>1, <3>1, <3>2 DEF LiteralFirst
    <3> QED BY <1>2, <3>3, Specificity
  <2> QED BY <2>2, <2>3
<1> QED BY <1>1, <1>2

LEMMA LiteralFirstTransitive ==
  ASSUME NEW g, NEW h, NEW k, Len(g.tokens) \in Nat,
         Len(g.tokens) = Len(h.tokens), Len(h.tokens) = Len(k.tokens),
         LiteralFirst(g, h), LiteralFirst(h, k)
  PROVE  LiteralFirst(g, k)
<1> DEFINE N == 1..Len(g.tokens)
<1>0. N \subseteq Nat /\ Differ(g, h) \subseteq N /\ Differ(h, k) \subseteq N
  BY DEF Differ
<1>1. \A i \in N : /\ i \in Differ(g, h) <=> (g.tokens[i] = Star) # (h.tokens[i] = Star)
                   /\ i \in Differ(h, k) <=> (h.tokens[i] = Star) # (k.tokens[i] = Star)
                   /\ i \in Differ(g, k) <=> (g.tokens[i] = Star) # (k.tokens[i] = Star)
  BY DEF Differ
<1> SUFFICES ASSUME Differ(g, k) # {}
             PROVE  \E i \in Differ(g, k) : /\ g.tokens[i] # Star
                                            /\ \A j \in Differ(g, k) : i <= j
  BY DEF LiteralFirst
<1>2. PICK i \in Differ(g, k) : \A j \in Differ(g, k) : i <= j
  BY LeastDifference
<1>3. i \in N
  BY <1>2 DEF Differ
<1>4. SUFFICES ASSUME g.tokens[i] = Star PROVE FALSE
  BY <1>2
<1>5. CASE h.tokens[i] = Star
  <2>1. i \in Differ(h, k)
    BY <1>1, <1>2, <1>3, <1>4, <1>5
  <2>2. PICK j \in Differ(h, k) : h.tokens[j] # Star /\ \A l \in Differ(h, k) : j <= l
    BY <2>1 DEF LiteralFirst
  <2>3. j \in N /\ j <= i /\ j # i
    BY <1>0, <1>5, <2>1, <2>2
  <2>4. j \notin Differ(g, k)
    BY <1>0, <1>2, <1>3, <2>3
  <2>5. j \in Differ(g, h) /\ g.tokens[j] = Star
    BY <1>1, <2>2, <2>3, <2>4
  <2>6. PICK l \in Differ(g, h) : g.tokens[l] # Star /\ \A m \in Differ(g, h) : l <= m
    BY <2>5 DEF LiteralFirst
  <2>7. l \in N /\ l <= j /\ l # j
    BY <1>0, <2>5, <2>6
  <2>8. l \notin Differ(h, k)
    BY <1>0, <2>2, <2>3, <2>7
  <2>9. l \in Differ(g, k) /\ ~(i <= l)
    BY <1>0, <1>1, <1>3, <2>3, <2>6, <2>7, <2>8
  <2> QED BY <1>2, <2>9
<1>6. CASE h.tokens[i] # Star
  <2>1. i \in Differ(g, h)
    BY <1>1, <1>3, <1>4, <1>6
  <2>2. PICK l \in Differ(g, h) : g.tokens[l] # Star /\ \A m \in Differ(g, h) : l <= m
    BY <2>1 DEF LiteralFirst
  <2>3. l \in N /\ l <= i /\ l # i
    BY <1>0, <1>4, <2>1, <2>2
  <2>4. l \notin Differ(g, k)
    BY <1>0, <1>2, <1>3, <2>3
  <2>5. l \in Differ(h, k) /\ h.tokens[l] = Star
    BY <1>1, <2>2, <2>3, <2>4
  <2>6. PICK j \in Differ(h, k) : h.tokens[j] # Star /\ \A m \in Differ(h, k) : j <= m
    BY <2>5 DEF LiteralFirst
  <2>7. j \in N /\ j <= l /\ j # l
    BY <1>0, <2>5, <2>6
  <2>8. j \notin Differ(g, h)
    BY <1>0, <2>2, <2>3, <2>7
  <2>9. j \in Differ(g, k) /\ ~(i <= j)
    BY <1>0, <1>1, <1>3, <2>3, <2>6, <2>7, <2>8
  <2> QED BY <1>2, <2>9
<1> QED BY <1>5, <1>6

LEMMA SpecificityTransitive ==
  ASSUME NEW g, NEW h, NEW k,
         Len(g.tokens) \in Nat, Len(h.tokens) \in Nat, Len(k.tokens) \in Nat,
         A!AtLeastAsSpecific(g, h), A!AtLeastAsSpecific(h, k)
  PROVE  A!AtLeastAsSpecific(g, k)
<1>1. CASE Len(g.tokens) > Len(k.tokens)
  BY <1>1, Specificity
<1>2. CASE ~(Len(g.tokens) > Len(k.tokens))
  <2>1. Len(g.tokens) = Len(h.tokens) /\ Len(h.tokens) = Len(k.tokens)
    BY <1>2, Specificity
  <2>2. LiteralFirst(g, h) /\ LiteralFirst(h, k)
    BY <2>1, Specificity
  <2> QED BY <2>1, <2>2, LiteralFirstTransitive, Specificity
<1> QED BY <1>1, <1>2

\* A finite nonempty set of command grants has a most specific one.
LEMMA MostSpecificExists ==
  ASSUME NEW G, IsFiniteSet(G), G # {}, \A g \in G : Len(g.tokens) \in Nat
  PROVE  A!MostSpecific(G) # {}
<1> DEFINE Order == { p \in G \X G : A!AtLeastAsSpecific(p[1], p[2]) }
<1>1. \A g, h \in G : << g, h >> \in Order <=> A!AtLeastAsSpecific(g, h)
  OBVIOUS
<1>2. \A g, h \in G : << g, h >> \in Order \/ << h, g >> \in Order
  BY <1>1, SpecificityTotal
<1>3. \A g, h, k \in G : << g, h >> \in Order /\ << h, k >> \in Order => << g, k >> \in Order
  BY <1>1, SpecificityTransitive
<1>4. PICK g \in G : \A h \in G : << g, h >> \in Order
  <2> HIDE DEF Order
  <2> QED BY <1>2, <1>3, GreatestMember
<1> QED BY <1>1, <1>4 DEF A!MostSpecific

LEMMA DeepestExists ==
  ASSUME NEW G, IsFiniteSet(G), G # {}, \A g \in G : Len(g.root) \in Nat
  PROVE  A!Deepest(G) # {}
<1> DEFINE Order == { p \in G \X G : Len(p[1].root) >= Len(p[2].root) }
<1>1. \A g, h \in G : << g, h >> \in Order <=> Len(g.root) >= Len(h.root)
  OBVIOUS
<1>2. \A g, h \in G : << g, h >> \in Order \/ << h, g >> \in Order
  <2> SUFFICES ASSUME NEW g \in G, NEW h \in G PROVE << g, h >> \in Order \/ << h, g >> \in Order
    OBVIOUS
  <2> HIDE DEF Order
  <2>1. Len(g.root) >= Len(h.root) \/ Len(h.root) >= Len(g.root)
    OBVIOUS
  <2> QED BY <1>1, <2>1
<1>3. \A g, h, k \in G : << g, h >> \in Order /\ << h, k >> \in Order => << g, k >> \in Order
  BY <1>1
<1>4. PICK g \in G : \A h \in G : << g, h >> \in Order
  <2> HIDE DEF Order
  <2> QED BY <1>2, <1>3, GreatestMember
<1> QED BY <1>1, <1>4 DEF A!Deepest

\* max() of the single candidate is that candidate.
LEMMA FirstOfOne ==
  ASSUME NEW G, NEW w \in G, w.ref \in Int, A!AtMostOne(G)
  PROVE  A!First(G) = w
<1>1. G = {w}
  BY DEF A!AtMostOne
<1>2. \A h \in G : w.ref <= h.ref
  BY <1>1
<1> QED BY <1>1, <1>2 DEF A!First

-----------------------------------------------------------------------------
(***************************************************************************)
(* The contract: what its construction keeps true of the grants.           *)
(***************************************************************************)

Spellings == Roots \cup Forms \cup Paths \cup Argvs \cup UNION Carvings
Components == UNION { { s[i] : i \in DOMAIN s } : s \in Spellings }

PathsKept(G) ==
  /\ IsFiniteSet(G)
  /\ \A g \in G : g.ref \in Int /\ g.root \in Seq(Components)
  /\ \A g, h \in G : g.root = h.root => g = h

CommandsKept(G) ==
  /\ IsFiniteSet(G)
  /\ G \subseteq A!CommandGrant
  /\ \A g, h \in G : A!Tied(g, h) => g = h

ToolsKept(G) ==
  /\ G \subseteq A!ToolGrant
  /\ \A g, h \in G : g.tool = h.tool /\ g.effect = h.effect => g = h

ContractKept ==
  /\ contract = [paths |-> contract.paths, commands |-> contract.commands,
                 tools |-> contract.tools]
  /\ PathsKept(contract.paths)
  /\ CommandsKept(contract.commands)
  /\ ToolsKept(contract.tools)

LEMMA SpellingType == \A s \in Spellings : s \in Seq(Components)
<1> SUFFICES ASSUME NEW s \in Spellings PROVE s \in Seq(Components)
  OBVIOUS
<1>1. A!IsSequence(s)
  BY FactoryAssumption DEF A!Assumption, Spellings
<1>2. { s[i] : i \in DOMAIN s } \subseteq Components
  BY DEF Components
<1> DEFINE X == { s[i] : i \in DOMAIN s }
<1>3. s \in Seq(X)
  BY <1>1 DEF A!IsSequence
<1> HIDE DEF X
<1>4. Len(s) \in Nat /\ s = [i \in 1..Len(s) |-> s[i]] /\ \A i \in 1..Len(s) : s[i] \in X
  BY <1>3
<1>5. \A i \in 1..Len(s) : s[i] \in Components
  BY <1>4, <1>2 DEF X
<1>6. s \in [1..Len(s) -> Components]
  BY <1>4, <1>5
<1> QED BY <1>3, <1>6, <1>4

LEMMA RefType == \A ref \in Refs : ref \in Int
BY FactoryAssumption DEF A!Assumption

LEMMA FormType == \A g \in A!CommandGrant : /\ Len(g.tokens) \in Nat
                                            /\ g.tokens \in Seq(Components)
                                            /\ g.ref \in Int
BY SpellingType, RefType DEF A!CommandGrant, Spellings

AuthorityInv == part = "authority" => ContractKept

LEMMA AuthorityStarts == FactoryInit => AuthorityInv
<1> SUFFICES ASSUME FactoryInit, part = "authority" PROVE ContractKept
  BY DEF AuthorityInv
<1>1. contract = [paths |-> {}, commands |-> {}, tools |-> {}]
  BY DEF FactoryInit, A!Init
<1> QED
  BY <1>1, FS_EmptySet DEF ContractKept, PathsKept, CommandsKept, ToolsKept

LEMMA PathsKeptBy ==
  ASSUME ContractKept, NEW ref \in Refs, NEW root \in Roots, NEW mode, NEW carved,
         A!GrantPath(ref, root, mode, carved)
  PROVE  /\ ContractKept'
         /\ \E n : /\ contract'.paths = contract.paths \cup {n} /\ n.ref \notin A!Taken
                   /\ contract'.commands = contract.commands
                   /\ contract'.tools = contract.tools
<1> DEFINE n == A!FilesystemGrant(ref, root, mode, carved)
<1>1. n.ref = ref /\ n.root = A!Normalized(root)
  BY DEF A!FilesystemGrant
<1>2. ref \notin A!Taken /\ \A g \in contract.paths : g.root # A!Normalized(root)
  BY DEF A!GrantPath
<1>3. contract' = [contract EXCEPT !.paths = contract.paths \cup {n}]
  BY DEF A!GrantPath
<1> HIDE DEF n
<1>4. contract' = [paths |-> contract.paths \cup {n}, commands |-> contract.commands,
                   tools |-> contract.tools]
  <2> DEFINE c == contract.commands
             t == contract.tools
             p == contract.paths
  <2>1. contract = [paths |-> p, commands |-> c, tools |-> t]
    BY DEF ContractKept
  <2> HIDE DEF c, t
  <2> QED BY <1>3, <2>1
<1>5. n.ref \in Int /\ n.root \in Seq(Components)
  <2>1. root \in Seq(Components)
    BY SpellingType DEF Spellings
  <2> QED BY <1>1, <2>1, NormalizedType, RefType
<1>6. PathsKept(contract.paths \cup {n})
  <2>1. IsFiniteSet(contract.paths \cup {n})
    BY FS_AddElement DEF ContractKept, PathsKept
  <2> QED BY <1>1, <1>2, <1>5, <2>1 DEF ContractKept, PathsKept
<1>7. ContractKept'
  BY <1>4, <1>6 DEF ContractKept
<1> QED BY <1>1, <1>2, <1>4, <1>7

LEMMA CommandsKeptBy ==
  ASSUME ContractKept, NEW n \in A!CommandGrant, A!GrantCommand(n)
  PROVE  /\ ContractKept'
         /\ contract'.commands = contract.commands \cup {n}
         /\ contract'.paths = contract.paths /\ contract'.tools = contract.tools
<1>1. contract' = [contract EXCEPT !.commands = contract.commands \cup {n}]
  BY DEF A!GrantCommand
<1>2. contract' = [paths |-> contract.paths, commands |-> contract.commands \cup {n},
                   tools |-> contract.tools]
  <2> DEFINE c == contract.commands
             t == contract.tools
             p == contract.paths
  <2>1. contract = [paths |-> p, commands |-> c, tools |-> t]
    BY DEF ContractKept
  <2> HIDE DEF p, t
  <2> QED BY <1>1, <2>1
<1>3. \A g \in contract.commands : ~A!Tied(g, n) /\ ~A!Tied(n, g)
  BY DEF A!GrantCommand, A!Tied
<1>4. CommandsKept(contract.commands \cup {n})
  <2>1. IsFiniteSet(contract.commands \cup {n})
    BY FS_AddElement DEF ContractKept, CommandsKept
  <2> QED BY <1>3, <2>1 DEF ContractKept, CommandsKept
<1> QED BY <1>2, <1>4 DEF ContractKept

LEMMA ToolsKeptBy ==
  ASSUME ContractKept, NEW n \in A!ToolGrant, A!GrantTool(n)
  PROVE  /\ ContractKept'
         /\ contract'.tools = contract.tools \cup {n}
         /\ contract'.paths = contract.paths /\ contract'.commands = contract.commands
<1>1. contract' = [contract EXCEPT !.tools = contract.tools \cup {n}]
  BY DEF A!GrantTool
<1>2. contract' = [paths |-> contract.paths, commands |-> contract.commands,
                   tools |-> contract.tools \cup {n}]
  <2> DEFINE c == contract.commands
             t == contract.tools
             p == contract.paths
  <2>1. contract = [paths |-> p, commands |-> c, tools |-> t]
    BY DEF ContractKept
  <2> HIDE DEF p, c
  <2> QED BY <1>1, <2>1
<1>3. \A g \in contract.tools : ~(g.tool = n.tool /\ g.effect = n.effect)
  BY DEF A!GrantTool
<1>4. ToolsKept(contract.tools \cup {n})
  BY <1>3 DEF ContractKept, ToolsKept
<1> QED BY <1>2, <1>4 DEF ContractKept

LEMMA OnlyAuthorize ==
  ASSUME part = "authority", [FactoryNext]_everything
  PROVE  part' = part /\ (A!Next \/ UNCHANGED contract)
BY DEF FactoryNext, everything, Time, Authorize, AssignWork, PassArtifacts, KeepRegistry,
       SelectRoutes, KeepEvidence, CaptureUsage, Dispatch, Judge

LEMMA PartStays == [FactoryNext]_everything => part' = part
BY DEF FactoryNext, everything, Time, Authorize, AssignWork, PassArtifacts, KeepRegistry,
       SelectRoutes, KeepEvidence, CaptureUsage, Dispatch, Judge

LEMMA AuthorityStep == AuthorityInv /\ [FactoryNext]_everything => AuthorityInv'
<1> SUFFICES ASSUME AuthorityInv, [FactoryNext]_everything, part' = "authority"
             PROVE  ContractKept'
  BY DEF AuthorityInv
<1>1. part = "authority" /\ ContractKept
  BY PartStays DEF AuthorityInv
<1>2. CASE UNCHANGED contract
  BY <1>1, <1>2 DEF ContractKept
<1>3. CASE A!Next
  BY <1>1, <1>3, PathsKeptBy, CommandsKeptBy, ToolsKeptBy DEF A!Next
<1> QED BY <1>1, <1>2, <1>3, OnlyAuthorize

\* What the constructors refuse keeps the grants apart.
THEOREM ContractKeepsApart == FactorySpec => []AuthorityInv
<1> QED BY AuthorityStarts, AuthorityStep, PTL DEF FactorySpec

-----------------------------------------------------------------------------
(***************************************************************************)
(* No tie to break.                                                        *)
(***************************************************************************)

CoverPath(G, path) == { g \in G : A!Covers(g, path) }

LEMMA OneDeepest ==
  ASSUME NEW G, PathsKept(G), NEW path
  PROVE  A!AtMostOne(A!Deepest(CoverPath(G, path)))
<1> SUFFICES ASSUME NEW g \in A!Deepest(CoverPath(G, path)),
                    NEW h \in A!Deepest(CoverPath(G, path))
             PROVE  g = h
  BY DEF A!AtMostOne
<1>1. g \in G /\ h \in G /\ A!Covers(g, path) /\ A!Covers(h, path)
  BY DEF A!Deepest, CoverPath
<1>2. Len(g.root) >= Len(h.root) /\ Len(h.root) >= Len(g.root)
  BY DEF A!Deepest
<1>3. Len(g.root) \in Nat /\ Len(h.root) \in Nat
  BY <1>1 DEF PathsKept
<1>4. Len(g.root) = Len(h.root)
  BY <1>2, <1>3
<1>5. g.root = h.root
  BY <1>1, <1>4 DEF A!Covers
<1> QED BY <1>1, <1>5 DEF PathsKept

LEMMA OneMostSpecific ==
  ASSUME NEW G, CommandsKept(G), NEW argv, NEW effect,
         NEW H \in SUBSET G,
         \A g \in H : g.effect = effect /\ A!PrefixMatches(g.tokens, argv)
  PROVE  A!AtMostOne(A!MostSpecific(H))
<1> SUFFICES ASSUME NEW g \in A!MostSpecific(H), NEW h \in A!MostSpecific(H) PROVE g = h
  BY DEF A!AtMostOne
<1>1. g \in H /\ h \in H /\ g \in G /\ h \in G
  BY DEF A!MostSpecific
<1>2. A!AtLeastAsSpecific(g, h) /\ A!AtLeastAsSpecific(h, g)
  BY <1>1 DEF A!MostSpecific
<1>3. /\ Len(g.tokens) \in Nat /\ Len(h.tokens) \in Nat
      /\ g.tokens \in Seq(Components) /\ h.tokens \in Seq(Components)
  BY <1>1, FormType DEF CommandsKept
<1>4. Len(g.tokens) = Len(h.tokens) /\ LiteralFirst(g, h) /\ LiteralFirst(h, g)
  BY <1>2, <1>3, Specificity
<1>5. Differ(g, h) = Differ(h, g)
  BY <1>4 DEF Differ
<1>6. Differ(g, h) = {}
  <2> SUFFICES ASSUME Differ(g, h) # {} PROVE FALSE
    OBVIOUS
  <2>1. PICK i \in Differ(g, h) : g.tokens[i] # Star /\ \A j \in Differ(g, h) : i <= j
    BY <1>4 DEF LiteralFirst
  <2>2. PICK k \in Differ(g, h) : h.tokens[k] # Star /\ \A j \in Differ(g, h) : k <= j
    BY <1>4, <1>5 DEF LiteralFirst
  <2>3. i \in Nat /\ k \in Nat
    BY <2>1, <2>2, <1>3 DEF Differ
  <2>4. i = k
    BY <2>1, <2>2, <2>3
  <2> QED BY <2>1, <2>2, <2>4 DEF Differ
<1>7. \A i \in 1..Len(g.tokens) : g.tokens[i] = h.tokens[i]
  <2> SUFFICES ASSUME NEW i \in 1..Len(g.tokens) PROVE g.tokens[i] = h.tokens[i]
    OBVIOUS
  <2>1. (g.tokens[i] = Star) <=> (h.tokens[i] = Star)
    BY <1>6 DEF Differ
  <2>2. A!TokenMatches(g.tokens[i], argv[i]) /\ A!TokenMatches(h.tokens[i], argv[i])
    BY <1>1, <1>4 DEF A!PrefixMatches
  <2> QED BY <2>1, <2>2 DEF A!TokenMatches
<1>8. g.tokens = h.tokens
  BY <1>3, <1>4, <1>7
<1> QED BY <1>1, <1>8 DEF CommandsKept, A!Tied

LEMMA Denied ==
  ASSUME NEW G, G \subseteq A!CommandGrant, NEW g \in G
  PROVE  IF g \in A!Denials(G) THEN g.effect = "deny" ELSE g.effect = "allow"
BY DEF A!Denials, A!CommandGrant, A!Effects

THEOREM NamesNeverDecide == FactorySpec => []NoTieToBreak
<1>1. AuthorityInv => NoTieToBreak
  <2> SUFFICES ASSUME ContractKept PROVE A!NoTieToBreak
    BY DEF AuthorityInv, NoTieToBreak
  <2>1. ASSUME NEW path \in Paths
        PROVE  A!AtMostOne(A!Deepest({ g \in contract.paths :
                                         A!Covers(g, A!Normalized(path)) }))
    BY OneDeepest DEF ContractKept, CoverPath
  <2>2. ASSUME NEW argv \in Argvs
        PROVE  /\ A!AtMostOne(A!MostSpecific(A!Denials(A!Matching(contract.commands, argv))))
               /\ A!AtMostOne(A!MostSpecific(A!Matching(contract.commands, argv)
                                  \ A!Denials(A!Matching(contract.commands, argv))))
    <3> DEFINE G == contract.commands
               found == A!Matching(G, argv)
    <3>1. CommandsKept(G) /\ found \subseteq G /\ found \subseteq A!CommandGrant
      BY DEF ContractKept, CommandsKept, A!Matching
    <3>2. \A g \in A!Denials(found) :
            g \in G /\ g.effect = "deny" /\ A!PrefixMatches(g.tokens, argv)
      BY DEF A!Denials, A!Matching
    <3>3. \A g \in found \ A!Denials(found) :
            g \in G /\ g.effect = "allow" /\ A!PrefixMatches(g.tokens, argv)
      BY <3>1 DEF A!Denials, A!Matching, A!CommandGrant, A!Effects
    <3> HIDE DEF G, found
    <3>4. A!AtMostOne(A!MostSpecific(A!Denials(found)))
      BY <3>1, <3>2, OneMostSpecific
    <3>5. A!AtMostOne(A!MostSpecific(found \ A!Denials(found)))
      <4> DEFINE rest == found \ A!Denials(found)
      <4>1. rest \in SUBSET G /\ \A g \in rest : g.effect = "allow" /\ A!PrefixMatches(g.tokens, argv)
        BY <3>3
      <4> HIDE DEF rest
      <4>2. A!AtMostOne(A!MostSpecific(rest))
        BY <3>1, <4>1, OneMostSpecific
      <4> QED BY <4>2 DEF rest
    <3> QED BY <3>4, <3>5 DEF G, found
  <2>3. ASSUME NEW name \in Tools
        PROVE  LET found == { g \in contract.tools : g.tool = name }
               IN  /\ A!AtMostOne(A!Denials(found))
                   /\ A!AtMostOne(found \ A!Denials(found))
    BY DEF ContractKept, ToolsKept, A!Denials, A!AtMostOne, A!ToolGrant, A!Effects
  <2> QED BY <2>1, <2>2, <2>3 DEF A!NoTieToBreak
<1> QED BY <1>1, ContractKeepsApart, PTL

-----------------------------------------------------------------------------
(***************************************************************************)
(* A grant reaches only what it names.                                     *)
(***************************************************************************)

Uniform(H, effect, argv) ==
  \A g \in H : g.effect = effect /\ A!PrefixMatches(g.tokens, argv)

\* Where all that may decide have one effect, that effect is decided.
LEMMA DecidedBy ==
  ASSUME NEW G, CommandsKept(G), NEW argv, NEW effect, NEW H \in SUBSET G,
         H # {}, Uniform(H, effect, argv)
  PROVE  A!First(A!MostSpecific(H)).effect = effect
<1>1. IsFiniteSet(H) /\ \A g \in H : Len(g.tokens) \in Nat /\ g.ref \in Int
  BY FS_Subset, FormType DEF CommandsKept
<1>2. A!MostSpecific(H) # {}
  BY <1>1, MostSpecificExists
<1>3. PICK w \in A!MostSpecific(H) : TRUE
  BY <1>2
<1>4. w \in H
  BY <1>3 DEF A!MostSpecific
<1>5. A!First(A!MostSpecific(H)) = w
  BY <1>1, <1>3, <1>4, OneMostSpecific, FirstOfOne DEF Uniform
<1> QED BY <1>4, <1>5 DEF Uniform

\* A command is denied by a grant exactly when some matching grant denies it.
LEMMA DeniedCommand ==
  ASSUME NEW G, CommandsKept(G), NEW argv
  PROVE  /\ A!DecideCommand(G, argv).effect = "deny" /\ A!DecideCommand(G, argv) # A!Default
              => A!Denials(A!Matching(G, argv)) # {}
         /\ A!Denials(A!Matching(G, argv)) # {} => A!DecideCommand(G, argv).effect = "deny"
<1> DEFINE found == A!Matching(G, argv)
           denied == A!Denials(found)
<1>1. found \subseteq G /\ denied \subseteq found /\ found \subseteq A!CommandGrant
  BY DEF CommandsKept, A!Matching, A!Denials
<1>2. \A g \in found : A!PrefixMatches(g.tokens, argv)
  BY DEF A!Matching
<1>3. \A g \in denied : g.effect = "deny"
  BY DEF A!Denials
<1>4. denied = {} => \A g \in found : g.effect = "allow"
  BY <1>1, Denied
<1>5. A!DecideCommand(G, argv) =
        IF found = {} THEN A!Default
        ELSE [effect |-> A!First(A!MostSpecific(IF denied # {} THEN denied ELSE found)).effect,
              ref |-> A!First(A!MostSpecific(IF denied # {} THEN denied ELSE found)).ref]
  BY DEF A!DecideCommand
<1> HIDE DEF found, denied
<1>6. denied # {} => A!First(A!MostSpecific(denied)).effect = "deny"
  <2> SUFFICES ASSUME denied # {} PROVE A!First(A!MostSpecific(denied)).effect = "deny"
    OBVIOUS
  <2>1. denied \in SUBSET G /\ Uniform(denied, "deny", argv)
    BY <1>1, <1>2, <1>3 DEF Uniform
  <2> QED BY <2>1, DecidedBy
<1>7. denied = {} /\ found # {} => A!First(A!MostSpecific(found)).effect = "allow"
  <2> SUFFICES ASSUME denied = {}, found # {}
               PROVE  A!First(A!MostSpecific(found)).effect = "allow"
    OBVIOUS
  <2>1. found \in SUBSET G /\ Uniform(found, "allow", argv)
    BY <1>1, <1>2, <1>4 DEF Uniform
  <2> QED BY <2>1, DecidedBy
<1>8. denied # {} => found # {}
  BY <1>1
<1>9. CASE found = {}
  BY <1>5, <1>8, <1>9 DEF found, denied
<1>10. CASE found # {} /\ denied # {}
  BY <1>5, <1>6, <1>10 DEF found, denied
<1>11. CASE found # {} /\ denied = {}
  BY <1>5, <1>7, <1>11 DEF found, denied
<1> QED BY <1>9, <1>10, <1>11

LEMMA DeniedTool ==
  ASSUME NEW G, ToolsKept(G), NEW name
  PROVE  LET denied == A!Denials({ g \in G : g.tool = name })
         IN  /\ A!DecideTool(G, name).effect = "deny" /\ A!DecideTool(G, name) # A!Default
                  => denied # {}
             /\ denied # {} => A!DecideTool(G, name).effect = "deny"
<1> DEFINE found == { g \in G : g.tool = name }
           denied == A!Denials(found)
<1>1. \A g \in found : g \in A!ToolGrant /\ g.ref \in Int
  BY RefType DEF ToolsKept, A!ToolGrant
<1>2. \A g \in denied : g.effect = "deny" /\ g \in found
  BY DEF A!Denials
<1>3. denied = {} => \A g \in found : g.effect = "allow"
  BY <1>1 DEF A!Denials, A!ToolGrant, A!Effects
<1>4. A!AtMostOne(denied) /\ (denied = {} => A!AtMostOne(found))
  BY <1>2, <1>3 DEF A!AtMostOne, ToolsKept
<1>5. A!DecideTool(G, name) =
        IF found = {} THEN A!Default
        ELSE [effect |-> A!First(IF denied # {} THEN denied ELSE found).effect,
              ref |-> A!First(IF denied # {} THEN denied ELSE found).ref]
  BY DEF A!DecideTool
<1> HIDE DEF found, denied
<1>6. denied # {} => A!First(denied).effect = "deny"
  BY <1>1, <1>2, <1>4, FirstOfOne
<1>7. denied = {} /\ found # {} => A!First(found).effect = "allow"
  BY <1>1, <1>3, <1>4, FirstOfOne
<1>8. CASE found = {}
  BY <1>2, <1>5, <1>8 DEF found, denied
<1>9. CASE found # {} /\ denied # {}
  BY <1>5, <1>6, <1>9 DEF found, denied
<1>10. CASE found # {} /\ denied = {}
  BY <1>5, <1>7, <1>10 DEF found, denied
<1> QED BY <1>8, <1>9, <1>10 DEF found, denied

\* The answer about a path is the new grant's or the one before.
LEMMA PathAnswer ==
  ASSUME NEW G, NEW n, PathsKept(G), PathsKept(G \cup {n}), NEW asked, NEW write
  PROVE  \/ A!DecidePath(G \cup {n}, asked, write) = A!DecidePath(G, asked, write)
         \/ A!DecidePath(G \cup {n}, asked, write).ref = n.ref
<1> DEFINE path == A!Normalized(asked)
           old == CoverPath(G, path)
           new == CoverPath(G \cup {n}, path)
           Answer(w) ==
             [effect |-> IF \/ \E e \in w.exceptions :
                                 A!PrefixMatches(e, SubSeq(path, Len(w.root) + 1, Len(path)))
                            \/ write /\ w.mode = "read"
                         THEN "deny" ELSE "allow", ref |-> w.ref]
<1>1. /\ A!DecidePath(G, asked, write) =
           IF old = {} THEN A!Default ELSE Answer(A!First(A!Deepest(old)))
      /\ A!DecidePath(G \cup {n}, asked, write) =
           IF new = {} THEN A!Default ELSE Answer(A!First(A!Deepest(new)))
  BY DEF A!DecidePath, CoverPath
<1>2. \A w : Answer(w).ref = w.ref
  OBVIOUS
<1>3. old \subseteq G /\ new \subseteq G \cup {n} /\ old = new \ ({n} \ G)
  BY DEF CoverPath
<1>4. \A w \in G \cup {n} : Len(w.root) \in Nat /\ w.ref \in Int
  BY DEF PathsKept
<1>5. A!AtMostOne(A!Deepest(old)) /\ A!AtMostOne(A!Deepest(new))
  BY OneDeepest
<1>6. CASE new = {}
  BY <1>1, <1>3, <1>6
<1>7. CASE new # {}
  <2>1. IsFiniteSet(new)
    BY <1>3, FS_Subset DEF PathsKept
  <2>2. A!Deepest(new) # {}
    <3>1. \A g \in new : Len(g.root) \in Nat
      BY <1>3, <1>4
    <3> HIDE DEF new
    <3> QED BY <1>7, <2>1, <3>1, DeepestExists
  <2> HIDE DEF Answer, old, new
  <2>3. PICK w \in A!Deepest(new) : TRUE
    BY <2>2
  <2>4. w \in new /\ \A h \in new : Len(w.root) >= Len(h.root)
    BY <2>3 DEF A!Deepest
  <2>5. A!First(A!Deepest(new)) = w
    BY <1>3, <1>4, <1>5, <2>3, <2>4, FirstOfOne
  <2>6. CASE w = n
    BY <1>1, <1>2, <1>7, <2>5, <2>6
  <2>7. CASE w # n
    <3>1. w \in old /\ w \in A!Deepest(old)
      BY <1>3, <2>4, <2>7 DEF A!Deepest
    <3>2. A!First(A!Deepest(old)) = w
      BY <1>3, <1>4, <1>5, <3>1, FirstOfOne
    <3> QED BY <1>1, <1>7, <2>5, <3>1, <3>2
  <2> QED BY <2>6, <2>7
<1> QED BY <1>6, <1>7

LEMMA GrantReaches ==
  ASSUME ContractKept, A!Next
  PROVE  A!NothingLifted
<1>1. PICK p, c, t : /\ contract'.paths = contract.paths \cup p
                     /\ contract'.commands = contract.commands \cup c
                     /\ contract'.tools = contract.tools \cup t
                     /\ p = {} \/ \E n : p = {n} /\ n.ref \notin A!Taken
  <2>1. ASSUME NEW ref \in Refs, NEW root \in Roots, NEW mode, NEW carved,
               A!GrantPath(ref, root, mode, carved)
        PROVE  \E n : /\ contract'.paths = contract.paths \cup {n} /\ n.ref \notin A!Taken
                      /\ contract'.commands = contract.commands \cup {}
                      /\ contract'.tools = contract.tools \cup {}
    BY <2>1, PathsKeptBy
  <2>2. ASSUME NEW n \in A!CommandGrant, A!GrantCommand(n)
        PROVE  /\ contract'.commands = contract.commands \cup {n}
               /\ contract'.paths = contract.paths \cup {}
               /\ contract'.tools = contract.tools \cup {}
    BY <2>2, CommandsKeptBy
  <2>3. ASSUME NEW n \in A!ToolGrant, A!GrantTool(n)
        PROVE  /\ contract'.tools = contract.tools \cup {n}
               /\ contract'.paths = contract.paths \cup {}
               /\ contract'.commands = contract.commands \cup {}
    BY <2>3, ToolsKeptBy
  <2>4. CASE \E ref \in Refs, root \in Roots, mode \in A!Modes, carved \in Carvings :
               A!GrantPath(ref, root, mode, carved)
    BY <2>1, <2>4
  <2>5. CASE \E n \in A!CommandGrant : A!GrantCommand(n)
    BY <2>2, <2>5
  <2>6. CASE \E n \in A!ToolGrant : A!GrantTool(n)
    BY <2>3, <2>6
  <2> QED BY <2>4, <2>5, <2>6 DEF A!Next
<1>2. ContractKept'
  BY PathsKeptBy, CommandsKeptBy, ToolsKeptBy DEF A!Next
<1> DEFINE G == contract.commands
           H == contract'.commands
<1>3. ASSUME NEW argv \in Argvs,
             A!DecideCommand(G, argv).effect = "deny", A!DecideCommand(G, argv) # A!Default
      PROVE  A!DecideCommand(H, argv).effect = "deny"
  <2>1. CommandsKept(G) /\ CommandsKept(H) /\ G \subseteq H
    BY <1>1, <1>2 DEF ContractKept
  <2> HIDE DEF G, H
  <2>2. A!Denials(A!Matching(G, argv)) # {}
    BY <1>3, <2>1, DeniedCommand
  <2>3. A!Denials(A!Matching(H, argv)) # {}
    BY <2>1, <2>2 DEF A!Denials, A!Matching
  <2> QED BY <2>1, <2>3, DeniedCommand
<1> DEFINE K == contract.tools
           L == contract'.tools
<1>4. ASSUME NEW name \in Tools,
             A!DecideTool(K, name).effect = "deny", A!DecideTool(K, name) # A!Default
      PROVE  A!DecideTool(L, name).effect = "deny"
  <2>1. ToolsKept(K) /\ ToolsKept(L) /\ K \subseteq L
    BY <1>1, <1>2 DEF ContractKept
  <2> HIDE DEF K, L
  <2>2. A!Denials({ g \in K : g.tool = name }) # {}
    BY <1>4, <2>1, DeniedTool
  <2>3. A!Denials({ g \in L : g.tool = name }) # {}
    BY <2>1, <2>2 DEF A!Denials
  <2> QED BY <2>1, <2>3, DeniedTool
<1>5. ASSUME NEW path \in Paths, NEW write \in BOOLEAN
      PROVE  \/ A!DecidePath(contract'.paths, path, write) = A!DecidePath(contract.paths, path, write)
             \/ A!DecidePath(contract'.paths, path, write).ref \notin A!Taken
  <2>1. PathsKept(contract.paths) /\ PathsKept(contract'.paths)
    BY <1>2 DEF ContractKept
  <2>2. CASE p = {}
    BY <1>1, <2>2
  <2>3. CASE p # {}
    <3>1. PICK n : p = {n} /\ n.ref \notin A!Taken
      BY <1>1, <2>3
    <3>2. contract'.paths = contract.paths \cup {n}
      BY <1>1, <3>1
    <3> QED BY <2>1, <3>1, <3>2, PathAnswer
  <2> QED BY <2>2, <2>3
<1> QED BY <1>3, <1>4, <1>5 DEF A!NothingLifted

\* A denial stands, and a path's answer changes only to the new grant's.
THEOREM GrantsLiftNothing == FactorySpec => DenialStands
<1>1. ASSUME AuthorityInv, [FactoryNext]_everything, part = "authority"
      PROVE  A!NothingLifted
  <2>1. CASE A!Next
    BY <1>1, <2>1, GrantReaches DEF AuthorityInv
  <2>2. CASE UNCHANGED contract
    BY <2>2 DEF A!NothingLifted
  <2> QED BY <1>1, <2>1, <2>2, OnlyAuthorize
<1>2. AuthorityInv /\ [FactoryNext]_everything
        => [part = "authority" => A!NothingLifted]_everything
  BY <1>1
<1> QED BY <1>2, ContractKeepsApart, PTL DEF DenialStands, FactorySpec

-----------------------------------------------------------------------------
(***************************************************************************)
(* Work never outlasts its authority, for any grants, works, places and    *)
(* bans, any life of a status and any length of time.                      *)
(***************************************************************************)

\* The window of a record, in ticks.
Dated(r) == r.issued \in Nat /\ r.expires \in Nat

\* What is known of a status when the grant may be withdrawn later: it lives
\* no longer than the checker gives it, and one that does not tell of the
\* revocation was written before it.
Observed(s) ==
  /\ s.checked \in Nat /\ s.expires \in Nat
  /\ s.checked <= now
  /\ s.expires <= s.checked + StatusLife
  /\ ~s.revoked /\ revoked # None => s.checked <= revoked

\* WorkEndsWithItsAuthority speaks of a status and a revocation that may be
\* ticks apart; what connects them is what each status says of its own time.
StatusInv ==
  /\ now \in Nat
  /\ revoked # None => revoked \in Nat
  /\ \A s \in statuses : Observed(s)
  /\ statuses # {} => grant # None
  /\ grant # None => Dated(grant)
  /\ assigned # None => Dated(assigned)

LEMMA StatusInit == ASSUME B!Init PROVE StatusInv
BY FactoryAssumption DEF B!Assumption, B!Init, StatusInv

LEMMA StatusStep ==
  ASSUME StatusInv, [B!Next]_B!vars
  PROVE  StatusInv'
<1> USE FactoryAssumption DEF B!Assumption, StatusInv
<1>1. CASE B!Tick
  <2>1. now' \in Nat /\ now < now'
    BY <1>1 DEF B!Tick
  <2>2. \A s \in statuses' : Observed(s)'
    BY <1>1, <2>1 DEF B!Tick, Observed
  <2> QED BY <1>1, <2>1, <2>2 DEF B!Tick, Dated
<1>2. CASE B!Grant
  <2>1. PICK issued \in B!Moments, expires \in B!Moments, scope \in Scopes :
          grant' = [work |-> scope.work, kind |-> scope.kind, reads |-> scope.reads,
                    writes |-> scope.writes,
                    allowed |-> scope.allowed, approvals |-> scope.approvals,
                    prohibited |-> scope.prohibited,
                    issued |-> issued, expires |-> expires]
    BY <1>2 DEF B!Grant
  <2>2. Dated(grant')
    BY <2>1 DEF Dated, B!Moments
  <2>3. statuses' = {} /\ UNCHANGED << now, revoked, assigned >>
    BY <1>2 DEF B!Grant
  <2> QED BY <2>2, <2>3 DEF Dated
<1>3. CASE B!Revoke
  <2>1. \A s \in statuses' : Observed(s)'
    BY <1>3 DEF B!Revoke, Observed
  <2> QED BY <1>3, <2>1 DEF B!Revoke, Dated
<1>4. CASE B!Observe
  <2>1. PICK expires \in now + 1..now + StatusLife :
          statuses' = statuses \cup
                        {[grantDigest |-> grant, checked |-> now, expires |-> expires,
                          revoked |-> revoked # None]}
    BY <1>4 DEF B!Observe
  <2>2. grant # None /\ UNCHANGED << now, revoked, grant, assigned >>
    BY <1>4 DEF B!Observe
  <2>3. ASSUME NEW s \in statuses' PROVE Observed(s)'
    <3>1. CASE s \in statuses
      BY <2>2, <3>1 DEF Observed
    <3>2. CASE s = [grantDigest |-> grant, checked |-> now, expires |-> expires,
                    revoked |-> revoked # None]
      <4>1. s.checked = now /\ s.expires = expires /\ s.revoked = (revoked # None)
        BY <3>2
      <4>2. s.expires \in Nat /\ s.expires <= s.checked + StatusLife
        BY <4>1
      <4>3. ~s.revoked /\ revoked # None => s.checked <= revoked
        BY <4>1
      <4> QED BY <2>2, <4>1, <4>2, <4>3 DEF Observed
    <3> QED BY <2>1, <3>1, <3>2
  <2> QED BY <2>2, <2>3 DEF Dated
<1>5. CASE B!Assign
  <2>1. assigned'.issued \in B!Moments /\ assigned'.expires \in B!Moments
    BY <1>5 DEF B!Assign
  <2>2. Dated(assigned')
    BY <2>1 DEF Dated, B!Moments
  <2>3. UNCHANGED << now, revoked, grant, statuses >>
    BY <1>5 DEF B!Assign
  <2>4. \A s \in statuses' : Observed(s)'
    BY <2>3 DEF Observed
  <2> QED BY <2>2, <2>3, <2>4 DEF Dated
<1>6. CASE UNCHANGED B!vars
  BY <1>6 DEF B!vars, Observed, Dated
<1> QED BY <1>1, <1>2, <1>3, <1>4, <1>5, <1>6 DEF B!Next

\* The assignment is admitted under a status that does not tell of a
\* revocation: it was written before any, and is not over.
LEMMA StatusImplies ==
  ASSUME StatusInv
  PROVE  B!WorkEndsWithItsAuthority
<1> USE FactoryAssumption DEF B!Assumption, StatusInv
<1> SUFFICES ASSUME B!Admitted
             PROVE  /\ assigned.work = grant.work
                    /\ grant.issued <= now /\ now < grant.expires
                    /\ revoked # None => now < revoked + StatusLife
                    /\ ~B!IsExpired(assigned, now)
  BY DEF B!WorkEndsWithItsAuthority
<1>1. PICK s \in statuses : B!Admits(assigned, grant, s, now)
  BY DEF B!Admitted
<1>2. /\ B!Active(assigned, now) /\ B!WithinGrant(assigned, grant)
      /\ B!Current(s, grant, now) /\ ~s.revoked
  BY <1>1 DEF B!Admits
<1>3. Dated(assigned) /\ Dated(grant) /\ Observed(s)
  BY <1>1 DEF B!Admitted
<1>4. grant.issued <= now /\ now < grant.expires
  BY <1>2, <1>3 DEF B!Active, B!WithinGrant, Dated
<1>5. ASSUME revoked # None PROVE now < revoked + StatusLife
  <2>1. now < s.expires /\ s.expires <= s.checked + StatusLife /\ s.checked <= revoked
    BY <1>2, <1>3, <1>5 DEF B!Current, Observed
  <2> QED BY <1>3, <1>5, <2>1 DEF Observed
<1>6. ~B!IsExpired(assigned, now)
  BY <1>2, <1>3 DEF B!Active, B!IsExpired, Dated
<1> QED BY <1>2, <1>4, <1>5, <1>6 DEF B!WithinGrant

AssignmentInv == part = "assignment" => StatusInv

LEMMA OnlyAssignWork ==
  ASSUME part = "assignment", [FactoryNext]_everything
  PROVE  [B!Next]_B!vars
BY DEF FactoryNext, everything, assignment, B!vars, Time, Authorize, AssignWork, PassArtifacts,
       KeepRegistry, SelectRoutes, KeepEvidence, CaptureUsage, Dispatch, Judge

THEOREM StatusesHold == FactorySpec => []AssignmentInv
<1>1. FactoryInit => AssignmentInv
  BY StatusInit DEF FactoryInit, AssignmentInv
<1>2. AssignmentInv /\ [FactoryNext]_everything => AssignmentInv'
  BY PartStays, OnlyAssignWork, StatusStep DEF AssignmentInv
<1> QED BY <1>1, <1>2, PTL DEF FactorySpec

\* Admission ends with the window of the grant, and one life of a status after
\* its revocation, in every state (assignment.py, validate_authority_status).
THEOREM WorkEndsCorrect == FactorySpec => []WorkEndsWithItsAuthority
<1>1. AssignmentInv => WorkEndsWithItsAuthority
  BY StatusImplies DEF AssignmentInv, WorkEndsWithItsAuthority
<1> QED BY <1>1, StatusesHold, PTL

-----------------------------------------------------------------------------
(***************************************************************************)
(* Doubt is declared, for any employees, declarations, providers, scores   *)
(* and rounding.                                                           *)
(***************************************************************************)

LEMMA Quotient ==
  ASSUME NEW a \in Int, NEW d \in Nat \ {0}
  PROVE  a \div d \in Int /\ d * (a \div d) <= a
OBVIOUS

\* The wire lifts a score by less than a grain.
LEMMA RoundedBy ==
  ASSUME NEW score \in Int
  PROVE  P!Rounded(score) \in Int /\ P!Rounded(score) < score + Grain
<1> DEFINE q == (2 * score + Grain) \div (2 * Grain)
<1>1. Grain \in Nat /\ Grain > 0
  BY FactoryAssumption DEF P!Assumption
<1>2. 2 * score + Grain \in Int /\ 2 * Grain \in Nat \ {0}
  BY <1>1
<1>3. q \in Int /\ (2 * Grain) * q <= 2 * score + Grain
  BY <1>2, Quotient
<1> HIDE DEF q
<1>4. Grain * q \in Int /\ (2 * Grain) * q = 2 * (Grain * q)
  BY <1>1, <1>3
<1>5. Grain * q < score + Grain
  <2> DEFINE p == Grain * q
  <2>1. p \in Int /\ 2 * p <= 2 * score + Grain
    BY <1>3, <1>4
  <2> HIDE DEF p
  <2>2. p < score + Grain
    BY <1>1, <2>1
  <2> QED BY <2>2 DEF p
<1> QED BY <1>4, <1>5 DEF P!Rounded, q

\* What DoubtIsDeclared says of one artifact a, over the artifacts m.
Declares(a, m) ==
  a.status # "refused" =>
    \A s \in Declared[a.employee] :
      /\ a.inputs[s.name] = None /\ s.required =>
           /\ s.onAbsent # "refuse_and_escalate"
           /\ s.name \in a.flags
      /\ a.inputs[s.name] # None =>
           /\ s.independent => m[a.inputs[s.name]].provider # a.provider
           /\ m[a.inputs[s.name]].status # "complete" =>
                /\ s.onDeficient # "refuse_and_escalate"
                /\ s.name \in a.flags
                /\ s.onDeficient = "degrade" => a.status = "partial" /\ a.score <= Half
           /\ s.name \notin a.flags => m[a.inputs[s.name]].score + Grain > s.floor

\* Its inputs are among the first k artifacts.
RestsOn(a, k) == \A n \in Names : a.inputs[n] = None \/ a.inputs[n] \in 1..k

ArtifactsKept ==
  /\ made \in Seq(P!Artifact)
  /\ sequence \in [Contexts -> Nat]
  /\ \A k \in 1..Len(made) : RestsOn(made[k], Len(made)) /\ Declares(made[k], made)

LEMMA DeclaresStill ==
  ASSUME NEW m \in Seq(P!Artifact), NEW a \in P!Artifact, NEW b \in P!Artifact,
         RestsOn(a, Len(m)), Declares(a, m)
  PROVE  RestsOn(a, Len(Append(m, b))) /\ Declares(a, Append(m, b))
<1>1. Len(Append(m, b)) = Len(m) + 1 /\ Len(m) \in Nat
  OBVIOUS
<1>2. \A i \in 1..Len(m) : Append(m, b)[i] = m[i]
  OBVIOUS
<1>3. RestsOn(a, Len(Append(m, b)))
  BY <1>1 DEF RestsOn
<1>4. a.employee \in Producers
  BY DEF P!Artifact
<1>5. \A s \in Declared[a.employee] :
        a.inputs[s.name] # None => Append(m, b)[a.inputs[s.name]] = m[a.inputs[s.name]]
  BY <1>2, <1>4, FactoryAssumption DEF P!Assumption, RestsOn
<1>6. Declares(a, Append(m, b))
  BY <1>5 DEF Declares
<1> QED BY <1>3, <1>6

\* An artifact that declares its doubts is appended.
LEMMA ArtifactsKeptBy ==
  ASSUME ArtifactsKept, NEW a \in P!Artifact, NEW c \in Contexts, P!NextId(c),
         made' = Append(made, a), RestsOn(a, Len(made)), Declares(a, made)
  PROVE  ArtifactsKept'
<1>1. made' \in Seq(P!Artifact) /\ Len(made') = Len(made) + 1 /\ Len(made) \in Nat
  BY DEF ArtifactsKept
<1>2. sequence' \in [Contexts -> Nat]
  BY DEF ArtifactsKept, P!NextId
<1>3. ASSUME NEW k \in 1..Len(made')
      PROVE  RestsOn(made'[k], Len(made')) /\ Declares(made'[k], made')
  <2>1. CASE k = Len(made) + 1
    <3>1. made'[k] = a
      BY <2>1 DEF ArtifactsKept
    <3> QED BY <3>1, DeclaresStill DEF ArtifactsKept
  <2>2. CASE k \in 1..Len(made)
    <3>1. made'[k] = made[k] /\ made[k] \in P!Artifact
      BY <2>2 DEF ArtifactsKept
    <3>2. RestsOn(made[k], Len(made)) /\ Declares(made[k], made)
      BY <2>2 DEF ArtifactsKept
    <3> QED BY <3>1, <3>2, DeclaresStill DEF ArtifactsKept
  <2> QED BY <1>1, <2>1, <2>2
<1> QED BY <1>1, <1>2, <1>3 DEF ArtifactsKept

LEMMA EnvelopedType ==
  ASSUME ArtifactsKept, NEW e \in Producers, NEW c \in Contexts,
         NEW status \in P!Statuses, NEW score \in Int, NEW flags \in SUBSET Names,
         NEW refs \in [Names -> 1..Len(made) \cup {None}]
  PROVE  /\ P!Enveloped(e, c, status, score, flags, refs) \in P!Artifact
         /\ RestsOn(P!Enveloped(e, c, status, score, flags, refs), Len(made))
<1> DEFINE a == P!Enveloped(e, c, status, score, flags, refs)
<1>1. sequence[c] + 1 \in Nat
  BY DEF ArtifactsKept
<1>2. refs \in [Names -> Nat \cup {None}]
  BY DEF ArtifactsKept
<1>3. Produces[e] \in P!Kinds /\ Provider[c] \in { Provider[d] : d \in Contexts }
  BY DEF P!Kinds
<1>4. a \in P!Artifact
  BY <1>1, <1>2, <1>3 DEF P!Enveloped, P!Artifact
<1>5. a.inputs = refs
  BY DEF P!Enveloped
<1> QED BY <1>4, <1>5 DEF RestsOn

LEMMA RefuseKeeps ==
  ASSUME ArtifactsKept, NEW e \in Producers, NEW c \in Contexts,
         NEW refs \in [Names -> 1..Len(made) \cup {None}], P!Refuse(e, c, refs)
  PROVE  ArtifactsKept'
<1> DEFINE a == P!Enveloped(e, c, "refused", 0, {}, refs)
<1>1. made' = Append(made, a) /\ P!NextId(c)
  BY DEF P!Refuse
<1>2. a \in P!Artifact /\ RestsOn(a, Len(made))
  BY EnvelopedType DEF P!Statuses
<1>3. Declares(a, made)
  BY DEF Declares, P!Enveloped
<1> HIDE DEF a
<1> QED BY <1>1, <1>2, <1>3, ArtifactsKeptBy

LEMMA ReadingOf ==
  ASSUME ArtifactsKept, NEW i \in 1..Len(made), NEW x \in P!Readings(i)
  PROVE  /\ x # None
         /\ x.provider = made[i].provider
         /\ x.status = made[i].status /\ x.status \in P!Statuses
         /\ x.score \in Int /\ x.score < made[i].score + Grain
<1>1. made[i] \in P!Artifact
  BY DEF ArtifactsKept
<1>2. made[i].score \in Int /\ made[i].status \in P!Statuses /\ Grain \in Nat \ {0}
  BY <1>1, FactoryAssumption DEF P!Artifact, P!Assumption
<1>3. CASE x = made[i]
  BY <1>1, <1>2, <1>3, FactoryAssumption DEF P!Assumption
<1>4. CASE x = P!Loaded(made[i])
  <2>1. x = [made[i] EXCEPT !.score = P!Rounded(made[i].score)]
    BY <1>4 DEF P!Loaded
  <2>2. P!Rounded(made[i].score) \in Int /\ P!Rounded(made[i].score) < made[i].score + Grain
    BY <1>2, RoundedBy
  <2>3. x \in P!Artifact /\ x.score = P!Rounded(made[i].score)
        /\ x.provider = made[i].provider /\ x.status = made[i].status
    BY <1>1, <2>1, <2>2 DEF P!Artifact
  <2> QED BY <1>2, <2>2, <2>3, FactoryAssumption DEF P!Assumption
<1> QED BY <1>3, <1>4 DEF P!Readings

LEMMA PerformKeeps ==
  ASSUME ArtifactsKept, NEW e \in Producers, NEW c \in Contexts,
         NEW refs \in [Names -> 1..Len(made) \cup {None}],
         NEW supplied,
         \A n \in Names : IF refs[n] = None THEN supplied[n] = None
                                            ELSE supplied[n] \in P!Readings(refs[n]),
         NEW said, said.status \in P!Statuses, said.score \in Int,
         ~P!SameProvider(e, c, supplied),
         "refuse_and_escalate" \notin P!Behaviors(e, supplied),
         P!Perform(e, c, supplied, refs, said)
  PROVE  ArtifactsKept'
<1> DEFINE degraded == "degrade" \in P!Behaviors(e, supplied)
           doubted == P!Absent(e, supplied) \cup P!Unreliable(e, supplied)
           flags == { s.name : s \in doubted }
           status == IF degraded THEN "partial" ELSE said.status
           score == IF degraded THEN P!Lower(said.score, Half) ELSE said.score
           plain == P!Enveloped(e, c, status, score, flags, refs)
           a == [plain EXCEPT !.refusal = FALSE]
<1>1. P!NextId(c) /\ IF P!WellFormed(a) THEN made' = Append(made, a) ELSE UNCHANGED made
  BY DEF P!Perform
<1>2. \A s \in Declared[e] : s.name \in Names /\ s.floor \in Int
  BY FactoryAssumption DEF P!Assumption
<1>3. Half \in Int /\ Grain \in Nat \ {0}
  BY FactoryAssumption DEF P!Assumption
<1>4. doubted \subseteq Declared[e] /\ flags \in SUBSET Names
  BY <1>2 DEF P!Absent, P!Unreliable
<1>5. status \in P!Statuses /\ score \in Int
  BY <1>3 DEF P!Lower, P!Statuses
<1>6. degraded => status = "partial" /\ score <= Half
  BY <1>3 DEF P!Lower
<1> HIDE DEF status, score, flags
<1>7. plain \in P!Artifact /\ RestsOn(plain, Len(made))
  BY <1>4, <1>5, EnvelopedType
<1>8. a \in P!Artifact /\ RestsOn(a, Len(made))
  BY <1>7 DEF P!Artifact, RestsOn
<1>9. /\ a.status = status /\ a.score = score /\ a.flags = flags /\ a.inputs = refs
      /\ a.employee = e /\ a.provider = Provider[c] /\ a.refusal = FALSE
  BY DEF P!Enveloped
<1>10. CASE ~P!WellFormed(a)
  <2>1. UNCHANGED made /\ sequence' \in [Contexts -> Nat]
    BY <1>1, <1>10 DEF ArtifactsKept, P!NextId
  <2> QED BY <2>1 DEF ArtifactsKept
<1>11. CASE P!WellFormed(a)
  <2> HIDE DEF a
  <2>1. made' = Append(made, a)
    BY <1>1, <1>11
  <2>2. ASSUME NEW s \in Declared[e]
        PROVE  /\ refs[s.name] = None /\ s.required =>
                    /\ s.onAbsent # "refuse_and_escalate"
                    /\ s.name \in flags
               /\ refs[s.name] # None =>
                    /\ s.independent => made[refs[s.name]].provider # Provider[c]
                    /\ made[refs[s.name]].status # "complete" =>
                         /\ s.onDeficient # "refuse_and_escalate"
                         /\ s.name \in flags
                         /\ s.onDeficient = "degrade" => status = "partial" /\ score <= Half
                    /\ s.name \notin flags => made[refs[s.name]].score + Grain > s.floor
    <3>1. s.name \in Names
      BY <1>2
    <3>2. s \in doubted => s.name \in flags
      BY DEF flags
    <3>3. CASE refs[s.name] = None
      <4>1. supplied[s.name] = None
        BY <3>1, <3>3
      <4>2. s.required => s \in P!Absent(e, supplied)
        BY <4>1 DEF P!Absent
      <4>3. s.required => s.onAbsent \in P!Behaviors(e, supplied)
        BY <4>2 DEF P!Behaviors
      <4> QED BY <3>2, <3>3, <4>2, <4>3
    <3>4. CASE refs[s.name] # None
      <4> DEFINE i == refs[s.name]
                 x == supplied[s.name]
      <4>1. i \in 1..Len(made) /\ x \in P!Readings(i)
        BY <3>1, <3>4
      <4>2. /\ x # None
            /\ x.provider = made[i].provider
            /\ x.status = made[i].status /\ x.status \in P!Statuses
            /\ x.score \in Int /\ x.score < made[i].score + Grain
        BY <4>1, ReadingOf
      <4>3. s.independent => x.provider # Provider[c]
        BY <4>2 DEF P!SameProvider
      <4>4. P!Deficient(s, x) => s \in P!Unreliable(e, supplied)
        BY <4>2 DEF P!Unreliable
      <4>5. P!Deficient(s, x) => s \in doubted /\ s.onDeficient \in P!Behaviors(e, supplied)
        BY <4>4 DEF P!Behaviors
      <4>6. x.status # "complete" => P!Deficient(s, x)
        BY <4>2 DEF P!Deficient, P!Statuses
      <4>7. ~P!Deficient(s, x) => ~(x.score < s.floor)
        BY DEF P!Deficient
      <4>8. made[i].score \in Int
        <5>1. made[i] \in P!Artifact
          <6> HIDE DEF i
          <6> QED BY <4>1 DEF ArtifactsKept
        <5> QED BY <5>1 DEF P!Artifact
      <4>9. s.name \notin flags => made[i].score + Grain > s.floor
        BY <1>2, <1>3, <3>2, <4>2, <4>5, <4>7, <4>8
      <4> HIDE DEF i, x
      <4>10. made[i].status # "complete" =>
               /\ s.onDeficient # "refuse_and_escalate"
               /\ s.name \in flags
               /\ s.onDeficient = "degrade" => status = "partial" /\ score <= Half
        BY <1>6, <3>2, <4>2, <4>5, <4>6
      <4> QED BY <3>4, <4>2, <4>3, <4>9, <4>10 DEF i
    <3> QED BY <3>3, <3>4
  <2>3. Declares(a, made)
    BY <1>9, <2>2 DEF Declares
  <2> QED BY <1>1, <1>8, <2>1, <2>3, ArtifactsKeptBy
<1> QED BY <1>10, <1>11

LEMMA PipelineStep == ASSUME ArtifactsKept, P!Next PROVE ArtifactsKept'
<1>1. CASE P!RunEmployee
  <2>1. PICK e \in Producers, c \in Contexts, refs \in [Names -> 1..Len(made) \cup {None}],
             status \in P!Statuses, score \in Scores :
          \E supplied \in [Names -> UNION { P!Readings(i) : i \in 1..Len(made) } \cup {None}] :
            /\ \A n \in Names : IF refs[n] = None THEN supplied[n] = None
                                ELSE supplied[n] \in P!Readings(refs[n])
            /\ P!Run(e, c, supplied, refs, [status |-> status, score |-> score])
    BY <1>1 DEF P!RunEmployee
  <2>2. PICK supplied :
            /\ \A n \in Names : IF refs[n] = None THEN supplied[n] = None
                                ELSE supplied[n] \in P!Readings(refs[n])
            /\ P!Run(e, c, supplied, refs, [status |-> status, score |-> score])
    BY <2>1
  <2> DEFINE said == [status |-> status, score |-> score]
  <2>3. said.status \in P!Statuses /\ said.score \in Int
    BY FactoryAssumption DEF P!Assumption
  <2> HIDE DEF said
  <2>4. CASE P!SameProvider(e, c, supplied)
             \/ "refuse_and_escalate" \in P!Behaviors(e, supplied)
    <3>1. P!Refuse(e, c, refs)
      BY <2>2, <2>4 DEF P!Run
    <3> QED BY <3>1, RefuseKeeps
  <2>5. CASE ~(P!SameProvider(e, c, supplied)
               \/ "refuse_and_escalate" \in P!Behaviors(e, supplied))
    <3>1. P!Perform(e, c, supplied, refs, said)
      BY <2>2, <2>5 DEF P!Run, said
    <3> QED BY <2>2, <2>3, <2>5, <3>1, PerformKeeps
  <2> QED BY <2>4, <2>5
<1>2. CASE P!RunRefusingDouble
  BY <1>2, RefuseKeeps DEF P!RunRefusingDouble
<1> QED BY <1>1, <1>2 DEF P!Next

PipelineInv == part = "pipeline" => ArtifactsKept

LEMMA OnlyPassArtifacts ==
  ASSUME part = "pipeline", [FactoryNext]_everything
  PROVE  P!Next \/ UNCHANGED << made, sequence >>
BY DEF FactoryNext, everything, pipeline, Time, Authorize, AssignWork, PassArtifacts,
       KeepRegistry, SelectRoutes, KeepEvidence, CaptureUsage, Dispatch, Judge

THEOREM ArtifactsRestOnArtifacts == FactorySpec => []PipelineInv
<1>1. FactoryInit => PipelineInv
  <2>1. ASSUME P!Init PROVE ArtifactsKept
    BY <2>1 DEF P!Init, ArtifactsKept
  <2> QED BY <2>1 DEF FactoryInit, PipelineInv
<1>2. PipelineInv /\ [FactoryNext]_everything => PipelineInv'
  <2> SUFFICES ASSUME ArtifactsKept, part = "pipeline", [FactoryNext]_everything
               PROVE  ArtifactsKept'
    BY PartStays DEF PipelineInv
  <2>1. CASE UNCHANGED << made, sequence >>
    BY <2>1 DEF ArtifactsKept
  <2> QED BY <2>1, PipelineStep, OnlyPassArtifacts
<1> QED BY <1>1, <1>2, PTL DEF FactorySpec

\* Doubt about a declared input is never lost (contract.py, Employee.run).
THEOREM DoubtNeverLost == FactorySpec => []DoubtIsDeclared
<1>1. PipelineInv => DoubtIsDeclared
  BY DEF PipelineInv, DoubtIsDeclared, ArtifactsKept, Declares, P!DoubtIsDeclared, P!Source
<1> QED BY <1>1, ArtifactsRestOnArtifacts, PTL
=============================================================================
