------------------------------ MODULE Authority ------------------------------
(***************************************************************************)
(* The authority contract of schemas/ai_employee/authority.py: grants over *)
(* paths, commands and tools, and the decisions taken against them.        *)
(*                                                                         *)
(* A path is the sequence of its components, a command the sequence of its *)
(* tokens.  A grant's reference is a number, its place in the order of the *)
(* references.  A contract is immutable in the code; `contract' is the     *)
(* contract as its author builds it up, one constructor call per grant.    *)
(***************************************************************************)
EXTENDS Integers, Sequences, FiniteSets, SequencesExt

CONSTANTS Refs,      \* grant_ref
          Roots,     \* roots as grants spell them
          Carvings,  \* sets of exception patterns, as grants spell them
          Forms,     \* token sequences of command grants
          Tools,     \* capabilities
          Paths,     \* paths asked about, as the caller spells them
          Argvs,     \* commands asked about
          Star,      \* the wildcard "*"
          Up,        \* the component ".."
          Same       \* the components "." and ""

\* What the constants are; the theorems assume it.
IsSequence(s) == s \in Seq({ s[i] : i \in DOMAIN s })

Assumption ==
  /\ Refs \subseteq Nat \ {0}
  /\ \A s \in Roots \cup Forms \cup Paths \cup Argvs : IsSequence(s)
  /\ \A s \in UNION Carvings : IsSequence(s)

VARIABLE contract

Effects == {"allow", "deny"}
Modes == {"read", "readwrite"}

CommandGrant == [ref : Refs, effect : Effects, tokens : Forms]
ToolGrant == [ref : Refs, effect : Effects, tool : Tools]

\* No grant at all: everything falls to default_effect, which is "deny".
Default == [effect |-> "deny", ref |-> 0]

-----------------------------------------------------------------------------
(***************************************************************************)
(* Paths.                                                                  *)
(***************************************************************************)

\* One component of an absolute path: above the root there is nowhere to climb.
Step(done, part) ==
  IF part = Same \/ (part = Up /\ done = << >>) THEN done
  ELSE IF part = Up THEN Front(done)
  ELSE Append(done, part)

Normalized(parts) ==
  LET walked[n \in 0..Len(parts)] ==
        IF n = 0 THEN << >> ELSE Step(walked[n - 1], parts[n])
  IN  walked[Len(parts)]

Depth(parts, n) ==
  Cardinality({ i \in 1..n : parts[i] \notin {Up, Same} })
    - Cardinality({ i \in 1..n : parts[i] = Up })

\* An exception pattern is rejected when it climbs above its grant's root at
\* any point, or when nothing is left of it.
PatternOK(parts) ==
  /\ \A n \in 1..Len(parts) : Depth(parts, n) >= 0
  /\ Normalized(parts) # << >>

TokenMatches(pattern, actual) == pattern = Star \/ pattern = actual

\* A pattern covers everything below what it names.
PrefixMatches(pattern, actual) ==
  /\ Len(pattern) <= Len(actual)
  /\ \A i \in 1..Len(pattern) : TokenMatches(pattern[i], actual[i])

Covers(grant, path) ==
  /\ Len(grant.root) <= Len(path)
  /\ SubSeq(path, 1, Len(grant.root)) = grant.root

\* max(candidates, key) returns the first of the greatest: the constructor
\* sorted the grants by their references.
First(grants) == CHOOSE g \in grants : \A h \in grants : g.ref <= h.ref

Deepest(grants) == { g \in grants : \A h \in grants : Len(g.root) >= Len(h.root) }

DecidePath(grants, asked, write) ==
  LET path == Normalized(asked)
      found == { g \in grants : Covers(g, path) }
      winner == First(Deepest(found))
      below == SubSeq(path, Len(winner.root) + 1, Len(path))
      refused == \/ \E e \in winner.exceptions : PrefixMatches(e, below)
                 \/ write /\ winner.mode = "read"
  IN  IF found = {} THEN Default
      ELSE [effect |-> IF refused THEN "deny" ELSE "allow", ref |-> winner.ref]

-----------------------------------------------------------------------------
(***************************************************************************)
(* Commands and tools.                                                     *)
(***************************************************************************)

\* More tokens first; then, at the first position where only one of the two
\* has a wildcard, the literal.
AtLeastAsSpecific(g, h) ==
  LET differ == { i \in 1..Len(g.tokens) : (g.tokens[i] = Star) # (h.tokens[i] = Star) }
  IN  \/ Len(g.tokens) > Len(h.tokens)
      \/ /\ Len(g.tokens) = Len(h.tokens)
         /\ differ # {} => \E i \in differ : /\ g.tokens[i] # Star
                                             /\ \A j \in differ : i <= j

MostSpecific(grants) == { g \in grants : \A h \in grants : AtLeastAsSpecific(g, h) }

Matching(grants, argv) == { g \in grants : PrefixMatches(g.tokens, argv) }

Denials(grants) == { g \in grants : g.effect = "deny" }

\* Bug: the most specific grant decides, whatever its effect.
SpecificFirst(grants, argv) ==
  LET found == Matching(grants, argv)
      winner == First(MostSpecific(found))
  IN  IF found = {} THEN Default
      ELSE [effect |-> winner.effect, ref |-> winner.ref]

DecideCommand(grants, argv) ==
  LET found == Matching(grants, argv)
      deciding == IF Denials(found) # {} THEN Denials(found) ELSE found
      winner == First(MostSpecific(deciding))
  IN  IF found = {} THEN Default
      ELSE [effect |-> winner.effect, ref |-> winner.ref]

DecideTool(grants, name) ==
  LET found == { g \in grants : g.tool = name }
      deciding == IF Denials(found) # {} THEN Denials(found) ELSE found
      winner == First(deciding)
  IN  IF found = {} THEN Default
      ELSE [effect |-> winner.effect, ref |-> winner.ref]

-----------------------------------------------------------------------------
(***************************************************************************)
(* The contract under construction.                                        *)
(***************************************************************************)

Taken == { g.ref : g \in contract.paths \cup contract.commands \cup contract.tools }

Init == contract = [paths |-> {}, commands |-> {}, tools |-> {}]

FilesystemGrant(ref, root, mode, carved) ==
  [ref |-> ref, root |-> Normalized(root), mode |-> mode,
   exceptions |-> { Normalized(e) : e \in carved }]

\* Two grants of one normalized root are refused.
GrantPath(ref, root, mode, carved) ==
  /\ ref \notin Taken
  /\ \A e \in carved : PatternOK(e)
  /\ \A g \in contract.paths : g.root # Normalized(root)
  /\ contract' =
       [contract EXCEPT !.paths = @ \cup {FilesystemGrant(ref, root, mode, carved)}]

\* Bug: only denials are compared with one another.
TiedDenials(g, h) == g.effect = "deny" /\ h.effect = "deny" /\ g.tokens = h.tokens

Tied(g, h) == g.effect = h.effect /\ g.tokens = h.tokens

GrantCommand(grant) ==
  /\ grant.ref \notin Taken
  /\ \A g \in contract.commands : ~Tied(g, grant)
  /\ contract' = [contract EXCEPT !.commands = @ \cup {grant}]

GrantTool(grant) ==
  /\ grant.ref \notin Taken
  /\ \A g \in contract.tools : ~(g.tool = grant.tool /\ g.effect = grant.effect)
  /\ contract' = [contract EXCEPT !.tools = @ \cup {grant}]

Next ==
  \/ \E ref \in Refs, root \in Roots, mode \in Modes, carved \in Carvings :
       GrantPath(ref, root, mode, carved)
  \/ \E g \in CommandGrant : GrantCommand(g)
  \/ \E g \in ToolGrant : GrantTool(g)

Spec == Init /\ [][Next]_contract

-----------------------------------------------------------------------------
(***************************************************************************)
(* Properties.                                                             *)
(***************************************************************************)

AtMostOne(grants) == \A g, h \in grants : g = h

\* The name of a grant never decides: whatever is asked, one of the grants that
\* may answer is greater than all others, so max() has no tie to break by the
\* order of the references (_command_specificity, decide_path, decide_tool).
NoTieToBreak ==
  /\ \A path \in Paths :
       AtMostOne(Deepest({ g \in contract.paths : Covers(g, Normalized(path)) }))
  /\ \A argv \in Argvs :
       LET found == Matching(contract.commands, argv)
       IN  /\ AtMostOne(MostSpecific(Denials(found)))
           /\ AtMostOne(MostSpecific(found \ Denials(found)))
  /\ \A name \in Tools :
       LET found == { g \in contract.tools : g.tool = name }
       IN  /\ AtMostOne(Denials(found))
           /\ AtMostOne(found \ Denials(found))

\* A grant added to a contract reaches only what it names: a command or a tool
\* that some grant denies stays denied, whatever is allowed beside it; and the
\* answer about a path changes only when the new grant is the one that gives it.
NothingLifted ==
  /\ \A argv \in Argvs :
       LET before == DecideCommand(contract.commands, argv)
       IN  before.effect = "deny" /\ before # Default
             => DecideCommand(contract'.commands, argv).effect = "deny"
  /\ \A name \in Tools :
       LET before == DecideTool(contract.tools, name)
       IN  before.effect = "deny" /\ before # Default
             => DecideTool(contract'.tools, name).effect = "deny"
  /\ \A path \in Paths, write \in BOOLEAN :
       LET after == DecidePath(contract'.paths, path, write)
       IN  \/ after = DecidePath(contract.paths, path, write)
           \/ after.ref \notin Taken

DenialStands == [][NothingLifted]_contract
=============================================================================
