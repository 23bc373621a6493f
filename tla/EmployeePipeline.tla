-------------------------- MODULE EmployeePipeline --------------------------
(***************************************************************************)
(* The employee contract (schemas/ai_employee/contract.py) and the         *)
(* artifacts that pass between employees (envelope.py): one employee's     *)
(* artifact is another's input, in the same process or over the wire.      *)
(*                                                                         *)
(* Domain logic is arbitrary: an outcome is any status with any score.     *)
(* Scores are integers, Half of them 0.5 and Grain of them 0.01, to which  *)
(* the serialized envelope rounds.                                         *)
(***************************************************************************)
EXTENDS Integers, Sequences, FiniteSets, Functions

CONSTANTS Employees,
          Produces,      \* employee -> artifact type
          Declared,      \* employee -> set of input declarations (InputSpec)
          ReadsLayer,    \* employees that read the knowledge layer
          Names,         \* names inputs are supplied under
          Contexts,      \* run contexts of one pursuit
          Provider,      \* context -> provider
          Snapshot,      \* contexts that carry a knowledge snapshot
          Scores,        \* what domain logic says of its own confidence
          Half, Grain,
          None,
          MaxArtifacts   \* bound: numbers given out, over all contexts

VARIABLES made,      \* artifacts, in the order they were made
          sequence   \* context -> last number it gave out

vars == << made, sequence >>

Statuses == {"complete", "partial", "refused"}

Kinds == { Produces[e] : e \in Employees }

Artifact == [id : Employees \X Nat, type : Kinds, version : Kinds, employee : Employees,
             provider : { Provider[c] : c \in Contexts }, status : Statuses, score : Int,
             flags : SUBSET Names, inputs : [Names -> Nat \cup {None}], refusal : BOOLEAN]

\* What the constants are; the theorems assume it.
Assumption ==
  /\ Scores \subseteq Int /\ Half \in Int /\ Grain \in Nat \ {0}
  /\ \A e \in Employees : \A s \in Declared[e] : s.name \in Names /\ s.floor \in Int
  /\ None \notin Artifact

Lower(x, y) == IF x < y THEN x ELSE y

Rounded(score) == Grain * ((2 * score + Grain) \div (2 * Grain))

-----------------------------------------------------------------------------
\* Artifact.from_dict: the same artifact may not be an input twice, by its id.
Loadable(a) ==
  \A n, m \in Names :
    a.inputs[n] # None /\ a.inputs[m] # None /\ n # m
      => made[a.inputs[n]].id # made[a.inputs[m]].id

\* What a reader gets back from the wire.  The digest is taken of the rounded
\* score, so it does not tell the two apart.
Loaded(a) == [a EXCEPT !.score = Rounded(@)]

Readings(i) == {made[i]} \cup (IF Loadable(made[i]) THEN {Loaded(made[i])} ELSE {})

\* validate: a refusal carries its record and no payload, nothing else does.
\* A shape that fails here is not an artifact.
WellFormed(a) == a.status = "refused" <=> a.refusal

-----------------------------------------------------------------------------
(***************************************************************************)
(* Employee.run.  supplied gives each name an artifact or None.            *)
(***************************************************************************)

\* Bug: a partial input counts as a sound one.
PartialIsFine(spec, a) ==
  \/ a.type # spec.type
  \/ spec.version # None /\ a.version # spec.version
  \/ a.status = "refused"
  \/ a.score < spec.floor

\* _deficiencies: an input that is there but cannot be relied on.
Deficient(spec, a) ==
  \/ a.type # spec.type
  \/ spec.version # None /\ a.version # spec.version
  \/ a.status \in {"refused", "partial"}
  \/ a.score < spec.floor

Absent(e, supplied) == { s \in Declared[e] : supplied[s.name] = None /\ s.required }

Unreliable(e, supplied) ==
  { s \in Declared[e] : supplied[s.name] # None /\ Deficient(s, supplied[s.name]) }

\* The declared behaviour of every deficiency.
Behaviors(e, supplied) ==
  { s.onAbsent : s \in Absent(e, supplied) }
    \cup { s.onDeficient : s \in Unreliable(e, supplied) }

\* An input that must come from another provider comes from this one.
SameProvider(e, c, supplied) ==
  \E s \in Declared[e] :
    s.independent /\ supplied[s.name] # None
      /\ supplied[s.name].provider = Provider[c]

\* _envelope: numbered in its context; an employee that reads the knowledge
\* layer has no artifact, and takes no number, without a snapshot.
Enveloped(e, c, status, score, flags, refs) ==
  [id |-> << e, sequence[c] + 1 >>, type |-> Produces[e], version |-> Produces[e],
   employee |-> e, provider |-> Provider[c], status |-> status, score |-> score,
   flags |-> flags, inputs |-> refs, refusal |-> status = "refused"]

CanEnvelope(e, c) == e \in ReadsLayer => c \in Snapshot

NextId(c) == sequence' = [sequence EXCEPT ![c] = @ + 1]

\* refuse: an artifact of its own, whatever was supplied.
Refuse(e, c, refs) ==
  /\ CanEnvelope(e, c)
  /\ made' = Append(made, Enveloped(e, c, "refused", 0, {}, refs))
  /\ NextId(c)

Perform(e, c, supplied, refs, outcome) ==
  LET degraded == "degrade" \in Behaviors(e, supplied)
      flags == { s.name : s \in Absent(e, supplied) \cup Unreliable(e, supplied) }
      \* A refusal of the domain logic has no record.
      artifact ==
        [Enveloped(e, c, IF degraded THEN "partial" ELSE outcome.status,
                   IF degraded THEN Lower(outcome.score, Half) ELSE outcome.score,
                   flags, refs) EXCEPT !.refusal = FALSE]
  IN  /\ CanEnvelope(e, c)
      /\ NextId(c)
      /\ IF WellFormed(artifact) THEN made' = Append(made, artifact)
                                 ELSE UNCHANGED made

Run(e, c, supplied, refs, outcome) ==
  IF \/ SameProvider(e, c, supplied)
     \/ "refuse_and_escalate" \in Behaviors(e, supplied)
  THEN Refuse(e, c, refs)
  ELSE Perform(e, c, supplied, refs, outcome)

-----------------------------------------------------------------------------
Init ==
  /\ made = << >>
  /\ sequence = [c \in Contexts |-> 0]

Numbered == FoldFunction(+, 0, sequence)

\* The coordinator runs an employee on artifacts made so far.
RunEmployee ==
  /\ Numbered < MaxArtifacts
  /\ \E e \in Employees, c \in Contexts, refs \in [Names -> 1..Len(made) \cup {None}],
        status \in Statuses, score \in Scores :
       \E supplied \in [Names -> UNION { Readings(i) : i \in 1..Len(made) } \cup {None}] :
         /\ \A n \in Names :
              IF refs[n] = None THEN supplied[n] = None ELSE supplied[n] \in Readings(refs[n])
         /\ Run(e, c, supplied, refs, [status |-> status, score |-> score])

\* A double scripted to refuse looks at none of its inputs.
RunRefusingDouble ==
  /\ Numbered < MaxArtifacts
  /\ \E e \in Employees, c \in Contexts, refs \in [Names -> 1..Len(made) \cup {None}] :
       Refuse(e, c, refs)

Next == RunEmployee \/ RunRefusingDouble

Spec == Init /\ [][Next]_vars

-----------------------------------------------------------------------------
(***************************************************************************)
(* Properties.                                                             *)
(***************************************************************************)

\* The artifact made under this name of a, if any was supplied.
Source(a, spec) == made[a.inputs[spec.name]]

\* Doubt about a declared input is never lost on the way: an artifact that
\* rests on one that was refused, was partial or came from the provider it must
\* be independent of is refused itself, or says so in a flag, and is partial
\* with its confidence lowered where its employee declared `degrade'
\* (Employee.run, _deficiencies).
DoubtIsDeclared ==
  \A k \in 1..Len(made) :
    LET a == made[k]
    IN  a.status # "refused" =>
          \A s \in Declared[a.employee] :
            /\ a.inputs[s.name] = None /\ s.required =>
                 /\ s.onAbsent # "refuse_and_escalate"
                 /\ s.name \in a.flags
            /\ a.inputs[s.name] # None =>
                 /\ s.independent => Source(a, s).provider # a.provider
                 /\ Source(a, s).status # "complete" =>
                      /\ s.onDeficient # "refuse_and_escalate"
                      /\ s.name \in a.flags
                      /\ s.onDeficient = "degrade" =>
                           a.status = "partial" /\ a.score <= Half
                 \* The wire may lift a score over its floor, never by a point.
                 /\ s.name \notin a.flags => Source(a, s).score + Grain > s.floor
=============================================================================
