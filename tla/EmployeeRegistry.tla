--------------------------- MODULE EmployeeRegistry ---------------------------
(***************************************************************************)
(* The registry of deployment records (factory/scripts/employee_registry.py *)
(* on schemas/ai_employee/deployment.py): one file per employee, written    *)
(* by `generate' in place, by `activate' through a temporary file beside    *)
(* it, and compared by `reconcile' with the seed and the live missions.     *)
(*                                                                         *)
(* Nothing locks the directory: `generate' and any number of activations    *)
(* run side by side and stop anywhere.  A file opened for writing is Torn   *)
(* until it is written.  Seed, missions, specifications and workspaces are  *)
(* edited by people and by Auto-Orch, at any time.                          *)
(***************************************************************************)
EXTENDS Integers, Sequences, FiniteSets

CONSTANTS Employees,
          Mode,        \* employee -> record_mode of its seed entry
          Digests,     \* of specifications
          Times,       \* values of updated_at
          Logs,        \* lifecycle-transitions.json, as sequences of << from, to >>
          Activators,  \* processes that run `activate'
          None, Torn,
          MaxEdits     \* bound: edits from outside

VARIABLES seed,       \* employee -> its seed entry
          source,     \* employee -> digest of its specification today
          homes,      \* employees whose workspace exists
          mission,    \* employee -> what Auto-Orch keeps about it
          file,       \* employee -> its deployment record, Torn or None
          tmp,        \* employee -> the temporary file of its activations
          evidence,   \* evidence of activations completed on disk
          generating, \* the run of `generate', or None
          activating, \* process -> its run of `activate', or None
          edits

vars == << seed, source, homes, mission, file, tmp, evidence, generating, activating, edits >>

States == {"draft", "commissioning", "pilot", "scheduled", "paused", "retired", "archived"}

Operating == {"pilot", "scheduled", "live"}

\* _ALLOWED_TRANSITIONS
LegalTransition(from, to) ==
  CASE from = "draft" -> to = "commissioning"
    [] from = "commissioning" -> to \in {"pilot", "paused", "retired"}
    [] from = "pilot" -> to \in {"scheduled", "paused", "retired"}
    [] from = "scheduled" -> to \in {"paused", "retired"}
    [] from = "paused" -> to \in {"commissioning", "pilot", "scheduled", "retired"}
    [] from = "retired" -> to = "archived"
    [] OTHER -> FALSE

\* A seed entry: the digest captured for its specification, and whether it
\* names a complete Board identity and a credential scope.
Entry == [spec : Digests, participant : BOOLEAN]

\* What generate and activate write is canonical; what a hand edits is not.
Record == [state : States, spec : Digests, participant : BOOLEAN, at : Times,
           canonical : BOOLEAN]

\* What the constants are; the theorems assume it.
Assumption ==
  /\ \A e \in Employees : Mode[e] \in {"live", "draft", "interactive", "commissioning"}
  /\ Digests # {}
  /\ Logs \subseteq Seq(States \X States)
  /\ None \notin Record /\ Torn \notin Record

Readable(e) == file[e] \in Record

-----------------------------------------------------------------------------
(***************************************************************************)
(* The record an entry stands for.                                         *)
(***************************************************************************)

\* _observed_lifecycle, under _disposition_override.
Observed(m) ==
  CASE m.retired -> "retired"
    [] ~m.retired /\ m.paused -> "paused"
    [] ~m.retired /\ ~m.paused /\ m.approved -> IF m.timed THEN "scheduled" ELSE "pilot"
    [] OTHER -> "draft"

\* Bug: the log is not compared with the mission.
ConnectedOnly(m) ==
  \A i \in 1..Len(m.log) : /\ LegalTransition(m.log[i][1], m.log[i][2])
                            /\ i > 1 => m.log[i][1] = m.log[i - 1][2]

\* _deployment_base_lifecycle: legal steps, each from where the one before it
\* led, up to the state observed today.
LogOK(m) ==
  /\ \A i \in 1..Len(m.log) : LegalTransition(m.log[i][1], m.log[i][2])
  /\ \A i \in 2..Len(m.log) : m.log[i][1] = m.log[i - 1][2]
  /\ m.log # << >> => m.log[Len(m.log)][2] = Observed(m)

BaseState(m) == IF m.log = << >> THEN Observed(m) ELSE m.log[1][1]

\* _record_from_entry raises nothing.
Buildable(e) ==
  /\ Mode[e] = "live" => mission[e].here /\ LogOK(mission[e])
  /\ source[e] = seed[e].spec
  /\ e \in homes

ExpectedState(e) ==
  CASE Mode[e] = "interactive" -> "pilot"
    [] Mode[e] = "live" -> BaseState(mission[e])
    [] OTHER -> Mode[e]

Built(e, at) ==
  [state |-> ExpectedState(e), spec |-> seed[e].spec,
   participant |-> seed[e].participant, at |-> at, canonical |-> TRUE]

-----------------------------------------------------------------------------
(***************************************************************************)
(* generate_records: every record is built before the first is written,    *)
(* and each is written in place.                                           *)
(***************************************************************************)

\* A file after a write at its beginning: if somebody else wrote it since it
\* was opened, the end of the longer text may remain.
Overwritten(old, new) == {new} \cup (IF old = Torn THEN {} ELSE {Torn})

StartGenerate(scope, at) ==
  /\ generating = None
  /\ scope # {}
  /\ \A e \in scope : Buildable(e)
  /\ generating' =
       [records |-> [e \in scope |-> Built(e, at)], open |-> None, lost |-> FALSE]
  /\ UNCHANGED << seed, source, homes, mission, file, tmp, evidence, activating, edits >>

OpenRecord(e) ==
  /\ generating # None
  /\ generating.open = None
  /\ e \in DOMAIN generating.records
  /\ file' = [file EXCEPT ![e] = Torn]
  /\ generating' = [generating EXCEPT !.open = e]
  /\ UNCHANGED << seed, source, homes, mission, tmp, evidence, activating, edits >>

WriteRecord ==
  /\ generating # None
  /\ generating.open # None
  /\ LET e == generating.open
         rest == DOMAIN generating.records \ {e}
     IN  /\ IF generating.lost THEN UNCHANGED file
            ELSE \E r \in Overwritten(file[e], generating.records[e]) :
                   file' = [file EXCEPT ![e] = r]
         /\ generating' =
              IF rest = {} THEN None
              ELSE [records |-> [o \in rest |-> generating.records[o]], open |-> None,
                    lost |-> FALSE]
  /\ UNCHANGED << seed, source, homes, mission, tmp, evidence, activating, edits >>

GenerateStops ==
  /\ generating # None
  /\ generating' = None
  /\ UNCHANGED << seed, source, homes, mission, file, tmp, evidence, activating, edits >>

-----------------------------------------------------------------------------
(***************************************************************************)
(* activate_employee_instance.                                             *)
(***************************************************************************)

\* The record is read and the plan is made; a dry run ends here.
PlanActivation(p, e, to, at) ==
  /\ activating[p] = None
  /\ Readable(e)
  /\ file[e].canonical
  /\ file[e].participant
  /\ file[e].state = "commissioning"
  /\ to \in {"pilot", "scheduled"}
  /\ LegalTransition(file[e].state, to)
  /\ at >= file[e].at
  /\ activating' = [activating EXCEPT ![p] =
       [employee |-> e, record |-> [file[e] EXCEPT !.state = to, !.at = at],
        step |-> "planned"]]
  /\ UNCHANGED << seed, source, homes, mission, file, tmp, evidence, generating, edits >>

Steps(p, from, to) ==
  /\ activating[p] # None
  /\ activating[p].step = from
  /\ activating' = [activating EXCEPT ![p].step = to]

\* Evidence of this activation, over that of any earlier one.
WriteEvidence(p) ==
  /\ Steps(p, "planned", "evident")
  /\ evidence' = evidence \cup
       {[employee |-> activating[p].employee, record |-> activating[p].record]}
  /\ UNCHANGED << seed, source, homes, mission, file, tmp, generating, edits >>

\* Bug: the record is written beside the evidence, not after it.
Unproven == "planned"

Proven == "evident"

\* Two activations of one employee share the temporary file.
OpenTemporary(p) ==
  /\ Steps(p, Proven, "open")
  /\ tmp' = [tmp EXCEPT ![activating[p].employee] = Torn]
  /\ UNCHANGED << seed, source, homes, mission, file, evidence, generating, edits >>

\* What is written goes to the file that was opened, under its name of today.
WriteTemporary(p) ==
  LET e == activating[p].employee
  IN  \/ /\ Steps(p, "open", "written")
         /\ \E r \in Overwritten(tmp[e], activating[p].record) :
              tmp' = [tmp EXCEPT ![e] = r]
         /\ UNCHANGED << seed, source, homes, mission, file, evidence, generating, edits >>
      \/ /\ Steps(p, "renamed", "written")
         /\ \E r \in Overwritten(file[e], activating[p].record) :
              file' = [file EXCEPT ![e] = r]
         /\ UNCHANGED << seed, source, homes, mission, tmp, evidence, generating, edits >>
      \/ /\ Steps(p, "unlinked", "written")
         /\ UNCHANGED << seed, source, homes, mission, file, tmp, evidence, generating, edits >>

\* Where the open file of q is after the temporary file of e took the record's
\* name, and the file that had it is gone.
Moved(q, e) ==
  IF activating[q] = None \/ activating[q].employee # e THEN activating[q]
  ELSE [activating[q] EXCEPT !.step =
          CASE @ = "open" -> "renamed" [] @ = "renamed" -> "unlinked" [] OTHER -> @]

\* os.replace fails when another activation took the temporary file.
ReplaceRecord(p) ==
  /\ activating[p] # None
  /\ activating[p].step = "written"
  /\ LET e == activating[p].employee
     IN  IF tmp[e] = None
         THEN /\ activating' = [activating EXCEPT ![p] = None]
              /\ UNCHANGED << file, tmp, generating >>
         ELSE /\ file' = [file EXCEPT ![e] = tmp[e]]
              /\ tmp' = [tmp EXCEPT ![e] = None]
              /\ activating' =
                   [q \in Activators |-> IF q = p THEN None ELSE Moved(q, e)]
              /\ generating' =
                   IF generating # None /\ generating.open = e
                   THEN [generating EXCEPT !.lost = TRUE] ELSE generating
  /\ UNCHANGED << seed, source, homes, mission, evidence, edits >>

ActivationStops(p) ==
  /\ activating[p] # None
  /\ activating' = [activating EXCEPT ![p] = None]
  /\ UNCHANGED << seed, source, homes, mission, file, tmp, evidence, generating, edits >>

-----------------------------------------------------------------------------
(***************************************************************************)
(* External: people and Auto-Orch.  Bound: MaxEdits.                       *)
(***************************************************************************)
Edit ==
  /\ edits < MaxEdits
  /\ edits' = edits + 1
  /\ UNCHANGED << tmp, evidence, generating, activating >>

EditSeed(e) ==
  /\ Edit
  /\ \E entry \in Entry : seed' = [seed EXCEPT ![e] = entry]
  /\ UNCHANGED << source, homes, mission, file >>

EditSpecification(e) ==
  /\ Edit
  /\ \E d \in Digests : source' = [source EXCEPT ![e] = d]
  /\ UNCHANGED << seed, homes, mission, file >>

MoveWorkspace(e) ==
  /\ Edit
  /\ homes' = (homes \cup {e}) \ (homes \cap {e})
  /\ UNCHANGED << seed, source, mission, file >>

EditMission(e) ==
  /\ Edit
  /\ Mode[e] = "live"
  /\ \/ \E f \in {"here", "paused", "approved", "timed", "retired", "aligned"} :
          mission' = [mission EXCEPT ![e][f] = ~@]
     \/ \E log \in Logs : mission' = [mission EXCEPT ![e].log = log]
  /\ UNCHANGED << seed, source, homes, file >>

\* A record edited by hand, in its place.
EditRecord(e) ==
  /\ Edit
  /\ Readable(e)
  /\ \E s \in States : file' = [file EXCEPT ![e].state = s, ![e].canonical = FALSE]
  /\ UNCHANGED << seed, source, homes, mission >>

-----------------------------------------------------------------------------
(***************************************************************************)
(* reconcile: what it reports of one employee, by the files as they are.   *)
(***************************************************************************)

When(condition, code) == IF condition THEN {code} ELSE {}

\* The bytes of the record alone.
RecordFindings(e) ==
  When(file[e] = None, "RECORD_MISSING")
    \cup When(file[e] = Torn, "invalid-deployment-record")
    \cup When(Readable(e) /\ ~file[e].canonical, "NON_CANONICAL_RECORD")

\* Each mode calls its lifecycle finding by a name of its own.
LifecycleDrift(e) ==
  IF Mode[e] = "live" THEN Buildable(e) /\ file[e].state # ExpectedState(e)
  ELSE file[e].state # ExpectedState(e)

\* The record against the entry it stands for.
BindingFindings(e) ==
  When(~Buildable(e), "RECORD_RECONCILIATION_ERROR")
    \cup When(/\ Buildable(e)
              /\ \/ file[e].spec # seed[e].spec
                 \/ file[e].participant # seed[e].participant
                 \/ Mode[e] # "live" /\ file[e].state # ExpectedState(e),
              "RECORD_BINDING_DRIFT")
    \cup When(LifecycleDrift(e), "LIFECYCLE_DRIFT")
    \cup When(e \notin homes, "WORKSPACE_MISSING")
    \cup When(file[e].spec # source[e], "SPECIFICATION_DIGEST_DRIFT")

\* _report_operating_compliance of the record, and for a mission whose record
\* is not in an operating state, of the mission.
JudgedState(e) ==
  IF Mode[e] = "live" /\ mission[e].here /\ file[e].state \notin Operating
  THEN Observed(mission[e]) ELSE file[e].state

Compliance(e) ==
  IF JudgedState(e) \notin Operating THEN "not_applicable"
  ELSE IF file[e].participant THEN "compliant" ELSE "noncompliant"

\* A live entry is compared with its mission too; the entry whose mission is
\* not there is compared with nothing else.
LiveFindings(e) ==
  IF ~mission[e].here THEN {"MISSION_SOURCE_MISSING"}
  ELSE BindingFindings(e) \cup When(~mission[e].aligned, "MISSION_BINDING_DRIFT")

Findings(e) ==
  RecordFindings(e) \cup
    (IF ~Readable(e) THEN {}
     ELSE IF Mode[e] = "live"
     THEN LiveFindings(e) \cup
            When(Compliance(e) = "noncompliant", "BOARD_PARTICIPATION_NONCOMPLIANT")
     ELSE BindingFindings(e))

\* The lifecycle state of the report.
Reported(e) == IF Mode[e] = "live" THEN Observed(mission[e]) ELSE ExpectedState(e)

-----------------------------------------------------------------------------
Init ==
  /\ source = [e \in Employees |-> CHOOSE d \in Digests : TRUE]
  /\ seed = [e \in Employees |-> [spec |-> source[e], participant |-> TRUE]]
  /\ homes = Employees
  /\ mission = [e \in Employees |->
       [here |-> TRUE, paused |-> FALSE, approved |-> TRUE, timed |-> FALSE,
        retired |-> FALSE, aligned |-> TRUE, log |-> << >>]]
  /\ file = [e \in Employees |-> None]
  /\ tmp = [e \in Employees |-> None]
  /\ evidence = {}
  /\ generating = None
  /\ activating = [p \in Activators |-> None]
  /\ edits = 0

Generate ==
  \/ \E scope \in SUBSET Employees, at \in Times : StartGenerate(scope, at)
  \/ \E e \in Employees : OpenRecord(e)
  \/ WriteRecord
  \/ GenerateStops

Activate(p) ==
  \/ \E e \in Employees, to \in States, at \in Times : PlanActivation(p, e, to, at)
  \/ WriteEvidence(p)
  \/ OpenTemporary(p)
  \/ WriteTemporary(p)
  \/ ReplaceRecord(p)
  \/ ActivationStops(p)

External ==
  \E e \in Employees :
    EditSeed(e) \/ EditSpecification(e) \/ MoveWorkspace(e) \/ EditMission(e) \/ EditRecord(e)

Next == Generate \/ (\E p \in Activators : Activate(p)) \/ External

Spec == Init /\ [][Next]_vars

-----------------------------------------------------------------------------
(***************************************************************************)
(* Properties.                                                             *)
(***************************************************************************)

\* A record that `activate' brought into an operating state is one whose
\* evidence was completed before it, and it can take part on the Board: through
\* a stop anywhere, a record regenerated in between, and two activations that
\* share one temporary file (activate_employee_instance).
ActivationHasEvidence ==
  \A e \in Employees :
    /\ Mode[e] \in {"commissioning", "draft"}
    /\ Readable(e)
    /\ file[e].canonical
    /\ file[e].state \in Operating
    => /\ file[e].participant
       /\ [employee |-> e, record |-> file[e]] \in evidence

\* A report without findings can be believed: the record is whole and binds
\* what the specification and the seed say today, the state reported of it is
\* reached from the recorded one by the legal steps that were logged, and an
\* employee at work can take part on the Board (reconcile).
CleanReportIsTrue ==
  \A e \in Employees :
    Findings(e) = {} =>
      /\ file[e].spec = source[e] /\ source[e] = seed[e].spec
      /\ e \in homes
      /\ LET log == IF Mode[e] = "live" THEN mission[e].log ELSE << >>
             path == << file[e].state >> \o [i \in 1..Len(log) |-> log[i][2]]
         IN  /\ path[Len(path)] = Reported(e)
             /\ \A i \in 2..Len(path) : LegalTransition(path[i - 1], path[i])
      /\ Mode[e] = "live" /\ Reported(e) \in Operating => file[e].participant
=============================================================================
