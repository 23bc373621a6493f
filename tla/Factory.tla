------------------------------- MODULE Factory -------------------------------
(***************************************************************************)
(* The parts of the factory that share no state with the Board or with one *)
(* another, each in an instance of its own (AttemptVerdict and TimeText as *)
(* they are): a behaviour is a behaviour of one part, the others lie       *)
(* dormant.                                                                *)
(***************************************************************************)
EXTENDS TimeText, AttemptVerdict

CONSTANTS MaxTick,  \* bound: last instant of a time text
          \* Authority
          Refs, Roots, Carvings, Forms, Tools, Paths, Argvs, Star, Up, Same,
          \* Assignment
          Works, Scopes, Places, Bans, StatusId, StatusLife, MaxNow,
          \* EmployeePipeline
          Producers, Produces, Declared, ReadsLayer, Names, Contexts, Provider,
          Informed, Scores, Half, Grain, MaxArtifacts,
          \* EmployeeRegistry
          Employees, Mode, Digests, Times, Logs, Activators, Torn, MaxEdits,
          \* RouteSelection
          Route, Channel, Terms, Never, Scoped, Snapshot, Rates, Crews, Entries, Stamps,
          Multiplier, SameFamilyReview, MaxAge, Skew, Requests, Provable, MaxHour,
          \* EvidenceLedger
          Importers, Rows, Accounts, Runs, Legacy, MonthLength, Least, Viable,
          \* UsageCapture
          Consumptions, Models, Launched, Fields, MaxTurns, MaxLines, Open, Unknown,
          \* SupervisedDispatch
          Pids, Root, Init1, Free, MaxBirths, MaxPasses

Parts == {"time", "authority", "assignment", "pipeline", "registry", "routes",
          "evidence", "usage", "dispatch", "verdict"}

VARIABLES part, first, second, contract,
          now, revoked, grant, statuses, assigned,
          made, sequence,
          seed, source, homes, mission, file, tmp, evidence, generating, activating, edits,
          hour, snapshot, proven, answer,
          ledger, torn, lock, pc, at, recalled, receipts, counted,
          harness, turns, lines, usage, bill,
          proc, births, known, stale, phase, todo, before, passes, reused

ticks == << first, second >>
assignment == << now, revoked, grant, statuses, assigned >>
pipeline == << made, sequence >>
registry == << seed, source, homes, mission, file, tmp, evidence, generating,
               activating, edits >>
routes == << hour, snapshot, proven, answer >>
ledgers == << ledger, torn, lock, pc, at, recalled, receipts, counted >>
session == << harness, turns, lines, usage, bill >>
processes == << proc, births, known, stale, phase, todo, before, passes, reused >>
attempt == << dispatch, oracle, elapsed, outcome, record >>

everything == << part, ticks, contract, assignment, pipeline, registry, routes, ledgers,
                 session, processes, attempt >>

-----------------------------------------------------------------------------
A == INSTANCE Authority
B == INSTANCE Assignment
P == INSTANCE EmployeePipeline WITH Employees <- Producers, Snapshot <- Informed
R == INSTANCE EmployeeRegistry
S == INSTANCE RouteSelection WITH now <- hour, MaxNow <- MaxHour
E == INSTANCE EvidenceLedger WITH known <- recalled
U == INSTANCE UsageCapture WITH Route <- Launched
W == INSTANCE SupervisedDispatch

ASSUME FactoryAssumption ==
  A!Assumption /\ B!Assumption /\ P!Assumption /\ R!Assumption /\ S!Assumption
  /\ E!Assumption /\ U!Assumption /\ W!Assumption

-----------------------------------------------------------------------------
FactoryInit ==
  /\ part \in Parts
  /\ IF part = "time" THEN first \in 0..MaxTick /\ second = 0 ELSE first = None /\ second = None
  /\ IF part = "authority" THEN A!Init ELSE contract = None
  /\ IF part = "assignment" THEN B!Init
     ELSE now = None /\ revoked = None /\ grant = None /\ statuses = None /\ assigned = None
  /\ IF part = "pipeline" THEN P!Init ELSE made = None /\ sequence = None
  /\ IF part = "registry" THEN R!Init
     ELSE /\ seed = None /\ source = None /\ homes = None /\ mission = None
          /\ file = None /\ tmp = None /\ evidence = None /\ generating = None
          /\ activating = None /\ edits = None
  /\ IF part = "routes" THEN S!Init
     ELSE hour = None /\ snapshot = None /\ proven = None /\ answer = None
  /\ IF part = "evidence" THEN E!Init
     ELSE /\ ledger = None /\ torn = None /\ lock = None /\ pc = None
          /\ at = None /\ recalled = None /\ receipts = None /\ counted = None
  /\ IF part = "usage" THEN U!Init
     ELSE harness = None /\ turns = None /\ lines = None /\ usage = None /\ bill = None
  /\ IF part = "dispatch" THEN W!Init
     ELSE /\ proc = None /\ births = None /\ known = None /\ stale = None
          /\ phase = None /\ todo = None /\ before = None /\ passes = None /\ reused = None
  /\ IF part = "verdict" THEN Init
     ELSE /\ dispatch = None /\ oracle = None /\ elapsed = None
          /\ outcome = None /\ record = None

TickFirst == first < MaxTick /\ first' = first + 1 /\ UNCHANGED second
TickSecond == second < MaxTick /\ second' = second + 1 /\ UNCHANGED first

Time ==
  /\ part = "time" /\ (TickFirst \/ TickSecond)
  /\ UNCHANGED << part, contract, assignment, pipeline, registry, routes, ledgers,
                  session, processes, attempt >>
Authorize ==
  /\ part = "authority" /\ A!Next
  /\ UNCHANGED << part, ticks, assignment, pipeline, registry, routes, ledgers,
                  session, processes, attempt >>
AssignWork ==
  /\ part = "assignment" /\ B!Next
  /\ UNCHANGED << part, ticks, contract, pipeline, registry, routes, ledgers,
                  session, processes, attempt >>
PassArtifacts ==
  /\ part = "pipeline" /\ P!Next
  /\ UNCHANGED << part, ticks, contract, assignment, registry, routes, ledgers,
                  session, processes, attempt >>
KeepRegistry ==
  /\ part = "registry" /\ R!Next
  /\ UNCHANGED << part, ticks, contract, assignment, pipeline, routes, ledgers,
                  session, processes, attempt >>
SelectRoutes ==
  /\ part = "routes" /\ S!Next
  /\ UNCHANGED << part, ticks, contract, assignment, pipeline, registry, ledgers,
                  session, processes, attempt >>
KeepEvidence ==
  /\ part = "evidence" /\ E!Next
  /\ UNCHANGED << part, ticks, contract, assignment, pipeline, registry, routes,
                  session, processes, attempt >>
CaptureUsage ==
  /\ part = "usage" /\ U!Next
  /\ UNCHANGED << part, ticks, contract, assignment, pipeline, registry, routes, ledgers,
                  processes, attempt >>
Dispatch ==
  /\ part = "dispatch" /\ W!Next
  /\ UNCHANGED << part, ticks, contract, assignment, pipeline, registry, routes, ledgers,
                  session, attempt >>
Judge ==
  /\ part = "verdict" /\ Next
  /\ UNCHANGED << part, ticks, contract, assignment, pipeline, registry, routes, ledgers,
                  session, processes >>

FactoryNext ==
  \/ Time \/ Authorize \/ AssignWork \/ PassArtifacts \/ KeepRegistry
  \/ SelectRoutes \/ KeepEvidence \/ CaptureUsage \/ Dispatch \/ Judge

FactorySpec == FactoryInit /\ [][FactoryNext]_everything

-----------------------------------------------------------------------------
\* The fixed nine-digit layout of the observation store orders lexically as
\* time does (observations.go: "Fixed width keeps lexical SQLite ordering
\* identical to chronological ordering").
FixedTextIsChronological ==
  part = "time" => (FixedLess(first, second) <=> first < second)

\* The name of a grant never decides an answer (authority.py, decide_*).
NoTieToBreak == part = "authority" => A!NoTieToBreak

\* A grant added to a contract reaches only what it names (authority.py).
DenialStands == [][part = "authority" => A!NothingLifted]_everything

\* Work never outlasts its authority (assignment.py, validate_authority_status).
WorkEndsWithItsAuthority == part = "assignment" => B!WorkEndsWithItsAuthority

\* Doubt about a declared input is never lost (contract.py, Employee.run).
DoubtIsDeclared == part = "pipeline" => P!DoubtIsDeclared

\* What is on disk as active rests on evidence (employee_registry.py, activate).
ActivationHasEvidence == part = "registry" => R!ActivationHasEvidence

\* A reconciliation without findings tells the truth (employee_registry.py).
CleanReportIsTrue == part = "registry" => R!CleanReportIsTrue

\* What is launched had headroom when it was chosen (run.py, eligibility.py).
LaunchesOnHeadroom == part = "routes" => S!LaunchesOnHeadroom

\* Authors, reviewers and judges are independent as declared (staff.py).
StaffedFairly == part = "routes" => S!StaffedFairly

\* An import settles its rows, once (import_evidence.py, ledger.py).
SettledByImport == part = "evidence" => E!SettledByImport

\* The readers of the ledger count the same lines (rollup.py and its copies).
ReadersCountAlike == part = "evidence" => E!ReadersCountAlike

\* Report and ladder agree on the cheapest route (evidence_report.py).
CheapestAgreed == [][part = "evidence" => E!RungAgreed]_everything

\* A bill covers what the session used (staffing/run.py, _attempt_cost).
BilledInFull == part = "usage" => U!BilledInFull

\* The kill reaches the worker's processes and no other (staffing/run.py).
KillIsExact == [][part = "dispatch" => W!OnlyTheWorkersTree]_everything
=============================================================================
