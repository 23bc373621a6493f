------------------------- MODULE StaffingRunProofs -------------------------
(***************************************************************************)
(* What StaffingRun guarantees for any number of invocations, crashes,     *)
(* process ids, paths and timeouts, with start times known or not.         *)
(***************************************************************************)
EXTENDS StaffingRun, InductionLemmas, SequenceTheorems

\* What surrounds types: an invocation that finished its worker knows the
\* result, and a worker exists only once it was launched.
WorkKnown ==
  /\ \A r \in Runs : pc[r] = "completed" => result[r] \in Kinds
  /\ \A r \in Runs : worker[r] # "none" =>
       pc[r] \in {"dispatched", "completed", "leaving", "over", "dead"}

IType == TypeOK /\ WorkKnown

LEMMA NoneIsNoKind == None \notin Kinds /\ None \notin Runs /\ None \notin Nat
  BY RunAssumption DEF Runs

LEMMA NoneIsNoEnd == None \notin Ends
  BY RunAssumption

LEMMA ITypeInitially == Init => IType
<1> SUFFICES ASSUME Init PROVE IType
  OBVIOUS
<1>1. ledger \in Seq(Attempt)
  BY DEF Init
<1>2. began \in [Runs -> [length : Nat, torn : BOOLEAN]]
  BY DEF Init
<1>3. QED
  BY <1>1, <1>2 DEF Init, IType, TypeOK, WorkKnown, Points, Workers

\* The actions that only move an invocation along.
Moves(r) ==
  \/ Decline(r) \/ Check(r) \/ Acquire(r) \/ GiveUp(r) \/ Vanished(r) \/ Register(r)
  \/ Launch(r) \/ LaunchFails(r) \/ KillTimesOut(r) \/ Deregister(r)

LEMMA RunsOfLedger ==
  ASSUME ledger \in Seq(Attempt)
  PROVE  \A i \in DOMAIN ledger : ledger[i].run \in Runs /\ ledger[i] \in Attempt
<1>1. \A i \in DOMAIN ledger : ledger[i] \in Attempt
  OBVIOUS
<1>2. QED
  BY <1>1 DEF Attempt

LEMMA ITypeInductive == IType /\ [Next]_vars => IType'
<1> SUFFICES ASSUME IType, [Next]_vars PROVE IType'
  OBVIOUS
<1> USE DEF IType, TypeOK, WorkKnown
<1>1. ASSUME NEW r \in Runs, NEW p \in Pids, NEW c \in Asked[r], Start(r, p, c)
      PROVE  IType'
  <2>1. c \in Call
    BY RunAssumption
  <2>2. \A i \in DOMAIN ledger : ledger[i].run \in Runs
    BY RunsOfLedger
  <2>3. parent' \in [Runs -> Runs \cup {None}]
    BY <1>1, <2>2 DEF Start
  <2>4. began' \in [Runs -> [length : Nat, torn : BOOLEAN]]
    BY <1>1 DEF Start
  <2>5. QED
    BY <1>1, <2>1, <2>3, <2>4 DEF Start, Points
<1>2. ASSUME NEW r \in Runs, Moves(r)
      PROVE  IType'
  <2>1. CASE Decline(r) \/ Check(r) \/ GiveUp(r)
    BY <2>1 DEF Decline, Check, GiveUp, Leave, Points, Ends
  <2>2. CASE Acquire(r)
    BY <2>2 DEF Acquire, Scan, Points
  <2>3. CASE Vanished(r)
    BY <2>3 DEF Vanished, Release, Leave, Points, Ends
  <2>4. CASE Register(r)
    BY <2>4 DEF Register, Release, Leave, Purged, Points, Ends
  <2>5. CASE Launch(r)
    BY <2>5 DEF Launch, Points, Workers
  <2>6. CASE LaunchFails(r)
    BY <2>6 DEF LaunchFails, Points, Ends
  <2>7. CASE KillTimesOut(r)
    BY <2>7 DEF KillTimesOut, Points, Ends, Workers
  <2>8. CASE Deregister(r)
    BY <2>8 DEF Deregister, Leave, Points, Ends
  <2>9. QED
    BY <1>2, <2>1, <2>2, <2>3, <2>4, <2>5, <2>6, <2>7, <2>8 DEF Moves
<1>3. ASSUME NEW r \in Runs, WorkerEnds(r)
      PROVE  IType'
  BY <1>3 DEF WorkerEnds, Workers
<1>4. ASSUME NEW r \in Runs, Reap(r)
      PROVE  IType'
  BY <1>4 DEF Reap, Points
<1>5. ASSUME NEW r \in Runs, Kill(r)
      PROVE  IType'
  BY <1>5 DEF Kill, KillKinds, Kinds, Points, Workers
<1>6. ASSUME NEW r \in Runs, AppendAttempt(r)
      PROVE  IType'
  <2>1. [run |-> r, kind |-> result[r]] \in Attempt
    BY <1>6 DEF AppendAttempt, Attempt
  <2>2. ledger' = ledger \/ ledger' = Append(ledger, [run |-> r, kind |-> result[r]])
    BY <1>6 DEF AppendAttempt
  <2>3. Append(ledger, [run |-> r, kind |-> result[r]]) \in Seq(Attempt)
    BY <2>1, AppendProperties
  <2>4. QED
    BY <1>6, <2>2, <2>3 DEF AppendAttempt, Points, Ends
<1>7. ASSUME NEW r \in Runs, Unrecorded(r) \/ ShortWrite(r)
      PROVE  IType'
  BY <1>7 DEF Unrecorded, ShortWrite, AfterShortWrite, Points, Ends
<1>8. ASSUME NEW r \in Runs, Interrupt(r) \/ Crash(r)
      PROVE  IType'
  <2>1. CASE Interrupt(r)
    BY <2>1 DEF Interrupt, Release, Holding, Alive, Points, Ends
  <2>2. CASE Crash(r)
    BY <2>2 DEF Crash, Release, Alive, Points
  <2>3. QED
    BY <1>8, <2>1, <2>2
<1>9. CASE CensusStep
  BY <1>9 DEF CensusStep, CensusBegins, CensusEnds, Scan, Release, Purged
<1>10. CASE UNCHANGED vars
  BY <1>10 DEF vars
<1>11. QED
  BY <1>1, <1>2, <1>3, <1>4, <1>5, <1>6, <1>7, <1>8, <1>9, <1>10 DEF Next, Step, Moves

\* Every variable of the router's runs keeps its type (StaffingRun as a whole).
THEOREM RunTypeCorrect == Spec => []TypeOK
<1>1. Spec => []IType
  BY ITypeInitially, ITypeInductive, PTL DEF Spec
<1>2. IType => TypeOK
  BY DEF IType
<1>3. QED
  BY <1>1, <1>2, PTL

-----------------------------------------------------------------------------
\* The registry lock is held by the invocation that scans, or by census; while it
\* is held nothing is added to the directory.
LockIsScan ==
  /\ \A r \in Runs : pc[r] = "scanning" => lock = r
  /\ lock # None => records \subseteq listed

\* The inductive invariant of the registry.
IRegistry == IType /\ LockIsScan /\ LiveRunsRegistered /\ LiveRunsDisjoint

LEMMA CensusIsNoRun == Census \notin Runs
  BY RunAssumption DEF Census, Runs

LEMMA ConflictSymmetric ==
  ASSUME NEW r \in Runs, NEW q \in Runs
  PROVE  Conflict(r, q) <=> Conflict(q, r)
  BY DEF Conflict, Intersect

\* No purge takes the record of a process that exists.
LEMMA PurgeKeepsAlive ==
  ASSUME NEW q \in Runs, Alive(q), q \in records
  PROVE  q \in Purged
  BY DEF Purged, Live

LEMMA IRegistryInitially == Init => IRegistry
  BY ITypeInitially
  DEF Init, IRegistry, LockIsScan, LiveRunsRegistered, LiveRunsDisjoint, Holding

\* A step that leaves registrations, calls and the directory alone, and at most
\* ends an invocation, or lets one that holds a registration go on.
LEMMA RegistryUndisturbed ==
  ASSUME IRegistry,
         \A r \in Runs : Holding(r)' => Holding(r) /\ call'[r] = call[r],
         \A r \in Runs : Holding(r)' /\ r \in records => r \in records'
  PROVE  LiveRunsRegistered' /\ LiveRunsDisjoint'
  BY DEF IRegistry, LiveRunsRegistered, LiveRunsDisjoint, Conflict

LEMMA IRegistryInductive == IRegistry /\ [Next]_vars => IRegistry'
<1> SUFFICES ASSUME IRegistry, [Next]_vars PROVE IRegistry'
  OBVIOUS
<1>t. IType'
  BY ITypeInductive DEF IRegistry
<1> USE DEF LockIsScan
<1>1. ASSUME NEW r \in Runs, NEW p \in Pids, NEW c \in Asked[r], Start(r, p, c)
      PROVE  IRegistry'
  BY <1>1, <1>t, RegistryUndisturbed DEF Start, IRegistry, IType, TypeOK, Holding
<1>2. ASSUME NEW r \in Runs, Acquire(r)
      PROVE  IRegistry'
  <2>1. /\ lock = None /\ lock' = r /\ listed' = records
        /\ UNCHANGED << call, records >>
    BY <1>2 DEF Acquire, Scan
  <2>2. \A q \in Runs : /\ Holding(q)' => Holding(q)
                        /\ pc'[q] = "scanning" => pc[q] = "scanning" \/ q = r
    BY <1>2 DEF Acquire, IRegistry, IType, TypeOK, Holding
  <2>3. \A q \in Runs : pc[q] # "scanning"
    BY <2>1, NoneIsNoKind DEF IRegistry
  <2>4. LockIsScan'
    BY <2>1, <2>2, <2>3
  <2>5. QED
    BY <1>t, <2>1, <2>2, <2>4, RegistryUndisturbed DEF IRegistry
<1>3. ASSUME NEW r \in Runs, Decline(r) \/ Check(r) \/ GiveUp(r)
      PROVE  IRegistry'
  BY <1>3, <1>t, RegistryUndisturbed
  DEF Decline, Check, GiveUp, Leave, IRegistry, IType, TypeOK, Holding
<1>4. ASSUME NEW r \in Runs, Vanished(r)
      PROVE  IRegistry'
  BY <1>4, <1>t, RegistryUndisturbed, NoneIsNoKind
  DEF Vanished, Release, Leave, IRegistry, IType, TypeOK, Holding
<1>5. ASSUME NEW r \in Runs, Register(r)
      PROVE  IRegistry'
  <2>1. lock = r /\ lock # None /\ records \subseteq listed
    BY <1>5, NoneIsNoKind DEF Register, IRegistry
  <2>2. \A q \in Runs : q # r => pc'[q] = pc[q] /\ pc'[q] # "scanning"
    BY <1>5, <2>1 DEF Register, Leave, IRegistry, IType, TypeOK
  <2>3. \A q \in Runs : Holding(q) => q \in Purged /\ q \in listed /\ Live(q)
    BY <2>1, PurgeKeepsAlive DEF IRegistry, LiveRunsRegistered, Holding, Alive, Live
  <2>4. LockIsScan'
    BY <1>5, <2>2 DEF Register, Release, Leave, IRegistry, IType, TypeOK
  <2>5. CASE /\ \A q \in listed : Live(q) => ~ Conflict(r, q)
             /\ records' = Purged \cup {r}
             /\ pc' = [pc EXCEPT ![r] = "registered"]
    <3>1. \A q \in Runs : q # r => (Holding(q)' <=> Holding(q))
      BY <2>2 DEF Holding
    <3>2. LiveRunsRegistered'
      BY <2>3, <2>5, <3>1 DEF LiveRunsRegistered
    <3>3. \A q \in Runs : Holding(q) => ~ Conflict(r, q) /\ ~ Conflict(q, r)
      BY <2>3, <2>5, ConflictSymmetric
    <3>4. \A a, b \in Runs : Conflict(a, b)' <=> Conflict(a, b)
      BY <1>5 DEF Register, Conflict
    <3>5. LiveRunsDisjoint'
      BY <3>1, <3>3, <3>4 DEF LiveRunsDisjoint, IRegistry
    <3>6. QED
      BY <1>t, <2>4, <3>2, <3>5 DEF IRegistry
  <2>6. CASE records' = Purged /\ Leave(r, "refused")
    <3>1. \A q \in Runs : Holding(q)' => Holding(q) /\ call'[q] = call[q]
      BY <1>5, <2>2, <2>6 DEF Register, Leave, Holding, IRegistry, IType, TypeOK
    <3>2. QED
      BY <1>t, <2>3, <2>4, <2>6, <3>1, RegistryUndisturbed DEF IRegistry
  <2>7. QED
    BY <1>5, <2>5, <2>6 DEF Register
<1>6. ASSUME NEW r \in Runs,
             \/ Launch(r) \/ LaunchFails(r) \/ WorkerEnds(r) \/ Reap(r) \/ Kill(r)
             \/ KillTimesOut(r) \/ AppendAttempt(r) \/ Unrecorded(r) \/ ShortWrite(r)
      PROVE  IRegistry'
  <2>1. UNCHANGED << call, records, lock, listed >>
    BY <1>6 DEF Launch, LaunchFails, WorkerEnds, Reap, Kill, KillTimesOut, AppendAttempt,
                Unrecorded, ShortWrite
  <2>2. \A q \in Runs : /\ Holding(q)' => Holding(q)
                        /\ pc'[q] = "scanning" => pc[q] = "scanning"
    BY <1>6 DEF Launch, LaunchFails, WorkerEnds, Reap, Kill, KillTimesOut, AppendAttempt,
                Unrecorded, ShortWrite, AfterShortWrite, IRegistry, IType, TypeOK, Holding
  <2>3. QED
    BY <1>t, <2>1, <2>2, RegistryUndisturbed DEF IRegistry
<1>7. ASSUME NEW r \in Runs, Deregister(r)
      PROVE  IRegistry'
  <2>1. /\ \A q \in Runs : /\ Holding(q)' => Holding(q) /\ q # r
                           /\ pc'[q] = "scanning" => pc[q] = "scanning"
        /\ UNCHANGED << call, lock, listed >>
    BY <1>7 DEF Deregister, Leave, IRegistry, IType, TypeOK, Holding
  <2>2. records' \subseteq records /\ records \ {r} \subseteq records'
    BY <1>7 DEF Deregister
  <2>3. QED
    BY <1>t, <2>1, <2>2, RegistryUndisturbed DEF IRegistry
<1>8. ASSUME NEW r \in Runs, Interrupt(r) \/ Crash(r)
      PROVE  IRegistry'
  <2>1. \A q \in Runs : /\ Holding(q)' => Holding(q)
                        /\ pc'[q] = "scanning" => pc[q] = "scanning" /\ q # r
    BY <1>8 DEF Interrupt, Crash, IRegistry, IType, TypeOK, Holding
  <2>2. UNCHANGED << call, records >>
    BY <1>8 DEF Interrupt, Crash
  <2>3. LockIsScan'
    BY <1>8, <2>1, <2>2, NoneIsNoKind DEF Interrupt, Crash, Release, IRegistry
  <2>4. QED
    BY <1>t, <2>1, <2>2, <2>3, RegistryUndisturbed DEF IRegistry
<1>9. CASE CensusStep
  <2>1. UNCHANGED << pc, call >>
    BY <1>9 DEF CensusStep, CensusBegins, CensusEnds
  <2>2. \A r \in Runs : Holding(r) => r \in records'
    BY <1>9, PurgeKeepsAlive
    DEF CensusStep, CensusBegins, CensusEnds, IRegistry, LiveRunsRegistered, Holding, Alive
  <2>3. LockIsScan'
    BY <1>9, <2>1, CensusIsNoRun, NoneIsNoKind
    DEF CensusStep, CensusBegins, CensusEnds, Scan, Release, IRegistry
  <2>4. QED
    BY <1>t, <2>1, <2>2, <2>3, RegistryUndisturbed DEF IRegistry, Holding
<1>10. CASE UNCHANGED vars
  BY <1>10, <1>t, RegistryUndisturbed DEF vars, IRegistry, Holding
<1>11. QED
  BY <1>1, <1>2, <1>3, <1>4, <1>5, <1>6, <1>7, <1>8, <1>9, <1>10 DEF Next, Step

LEMMA RegistryInvariant == Spec => []IRegistry
  BY IRegistryInitially, IRegistryInductive, PTL DEF Spec

\* No purge takes the record of an invocation at work, for any number of crashes
\* and any reuse of process ids (register_run, census_registry, deregister_run).
THEOREM LiveRunsRegisteredCorrect == Spec => []LiveRunsRegistered
<1>1. IRegistry => LiveRunsRegistered
  BY DEF IRegistry
<1>2. QED
  BY <1>1, RegistryInvariant, PTL

\* Invocations at work own disjoint paths, for any paths and any number of them
\* (register_run under the registry lock, evaluate_record_liveness).
THEOREM LiveRunsDisjointCorrect == Spec => []LiveRunsDisjoint
<1>1. IRegistry => LiveRunsDisjoint
  BY DEF IRegistry
<1>2. QED
  BY <1>1, RegistryInvariant, PTL

-----------------------------------------------------------------------------
\* An invocation that started on a torn ledger gets no further than its check of
\* it, and nothing mends the ledger.
ITorn ==
  /\ IType
  /\ \A r \in Runs : began[r].torn => torn /\ pc[r] \in {"begun", "over", "dead"}
                                           /\ worker[r] = "none"

LEMMA ITornInductive == ITorn /\ [Next]_vars => ITorn'
<1> SUFFICES ASSUME ITorn, [Next]_vars PROVE ITorn'
  OBVIOUS
<1>t. IType'
  BY ITypeInductive DEF ITorn
<1> USE DEF ITorn, IType, TypeOK, WorkKnown
<1>1. ASSUME NEW r \in Runs, NEW p \in Pids, NEW c \in Asked[r], Start(r, p, c)
      PROVE  ITorn'
  BY <1>1, <1>t DEF Start
<1>2. ASSUME NEW r \in Runs, Check(r)
      PROVE  ITorn'
  BY <1>2, <1>t DEF Check, Unreadable, Leave
<1>3. ASSUME NEW r \in Runs, Decline(r) \/ Acquire(r) \/ GiveUp(r) \/ Vanished(r) \/ Register(r)
      PROVE  ITorn'
  <2>1. UNCHANGED << began, torn, worker >>
    BY <1>3 DEF Decline, Acquire, GiveUp, Vanished, Register
  <2>2. \A q \in Runs : q # r => pc'[q] = pc[q]
    BY <1>3 DEF Decline, Acquire, GiveUp, Vanished, Register, Leave
  <2>3. Decline(r) \/ ~ began[r].torn
    BY <1>3 DEF Acquire, GiveUp, Vanished, Register
  <2>4. Decline(r) => pc'[r] = "over"
    BY DEF Decline, Leave
  <2>5. QED
    BY <1>t, <2>1, <2>2, <2>3, <2>4
<1>4. ASSUME NEW r \in Runs,
             \/ Launch(r) \/ LaunchFails(r) \/ WorkerEnds(r) \/ Reap(r) \/ Kill(r)
             \/ KillTimesOut(r) \/ AppendAttempt(r) \/ Unrecorded(r) \/ ShortWrite(r)
             \/ Deregister(r)
      PROVE  ITorn'
  <2>1. ~ began[r].torn
    BY <1>4 DEF Launch, LaunchFails, WorkerEnds, Reap, Kill, KillTimesOut, AppendAttempt,
                Unrecorded, ShortWrite, Deregister
  <2>2. \A q \in Runs : q # r => pc'[q] = pc[q] /\ worker'[q] = worker[q]
    BY <1>4 DEF Launch, LaunchFails, WorkerEnds, Reap, Kill, KillTimesOut, AppendAttempt,
                Unrecorded, ShortWrite, AfterShortWrite, Deregister, Leave
  <2>3. UNCHANGED began /\ (torn => torn')
    BY <1>4 DEF Launch, LaunchFails, WorkerEnds, Reap, Kill, KillTimesOut, AppendAttempt,
                Unrecorded, ShortWrite, AfterShortWrite, Deregister
  <2>4. QED
    BY <1>t, <2>1, <2>2, <2>3
<1>5. ASSUME NEW r \in Runs, Interrupt(r) \/ Crash(r)
      PROVE  ITorn'
  <2>1. UNCHANGED << began, torn, worker >>
    BY <1>5 DEF Interrupt, Crash
  <2>2. \A q \in Runs : q # r => pc'[q] = pc[q]
    BY <1>5 DEF Interrupt, Crash
  <2>3. began[r].torn => pc'[r] \in {"over", "dead"}
    BY <1>5 DEF Interrupt, Crash, Holding, Alive
  <2>4. QED
    BY <1>t, <2>1, <2>2, <2>3
<1>6. CASE CensusStep
  BY <1>6, <1>t DEF CensusStep, CensusBegins, CensusEnds
<1>7. CASE UNCHANGED vars
  BY <1>7, <1>t DEF vars
<1>8. QED
  BY <1>1, <1>2, <1>3, <1>4, <1>5, <1>6, <1>7 DEF Next, Step

\* No invocation that starts after a torn append launches a worker, however many
\* start, crash or append after it (read_attempts, append_attempt).
THEOREM TornLedgerStopsRunsCorrect == Spec => []TornLedgerStopsRuns
<1>1. Init => ITorn
  BY ITypeInitially DEF Init, ITorn
<1>2. ITorn => TornLedgerStopsRuns
  BY DEF ITorn, TornLedgerStopsRuns
<1>3. QED
  BY <1>1, <1>2, ITornInductive, PTL DEF Spec

-----------------------------------------------------------------------------
\* An invocation has no end before it leaves, and only one that says its attempt
\* is recorded has one.
IRecorded ==
  /\ IType
  /\ \A r \in Runs : pc[r] \notin {"leaving", "over", "dead"} => end[r] = None
  /\ RecordedOnce

LEMMA IRecordedInitially == Init => IRecorded
<1> SUFFICES ASSUME Init PROVE IRecorded
  OBVIOUS
<1>1. IType
  BY ITypeInitially
<1>2. RecordedOnce
  BY NoneIsNoEnd DEF Init, RecordedOnce, Ends
<1>3. QED
  BY <1>1, <1>2 DEF Init, IRecorded

\* A step that appends nothing, gives an end other than "done" to at most one
\* invocation that had none, and "refused" or "failed" only where no worker is.
LEMMA RecordsUndisturbed ==
  ASSUME IRecorded, IType', UNCHANGED ledger, torn => torn',
         \A q \in Runs : pc'[q] \notin {"leaving", "over", "dead"} => end'[q] = None,
         \A q \in Runs : end'[q] = end[q] \/ (end[q] = None /\ end'[q] # "done"),
         \A q \in Runs : end'[q] \in {"refused", "failed"} => worker'[q] = "none"
  PROVE  IRecorded'
<1>1. \A i \in DOMAIN ledger : ledger[i].run \in Runs
  BY RunsOfLedger DEF IRecorded, IType, TypeOK
<1>2. RecordedOnce'
  BY <1>1, NoneIsNoEnd DEF IRecorded, RecordedOnce, Ends
<1>3. QED
  BY <1>2 DEF IRecorded

LEMMA IRecordedInductive == IRecorded /\ [Next]_vars => IRecorded'
<1> SUFFICES ASSUME IRecorded, [Next]_vars PROVE IRecorded'
  OBVIOUS
<1>t. IType'
  BY ITypeInductive DEF IRecorded
<1> USE DEF IRecorded, IType, TypeOK, WorkKnown
<1>w. \A r \in Runs : end[r] \in {"refused", "failed"} => worker[r] = "none"
  BY DEF RecordedOnce
<1>1. ASSUME NEW r \in Runs, NEW p \in Pids, NEW c \in Asked[r], Start(r, p, c)
      PROVE  IRecorded'
  BY <1>1, <1>t, <1>w, RecordsUndisturbed DEF Start
<1>2. ASSUME NEW r \in Runs,
             \/ Decline(r) \/ Check(r) \/ Acquire(r) \/ GiveUp(r) \/ Vanished(r) \/ Register(r)
             \/ LaunchFails(r)
      PROVE  IRecorded'
  <2>1. UNCHANGED << worker, ledger, torn >>
    BY <1>2 DEF Decline, Check, Acquire, GiveUp, Vanished, Register, LaunchFails
  <2>2. end[r] = None /\ worker[r] = "none"
    BY <1>2 DEF Decline, Check, Acquire, GiveUp, Vanished, Register, LaunchFails
  <2>3. /\ pc'[r] \notin {"leaving", "over", "dead"} => end'[r] = None
        /\ end'[r] # "done"
    BY <1>2, <2>2, NoneIsNoEnd
    DEF Decline, Check, Acquire, GiveUp, Vanished, Register, LaunchFails, Leave, Ends
  <2>4. \A q \in Runs : q # r => pc'[q] = pc[q] /\ end'[q] = end[q]
    BY <1>2 DEF Decline, Check, Acquire, GiveUp, Vanished, Register, LaunchFails, Leave
  <2>5. QED
    BY <1>t, <1>w, <2>1, <2>2, <2>3, <2>4, RecordsUndisturbed
<1>3. ASSUME NEW r \in Runs,
             Launch(r) \/ WorkerEnds(r) \/ Reap(r) \/ Kill(r) \/ KillTimesOut(r)
      PROVE  IRecorded'
  <2>1. UNCHANGED << ledger, torn >>
    BY <1>3 DEF Launch, WorkerEnds, Reap, Kill, KillTimesOut
  <2>2. \A q \in Runs : q # r => pc'[q] = pc[q] /\ end'[q] = end[q] /\ worker'[q] = worker[q]
    BY <1>3 DEF Launch, WorkerEnds, Reap, Kill, KillTimesOut
  <2>3. /\ end'[r] = end[r] \/ (end[r] = None /\ end'[r] = "raised")
        /\ end[r] \notin {"refused", "failed"}
        /\ pc'[r] \notin {"leaving", "over", "dead"} => end'[r] = None
    BY <1>3, <1>w, NoneIsNoEnd DEF Launch, WorkerEnds, Reap, Kill, KillTimesOut, Ends
  <2>4. QED
    BY <1>t, <1>w, <2>1, <2>2, <2>3, RecordsUndisturbed
<1>4. ASSUME NEW r \in Runs, AppendAttempt(r)
      PROVE  IRecorded'
  <2> DEFINE new == [run |-> r, kind |-> result[r]]
  <2>1. end[r] = None
    BY <1>4 DEF AppendAttempt
  <2>2. /\ end' = [end EXCEPT ![r] = "done"] /\ pc' = [pc EXCEPT ![r] = "leaving"]
        /\ UNCHANGED << worker, torn >>
        /\ ledger' = IF torn THEN ledger ELSE Append(ledger, new)
    BY <1>4 DEF AppendAttempt
  <2>3. \A i \in DOMAIN ledger : ledger[i].run \in Runs /\ ledger[i].run # r
    BY <2>1, RunsOfLedger, NoneIsNoEnd DEF RecordedOnce, Ends
  <2>4. new \in Attempt
    BY <1>4 DEF AppendAttempt, Attempt
  <2>5. CASE torn
    <3>1. RecordedOnce'
      BY <2>2, <2>3, <2>5 DEF RecordedOnce
    <3>2. QED
      BY <1>t, <2>2, <3>1
  <2>6. CASE ~ torn
    <3>1. /\ Len(ledger') = Len(ledger) + 1
          /\ ledger'[Len(ledger) + 1] = new
          /\ \A i \in 1..Len(ledger) : ledger'[i] = ledger[i]
          /\ DOMAIN ledger' = 1..(Len(ledger) + 1)
          /\ DOMAIN ledger = 1..Len(ledger)
          /\ Len(ledger) \in Nat
      BY <2>2, <2>4, <2>6, AppendProperties
    <3>2. \A i \in DOMAIN ledger' : i = Len(ledger) + 1 \/ i \in DOMAIN ledger
      BY <3>1
    <3>3. \A i, j \in DOMAIN ledger' : i # j => ledger'[i].run # ledger'[j].run
      BY <2>3, <3>1, <3>2 DEF RecordedOnce
    <3>4. \A i \in DOMAIN ledger' : end'[ledger'[i].run] = "done"
      BY <2>2, <2>3, <3>1, <3>2 DEF RecordedOnce
    <3>5. \A q \in Runs : end'[q] = "done" => \E i \in DOMAIN ledger' : ledger'[i].run = q
      <4>1. Len(ledger) + 1 \in DOMAIN ledger' /\ DOMAIN ledger \subseteq DOMAIN ledger'
        BY <3>1
      <4>2. ASSUME NEW q \in Runs, q # r, end'[q] = "done"
            PROVE  \E i \in DOMAIN ledger' : ledger'[i].run = q
        <5>1. PICK i \in DOMAIN ledger : ledger[i].run = q
          BY <2>2, <2>6, <4>2 DEF RecordedOnce
        <5>2. QED
          BY <3>1, <4>1, <5>1
      <4>3. QED
        <5>1. ledger'[Len(ledger) + 1].run = r
          BY <3>1
        <5>2. QED
          BY <4>1, <4>2, <5>1
    <3>6. RecordedOnce'
      BY <1>w, <2>2, <3>3, <3>4, <3>5 DEF RecordedOnce
    <3>7. QED
      BY <1>t, <2>2, <3>6
  <2>7. QED
    BY <2>5, <2>6
<1>5. ASSUME NEW r \in Runs, Unrecorded(r) \/ ShortWrite(r) \/ Deregister(r)
      PROVE  IRecorded'
  <2>1. UNCHANGED << worker, ledger >> /\ (torn => torn')
    BY <1>5 DEF Unrecorded, ShortWrite, AfterShortWrite, Deregister
  <2>2. \A q \in Runs : q # r => pc'[q] = pc[q] /\ end'[q] = end[q]
    BY <1>5 DEF Unrecorded, ShortWrite, AfterShortWrite, Deregister, Leave
  <2>3. /\ end'[r] = end[r] \/ (end[r] = None /\ end'[r] = "unrecorded")
        /\ pc'[r] \in {"leaving", "over"}
    BY <1>5 DEF Unrecorded, ShortWrite, AfterShortWrite, Deregister, Leave
  <2>4. QED
    BY <1>t, <1>w, <2>1, <2>2, <2>3, RecordsUndisturbed
<1>6. ASSUME NEW r \in Runs, Interrupt(r) \/ Crash(r)
      PROVE  IRecorded'
  <2>1. UNCHANGED << worker, ledger, torn >>
    BY <1>6 DEF Interrupt, Crash
  <2>2. \A q \in Runs : q # r => pc'[q] = pc[q] /\ end'[q] = end[q]
    BY <1>6 DEF Interrupt, Crash
  <2>3. /\ end'[r] = end[r] \/ (end[r] = None /\ end'[r] = "raised")
        /\ pc'[r] \in {"leaving", "over", "dead"}
    BY <1>6 DEF Interrupt, Crash
  <2>4. QED
    BY <1>t, <1>w, <2>1, <2>2, <2>3, RecordsUndisturbed
<1>7. CASE CensusStep
  BY <1>7, <1>t, <1>w, RecordsUndisturbed DEF CensusStep, CensusBegins, CensusEnds
<1>8. CASE UNCHANGED vars
  BY <1>8, <1>t, <1>w, RecordsUndisturbed DEF vars
<1>9. QED
  BY <1>1, <1>2, <1>3, <1>4, <1>5, <1>6, <1>7, <1>8 DEF Next, Step

\* An attempt is recorded once or not at all, and the end of an invocation says
\* which, unless the ledger is torn (append_attempt, one write and no retry).
THEOREM RecordedOnceCorrect == Spec => []RecordedOnce
<1>1. IRecorded => RecordedOnce
  BY DEF IRecorded
<1>2. QED
  BY <1>1, IRecordedInitially, IRecordedInductive, PTL DEF Spec

-----------------------------------------------------------------------------
\* Attempts i and j did nothing, or gave the same answer, one right after the
\* other on a job.
Spent(i, j) ==
  /\ i \in DOMAIN ledger
  /\ j \in DOMAIN ledger
  /\ Follows(i, j)
  /\ ledger[i].kind = ledger[j].kind
  /\ ledger[i].kind \in {"no_work"} \cup Answers

\* An attempt on a job was recorded after the attempt at place j.
Overtaken(j, job) == \E l \in DOMAIN ledger : j < l /\ call[ledger[l].run].job = job

\* The check of the ledger is passed, and the attempt not recorded yet.
UnderWay(r) == pc[r] \in {"checked", "scanning", "registered", "dispatched", "completed"}

\* What was spent when an invocation started is not the latest of its job once it
\* is past the check.
ISpent ==
  /\ IType
  /\ \A r \in Runs : pc[r] # "idle" => call[r] \in Call /\ began[r].length <= Len(ledger)
  /\ \A i \in DOMAIN ledger : pc[ledger[i].run] # "idle"
  /\ \A r \in Runs : UnderWay(r) =>
       \A i, j \in Nat :
         Spent(i, j) /\ call[ledger[j].run].job = call[r].job /\ j <= began[r].length
         => Overtaken(j, call[r].job)
  /\ SpentCyclesStay

\* The latest attempts on a job are the greatest of its places.
LEMMA GreatestPlace ==
  ASSUME ledger \in Seq(Attempt), NEW S, S \subseteq DOMAIN ledger, S # {}
  PROVE  Max(S) \in S /\ \A i \in S : i <= Max(S)
<1>1. S \subseteq 0..Len(ledger) /\ S \subseteq Nat /\ Len(ledger) \in Nat
  OBVIOUS
<1>2. \E m \in S : \A i \in S : i <= m
  BY <1>1, GreatestNumber
<1>3. \E m \in S : \A i \in S : m >= i
  BY <1>1, <1>2
<1>4. Max(S) \in S /\ \A i \in S : Max(S) >= i
  BY <1>3 DEF Max
<1>5. QED
  BY <1>1, <1>4

\* The check lets nothing through that its job's last two attempts spent.
LEMMA CheckRefusesSpent ==
  ASSUME IType, NEW r \in Runs, ~ Unchanged(r), NEW i, NEW j, Spent(i, j),
         call[ledger[j].run].job = call[r].job
  PROVE  Overtaken(j, call[r].job)
<1> DEFINE mine == On(call[r].job)
<1> SUFFICES ASSUME ~ Overtaken(j, call[r].job) PROVE FALSE
  OBVIOUS
<1>1. ledger \in Seq(Attempt) /\ DOMAIN ledger \subseteq Nat
  BY DEF IType, TypeOK
<1>2. i \in mine /\ j \in mine /\ i < j /\ mine \subseteq DOMAIN ledger
  BY DEF Spent, Follows, On
<1>3. \A l \in mine : l <= j
  BY <1>1, <1>2 DEF Overtaken, On
<1>4. Max(mine) = j
  <2>1. Max(mine) \in mine /\ j <= Max(mine)
    BY <1>1, <1>2, GreatestPlace
  <2> HIDE DEF mine
  <2>2. QED
    BY <1>1, <1>2, <1>3, <2>1
<1> DEFINE before == mine \ {j}
<1>5. i \in before /\ before \subseteq DOMAIN ledger
  BY <1>1, <1>2
<1>6. \A l \in before : l <= i
  <2> SUFFICES ASSUME NEW l \in before, i < l PROVE FALSE
    BY <1>1, <1>5
  <2>1. l < j
    BY <1>1, <1>2, <1>3
  <2>2. call[ledger[l].run].job = call[r].job /\ l \in DOMAIN ledger
    BY DEF On
  <2>3. QED
    BY <2>1, <2>2 DEF Spent, Follows
<1>7. Max(before) = i
  <2>1. Max(before) \in before /\ i <= Max(before)
    BY <1>1, <1>5, GreatestPlace
  <2> HIDE DEF before
  <2>2. QED
    BY <1>1, <1>5, <1>6, <2>1
<1>8. ledger[i].kind = ledger[j].kind /\ ledger[j].kind \in {"no_work"} \cup Answers
  BY DEF Spent
<1>9. mine # {} /\ before # {}
  BY <1>2, <1>5
<1>10. Unchanged(r)
  <2> HIDE DEF mine, before
  <2>1. \/ ledger[Max(mine)].kind \in Answers
        \/ ledger[Max(mine)].kind = "no_work"
    BY <1>4, <1>8
  <2>2. before = mine \ {Max(mine)}
    BY <1>4 DEF before
  <2>3. ledger[Max(before)].kind = ledger[Max(mine)].kind
    BY <1>4, <1>7, <1>8
  <2>4. QED
    BY <1>9, <2>1, <2>2, <2>3 DEF Unchanged, mine
<1>11. QED
  BY <1>10

\* A step that appends nothing, starts nothing and lets nothing past the check.
LEMMA SpentUndisturbed ==
  ASSUME ISpent, IType', UNCHANGED << ledger, call, began >>,
         \A q \in Runs : pc'[q] # "idle" <=> pc[q] # "idle",
         \A q \in Runs : UnderWay(q)' => UnderWay(q)
  PROVE  ISpent'
<1>1. \A i \in DOMAIN ledger : ledger[i].run \in Runs
  BY RunsOfLedger DEF ISpent, IType, TypeOK
<1>2. \A i, j : (Spent(i, j)' <=> Spent(i, j)) /\ (Follows(i, j)' <=> Follows(i, j))
  BY DEF Spent, Follows
<1>3. \A j, job : Overtaken(j, job)' <=> Overtaken(j, job)
  BY DEF Overtaken
<1>4. SpentCyclesStay'
  BY <1>2 DEF ISpent, SpentCyclesStay
<1>5. \A r \in Runs : UnderWay(r)' =>
       \A i, j \in Nat :
         Spent(i, j)' /\ call[ledger[j].run].job = call[r].job /\ j <= began[r].length
         => Overtaken(j, call[r].job)'
  BY <1>2, <1>3 DEF ISpent
<1>6. QED
  BY <1>1, <1>4, <1>5 DEF ISpent
\* The attempt of an invocation that was started before the second of two spent
\* attempts was recorded may come third; no other may.
LEMMA SpentAppended ==
  ASSUME ISpent, IType', NEW r \in Runs, AppendAttempt(r)
  PROVE  ISpent'
<1> DEFINE n == Len(ledger)
           new == [run |-> r, kind |-> result[r]]
<1> USE DEF IType, TypeOK
<1>1. /\ IType /\ pc[r] = "completed" /\ UNCHANGED << call, began >>
      /\ pc' = [pc EXCEPT ![r] = "leaving"]
      /\ ledger' = IF torn THEN ledger ELSE Append(ledger, new)
  BY DEF AppendAttempt, ISpent
<1>2. \A q \in Runs : /\ pc'[q] # "idle" <=> pc[q] # "idle"
                      /\ UnderWay(q)' => UnderWay(q)
  BY <1>1 DEF UnderWay
<1>3. CASE torn
  BY <1>1, <1>2, <1>3, SpentUndisturbed
<1>4. CASE ~ torn
  <2>1. new \in Attempt
    BY <1>1 DEF WorkKnown, Attempt
  <2>2. /\ n \in Nat /\ Len(ledger') = n + 1
        /\ ledger'[n + 1] = new
        /\ \A i \in 1..n : ledger'[i] = ledger[i]
        /\ DOMAIN ledger' = 1..(n + 1)
        /\ DOMAIN ledger = 1..n
    BY <1>1, <1>4, <2>1, AppendProperties
  <2>3. \A i \in DOMAIN ledger : ledger[i].run \in Runs
    BY <1>1, RunsOfLedger
  <2>4. new.run = r /\ new.kind = result[r]
    OBVIOUS
  <2> HIDE DEF n, new
  <2>5. \A i, j \in DOMAIN ledger : Spent(i, j)' <=> Spent(i, j)
    <3> SUFFICES ASSUME NEW i \in DOMAIN ledger, NEW j \in DOMAIN ledger
                 PROVE  Spent(i, j)' <=> Spent(i, j)
      OBVIOUS
    <3>1. i \in 1..n /\ j \in 1..n /\ i \in 1..(n + 1) /\ j \in 1..(n + 1)
      BY <2>2
    <3>2. (Follows(i, j))' <=> Follows(i, j)
      <4>1. \A l \in DOMAIN ledger' : l < j => l \in DOMAIN ledger /\ ledger'[l] = ledger[l]
        BY <2>2, <3>1
      <4>2. \A l \in DOMAIN ledger : l \in DOMAIN ledger' /\ ledger'[l] = ledger[l]
        BY <2>2
      <4>3. QED
        BY <1>1, <4>1, <4>2 DEF Follows
    <3>3. QED
      BY <2>2, <3>1, <3>2 DEF Spent
  <2>6. ASSUME NEW j, NEW job, Overtaken(j, job)
        PROVE  Overtaken(j, job)'
    <3>1. PICK l \in 1..n : j < l /\ call[ledger[l].run].job = job
      BY <2>2, <2>6 DEF Overtaken
    <3>2. l \in DOMAIN ledger' /\ ledger'[l] = ledger[l]
      BY <2>2
    <3>3. QED
      BY <1>1, <3>1, <3>2 DEF Overtaken
  <2>7. \A q \in Runs : pc'[q] # "idle" =>
          call'[q] \in Call /\ began'[q].length <= Len(ledger')
    <3> SUFFICES ASSUME NEW q \in Runs, pc'[q] # "idle"
                 PROVE  call'[q] \in Call /\ began'[q].length <= Len(ledger')
      OBVIOUS
    <3>1. call[q] \in Call /\ began[q].length <= n /\ began[q].length \in Nat
      BY <1>1, <1>2 DEF ISpent, n
    <3>2. QED
      BY <1>1, <2>2, <3>1
  <2>8. \A i \in DOMAIN ledger' : pc'[ledger'[i].run] # "idle"
    <3> SUFFICES ASSUME NEW i \in 1..(n + 1) PROVE pc'[ledger'[i].run] # "idle"
      BY <2>2
    <3>1. CASE i = n + 1
      BY <1>1, <2>2, <2>4, <3>1
    <3>2. CASE i # n + 1
      <4>1. i \in 1..n
        BY <2>2, <3>2
      <4>2. QED
        BY <1>2, <2>2, <2>3, <4>1 DEF ISpent
    <3>3. QED
      BY <3>1, <3>2
  <2>9. ASSUME NEW q \in Runs, UnderWay(q)', NEW i \in Nat, NEW j \in Nat, Spent(i, j)',
               call[ledger'[j].run].job = call[q].job, j <= began[q].length
        PROVE  Overtaken(j, call[q].job)'
    <3>1. UnderWay(q) /\ pc[q] # "idle"
      BY <1>2, <2>9 DEF UnderWay
    <3>2. began[q].length \in Nat /\ began[q].length <= n
      BY <1>1, <3>1 DEF ISpent, n
    <3>3. i \in 1..(n + 1) /\ j \in 1..(n + 1) /\ i < j
      BY <2>2, <2>9 DEF Spent, Follows
    <3>4. i \in 1..n /\ j \in 1..n
      BY <2>2, <2>9, <3>2, <3>3
    <3>5. Spent(i, j) /\ ledger'[j] = ledger[j]
      BY <2>2, <2>5, <2>9, <3>4
    <3>6. Overtaken(j, call[q].job)
      BY <2>9, <3>1, <3>5 DEF ISpent
    <3>7. PICK job : job = call[q].job /\ job = call'[q].job
      BY <1>1
    <3>8. Overtaken(j, job)'
      BY <2>6, <3>6, <3>7
    <3>9. QED
      BY <3>7, <3>8 DEF Overtaken
  <2>10. ASSUME NEW i \in DOMAIN ledger', NEW j \in DOMAIN ledger', NEW k \in DOMAIN ledger',
                Follows(i, j)', Follows(j, k)',
                ledger'[i].kind = ledger'[j].kind,
                ledger'[i].kind \in {"no_work"} \cup Answers
         PROVE  began[ledger'[k].run].length < j
    <3>1. i \in 1..(n + 1) /\ j \in 1..(n + 1) /\ k \in 1..(n + 1) /\ i < j /\ j < k
      BY <2>2, <2>10 DEF Follows
    <3>2. i \in 1..n /\ j \in 1..n
      BY <2>2, <3>1
    <3>3. Spent(i, j)
      <4>1. Spent(i, j)'
        BY <2>10 DEF Spent
      <4>2. QED
        BY <2>2, <2>5, <3>2, <4>1
    <3>4. CASE k = n + 1
      <4> SUFFICES ASSUME j <= began[r].length PROVE FALSE
        <5>1. began[r].length \in Nat
          BY <1>1
        <5>2. QED
          BY <2>2, <2>4, <3>2, <3>4, <5>1
      <4>1. call[ledger[j].run].job = call[r].job
        BY <1>1, <2>2, <2>4, <2>10, <3>2, <3>4 DEF Follows
      <4>2. UnderWay(r)
        BY <1>1 DEF UnderWay
      <4>3. Overtaken(j, call[r].job)
        BY <3>2, <3>3, <4>1, <4>2 DEF ISpent
      <4>4. PICK l \in 1..n : j < l /\ call[ledger[l].run].job = call[r].job
        BY <2>2, <4>3 DEF Overtaken
      <4>5. l \in DOMAIN ledger' /\ l < k /\ ledger'[l] = ledger[l] /\ ledger'[j] = ledger[j]
        BY <2>2, <3>2, <3>4, <4>4
      <4>6. call'[ledger'[l].run].job = call'[ledger'[k].run].job
        BY <1>1, <2>2, <2>4, <3>4, <4>4, <4>5
      <4>7. QED
        BY <2>10, <4>4, <4>5, <4>6 DEF Follows
    <3>5. CASE k # n + 1
      <4>1. k \in 1..n /\ ledger'[k] = ledger[k]
        BY <2>2, <3>1, <3>5
      <4>2. Follows(j, k)
        <5>1. \A l \in DOMAIN ledger : l \in DOMAIN ledger' /\ ledger'[l] = ledger[l]
          BY <2>2
        <5>2. QED
          BY <1>1, <2>2, <2>10, <3>2, <4>1, <5>1 DEF Follows
      <4>3. began[ledger[k].run].length < j
        BY <2>2, <3>2, <3>3, <4>1, <4>2 DEF ISpent, SpentCyclesStay, Spent
      <4>4. QED
        BY <4>1, <4>3
    <3>6. QED
      BY <3>4, <3>5
  <2>11. SpentCyclesStay'
    BY <1>1, <2>10 DEF SpentCyclesStay
  <2>12. \A q \in Runs : UnderWay(q)' =>
           \A i, j \in Nat :
             Spent(i, j)' /\ call'[ledger'[j].run].job = call'[q].job /\ j <= began'[q].length
             => Overtaken(j, call[q].job)'
    BY <1>1, <2>9
  <2>13. QED
    BY <2>7, <2>8, <2>11, <2>12 DEF ISpent
<1>5. QED
  BY <1>3, <1>4
\* An invocation that starts has seen nothing of the ledger yet, and none of its
\* attempts is there.
LEMMA SpentStart ==
  ASSUME ISpent, IType', NEW r \in Runs, NEW p \in Pids, NEW c \in Asked[r], Start(r, p, c)
  PROVE  ISpent'
<1> USE DEF IType, TypeOK
<1>1. /\ IType /\ pc[r] = "idle" /\ UNCHANGED ledger
      /\ pc' = [pc EXCEPT ![r] = "begun"]
      /\ call' = [call EXCEPT ![r] = c]
      /\ began' = [began EXCEPT ![r] = [length |-> Len(ledger), torn |-> torn]]
  BY DEF Start, ISpent
<1>2. c \in Call
  BY RunAssumption
<1>3. \A i \in DOMAIN ledger : ledger[i].run \in Runs /\ ledger[i].run # r
  BY <1>1, RunsOfLedger DEF ISpent
<1>4. \A i \in DOMAIN ledger : call'[ledger[i].run] = call[ledger[i].run]
                               /\ began'[ledger[i].run] = began[ledger[i].run]
                               /\ pc'[ledger[i].run] = pc[ledger[i].run]
  BY <1>1, <1>3
<1>5. \A i, j \in DOMAIN ledger : Follows(i, j)' <=> Follows(i, j)
  BY <1>1, <1>4 DEF Follows
<1>6. \A i, j : Spent(i, j)' <=> Spent(i, j)
  BY <1>1, <1>5 DEF Spent
<1>7. \A j, job : Overtaken(j, job)' <=> Overtaken(j, job)
  BY <1>1, <1>4 DEF Overtaken
<1>8. SpentCyclesStay'
  <2>1. SpentCyclesStay
    BY DEF ISpent
  <2>2. \A k \in DOMAIN ledger : began'[ledger'[k].run].length = began[ledger[k].run].length
    BY <1>1, <1>4
  <2>3. ASSUME NEW i \in DOMAIN ledger', NEW j \in DOMAIN ledger', NEW k \in DOMAIN ledger',
               Follows(i, j)', Follows(j, k)', ledger'[i].kind = ledger'[j].kind,
               ledger'[i].kind \in {"no_work"} \cup Answers
        PROVE  began'[ledger'[k].run].length < j
    <3>1. i \in DOMAIN ledger /\ j \in DOMAIN ledger /\ k \in DOMAIN ledger
      BY <1>1
    <3>2. Follows(i, j) /\ Follows(j, k)
      BY <1>5, <2>3, <3>1
    <3>3. ledger[i].kind = ledger[j].kind /\ ledger[i].kind \in {"no_work"} \cup Answers
      BY <1>1, <2>3
    <3>4. QED
      BY <2>1, <2>2, <3>1, <3>2, <3>3 DEF SpentCyclesStay
  <2>4. QED
    BY <2>3 DEF SpentCyclesStay
<1>9. \A q \in Runs : pc'[q] # "idle" => call'[q] \in Call /\ began'[q].length <= Len(ledger')
  <2>1. Len(ledger) \in Nat /\ Len(ledger) <= Len(ledger)
    BY <1>1
  <2>2. began'[r].length = Len(ledger) /\ call'[r] = c
    BY <1>1
  <2>3. QED
    BY <1>1, <1>2, <2>1, <2>2 DEF ISpent
<1>10. \A q \in Runs : UnderWay(q)' => /\ UnderWay(q) /\ call'[q] = call[q]
                                       /\ began'[q] = began[q]
  BY <1>1 DEF UnderWay
<1>11. \A q \in Runs : UnderWay(q)' =>
         \A i, j \in Nat :
           Spent(i, j)' /\ call'[ledger[j].run].job = call'[q].job /\ j <= began'[q].length
           => Overtaken(j, call[q].job)'
  <2> SUFFICES ASSUME NEW q \in Runs, UnderWay(q)', NEW i \in Nat, NEW j \in Nat, Spent(i, j)',
                      call'[ledger[j].run].job = call'[q].job, j <= began'[q].length
               PROVE  Overtaken(j, call[q].job)'
    OBVIOUS
  <2>1. Spent(i, j) /\ j \in DOMAIN ledger
    BY <1>6 DEF Spent
  <2>2. call[ledger[j].run].job = call[q].job /\ j <= began[q].length /\ UnderWay(q)
    BY <1>4, <1>10, <2>1
  <2>3. Overtaken(j, call[q].job)
    BY <2>1, <2>2 DEF ISpent
  <2>4. PICK job : job = call[q].job /\ job = call'[q].job
    BY <1>10
  <2>5. Overtaken(j, job)'
    BY <1>7, <2>3, <2>4
  <2>6. QED
    BY <2>4, <2>5 DEF Overtaken
<1>12. \A i \in DOMAIN ledger' : pc'[ledger'[i].run] # "idle"
  BY <1>1, <1>4 DEF ISpent
<1>13. QED
  BY <1>1, <1>8, <1>9, <1>11, <1>12 DEF ISpent

\* An invocation is past the check because its ledger does not refuse it.
LEMMA SpentCheck ==
  ASSUME ISpent, IType', NEW r \in Runs, Check(r)
  PROVE  ISpent'
<1> USE DEF IType, TypeOK
<1>1. /\ IType /\ pc[r] = "begun" /\ UNCHANGED << ledger, call, began >>
      /\ \A q \in Runs : q # r => pc'[q] = pc[q]
  BY DEF Check, ISpent, Leave
<1>2. CASE pc'[r] = "over"
  BY <1>1, <1>2, SpentUndisturbed DEF UnderWay
<1>3. CASE pc'[r] = "checked" /\ ~ Unchanged(r)
  <2>1. \A i \in DOMAIN ledger : ledger[i].run \in Runs
    BY <1>1, RunsOfLedger
  <2>2. \A i, j : (Spent(i, j)' <=> Spent(i, j)) /\ (Follows(i, j)' <=> Follows(i, j))
    BY <1>1 DEF Spent, Follows
  <2>3. \A j, job : Overtaken(j, job)' <=> Overtaken(j, job)
    BY <1>1 DEF Overtaken
  <2>4. SpentCyclesStay'
    BY <1>1, <2>2 DEF ISpent, SpentCyclesStay
  <2>5. \A q \in Runs : UnderWay(q)' =>
         \A i, j \in Nat :
           Spent(i, j)' /\ call[ledger[j].run].job = call[q].job /\ j <= began[q].length
           => Overtaken(j, call[q].job)'
    <3>1. \A q \in Runs : UnderWay(q)' => UnderWay(q) \/ q = r
      BY <1>1 DEF UnderWay
    <3>2. \A i, j \in Nat : Spent(i, j) /\ call[ledger[j].run].job = call[r].job
                            => Overtaken(j, call[r].job)
      BY <1>1, <1>3, CheckRefusesSpent
    <3>3. ASSUME NEW q \in Runs, UnderWay(q)', NEW i \in Nat, NEW j \in Nat, Spent(i, j)',
                 call[ledger[j].run].job = call[q].job, j <= began[q].length
          PROVE  Overtaken(j, call[q].job)'
      <4>1. Spent(i, j)
        BY <2>2, <3>3
      <4>2. Overtaken(j, call[q].job)
        BY <3>1, <3>2, <3>3, <4>1 DEF ISpent
      <4>3. PICK job : job = call[q].job /\ job = call'[q].job
        BY <1>1
      <4>4. Overtaken(j, job)'
        BY <2>3, <4>2, <4>3
      <4>5. QED
        BY <4>3, <4>4 DEF Overtaken
    <3>4. QED
      BY <3>3
  <2>6. \A q \in Runs : pc'[q] # "idle" <=> pc[q] # "idle"
    BY <1>1, <1>3
  <2>7. QED
    BY <1>1, <2>1, <2>4, <2>5, <2>6 DEF ISpent
<1>4. QED
  BY <1>1, <1>2, <1>3 DEF Check, Leave

LEMMA ISpentInductive == ISpent /\ [Next]_vars => ISpent'
<1> SUFFICES ASSUME ISpent, [Next]_vars PROVE ISpent'
  OBVIOUS
<1>t. IType /\ IType'
  BY ITypeInductive DEF ISpent
<1> USE DEF IType, TypeOK, UnderWay
<1>1. ASSUME NEW r \in Runs, NEW p \in Pids, NEW c \in Asked[r], Start(r, p, c)
      PROVE  ISpent'
  BY <1>1, <1>t, SpentStart
<1>2. ASSUME NEW r \in Runs, Check(r)
      PROVE  ISpent'
  BY <1>2, <1>t, SpentCheck
<1>3. ASSUME NEW r \in Runs, AppendAttempt(r)
      PROVE  ISpent'
  BY <1>3, <1>t, SpentAppended
<1>4. ASSUME NEW r \in Runs,
             \/ Decline(r) \/ Acquire(r) \/ GiveUp(r) \/ Vanished(r) \/ Register(r)
             \/ Launch(r) \/ LaunchFails(r) \/ WorkerEnds(r)
      PROVE  ISpent'
  BY <1>4, <1>t, SpentUndisturbed
  DEF Decline, Acquire, GiveUp, Vanished, Register, Launch, LaunchFails, WorkerEnds, Leave
<1>5. ASSUME NEW r \in Runs,
             \/ Reap(r) \/ Kill(r) \/ KillTimesOut(r) \/ Unrecorded(r) \/ ShortWrite(r)
             \/ Deregister(r)
      PROVE  ISpent'
  BY <1>5, <1>t, SpentUndisturbed
  DEF Reap, Kill, KillTimesOut, Unrecorded, ShortWrite, AfterShortWrite, Deregister, Leave
<1>6. ASSUME NEW r \in Runs, Interrupt(r) \/ Crash(r)
      PROVE  ISpent'
  BY <1>6, <1>t, SpentUndisturbed DEF Interrupt, Crash, Alive, Holding
<1>7. CASE CensusStep
  BY <1>7, <1>t, SpentUndisturbed DEF CensusStep, CensusBegins, CensusEnds
<1>8. CASE UNCHANGED vars
  BY <1>8, <1>t, SpentUndisturbed DEF vars
<1>9. QED
  BY <1>1, <1>2, <1>3, <1>4, <1>5, <1>6, <1>7, <1>8 DEF Next, Step

\* A cycle that was spent stays spent for every invocation that starts later,
\* however the ledger grows between its check and its own attempt
\* (unchanged_redispatch_refusal outside the registry lock, append_attempt).
THEOREM SpentCyclesStayCorrect == Spec => []SpentCyclesStay
<1>1. Init => ISpent
  BY ITypeInitially DEF Init, ISpent, UnderWay, SpentCyclesStay
<1>2. ISpent => SpentCyclesStay
  BY DEF ISpent
<1>3. QED
  BY <1>1, <1>2, ISpentInductive, PTL DEF Spec
=============================================================================
