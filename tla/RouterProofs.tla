---------------------------- MODULE RouterProofs ----------------------------
(***************************************************************************)
(* The router: the verdict on an attempt, the supervised worker, the       *)
(* evidence ledger and the choice of routes.                               *)
(***************************************************************************)
EXTENDS Factory, InductionLemmas

LEMMA PartOfRouter == [FactoryNext]_everything => part' = part
BY DEF FactoryNext, everything, Time, Authorize, AssignWork, PassArtifacts, KeepRegistry,
       SelectRoutes, KeepEvidence, CaptureUsage, Dispatch, Judge

-----------------------------------------------------------------------------
(***************************************************************************)
(* A success is verified only by an oracle that ended in time, whatever    *)
(* the time is, how far a worker outlasts it, and what workers write.      *)
(***************************************************************************)

States == {"none", "running", "ended", "killed"}

\* The oracle is polled no later than its budget allows, so it ends, if it
\* does, within the budget.
Budgeted ==
  /\ dispatch.used \in 0..Total + MaxOver
  /\ elapsed <= Budget(dispatch.used)
  /\ oracle.state = "ended" =>
       oracle.at \in Nat /\ oracle.at <= Budget(dispatch.used)

\* An answer of 0 is the oracle's own.
Earned == oracle.state = "ended" /\ oracle.exit = 0

\* SuccessInTime relates the record to an oracle and a clock that are read
\* steps earlier: an outcome is final, since it is looked for only while the
\* oracle runs or has ended unseen, and so is what a record was built from.
VerdictInv ==
  /\ oracle \in [state : States, exit : {None, 0, 1, TimedOut}, at : Nat \cup {None}]
  /\ elapsed \in Nat
  /\ dispatch = None => oracle.state = "none" /\ elapsed = 0 /\ outcome = None
  /\ dispatch # None => Budgeted
  /\ oracle.state = "running" => outcome = None
  /\ outcome # None /\ outcome.exit = 0 => Earned
  /\ record # None => dispatch # None
  /\ record # None /\ record.gap = None =>
       /\ dispatch.exit = 0
       /\ outcome # None /\ outcome.exit = 0

LEMMA BudgetBound ==
  ASSUME NEW used \in 0..Total + MaxOver
  PROVE  /\ Budget(used) \in Nat
         /\ Budget(used) = 0 \/ used + Budget(used) <= Total
BY VerdictAssumption DEF Budget

LEMMA VerdictInit == ASSUME Init PROVE VerdictInv
BY VerdictAssumption DEF Init, VerdictInv, States

\* A success is verified only on the word of the oracle.
LEMMA GapClosed ==
  ASSUME NEW attested \in BOOLEAN, NEW measured \in BOOLEAN,
         NEW priced \in BOOLEAN, NEW subscription \in BOOLEAN,
         NEW mark \in {None, "judge_pass", "judge_fail"},
         Gap(attested, mark, measured, priced, subscription) = None
  PROVE  dispatch.exit = 0 /\ outcome # None /\ outcome.exit = 0
<1>1. dispatch.exit = 0 /\ Verdict(mark) = "pass"
  BY VerdictAssumption DEF Gap
<1>2. mark = None
  BY <1>1 DEF Verdict
<1>3. outcome # None /\ outcome.exit = 0
  BY <1>1, <1>2 DEF Verdict
<1> QED BY <1>1, <1>3

LEMMA VerdictStep ==
  ASSUME VerdictInv, [Next]_vars
  PROVE  VerdictInv'
<1> USE DEF VerdictInv
<1>1. CASE WorkerReturns
  <2>1. dispatch = None /\ UNCHANGED << oracle, elapsed, outcome, record >>
    BY <1>1 DEF WorkerReturns
  <2>2. dispatch'.used \in 0..Total + MaxOver
    <3>1. PICK asked \in BOOLEAN :
            \E used \in IF asked THEN 0..Total + MaxOver ELSE {0} :
              dispatch'.used = used
      BY <1>1 DEF WorkerReturns
    <3> QED BY <3>1, VerdictAssumption
  <2>3. Budgeted'
    BY <2>1, <2>2, BudgetBound, VerdictAssumption DEF Budgeted, Budget
  <2>4. record' = None /\ outcome' = None
    BY <2>1
  <2> QED BY <2>1, <2>3, <2>4 DEF Earned
<1>2. CASE Launch
  BY <1>2 DEF Launch, Budgeted, Budget, Earned, States
<1>3. CASE LaunchFails
  <2>1. /\ dispatch # None /\ oracle.state = "none" /\ outcome = None
        /\ UNCHANGED << dispatch, oracle, elapsed, record >>
    BY <1>3 DEF LaunchFails
  <2>2. outcome'.exit = None /\ outcome'.exit # 0
    BY <1>3, VerdictAssumption DEF LaunchFails
  <2> QED BY <2>1, <2>2 DEF Budgeted, Budget
<1>4. ASSUME NEW exit \in {0, 1, TimedOut}, OracleEnds(exit) PROVE VerdictInv'
  <2>1. /\ oracle.state = "running" /\ outcome = None
        /\ oracle' = [state |-> "ended", exit |-> exit, at |-> elapsed]
        /\ UNCHANGED << dispatch, elapsed, outcome, record >>
    BY <1>4 DEF OracleEnds
  <2> QED BY <2>1 DEF Budgeted, Budget, Earned, States
<1>5. CASE PollEnded
  <2>1. /\ oracle.state = "ended" /\ outcome = None
        /\ outcome'.exit = oracle.exit
        /\ UNCHANGED << dispatch, oracle, elapsed, record >>
    BY <1>5 DEF PollEnded
  <2> QED BY <2>1 DEF Budgeted, Budget, Earned
<1>6. CASE PollLate
  <2>1. /\ oracle.state = "running" /\ outcome = None
        /\ oracle' = [oracle EXCEPT !.state = "killed"]
        /\ outcome'.exit # 0
        /\ UNCHANGED << dispatch, elapsed, record >>
    BY <1>6 DEF PollLate, TimedOut
  <2> QED BY <2>1 DEF Budgeted, Budget, States
<1>7. CASE Sleep
  <2>1. /\ oracle.state = "running"
        /\ elapsed < Budget(dispatch.used) /\ elapsed' = elapsed + 1
        /\ UNCHANGED << dispatch, oracle, outcome, record >>
    BY <1>7 DEF Sleep
  <2>2. dispatch # None /\ Budget(dispatch.used) \in Nat
    BY <2>1, BudgetBound DEF Budgeted
  <2> QED BY <2>1, <2>2 DEF Budgeted, Budget, Earned
<1>8. ASSUME NEW attested \in BOOLEAN, NEW measured \in BOOLEAN,
             NEW priced \in BOOLEAN, NEW subscription \in BOOLEAN,
             NEW mark \in {None, "judge_pass", "judge_fail"},
             Conclude(attested, mark, measured, priced, subscription)
      PROVE  VerdictInv'
  <2>1. /\ dispatch # None
        /\ UNCHANGED << dispatch, oracle, elapsed, outcome >>
        /\ record'.gap = Gap(attested, mark, measured, priced, subscription)
    BY <1>8 DEF Conclude
  <2>2. record'.gap = None => dispatch.exit = 0 /\ outcome # None /\ outcome.exit = 0
    BY <2>1, GapClosed
  <2> QED BY <2>1, <2>2 DEF Budgeted, Budget, Earned
<1>9. CASE UNCHANGED vars
  BY <1>9 DEF vars, Budgeted, Budget, Earned
<1> QED BY <1>1, <1>2, <1>3, <1>4, <1>5, <1>6, <1>7, <1>8, <1>9 DEF Next

LEMMA VerdictImplies == ASSUME VerdictInv PROVE SuccessInTime
<1> SUFFICES ASSUME record # None, record.gap = None
             PROVE  /\ dispatch.exit = 0
                    /\ oracle.state = "ended" /\ oracle.exit = 0
                    /\ oracle.at = 0 \/ dispatch.used + oracle.at <= Total
  BY DEF SuccessInTime
<1>1. dispatch.exit = 0 /\ Earned /\ Budgeted
  BY DEF VerdictInv
<1>2. oracle.at = 0 \/ dispatch.used + oracle.at <= Total
  BY <1>1, BudgetBound, VerdictAssumption DEF Budgeted, Earned
<1> QED BY <1>1, <1>2 DEF Earned


\* The other parts have no attempt on record.
AttemptInv == IF part = "verdict" THEN VerdictInv ELSE record = None

LEMMA OnlyJudge ==
  ASSUME [FactoryNext]_everything
  PROVE  IF part = "verdict" THEN [Next]_vars ELSE UNCHANGED vars
BY DEF FactoryNext, everything, attempt, vars, Time, Authorize, AssignWork, PassArtifacts,
       KeepRegistry, SelectRoutes, KeepEvidence, CaptureUsage, Dispatch, Judge

LEMMA AttemptStarts == FactoryInit => AttemptInv
BY VerdictInit DEF FactoryInit, AttemptInv

LEMMA AttemptStep == AttemptInv /\ [FactoryNext]_everything => AttemptInv'
BY PartOfRouter, OnlyJudge, VerdictStep DEF AttemptInv, vars

\* A verified success was earned in time, by the oracle itself (run.py,
\* oracle_timeout_seconds, run_oracle, _verified_success_reason).
THEOREM SuccessInTimeCorrect == FactorySpec => []SuccessInTime
<1>1. AttemptInv => SuccessInTime
  BY VerdictImplies DEF AttemptInv, SuccessInTime
<1> QED BY <1>1, AttemptStarts, AttemptStep, PTL DEF FactorySpec

-----------------------------------------------------------------------------
(***************************************************************************)
(* What an event's context says is what a reader sees on its path, however *)
(* deep the event is.                                                      *)
(***************************************************************************)

WalkContexts == [metadata : BOOLEAN, locked : BOOLEAN, slot : BOOLEAN]

ContextWalk(f, path, n) ==
  f = [m \in 0..n |-> IF m = 0 THEN Unlocked ELSE Descend(f[m - 1], path[m], m = 1)]

LEMMA WalkExists ==
  ASSUME NEW path, NEW n \in Nat
  PROVE  \E f : ContextWalk(f, path, n)
<1> DEFINE D == WalkContexts
           F == [i \in 1..n |-> [c \in D |-> Descend(c, path[i], i = 1)]]
           base == Unlocked
<1>1. base \in D
  BY DEF Unlocked, WalkContexts
<1>2. F \in [1..n -> [D -> D]]
  BY DEF Descend, WalkContexts
<1> HIDE DEF D
<1>3. \E f \in [0..n -> D] : f[0] = base /\ \A i \in 1..n : f[i] = F[i][f[i - 1]]
  <2> HIDE DEF F, base
  <2> QED BY <1>1, <1>2, Iteration
<1>4. PICK f \in [0..n -> D] : f[0] = base /\ \A i \in 1..n : f[i] = F[i][f[i - 1]]
  <2> HIDE DEF F, base
  <2> QED BY <1>3
<1>5. \A i \in 1..n : f[i] = Descend(f[i - 1], path[i], i = 1)
  <2> SUFFICES ASSUME NEW i \in 1..n PROVE f[i] = Descend(f[i - 1], path[i], i = 1)
    OBVIOUS
  <2>1. f[i - 1] \in D
    OBVIOUS
  <2> QED BY <1>4, <2>1
<1>6. ContextWalk(f, path, n)
  BY <1>4, <1>5 DEF ContextWalk
<1> QED BY <1>6

\* Nothing on the way down to object m stands against the string.
Clear(path, m) ==
  /\ \A i \in 1..m : path[i].kind # "blocking"
  /\ \A i \in 1..m : path[i].kind = "completed" =>
       /\ i = 1 /\ m > 1
       /\ path[1].key \in SlotKeys /\ path[2].kind = "generated"

Explained(c, path, m) ==
  /\ c.locked <=> \E i \in 1..m : path[i].kind = "blocking"
  /\ c.slot <=> m = 1 /\ path[1].kind = "completed" /\ path[1].key \in SlotKeys
  /\ ~c.metadata <=> Clear(path, m)

LEMMA ExplainedStep ==
  ASSUME NEW path, NEW m \in Nat \ {0}, NEW c, Explained(c, path, m - 1)
  PROVE  Explained(Descend(c, path[m], m = 1), path, m)
<1> DEFINE d == Descend(c, path[m], m = 1)
           redeemed == ~c.locked /\ c.slot /\ path[m].kind = "generated"
<1>1. /\ d.metadata <=> \/ path[m].kind \in {"completed", "blocking"}
                        \/ (c.metadata /\ ~redeemed)
      /\ d.locked <=> c.locked \/ path[m].kind = "blocking"
      /\ d.slot <=> m = 1 /\ path[m].kind = "completed" /\ path[m].key \in SlotKeys
  BY DEF Descend
<1>2. \A i : i \in 1..m <=> i \in 1..m - 1 \/ i = m
  OBVIOUS
<1> HIDE DEF d
<1>3. d.locked <=> \E i \in 1..m : path[i].kind = "blocking"
  BY <1>1, <1>2 DEF Explained
<1>4. d.slot <=> m = 1 /\ path[1].kind = "completed" /\ path[1].key \in SlotKeys
  BY <1>1
<1>5. ~d.metadata <=> Clear(path, m)
  <2>1. CASE m = 1
    <3>1. ~c.metadata /\ ~c.slot
      BY <2>1 DEF Explained, Clear
    <3> QED BY <1>1, <2>1, <3>1 DEF Clear
  <2>2. CASE m = 2
    <3>1. c.slot <=> path[1].kind = "completed" /\ path[1].key \in SlotKeys
      BY <2>2 DEF Explained
    <3>2. ~c.metadata <=> path[1].kind # "blocking" /\ path[1].kind # "completed"
      BY <2>2 DEF Explained, Clear
    <3>3. c.locked <=> path[1].kind = "blocking"
      BY <2>2 DEF Explained
    <3>4. Clear(path, 2) <=>
            /\ path[1].kind # "blocking" /\ path[2].kind # "blocking"
            /\ path[2].kind # "completed"
            /\ path[1].kind = "completed" =>
                 path[1].key \in SlotKeys /\ path[2].kind = "generated"
      BY DEF Clear
    <3> QED BY <1>1, <2>2, <3>1, <3>2, <3>3, <3>4
  <2>3. CASE m > 2
    <3>1. ~c.slot
      BY <2>3 DEF Explained
    <3>2. Clear(path, m) <=> /\ Clear(path, m - 1)
                             /\ path[m].kind # "blocking" /\ path[m].kind # "completed"
      BY <1>2, <2>3 DEF Clear
    <3> QED BY <1>1, <3>1, <3>2 DEF Explained
  <2> QED BY <2>1, <2>2, <2>3
<1> QED BY <1>3, <1>4, <1>5 DEF Explained, d

LEMMA WorkTextIsAnswer ==
  ASSUME NEW path, Len(path) \in Nat \ {0}
  PROVE  HasWorkText(path) <=> Answers(path)
<1> DEFINE n == Len(path)
           context == CHOOSE f : ContextWalk(f, path, n)
           T == { m \in 0..n : Explained(context[m], path, m) }
<1>0. n \in Nat /\ n \in 1..n
  OBVIOUS
<1>1. ContextWalk(context, path, n)
  <2>1. \E f : ContextWalk(f, path, n)
    BY <1>0, WalkExists
  <2> QED BY <2>1
<1>2. HasWorkText(path) <=> ~context[n].metadata /\ path[n].key \in WorkKeys
  BY DEF HasWorkText, ContextWalk
<1> HIDE DEF context, n
<1>3. 0 \in T
  <2>1. context[0] = Unlocked
    BY <1>0, <1>1 DEF ContextWalk
  <2> QED BY <1>0, <2>1 DEF Unlocked, Explained, Clear
<1>4. ASSUME NEW i \in 1..n, i - 1 \in T PROVE i \in T
  <2>1. context[i] = Descend(context[i - 1], path[i], i = 1)
    BY <1>0, <1>1 DEF ContextWalk
  <2>2. Explained(context[i - 1], path, i - 1) /\ i \in Nat \ {0} /\ i \in 0..n
    BY <1>0, <1>4
  <2> QED BY <2>1, <2>2, ExplainedStep
<1>5. 0..n \subseteq T
  <2> HIDE DEF T
  <2> QED BY <1>0, <1>3, <1>4, UpTo
<1>6. Explained(context[n], path, n)
  BY <1>0, <1>5
<1>7. ~context[n].metadata <=> Clear(path, n)
  BY <1>6 DEF Explained
<1> QED BY <1>2, <1>7 DEF Clear, Answers, n

Answered(output) ==
  \/ << "prose" >> \in output
  \/ output = {<< "strings" >>}
  \/ \E line \in output : line[1] = "event" /\ Answers(line[2])

LEMMA WorkIsAnswered ==
  ASSUME NEW output \in Outputs
  PROVE  HasWork(output) <=> Answered(output)
<1>1. \A line \in output : line[1] = "event" => (HasWorkText(line[2]) <=> Answers(line[2]))
  BY OutputsAssumption, WorkTextIsAnswer
<1> QED BY <1>1 DEF HasWork, Answered

\* Without an oracle the record says what the worker's return says, which does
\* not change any more.
Unasked ==
  dispatch # None /\ ~dispatch.asked =>
    /\ oracle.state = "none" /\ outcome = None
    /\ dispatch.output \in Outputs
    /\ record # None => /\ record.failure = FailureClass
                        /\ NoWork => record.exit = 3

UnaskedInv == IF part = "verdict" THEN VerdictInv /\ Unasked ELSE record = None

LEMMA UnaskedStep ==
  ASSUME VerdictInv, Unasked, [Next]_vars
  PROVE  Unasked'
<1>1. CASE WorkerReturns
  <2>1. dispatch = None /\ oracle.state = "none" /\ outcome = None /\ record = None
        /\ UNCHANGED << oracle, outcome, record >>
    BY <1>1 DEF WorkerReturns, VerdictInv
  <2>2. ~dispatch'.asked => dispatch'.output \in Outputs
    BY <1>1 DEF WorkerReturns
  <2> QED BY <2>1, <2>2 DEF Unasked
<1>2. CASE Launch \/ LaunchFails
  BY <1>2 DEF Launch, LaunchFails, Unasked
<1>3. CASE \E exit \in {0, 1, TimedOut} : OracleEnds(exit)
  BY <1>3 DEF OracleEnds, Unasked, VerdictInv
<1>4. CASE PollEnded \/ PollLate \/ Sleep
  BY <1>4 DEF PollEnded, PollLate, Sleep, Unasked, VerdictInv
<1>5. ASSUME NEW attested \in BOOLEAN, NEW measured \in BOOLEAN,
             NEW priced \in BOOLEAN, NEW subscription \in BOOLEAN,
             NEW mark \in {None, "judge_pass", "judge_fail"},
             Conclude(attested, mark, measured, priced, subscription)
      PROVE  Unasked'
  <2>1. /\ UNCHANGED << dispatch, oracle, elapsed, outcome >>
        /\ record'.failure = FailureClass
        /\ NoWork => record'.exit = 3
    BY <1>5 DEF Conclude
  <2>2. FailureClass' = FailureClass /\ (NoWork' <=> NoWork)
    BY <2>1 DEF FailureClass, NoWork
  <2> QED BY <2>1, <2>2 DEF Unasked
<1>6. CASE UNCHANGED vars
  BY <1>6 DEF vars, Unasked, FailureClass, NoWork
<1> QED BY <1>1, <1>2, <1>3, <1>4, <1>5, <1>6 DEF Next

LEMMA UnaskedImplies == ASSUME VerdictInv, Unasked PROVE NothingDoneIsSaid
<1> SUFFICES ASSUME record # None, ~dispatch.asked
             PROVE  /\ record.failure = "platform_env"
                         <=> dispatch.exit = 0 /\ dispatch.changed = FALSE
                               /\ ~Answered(dispatch.output)
                    /\ record.failure = "platform_env" => record.exit # 0
  BY DEF NothingDoneIsSaid, Answered
<1>1. dispatch # None
  BY DEF VerdictInv
<1>2. /\ oracle.state = "none" /\ outcome = None /\ dispatch.output \in Outputs
      /\ record.failure = FailureClass /\ (NoWork => record.exit = 3)
  BY <1>1 DEF Unasked
<1>3. NoWork <=> dispatch.exit = 0 /\ dispatch.changed = FALSE /\ ~Answered(dispatch.output)
  BY <1>2, WorkIsAnswered DEF NoWork
<1>4. FailureClass = "platform_env" <=> NoWork
  <2>1. None # "platform_env"
    BY VerdictAssumption
  <2> QED BY <1>2, <2>1 DEF FailureClass, NoWork, TimedOut
<1> QED BY <1>2, <1>3, <1>4

\* A worker is said to have done nothing exactly when it gave no answer, at any
\* depth of its events (no_work_evidence, _json_has_work_text).
THEOREM NothingDoneCorrect == FactorySpec => []NothingDoneIsSaid
<1>1. FactoryInit => UnaskedInv
  <2>1. Init => Unasked
    BY DEF Init, Unasked
  <2> QED BY <2>1, VerdictInit DEF FactoryInit, UnaskedInv
<1>2. UnaskedInv /\ [FactoryNext]_everything => UnaskedInv'
  BY PartOfRouter, OnlyJudge, VerdictStep, UnaskedStep DEF UnaskedInv, vars
<1>3. UnaskedInv => NothingDoneIsSaid
  BY UnaskedImplies DEF UnaskedInv, NothingDoneIsSaid
<1> QED BY <1>1, <1>2, <1>3, PTL DEF FactorySpec

-----------------------------------------------------------------------------
(***************************************************************************)
(* The kill is exact, for any number of processes, births and passes.      *)
(***************************************************************************)

\* The process the supervisor remembers under p is still there.
Caught(p) == p \in DOMAIN known /\ proc[p] # Free /\ proc[p].born = known[p].born

Still(p) == proc[p].run # "runs"

TableOK ==
  /\ proc \in [Pids -> W!ProcessRecord \cup {Free}]
  /\ births \in Nat
  /\ phase \notin {"exited", "killed"} => proc[Root] # Free /\ proc[Root].tree
  /\ \A p \in Pids : proc[p] # Free =>
       /\ proc[p].born <= births
       /\ ~proc[p].tree => proc[p].parent = Init1 /\ proc[p].group # Root /\ ~proc[p].marked

MemoryOK ==
  /\ DOMAIN known \subseteq Pids
  /\ passes \in Nat
  /\ \A p \in DOMAIN known : /\ known[p].born \in Nat /\ known[p].born <= births
                             /\ Caught(p) => proc[p].tree

Killing == {"look", "freeze", "last_look", "kill"}

\* From the first look at the marked processes on: who carries the marker and
\* is known is known as itself, or else an id was reused; and what was stopped
\* in one pass is what the next one finds.
KillOK ==
  /\ phase \in {"poll", "stop_root"} => before = {}
  /\ phase \in Killing => Still(Root)
  /\ phase \in Killing \cup {"stop_root"} /\ ~reused =>
       \A p \in W!Marked : p \in DOMAIN known => Caught(p)
  /\ phase = "look" => before \subseteq DOMAIN known
  /\ phase \in {"freeze", "kill"} => todo \subseteq DOMAIN known
  /\ phase = "look" /\ ~reused => \A p \in W!Marked : p \in before => Still(p)
  /\ phase = "freeze" => \A p \in DOMAIN known \ todo : Caught(p) => Still(p)
  /\ phase = "freeze" /\ ~reused /\ DOMAIN known = before => \A p \in W!Marked : Still(p)
  /\ phase \in {"last_look", "kill"} /\ passes < MaxPasses /\ ~reused =>
       \A p \in W!Marked : Still(p)
  /\ phase = "kill" /\ passes < MaxPasses /\ ~reused =>
       \A p \in W!Marked : p \in todo /\ Caught(p)

DispatchKept == TableOK /\ MemoryOK /\ KillOK

DispatchInv == part = "dispatch" => DispatchKept

-----------------------------------------------------------------------------
\* Nobody is born and strangers are left alone.
Wanes ==
  /\ proc' \in [Pids -> W!ProcessRecord \cup {Free}]
  /\ \A p \in Pids : proc'[p] # Free =>
       /\ proc[p] # Free
       /\ proc'[p].born = proc[p].born /\ proc'[p].tree = proc[p].tree
       /\ proc'[p].marked = proc[p].marked /\ proc'[p].group = proc[p].group
       /\ Still(p) => Still(p)'
  /\ \A p \in Pids : proc[p] # Free /\ ~proc[p].tree => proc'[p] = proc[p]

LEMMA EndedWanes ==
  ASSUME TableOK, NEW dead, dead \subseteq Pids,
         \A p \in dead : proc[p] # Free => proc[p].tree,
         Root \in dead => proc[Root] # Free,
         proc' = W!Ended(dead)
  PROVE  /\ Wanes
         /\ \A p \in dead \ {Root} : proc'[p] = Free
         /\ Root \notin dead \/ proc'[Root] # Free
         /\ Root \in dead \/ proc[Root] = Free \/ proc'[Root] # Free
         /\ \A p \in Pids \ dead : proc[p] # Free => proc'[p] # Free
<1>0. /\ Free \notin W!ProcessRecord /\ Init1 \notin Pids /\ Root \in Pids
      /\ proc \in [Pids -> W!ProcessRecord \cup {Free}]
  BY FactoryAssumption DEF W!Assumption, TableOK
<1>1. \A p \in Pids : proc[p] # Free => proc[p] \in W!ProcessRecord
  BY <1>0
<1>2. ASSUME NEW p \in Pids
      PROVE  /\ proc'[p] \in W!ProcessRecord \cup {Free}
             /\ proc'[p] # Free =>
                   /\ proc[p] # Free
                   /\ proc'[p].born = proc[p].born /\ proc'[p].tree = proc[p].tree
                   /\ proc'[p].marked = proc[p].marked /\ proc'[p].group = proc[p].group
                   /\ proc[p].run # "runs" => proc'[p].run # "runs"
             /\ proc[p] # Free /\ ~proc[p].tree => proc'[p] = proc[p]
             /\ p \in dead \ {Root} => proc'[p] = Free
             /\ p \notin dead \/ p = Root => (proc[p] # Free => proc'[p] # Free)
  <2>1. CASE p \in dead /\ p # Root
    <3>1. proc'[p] = Free
      BY <1>0, <2>1 DEF W!Ended
    <3> QED BY <2>1, <3>1
  <2>2. CASE p \in dead /\ p = Root
    <3>1. proc'[p] = [proc[p] EXCEPT !.run = "zombie"] /\ proc[p] \in W!ProcessRecord
          /\ proc[p].tree
      BY <1>0, <1>1, <2>2 DEF W!Ended
    <3>2. proc'[p] \in W!ProcessRecord
      BY <3>1 DEF W!ProcessRecord
    <3> QED BY <1>0, <2>2, <3>1, <3>2 DEF W!ProcessRecord
  <2>3. CASE p \notin dead /\ p \in W!Alive /\ proc[p].parent \in dead
    <3>1. proc'[p] = [proc[p] EXCEPT !.parent = Init1] /\ proc[p] \in W!ProcessRecord
      BY <1>0, <1>1, <2>3 DEF W!Ended, W!Alive
    <3>2. proc'[p] \in W!ProcessRecord
      BY <3>1 DEF W!ProcessRecord
    <3>3. proc[p].tree
      BY <1>0, <2>3 DEF TableOK, W!Alive
    <3> QED BY <1>0, <2>3, <3>1, <3>2, <3>3 DEF W!ProcessRecord
  <2>4. CASE p \notin dead /\ ~(p \in W!Alive /\ proc[p].parent \in dead)
    <3>1. proc'[p] = proc[p]
      BY <2>4 DEF W!Ended
    <3> QED BY <1>0, <2>4, <3>1
  <2> QED BY <2>1, <2>2, <2>3, <2>4
<1>3. proc' = [p \in Pids |-> proc'[p]]
  BY DEF W!Ended
<1>4. proc' \in [Pids -> W!ProcessRecord \cup {Free}]
  BY <1>2, <1>3
<1>5. Wanes
  BY <1>2, <1>4 DEF Wanes, Still
<1> QED BY <1>0, <1>2, <1>5

LEMMA StoppedWanes ==
  ASSUME TableOK, NEW held, held \subseteq Pids,
         \A p \in held : proc[p] # Free /\ proc[p].tree,
         proc' = W!Stopped(held)
  PROVE  /\ Wanes
         /\ \A p \in held : Still(p)'
         /\ \A p \in Pids : proc[p] # Free => proc'[p] # Free
<1>0. /\ Free \notin W!ProcessRecord
      /\ proc \in [Pids -> W!ProcessRecord \cup {Free}]
  BY FactoryAssumption DEF W!Assumption, TableOK
<1>1. ASSUME NEW p \in Pids
      PROVE  /\ proc'[p] \in W!ProcessRecord \cup {Free}
             /\ proc'[p] # Free =>
                   /\ proc[p] # Free
                   /\ proc'[p].born = proc[p].born /\ proc'[p].tree = proc[p].tree
                   /\ proc'[p].marked = proc[p].marked /\ proc'[p].group = proc[p].group
                   /\ proc[p].run # "runs" => proc'[p].run # "runs"
             /\ proc[p] # Free /\ ~proc[p].tree => proc'[p] = proc[p]
             /\ proc[p] # Free => proc'[p] # Free
             /\ p \in held => proc'[p].run # "runs"
  <2>1. CASE p \in held /\ proc[p].run = "runs"
    <3>1. proc'[p] = [proc[p] EXCEPT !.run = "stopped"] /\ proc[p] \in W!ProcessRecord
      BY <1>0, <2>1 DEF W!Stopped
    <3>2. proc'[p] \in W!ProcessRecord
      BY <3>1 DEF W!ProcessRecord
    <3> QED BY <1>0, <2>1, <3>1, <3>2 DEF W!ProcessRecord
  <2>2. CASE ~(p \in held /\ proc[p].run = "runs")
    <3>1. proc'[p] = proc[p]
      BY <2>2 DEF W!Stopped
    <3> QED BY <1>0, <2>2, <3>1
  <2> QED BY <2>1, <2>2
<1>2. proc' = [p \in Pids |-> proc'[p]]
  BY DEF W!Stopped
<1>3. proc' \in [Pids -> W!ProcessRecord \cup {Free}]
  BY <1>1, <1>2
<1>4. Wanes
  BY <1>1, <1>3 DEF Wanes, Still
<1> QED BY <1>1, <1>4 DEF Still

LEMMA DescendantsAreTree ==
  ASSUME TableOK, NEW p \in W!Descendants
  PROVE  p \in Pids /\ proc[p] # Free /\ proc[p].tree
<1> DEFINE kin == { q \in W!Alive : proc[q].parent \in Pids }
<1>1. W!Closed(kin)
  BY FactoryAssumption DEF W!Assumption, W!Closed, W!Children, W!Alive
<1>2. p \in W!Alive /\ \A set \in SUBSET W!Alive : W!Closed(set) => p \in set
  BY DEF W!Descendants
<1>3. p \in kin
  BY <1>1, <1>2
<1> QED BY <1>3, FactoryAssumption DEF W!Assumption, TableOK, W!Alive

\* What a look leaves behind: identities as they are, all of the worker's tree,
\* and with the marker every one that carries it.
LEMMA RefreshLearns ==
  ASSUME TableOK, MemoryOK, NEW byMarker \in BOOLEAN, W!Refresh(byMarker)
  PROVE  /\ DOMAIN known' \subseteq Pids
         /\ \A p \in DOMAIN known' : /\ proc[p] # Free /\ proc[p].tree
                                     /\ known'[p].born = proc[p].born
         /\ byMarker => W!Marked \subseteq DOMAIN known'
<1> DEFINE same == { p \in DOMAIN known : p \in W!Alive /\ proc[p].born = known[p].born }
           gone == stale \cup (DOMAIN known \ same)
           marked == IF byMarker THEN W!Marked ELSE {}
           related == W!Descendants \ gone
           depths(p) == (IF p \in same THEN {known[p].depth} ELSE {})
                        \cup (IF p \in related THEN {W!Depth(p)} ELSE {})
                        \cup (IF p \in marked THEN {1} ELSE {})
<1>1. known' = [p \in same \cup related \cup marked |->
                  [born |-> proc[p].born, depth |-> W!Min(depths(p))]]
  BY DEF W!Refresh
<1>2. /\ \A p \in same : p \in Pids /\ proc[p] # Free /\ proc[p].tree
      /\ \A p \in related : p \in Pids /\ proc[p] # Free /\ proc[p].tree
      /\ \A p \in W!Marked : p \in Pids /\ proc[p] # Free /\ proc[p].tree
  <2>1. \A p \in same : p \in Pids /\ proc[p] # Free /\ proc[p].tree
    BY DEF MemoryOK, Caught, W!Alive
  <2>2. \A p \in related : p \in Pids /\ proc[p] # Free /\ proc[p].tree
    <3> HIDE DEF gone
    <3> QED BY DescendantsAreTree
  <2>3. \A p \in W!Marked : p \in Pids /\ proc[p] # Free /\ proc[p].tree
    BY DEF TableOK, W!Marked, W!Alive
  <2> QED BY <2>1, <2>2, <2>3
<1> HIDE DEF same, related, depths, gone
<1> QED BY <1>1, <1>2

LEMMA WanesTable ==
  ASSUME TableOK, Wanes, births' = births,
         phase \in {"exited", "killed"} => phase' \in {"exited", "killed"},
         phase' \notin {"exited", "killed"} => proc'[Root] # Free
  PROVE  TableOK'
<1>1. Root \in Pids
  BY FactoryAssumption DEF W!Assumption
<1>2. phase' \notin {"exited", "killed"} => proc'[Root] # Free /\ proc'[Root].tree
  BY <1>1 DEF TableOK, Wanes
<1>3. ASSUME NEW p \in Pids, proc'[p] # Free
      PROVE  /\ proc'[p].born <= births'
             /\ ~proc'[p].tree =>
                   proc'[p].parent = Init1 /\ proc'[p].group # Root /\ ~proc'[p].marked
  BY <1>3 DEF TableOK, Wanes
<1> QED BY <1>2, <1>3 DEF TableOK, Wanes

LEMMA WanesMemory ==
  ASSUME TableOK, MemoryOK, Wanes, births' = births, known' = known, passes' = passes
  PROVE  MemoryOK'
<1>1. ASSUME NEW p \in DOMAIN known, Caught(p)' PROVE Caught(p)
  BY <1>1 DEF MemoryOK, Wanes, Caught
<1> QED BY <1>1 DEF MemoryOK, Wanes, Caught

LEMMA WanesMarked ==
  ASSUME Wanes, NEW p \in W!Marked'
  PROVE  p \in W!Marked /\ p \in Pids \ {Root} /\ proc'[p] # Free /\ proc[p] # Free
         /\ (Still(p) => Still(p)') /\ (known' = known /\ Caught(p) => Caught(p)')
BY DEF Wanes, W!Marked, W!Alive, Caught

\* A look: the processes stay as they are, and what is known is right.
LEMMA LookMemory ==
  ASSUME TableOK, MemoryOK, NEW byMarker \in BOOLEAN, W!Refresh(byMarker), Wanes,
         births' = births, passes' \in Nat
  PROVE  MemoryOK'
<1>1. /\ DOMAIN known' \subseteq Pids
      /\ \A p \in DOMAIN known' : /\ proc[p] # Free /\ proc[p].tree
                                  /\ known'[p].born = proc[p].born
  BY RefreshLearns
<1>2. \A p \in Pids : proc[p] # Free => proc[p].born \in Nat /\ proc[p].born <= births
  BY DEF TableOK, W!ProcessRecord
<1> QED BY <1>1, <1>2 DEF MemoryOK, Caught, Wanes
-----------------------------------------------------------------------------
\* A birth: nobody takes a known identity, and only a running process that
\* carries the marker has a child that does.
LEMMA BirthKeeps ==
  ASSUME DispatchKept, NEW q \in Pids, NEW child \in W!ProcessRecord,
         proc[q] = Free, proc' = [proc EXCEPT ![q] = child],
         births' = births + 1, child.born = births + 1,
         ~child.tree => child.parent = Init1 /\ child.group # Root /\ ~child.marked,
         child.marked => \E p \in W!Marked \cup {Root} : ~Still(p),
         phase # "poll" /\ q \in DOMAIN known /\ child.marked => reused',
         reused => reused',
         phase \notin {"exited", "killed"},
         UNCHANGED << known, stale, phase, todo, before, passes >>
  PROVE  DispatchKept' /\ W!OnlyTheWorkersTree
<1>0. /\ Free \notin W!ProcessRecord /\ Root \in Pids
      /\ proc \in [Pids -> W!ProcessRecord \cup {Free}] /\ births \in Nat
      /\ proc[Root] # Free /\ proc[Root].tree /\ q # Root
  BY FactoryAssumption DEF W!Assumption, DispatchKept, TableOK
<1>1. /\ proc' \in [Pids -> W!ProcessRecord \cup {Free}]
      /\ proc'[q] = child /\ child # Free
      /\ \A p \in Pids \ {q} : proc'[p] = proc[p]
  BY <1>0
<1>2. TableOK'
  <2>1. ASSUME NEW p \in Pids, proc'[p] # Free
        PROVE  /\ proc'[p].born <= births'
               /\ ~proc'[p].tree =>
                     proc'[p].parent = Init1 /\ proc'[p].group # Root /\ ~proc'[p].marked
    <3>1. CASE p = q
      BY <1>0, <1>1, <3>1
    <3>2. CASE p # q
      <4>1. proc[p].born \in Nat /\ proc[p].born <= births
        BY <1>0, <1>1, <2>1, <3>2 DEF DispatchKept, TableOK, W!ProcessRecord
      <4> QED BY <1>0, <1>1, <2>1, <3>2, <4>1 DEF DispatchKept, TableOK
    <3> QED BY <3>1, <3>2
  <2> QED BY <1>0, <1>1, <2>1 DEF TableOK
<1>3. \A p \in DOMAIN known : /\ Caught(p)' => Caught(p) /\ p # q
                              /\ Caught(p) => Caught(p)'
  <2> SUFFICES ASSUME NEW p \in DOMAIN known
               PROVE  (Caught(p)' => Caught(p) /\ p # q) /\ (Caught(p) => Caught(p)')
    OBVIOUS
  <2>1. known[p].born \in Nat /\ known[p].born <= births /\ p \in Pids
    BY DEF DispatchKept, MemoryOK
  <2>2. CASE p = q
    <3>1. ~Caught(p)
      BY <2>2 DEF Caught
    <3>2. proc'[p].born = births + 1 /\ known'[p] = known[p]
      BY <1>1, <2>2
    <3>3. ~Caught(p)'
      BY <1>0, <2>1, <3>2 DEF Caught
    <3> QED BY <3>1, <3>3
  <2>3. CASE p # q
    BY <1>1, <2>1, <2>3 DEF Caught
  <2> QED BY <2>2, <2>3
<1>4. MemoryOK'
  <2>1. \A p \in DOMAIN known : Caught(p)' => proc'[p].tree
    BY <1>1, <1>3 DEF DispatchKept, MemoryOK
  <2>2. \A p \in DOMAIN known : known[p].born <= births'
    BY <1>0 DEF DispatchKept, MemoryOK
  <2> QED BY <2>1, <2>2 DEF DispatchKept, MemoryOK
<1>5. W!Marked' = W!Marked \cup {p \in {q} : child.marked}
  BY <1>0, <1>1 DEF W!Marked, W!Alive
<1>6. \A p \in W!Marked \cup {Root} : p \in Pids \ {q} /\ (Still(p)' <=> Still(p))
  BY <1>0, <1>1 DEF W!Marked, W!Alive, Still
<1>7. \A p \in DOMAIN known : Caught(p) => (Still(p) => Still(p)')
  BY <1>1, <1>3 DEF DispatchKept, MemoryOK, Still
<1>8. KillOK'
  <2> DEFINE quiet == child.marked => ~(\A p \in W!Marked : Still(p)) \/ ~Still(Root)
  <2>1. quiet
    OBVIOUS
  <2>2. phase \in Killing \cup {"stop_root"} /\ ~reused' =>
          \A p \in W!Marked' : p \in DOMAIN known' => Caught(p)'
    BY <1>3, <1>5 DEF DispatchKept, KillOK, Killing
  <2>3. phase = "look" /\ ~reused' => \A p \in W!Marked' : p \in before' => Still(p)'
    BY <1>5, <1>6 DEF DispatchKept, KillOK
  <2>4. phase = "freeze" => \A p \in DOMAIN known' \ todo' : Caught(p)' => Still(p)'
    BY <1>3, <1>7 DEF DispatchKept, KillOK
  <2>5. phase = "freeze" /\ ~reused' /\ DOMAIN known' = before' =>
          \A p \in W!Marked' : Still(p)'
    BY <1>5, <1>6, <2>1 DEF DispatchKept, KillOK, Killing
  <2>6. phase \in {"last_look", "kill"} /\ passes < MaxPasses /\ ~reused' =>
          \A p \in W!Marked' : Still(p)'
    BY <1>5, <1>6, <2>1 DEF DispatchKept, KillOK, Killing
  <2>7. phase = "kill" /\ passes < MaxPasses /\ ~reused' =>
          \A p \in W!Marked' : p \in todo' /\ Caught(p)'
    <3> SUFFICES ASSUME phase = "kill", passes < MaxPasses, ~reused'
                 PROVE  \A p \in W!Marked' : p \in todo' /\ Caught(p)'
      OBVIOUS
    <3>1. ~child.marked
      BY <2>1 DEF DispatchKept, KillOK, Killing
    <3> QED BY <1>3, <1>5, <3>1 DEF DispatchKept, KillOK, Caught
  <2>8. phase \in Killing => Still(Root)'
    BY <1>6 DEF DispatchKept, KillOK
  <2> QED BY <2>2, <2>3, <2>4, <2>5, <2>6, <2>7, <2>8 DEF DispatchKept, KillOK
<1>9. W!OnlyTheWorkersTree
  BY <1>0, <1>1 DEF W!OnlyTheWorkersTree, W!Alive
<1> QED BY <1>2, <1>4, <1>8, <1>9 DEF DispatchKept

LEMMA ForkKeeps ==
  ASSUME DispatchKept, phase \notin {"exited", "killed"},
         NEW p \in Pids, NEW q \in Pids, NEW ownGroup \in BOOLEAN, NEW keepsMarker \in BOOLEAN,
         W!Fork(p, q, ownGroup, keepsMarker)
  PROVE  DispatchKept' /\ W!OnlyTheWorkersTree
<1> DEFINE child == W!Process(p, IF ownGroup THEN q ELSE proc[p].group,
                              proc[p].marked /\ keepsMarker, TRUE, births + 1)
<1>1. /\ proc[q] = Free /\ births' = births + 1
      /\ proc' = [proc EXCEPT ![q] = child]
      /\ reused' = (reused \/ (phase # "poll" /\ q \in DOMAIN known /\ proc'[q].marked))
      /\ UNCHANGED << known, stale, phase, todo, before, passes >>
      /\ proc[p] # Free /\ proc[p].run = "runs"
  BY DEF W!Fork, W!CanStart, W!Alive
<1>2. proc[p] \in W!ProcessRecord /\ births \in Nat /\ Free \notin W!ProcessRecord
      /\ proc \in [Pids -> W!ProcessRecord \cup {Free}]
  BY <1>1, FactoryAssumption DEF W!Assumption, DispatchKept, TableOK
<1>3. child \in W!ProcessRecord
  BY <1>2 DEF W!ProcessRecord, W!Process
<1>4. /\ child.born = births + 1 /\ child.tree
      /\ child.marked = (proc[p].marked /\ keepsMarker)
  BY DEF W!Process
<1>5. child.marked => \E parent \in W!Marked \cup {Root} : ~Still(parent)
  BY <1>1, <1>4 DEF W!Marked, W!Alive, Still
<1>6. proc'[q] = child
  BY <1>1, <1>2
<1> HIDE DEF child
<1> QED BY <1>1, <1>3, <1>4, <1>5, <1>6, BirthKeeps

LEMMA AppearKeeps ==
  ASSUME DispatchKept, phase \notin {"exited", "killed"}, NEW q \in Pids, W!Appear(q)
  PROVE  DispatchKept' /\ W!OnlyTheWorkersTree
<1> DEFINE child == W!Process(Init1, q, FALSE, FALSE, births + 1)
<1>1. /\ proc[q] = Free /\ births' = births + 1
      /\ proc' = [proc EXCEPT ![q] = child]
      /\ UNCHANGED << known, stale, phase, todo, before, passes, reused >>
  BY DEF W!Appear, W!CanStart
<1>2. births \in Nat /\ q # Root
  BY <1>1 DEF DispatchKept, TableOK
<1>3. child \in W!ProcessRecord
  BY <1>2 DEF W!ProcessRecord, W!Process
<1>4. /\ child.born = births + 1 /\ child.marked = FALSE
      /\ child.parent = Init1 /\ child.group # Root
  BY <1>2 DEF W!Process
<1> HIDE DEF child
<1> QED BY <1>1, <1>3, <1>4, BirthKeeps
-----------------------------------------------------------------------------
\* A death or a signal: what is taken off the round was stopped, or is gone.
LEMMA SignalKeeps ==
  ASSUME DispatchKept, Wanes, UNCHANGED << births, known, phase, before, passes, reused >>,
         phase \notin {"exited", "killed"}, proc'[Root] # Free, todo' \subseteq todo,
         \A p \in todo \ todo' :
           /\ p \in DOMAIN known => (Caught(p)' => Still(p)')
           /\ phase = "kill" /\ passes < MaxPasses /\ ~reused => p \notin W!Marked'
  PROVE  DispatchKept' /\ (phase # "wait" => W!OnlyTheWorkersTree)
<1>1. TableOK' /\ MemoryOK'
  BY WanesTable, WanesMemory DEF DispatchKept
<1>2. \A p \in W!Marked' : p \in W!Marked /\ (Still(p) => Still(p)') /\ (Caught(p) => Caught(p)')
  BY WanesMarked
<1>3. \A p \in DOMAIN known : Caught(p)' => Caught(p) /\ (Still(p) => Still(p)')
  BY DEF DispatchKept, MemoryOK, Wanes, Caught
<1>4. KillOK'
  <2>1. phase = "freeze" => \A p \in DOMAIN known \ todo' : Caught(p)' => Still(p)'
    BY <1>3 DEF DispatchKept, KillOK
  <2>2. phase = "kill" /\ passes < MaxPasses /\ ~reused =>
          \A p \in W!Marked' : p \in todo' /\ Caught(p)'
    BY <1>2 DEF DispatchKept, KillOK
  <2>3. Still(Root) => Still(Root)'
    BY FactoryAssumption DEF W!Assumption, Wanes
  <2>4. /\ phase \in Killing \cup {"stop_root"} /\ ~reused =>
             \A p \in W!Marked' : p \in DOMAIN known => Caught(p)'
        /\ phase = "look" /\ ~reused => \A p \in W!Marked' : p \in before => Still(p)'
        /\ phase = "freeze" /\ ~reused /\ DOMAIN known = before =>
             \A p \in W!Marked' : Still(p)'
        /\ phase \in {"last_look", "kill"} /\ passes < MaxPasses /\ ~reused =>
             \A p \in W!Marked' : Still(p)'
    BY <1>2 DEF DispatchKept, KillOK
  <2>5. phase \in Killing => Still(Root)'
    BY <2>3 DEF DispatchKept, KillOK
  <2> QED BY <2>1, <2>2, <2>4, <2>5 DEF DispatchKept, KillOK
<1>5. phase # "wait" => W!OnlyTheWorkersTree
  BY DEF Wanes, W!OnlyTheWorkersTree, W!Alive
<1> QED BY <1>1, <1>4, <1>5 DEF DispatchKept

\* Whom a remembered identity reaches.
LEMMA ReachedTree ==
  ASSUME DispatchKept, NEW p \in DOMAIN known
  PROVE  /\ W!Reached(p) \subseteq Pids
         /\ \A q \in W!Reached(p) : q = p /\ proc[q] # Free /\ proc[q].tree
         /\ Caught(p) => p \in W!Reached(p)
BY DEF W!Reached, W!Alive, DispatchKept, MemoryOK, Caught

LEMMA ExitKeeps ==
  ASSUME DispatchKept, phase \notin {"exited", "wait", "wait_fallback", "killed", "raised"},
         NEW p \in Pids, W!Exit(p)
  PROVE  DispatchKept' /\ W!OnlyTheWorkersTree
<1>1. /\ proc[p] # Free /\ proc[p].tree /\ proc' = W!Ended({p})
      /\ UNCHANGED << births, known, stale, phase, todo, before, passes, reused >>
  BY DEF W!Exit, W!Alive
<1>2. Wanes /\ proc'[Root] # Free
  <2>1. {p} \subseteq Pids /\ \A q \in {p} : proc[q] # Free => proc[q].tree
    BY <1>1
  <2>2. proc[Root] # Free /\ TableOK
    BY DEF DispatchKept, TableOK
  <2> HIDE DEF DispatchKept
  <2> QED BY <1>1, <2>1, <2>2, EndedWanes
<1> QED BY <1>1, <1>2, SignalKeeps

LEMMA FreezeKeeps ==
  ASSUME DispatchKept, NEW p \in todo, W!Freeze(p)
  PROVE  DispatchKept' /\ W!OnlyTheWorkersTree
<1>1. /\ phase = "freeze" /\ proc' = W!Stopped(W!Reached(p)) /\ todo' = todo \ {p}
      /\ UNCHANGED << births, known, stale, phase, before, passes, reused >>
  BY DEF W!Freeze
<1>2. /\ W!Reached(p) \subseteq Pids
      /\ \A q \in W!Reached(p) : q = p /\ proc[q] # Free /\ proc[q].tree
      /\ Caught(p) => p \in W!Reached(p)
  <2>1. p \in DOMAIN known
    BY <1>1 DEF DispatchKept, KillOK
  <2> QED BY <2>1, ReachedTree
<1>3. /\ Wanes /\ \A q \in W!Reached(p) : Still(q)'
      /\ \A q \in Pids : proc[q] # Free => proc'[q] # Free
  BY <1>1, <1>2, StoppedWanes DEF DispatchKept
<1>4. proc'[Root] # Free
  BY <1>1, <1>3, FactoryAssumption DEF W!Assumption, DispatchKept, TableOK
<1>5. Caught(p)' => Still(p)'
  BY <1>1, <1>2, <1>3 DEF Caught, Wanes, DispatchKept, MemoryOK
<1> QED BY <1>1, <1>3, <1>4, <1>5, SignalKeeps

LEMMA KillKeeps ==
  ASSUME DispatchKept, NEW p \in todo, W!Kill(p)
  PROVE  DispatchKept' /\ W!OnlyTheWorkersTree
<1>1. /\ phase = "kill" /\ proc' = W!Ended(W!Reached(p)) /\ todo' = todo \ {p}
      /\ UNCHANGED << births, known, stale, phase, before, passes, reused >>
  BY DEF W!Kill
<1>2. /\ W!Reached(p) \subseteq Pids
      /\ \A q \in W!Reached(p) : q = p /\ proc[q] # Free /\ proc[q].tree
      /\ Caught(p) => p \in W!Reached(p)
  <2>1. p \in DOMAIN known
    BY <1>1 DEF DispatchKept, KillOK
  <2> QED BY <2>1, ReachedTree
<1>3. Root \in Pids /\ proc[Root] # Free
  BY <1>1, FactoryAssumption DEF W!Assumption, DispatchKept, TableOK
<1>4. /\ Wanes /\ proc'[Root] # Free
      /\ \A q \in W!Reached(p) \ {Root} : proc'[q] = Free
  BY <1>1, <1>2, <1>3, EndedWanes DEF DispatchKept
<1>5. ~Caught(p)' \/ p = Root
  BY <1>1, <1>2, <1>4 DEF Caught, Wanes, DispatchKept, MemoryOK
<1>6. Caught(p)' => Still(p)'
  BY <1>1, <1>3, <1>4, <1>5 DEF DispatchKept, KillOK, Killing, Wanes
<1>7. ASSUME p \in W!Marked', passes < MaxPasses, ~reused PROVE FALSE
  <2>1. p \in W!Marked /\ p # Root /\ (Caught(p) => Caught(p)')
    BY <1>1, <1>4, <1>7, WanesMarked
  <2>2. Caught(p)
    BY <1>1, <1>7, <2>1 DEF DispatchKept, KillOK
  <2> QED BY <1>5, <2>1, <2>2
<1> QED BY <1>1, <1>4, <1>6, <1>7, SignalKeeps

-----------------------------------------------------------------------------
\* The steps that leave a phase.
LEMMA StrangersSpared ==
  ASSUME Wanes, phase' # "wait"
  PROVE  W!OnlyTheWorkersTree
BY DEF Wanes, W!OnlyTheWorkersTree, W!Alive

LEMMA SameWanes ==
  ASSUME TableOK, proc' = proc
  PROVE  Wanes
BY DEF TableOK, Wanes, Still

LEMMA PollKeeps ==
  ASSUME DispatchKept, W!Poll
  PROVE  DispatchKept' /\ W!OnlyTheWorkersTree
<1>1. /\ phase = "poll" /\ W!Refresh(FALSE)
      /\ UNCHANGED << births, todo, before, passes, reused >>
      /\ \/ phase' = "exited" /\ proc' = [proc EXCEPT ![Root] = Free]
         \/ phase' = phase /\ proc' = proc
  BY DEF W!Poll
<1>2. Wanes
  <2>1. CASE proc' = [proc EXCEPT ![Root] = Free]
    BY <1>1, <2>1 DEF DispatchKept, TableOK, Wanes, Still
  <2>2. CASE proc' = proc
    BY <2>2, SameWanes DEF DispatchKept
  <2> QED BY <1>1, <2>1, <2>2
<1>3. TableOK'
  BY <1>1, <1>2, WanesTable DEF DispatchKept, TableOK
<1>4. MemoryOK'
  BY <1>1, <1>2, LookMemory DEF DispatchKept, MemoryOK
<1>5. KillOK'
  BY <1>1 DEF DispatchKept, KillOK, Killing
<1> QED BY <1>1, <1>2, <1>3, <1>4, <1>5, StrangersSpared DEF DispatchKept

\* Everything known right after a look is there.
LEMMA LookCatches ==
  ASSUME TableOK, MemoryOK, W!Refresh(TRUE), proc' = proc
  PROVE  /\ W!Marked' = W!Marked /\ \A p \in DOMAIN known' : Caught(p)'
         /\ W!Marked \subseteq DOMAIN known'
<1>1. /\ \A p \in DOMAIN known' : proc[p] # Free /\ known'[p].born = proc[p].born
      /\ W!Marked \subseteq DOMAIN known'
  BY RefreshLearns
<1> QED BY <1>1 DEF Caught, W!Marked, W!Alive

LEMMA LookKeeps ==
  ASSUME DispatchKept, W!Expire \/ W!Look \/ W!LastLook
  PROVE  DispatchKept' /\ W!OnlyTheWorkersTree
<1>1. /\ W!Refresh(TRUE) /\ proc' = proc /\ births' = births
      /\ before' = before /\ reused' = reused
      /\ \/ phase = "poll" /\ phase' = "stop_root" /\ passes' = passes
         \/ phase = "look" /\ phase' = "freeze" /\ todo' = DOMAIN known' /\ passes' = passes + 1
         \/ /\ phase = "last_look" /\ phase' = "kill" /\ todo' = DOMAIN known'
            /\ passes' = passes
  BY DEF W!Expire, W!Look, W!LastLook
<1>2. Wanes /\ (proc[Root] # Free)
  BY <1>1, SameWanes DEF DispatchKept, TableOK
<1>3. TableOK'
  BY <1>1, <1>2, WanesTable DEF DispatchKept
<1>4. MemoryOK'
  <2>1. passes' \in Nat
    BY <1>1 DEF DispatchKept, MemoryOK
  <2>2. TableOK /\ MemoryOK
    BY DEF DispatchKept
  <2> QED BY <1>1, <1>2, <2>1, <2>2, LookMemory
<1>5. /\ W!Marked' = W!Marked /\ \A p \in DOMAIN known' : Caught(p)'
      /\ W!Marked \subseteq DOMAIN known'
  BY <1>1, LookCatches DEF DispatchKept
<1>6. \A p : Still(p)' <=> Still(p)
  BY <1>1 DEF Still
<1>7. KillOK'
  <2>1. CASE phase = "poll"
    BY <1>1, <1>5, <2>1 DEF DispatchKept, KillOK, Killing
  <2>2. CASE phase = "look"
    <3>1. DOMAIN known' = before /\ ~reused => \A p \in W!Marked' : Still(p)'
      BY <1>5, <1>6, <2>2 DEF DispatchKept, KillOK
    <3> QED BY <1>1, <1>5, <1>6, <2>2, <3>1 DEF DispatchKept, KillOK, Killing
  <2>3. CASE phase = "last_look"
    <3>1. passes < MaxPasses /\ ~reused =>
            \A p \in W!Marked' : Still(p)' /\ p \in todo' /\ Caught(p)'
      BY <1>1, <1>5, <1>6, <2>3 DEF DispatchKept, KillOK
    <3> QED BY <1>1, <1>5, <1>6, <2>3, <3>1 DEF DispatchKept, KillOK, Killing
  <2> QED BY <1>1, <2>1, <2>2, <2>3
<1> QED BY <1>1, <1>2, <1>3, <1>4, <1>7, StrangersSpared DEF DispatchKept

LEMMA StopRootKeeps ==
  ASSUME DispatchKept, W!StopRoot
  PROVE  DispatchKept' /\ W!OnlyTheWorkersTree
<1>1. /\ phase = "stop_root" /\ phase' = "look" /\ proc' = W!Stopped({Root})
      /\ UNCHANGED << births, known, stale, todo, before, passes, reused >>
  BY DEF W!StopRoot
<1>2. Root \in Pids /\ proc[Root] # Free /\ proc[Root].tree
  BY <1>1, FactoryAssumption DEF W!Assumption, DispatchKept, TableOK
<1>3. Wanes /\ Still(Root)' /\ proc'[Root] # Free
  <2>1. {Root} \subseteq Pids /\ \A p \in {Root} : proc[p] # Free /\ proc[p].tree
    BY <1>2
  <2> QED BY <1>1, <1>2, <2>1, StoppedWanes DEF DispatchKept
<1>4. TableOK' /\ MemoryOK'
  BY <1>1, <1>3, WanesTable, WanesMemory DEF DispatchKept
<1>5. \A p \in W!Marked' : p \in W!Marked /\ (Caught(p) => Caught(p)')
  BY <1>1, <1>3, WanesMarked
<1>6. KillOK'
  BY <1>1, <1>3, <1>5 DEF DispatchKept, KillOK, Killing
<1> QED BY <1>1, <1>3, <1>4, <1>6, StrangersSpared DEF DispatchKept

\* A pass that finds nobody new leaves nothing that carries the marker running.
LEMMA EndPassKeeps ==
  ASSUME DispatchKept, W!EndPass
  PROVE  DispatchKept' /\ W!OnlyTheWorkersTree
<1>1. /\ phase = "freeze" /\ todo = {} /\ before' = DOMAIN known
      /\ \/ phase' = "last_look" /\ (DOMAIN known = before \/ passes = MaxPasses)
         \/ phase' = "look"
      /\ UNCHANGED << proc, births, known, stale, todo, passes, reused >>
  BY DEF W!EndPass, W!Frozen
<1>2. Wanes /\ (proc[Root] # Free)
  BY <1>1, SameWanes DEF DispatchKept, TableOK
<1>3. TableOK' /\ MemoryOK'
  BY <1>1, <1>2, WanesTable, WanesMemory DEF DispatchKept
<1>4. /\ W!Marked' = W!Marked
      /\ \A p : (Still(p)' <=> Still(p)) /\ (Caught(p)' <=> Caught(p))
  BY <1>1 DEF Still, Caught, W!Marked, W!Alive
<1>5. ~reused => \A p \in W!Marked : p \in DOMAIN known => Still(p)
  BY <1>1 DEF DispatchKept, KillOK, Killing
<1>6. passes < MaxPasses => passes # MaxPasses
  BY FactoryAssumption DEF W!Assumption, DispatchKept, MemoryOK
<1>7. KillOK'
  <2>1. CASE phase' = "look"
    BY <1>1, <1>4, <1>5, <2>1 DEF DispatchKept, KillOK, Killing
  <2>2. CASE phase' = "last_look"
    <3>1. passes < MaxPasses /\ ~reused => \A p \in W!Marked : Still(p)
      BY <1>1, <1>6, <2>2 DEF DispatchKept, KillOK
    <3> QED BY <1>1, <1>4, <2>2, <3>1 DEF DispatchKept, KillOK, Killing
  <2> QED BY <1>1, <2>1, <2>2
<1> QED BY <1>1, <1>2, <1>3, <1>7, StrangersSpared DEF DispatchKept

LEMMA FallBackKeeps ==
  ASSUME DispatchKept, W!FallBack
  PROVE  DispatchKept' /\ W!OnlyTheWorkersTree
<1>1. /\ phase \notin {"exited", "killed"} /\ phase' = "fallback"
      /\ UNCHANGED << proc, births, known, stale, todo, before, passes, reused >>
  BY DEF W!FallBack
<1>2. Wanes /\ (proc[Root] # Free)
  BY <1>1, SameWanes DEF DispatchKept, TableOK
<1>3. TableOK' /\ MemoryOK'
  BY <1>1, <1>2, WanesTable, WanesMemory DEF DispatchKept
<1> QED BY <1>1, <1>2, <1>3, StrangersSpared DEF DispatchKept, KillOK, Killing

\* The group's members are the worker's; after a kill in time nothing that
\* carries the marker is left.
LEMMA GroupKillKeeps ==
  ASSUME DispatchKept, W!KillGroup \/ W!FallbackKill
  PROVE  DispatchKept' /\ W!OnlyTheWorkersTree
<1> DEFINE dead == {Root} \cup { p \in W!Alive : proc[p].group = Root }
<1>1. /\ \/ phase = "kill" /\ phase' = "wait" /\ todo = {}
         \/ phase = "fallback" /\ phase' = "wait_fallback"
      /\ proc' = W!Ended(dead)
      /\ UNCHANGED << births, known, stale, todo, before, passes, reused >>
  BY DEF W!KillGroup, W!FallbackKill
<1>2. Root \in Pids /\ proc[Root] # Free /\ proc[Root].tree
  BY <1>1, FactoryAssumption DEF W!Assumption, DispatchKept, TableOK
<1>3. dead \subseteq Pids /\ \A p \in dead : proc[p] # Free => proc[p].tree
  BY <1>2 DEF DispatchKept, TableOK, W!Alive
<1>4. Wanes /\ proc'[Root] # Free
  <2>1. Root \in dead /\ TableOK
    BY DEF DispatchKept
  <2> HIDE DEF dead, DispatchKept
  <2> QED BY <1>1, <1>2, <1>3, <2>1, EndedWanes
<1>5. TableOK' /\ MemoryOK'
  BY <1>1, <1>4, WanesTable, WanesMemory DEF DispatchKept
<1>6. KillOK'
  BY <1>1 DEF KillOK, Killing
<1>7. W!OnlyTheWorkersTree
  <2>1. \A p \in W!Alive : ~proc[p].tree => proc'[p] = proc[p]
    BY <1>4 DEF Wanes, W!Alive
  <2>2. ASSUME phase' = "wait", passes < MaxPasses, ~reused,
               NEW p \in Pids \ {Root}, proc'[p] # Free, proc'[p].marked
        PROVE  FALSE
    <3>1. p \in W!Marked
      BY <1>4, <2>2 DEF Wanes, W!Marked, W!Alive
    <3> QED BY <1>1, <2>2, <3>1 DEF DispatchKept, KillOK
  <2> QED BY <2>1, <2>2 DEF W!OnlyTheWorkersTree
<1> QED BY <1>5, <1>6, <1>7 DEF DispatchKept

LEMMA WaitKeeps ==
  ASSUME DispatchKept, W!Wait
  PROVE  DispatchKept' /\ W!OnlyTheWorkersTree
<1>1. /\ phase \in {"wait", "wait_fallback"}
      /\ \/ phase' = "killed" /\ proc' = [proc EXCEPT ![Root] = Free]
         \/ phase' = "raised" /\ proc' = proc
      /\ UNCHANGED << births, known, stale, todo, before, passes, reused >>
  BY DEF W!Wait
<1>2. proc[Root] # Free /\ proc[Root].tree
  BY <1>1 DEF DispatchKept, TableOK
<1>3. Wanes
  <2>1. CASE proc' = [proc EXCEPT ![Root] = Free]
    BY <1>2, <2>1 DEF DispatchKept, TableOK, Wanes, Still
  <2>2. CASE proc' = proc
    BY <2>2, SameWanes DEF DispatchKept
  <2> QED BY <1>1, <2>1, <2>2
<1>4. TableOK' /\ MemoryOK'
  BY <1>1, <1>2, <1>3, WanesTable, WanesMemory DEF DispatchKept
<1>5. KillOK'
  BY <1>1 DEF KillOK, Killing
<1> QED BY <1>1, <1>3, <1>4, <1>5, StrangersSpared DEF DispatchKept

-----------------------------------------------------------------------------
LEMMA DispatchStarts == ASSUME W!Init PROVE DispatchKept
<1>1. Root \in Pids /\ Free \notin W!ProcessRecord
  BY FactoryAssumption DEF W!Assumption
<1>2. W!Process(Init1, Root, TRUE, TRUE, 0) \in W!ProcessRecord
  BY <1>1 DEF W!Process, W!ProcessRecord
<1>3. TableOK
  <2>1. /\ proc[Root] = W!Process(Init1, Root, TRUE, TRUE, 0)
        /\ \A p \in Pids \ {Root} : proc[p] = Free
        /\ births = 0
    BY <1>1 DEF W!Init
  <2>2. proc \in [Pids -> W!ProcessRecord \cup {Free}]
    BY <1>1, <1>2 DEF W!Init
  <2>3. proc[Root].tree = TRUE /\ proc[Root].born = 0
    BY <2>1 DEF W!Process
  <2>4. proc[Root] # Free
    BY <1>1, <1>2, <2>1
  <2>5. ASSUME NEW p \in Pids, proc[p] # Free
        PROVE  proc[p].born <= births /\ proc[p].tree
    <3>1. p = Root
      BY <2>1, <2>5
    <3>2. proc[p].born = 0 /\ births = 0
      BY <2>1, <2>3, <3>1
    <3>3. proc[p].tree = TRUE
      BY <2>3, <3>1
    <3> QED BY <3>2, <3>3
  <2> QED BY <2>1, <2>2, <2>3, <2>4, <2>5 DEF TableOK
<1>4. MemoryOK /\ KillOK
  BY DEF W!Init, MemoryOK, KillOK, Killing
<1> QED BY <1>3, <1>4 DEF DispatchKept

LEMMA DispatchStep ==
  ASSUME DispatchKept, W!Next
  PROVE  DispatchKept' /\ W!OnlyTheWorkersTree
<1>1. CASE W!Poll
  BY <1>1, PollKeeps
<1>2. CASE W!Expire \/ W!Look \/ W!LastLook
  BY <1>2, LookKeeps
<1>3. CASE W!StopRoot
  BY <1>3, StopRootKeeps
<1>4. CASE W!EndPass
  BY <1>4, EndPassKeeps
<1>5. CASE W!KillGroup \/ W!FallbackKill
  BY <1>5, GroupKillKeeps
<1>6. CASE W!FallBack
  BY <1>6, FallBackKeeps
<1>7. CASE W!Wait
  BY <1>7, WaitKeeps
<1>8. ASSUME NEW p \in todo, W!Freeze(p) PROVE DispatchKept' /\ W!OnlyTheWorkersTree
  BY <1>8, FreezeKeeps
<1>9. ASSUME NEW p \in todo, W!Kill(p) PROVE DispatchKept' /\ W!OnlyTheWorkersTree
  BY <1>9, KillKeeps
<1>10. ASSUME phase \notin {"exited", "wait", "wait_fallback", "killed", "raised"},
              \/ \E p, q \in Pids, ownGroup, keepsMarker \in BOOLEAN :
                    W!Fork(p, q, ownGroup, keepsMarker)
              \/ \E q \in Pids : W!Appear(q)
              \/ \E p \in Pids : W!Exit(p)
       PROVE  DispatchKept' /\ W!OnlyTheWorkersTree
  <2>1. ASSUME NEW p \in Pids, NEW q \in Pids,
               NEW ownGroup \in BOOLEAN, NEW keepsMarker \in BOOLEAN,
               W!Fork(p, q, ownGroup, keepsMarker)
        PROVE  DispatchKept' /\ W!OnlyTheWorkersTree
    BY <1>10, <2>1, ForkKeeps
  <2>2. ASSUME NEW q \in Pids, W!Appear(q) PROVE DispatchKept' /\ W!OnlyTheWorkersTree
    BY <1>10, <2>2, AppearKeeps
  <2>3. ASSUME NEW p \in Pids, W!Exit(p) PROVE DispatchKept' /\ W!OnlyTheWorkersTree
    BY <1>10, <2>3, ExitKeeps
  <2> QED BY <1>10, <2>1, <2>2, <2>3
<1> QED
  BY <1>1, <1>2, <1>3, <1>4, <1>5, <1>6, <1>7, <1>8, <1>9, <1>10 DEF W!Next, W!Supervise

LEMMA OnlyDispatch ==
  ASSUME [FactoryNext]_everything, part = "dispatch"
  PROVE  W!Next \/ UNCHANGED processes
BY DEF FactoryNext, everything, Time, Authorize, AssignWork, PassArtifacts, KeepRegistry,
       SelectRoutes, KeepEvidence, CaptureUsage, Dispatch, Judge

LEMMA DispatchIdles ==
  ASSUME DispatchKept, UNCHANGED processes
  PROVE  DispatchKept'
BY DEF processes, DispatchKept, TableOK, MemoryOK, KillOK, Killing, Caught, Still,
       W!Marked, W!Alive

\* The kill reaches the worker's tree and nobody else (staffing/run.py,
\* _ProcessTree.refresh, terminate): for any number of processes and births.
THEOREM KillReachesTheTree == FactorySpec => KillIsExact
<1>1. FactoryInit => DispatchInv
  BY DispatchStarts DEF FactoryInit, DispatchInv
<1>2. DispatchInv /\ [FactoryNext]_everything => DispatchInv'
  <2> SUFFICES ASSUME DispatchInv, [FactoryNext]_everything, part' = "dispatch"
               PROVE  DispatchKept'
    BY DEF DispatchInv
  <2>1. part = "dispatch" /\ DispatchKept
    BY PartOfRouter DEF DispatchInv
  <2> QED BY <2>1, OnlyDispatch, DispatchStep, DispatchIdles
<1>3. DispatchInv /\ [FactoryNext]_everything =>
        [part = "dispatch" => W!OnlyTheWorkersTree]_everything
  <2> SUFFICES ASSUME DispatchInv, FactoryNext, part = "dispatch"
               PROVE  W!OnlyTheWorkersTree
    OBVIOUS
  <2>1. W!Next
    BY DEF FactoryNext, Time, Authorize, AssignWork, PassArtifacts, KeepRegistry,
           SelectRoutes, KeepEvidence, CaptureUsage, Dispatch, Judge
  <2> QED BY <2>1, DispatchStep DEF DispatchInv
<1> QED BY <1>1, <1>2, <1>3, PTL DEF FactorySpec, KillIsExact
-----------------------------------------------------------------------------
(***************************************************************************)
(* An import settles its rows once, whoever races it and however often it  *)
(* dies: any number of importers, rows and runs.                           *)
(***************************************************************************)

\* What the id of a line tells about it.
Identified(l) ==
  \/ l.shape = "legacy" /\ l.id = E!Plain(l.id[2])
  \/ l.shape = "v6" /\ l.id \in {E!Plain(l.run), E!Correction(l.run)}
  \/ l.shape = "raw" /\ l.id[1] \in {"run", "sha256"}

Settled(run) == \E l \in ledger : l.shape = "v6" /\ l.run = run

ToSettle(p, i) == Rows[p][i].source = "benchmark" /\ E!Importable(Rows[p][i])

LinesOK ==
  /\ \A l \in ledger : Identified(l) /\ (l.id[1] = "run" => l \in Runs)
  /\ \A l, o \in ledger : l.id = o.id => l = o

\* Only the holder of the lock imports, and it knows the ledger as it is.
HolderOK ==
  /\ pc \in [Importers -> {"ready", "importing", "done", "failed"}]
  /\ at \in [Importers -> Nat \ {0}]
  /\ recalled \in [Importers -> SUBSET ledger]
  /\ \A p \in Importers : pc[p] = "importing" => lock = p /\ recalled[p] = ledger

RowsOK ==
  \A p \in Importers, i \in Nat :
    /\ i \in 1..Len(Rows[p]) /\ ToSettle(p, i)
    /\ pc[p] = "done" \/ (pc[p] = "importing" /\ i < at[p])
    => Settled(Rows[p][i].run)

LedgerKept == LinesOK /\ HolderOK /\ RowsOK

LedgerInv == part = "evidence" => LedgerKept

-----------------------------------------------------------------------------
LEMMA RowFacts ==
  ASSUME NEW p \in Importers
  PROVE  /\ Len(Rows[p]) \in Nat /\ DOMAIN Rows[p] = 1..Len(Rows[p])
         /\ \A i \in 1..Len(Rows[p]) : Rows[p][i].source = "benchmark" =>
              /\ Rows[p][i].run # None
              /\ E!Plain(Rows[p][i].run) # None /\ E!Correction(Rows[p][i].run) # None
              /\ \A id \in {E!Plain(Rows[p][i].run), E!Correction(Rows[p][i].run)} :
                   E!BenchmarkLine(Rows[p][i], id, << p, i >>) # None
<1>1. Rows[p] \in Seq(E!Range(Rows[p]))
  BY FactoryAssumption DEF E!Assumption
<1>2. Len(Rows[p]) \in Nat /\ DOMAIN Rows[p] = 1..Len(Rows[p])
  BY <1>1
<1> QED BY <1>2, FactoryAssumption DEF E!Assumption

\* The two ids a run of the benchmark can have.
LEMMA RunOfId ==
  ASSUME NEW l, Identified(l), NEW run, l.id = E!Plain(run) \/ l.id = E!Correction(run)
  PROVE  \/ l.shape = "v6" /\ l.run = run
         \/ l.shape = "legacy" /\ l.id = E!Plain(run) /\ E!SourceRun(l) = run
<1>1. /\ E!Plain(run)[1] = "benchmark" /\ E!Plain(run)[2] = run
      /\ E!Correction(run)[1] = "benchmark:v6" /\ E!Correction(run)[2] = run
  BY DEF E!Plain, E!Correction
<1>2. CASE l.shape = "legacy"
  <2>1. l.id = E!Plain(l.id[2])
    BY <1>2 DEF Identified
  <2>2. l.id[1] = "benchmark"
    BY <2>1 DEF E!Plain
  <2>3. l.id = E!Plain(run) /\ l.id[2] = run
    BY <1>1, <2>2
  <2> QED BY <1>2, <2>2, <2>3 DEF E!SourceRun
<1>3. CASE l.shape = "v6"
  <2>1. l.id = E!Plain(l.run) \/ l.id = E!Correction(l.run)
    BY <1>3 DEF Identified
  <2>2. l.id[2] = l.run
    BY <2>1 DEF E!Plain, E!Correction
  <2> QED BY <1>1, <1>3, <2>2
<1>4. CASE l.shape = "raw"
  BY <1>1, <1>4 DEF Identified
<1> QED BY <1>2, <1>3, <1>4 DEF Identified

\* A run under lines that are there already is settled, or a line is due.
LEMMA BenchmarkIdIs ==
  ASSUME NEW given, \A l \in given : Identified(l), NEW run,
         E!Plain(run) # None, E!Correction(run) # None
  PROVE  LET id == E!BenchmarkId(given, run)
         IN  /\ id = None => \E l \in given : l.shape = "v6" /\ l.run = run
             /\ id # None => /\ id \in {E!Plain(run), E!Correction(run)}
                             /\ \A l \in given : l.id # id
<1> DEFINE id == E!BenchmarkId(given, run)
<1>1. CASE E!LineOf(given, E!Plain(run)) = {}
  BY <1>1 DEF E!BenchmarkId, E!LineOf
<1>2. CASE /\ E!LineOf(given, E!Plain(run)) # {}
           /\ \E l \in E!LineOf(given, E!Plain(run)) : l.shape = "legacy" /\ E!SourceRun(l) = run
           /\ E!LineOf(given, E!Correction(run)) = {}
  BY <1>2 DEF E!BenchmarkId, E!LineOf
<1>3. ASSUME NEW l \in given, l.id = E!Correction(run)
      PROVE  l.shape = "v6" /\ l.run = run
  <2>1. E!Plain(run)[1] # E!Correction(run)[1]
    BY DEF E!Plain, E!Correction
  <2>2. Identified(l)
    OBVIOUS
  <2> QED BY <1>3, <2>1, <2>2, RunOfId
<1>4. CASE /\ E!LineOf(given, E!Plain(run)) # {}
           /\ E!LineOf(given, E!Correction(run)) # {}
  <2>1. id = None
    BY <1>4 DEF E!BenchmarkId
  <2>2. PICK l \in given : l.id = E!Correction(run)
    BY <1>4 DEF E!LineOf
  <2> QED BY <1>3, <2>1, <2>2
<1>5. CASE /\ E!LineOf(given, E!Plain(run)) # {}
           /\ ~\E l \in E!LineOf(given, E!Plain(run)) : l.shape = "legacy" /\ E!SourceRun(l) = run
  <2>1. id = None
    BY <1>5 DEF E!BenchmarkId
  <2>2. PICK l \in given : l.id = E!Plain(run)
    BY <1>5 DEF E!LineOf
  <2>3. l \in E!LineOf(given, E!Plain(run))
    BY <2>2 DEF E!LineOf
  <2>4. Identified(l)
    OBVIOUS
  <2>5. l.shape = "v6" /\ l.run = run
    BY <1>5, <2>2, <2>3, <2>4, RunOfId
  <2> QED BY <2>1, <2>5
<1> QED BY <1>1, <1>2, <1>4, <1>5
\* What the importer makes of the row it is at.
LEMMA NewLineIs ==
  ASSUME LinesOK, NEW p \in Importers, recalled[p] = ledger, NEW i \in 1..Len(Rows[p])
  PROVE  LET line == E!NewLine(p, i)
         IN  /\ line = None /\ ToSettle(p, i) => Settled(Rows[p][i].run)
             /\ line # None => /\ Identified(line) /\ line.id[1] # "run"
                               /\ \A l \in ledger : l.id # line.id
                               /\ ToSettle(p, i) => line.shape = "v6" /\ line.run = Rows[p][i].run
<1> DEFINE row == Rows[p][i]
           id == E!BenchmarkId(recalled[p], row.run)
<1>1. CASE row.source = "benchmark"
  <2>1. /\ E!Plain(row.run) # None /\ E!Correction(row.run) # None
        /\ \A name \in {E!Plain(row.run), E!Correction(row.run)} :
             E!BenchmarkLine(row, name, << p, i >>) # None
    BY <1>1, RowFacts
  <2>2. /\ id = None => \E l \in ledger : l.shape = "v6" /\ l.run = row.run
        /\ id # None => /\ id \in {E!Plain(row.run), E!Correction(row.run)}
                        /\ \A l \in ledger : l.id # id
    <3>1. \A l \in ledger : Identified(l)
      BY DEF LinesOK
    <3> QED BY <2>1, <3>1, BenchmarkIdIs
  <2> HIDE DEF id
  <2>3. E!NewLine(p, i) = IF id = None \/ ~E!Importable(row) THEN None
                          ELSE E!BenchmarkLine(row, id, << p, i >>)
    BY <1>1 DEF E!NewLine, E!BenchmarkRow, id
  <2>4. CASE id = None \/ ~E!Importable(row)
    BY <2>2, <2>3, <2>4 DEF ToSettle, Settled
  <2>5. CASE id # None /\ E!Importable(row)
    <3>1. /\ E!NewLine(p, i) = E!BenchmarkLine(row, id, << p, i >>)
          /\ E!NewLine(p, i) # None
      BY <2>1, <2>2, <2>3, <2>5
    <3>2. /\ E!NewLine(p, i).shape = "v6" /\ E!NewLine(p, i).run = row.run
          /\ E!NewLine(p, i).id = id
      BY <3>1 DEF E!BenchmarkLine
    <3>3. id[1] # "run"
      BY <2>2, <2>5 DEF E!Plain, E!Correction
    <3> QED BY <2>2, <2>5, <3>1, <3>2, <3>3 DEF Identified
  <2> QED BY <2>4, <2>5
<1>2. CASE row.source # "benchmark"
  <2>1. ~ToSettle(p, i)
    BY <1>2 DEF ToSettle
  <2>2. E!NewLine(p, i) = None
        \/ /\ E!LineOf(recalled[p], << "sha256", row.run >>) = {}
           /\ E!NewLine(p, i) = E!AttemptLine(row, << p, i >>)
    BY <1>2 DEF E!NewLine, E!AttemptRow
  <2>3. CASE /\ E!LineOf(recalled[p], << "sha256", row.run >>) = {}
             /\ E!NewLine(p, i) = E!AttemptLine(row, << p, i >>)
    <3>1. E!NewLine(p, i).shape = "raw" /\ E!NewLine(p, i).id = << "sha256", row.run >>
      BY <2>3 DEF E!AttemptLine
    <3>2. \A l \in ledger : l.id # << "sha256", row.run >>
      BY <2>3 DEF E!LineOf
    <3>3. << "sha256", row.run >>[1] = "sha256"
      OBVIOUS
    <3> QED BY <2>1, <3>1, <3>2, <3>3 DEF Identified
  <2> QED BY <2>1, <2>2, <2>3
<1> QED BY <1>1, <1>2

-----------------------------------------------------------------------------
LEMMA LedgerStarts == ASSUME E!Init PROVE LedgerKept
<1>1. /\ \A l \in Legacy : l.shape = "legacy" /\ l.id = E!Plain(l.id[2])
      /\ \A l, o \in Legacy : l.id = o.id => l = o
  BY FactoryAssumption DEF E!Assumption
<1>2. \A l \in Legacy : Identified(l) /\ l.id[1] = "benchmark"
  BY <1>1 DEF Identified, E!Plain
<1> QED BY <1>1, <1>2 DEF E!Init, LedgerKept, LinesOK, HolderOK, RowsOK

\* The ledger grows by one line, under an id of its own.
LEMMA LineKeeps ==
  ASSUME LinesOK, NEW line, Identified(line), line.id[1] = "run" => line \in Runs,
         line \in ledger \/ \A l \in ledger : l.id # line.id,
         ledger' = ledger \cup {line}
  PROVE  LinesOK'
<1>1. \A l \in ledger' : Identified(l) /\ (l.id[1] = "run" => l \in Runs)
  BY DEF LinesOK
<1>2. \A l, o \in ledger' : l.id = o.id => l = o
  BY DEF LinesOK
<1> QED BY <1>1, <1>2 DEF LinesOK

LEMMA ImportRowKeeps ==
  ASSUME LedgerKept, NEW p \in Importers, E!ImportRow(p), NEW i, i = at[p],
         NEW line, line = E!NewLine(p, i)
  PROVE  LedgerKept'
<1>0. /\ pc[p] = "importing" /\ i <= Len(Rows[p])
      /\ at' = [at EXCEPT ![p] = i + 1]
      /\ IF line = None THEN ledger' = ledger /\ recalled' = recalled
         ELSE /\ ledger' = ledger \cup {line}
              /\ recalled' = [recalled EXCEPT ![p] = @ \cup {line}]
      /\ UNCHANGED << torn, lock, pc, receipts, counted >>
  BY DEF E!ImportRow, E!Remembered
<1>1. /\ lock = p /\ recalled[p] = ledger /\ i \in 1..Len(Rows[p])
      /\ Len(Rows[p]) \in Nat /\ i \in Nat \ {0}
  BY <1>0, RowFacts DEF LedgerKept, HolderOK
<1>2. /\ line = None /\ ToSettle(p, i) => Settled(Rows[p][i].run)
      /\ line # None => /\ Identified(line) /\ line.id[1] # "run"
                        /\ \A l \in ledger : l.id # line.id
                        /\ ToSettle(p, i) => line.shape = "v6" /\ line.run = Rows[p][i].run
  BY <1>1, NewLineIs DEF LedgerKept
<1>3. LinesOK'
  <2>1. CASE line = None
    BY <1>0, <2>1 DEF LedgerKept, LinesOK
  <2>2. CASE line # None
    BY <1>0, <1>2, <2>2, LineKeeps DEF LedgerKept
  <2> QED BY <2>1, <2>2
<1>4. HolderOK'
  <2>1. \A q \in Importers : pc[q] = "importing" => q = p
    BY <1>1 DEF LedgerKept, HolderOK
  <2>2. ledger \subseteq ledger'
    BY <1>0
  <2>3. recalled' \in [Importers -> SUBSET ledger'] /\ recalled'[p] = ledger'
    BY <1>0, <1>1, <2>2 DEF LedgerKept, HolderOK
  <2>4. at' \in [Importers -> Nat \ {0}]
    BY <1>0, <1>1 DEF LedgerKept, HolderOK
  <2> QED BY <1>0, <1>1, <2>1, <2>3, <2>4 DEF LedgerKept, HolderOK
<1>5. \A run : Settled(run) => Settled(run)'
  BY <1>0 DEF Settled
<1>6. ToSettle(p, i) => Settled(Rows[p][i].run)'
  BY <1>0, <1>2, <1>5 DEF Settled
<1>7. RowsOK'
  <2> SUFFICES ASSUME NEW q \in Importers, NEW j \in Nat, j \in 1..Len(Rows[q]),
                      ToSettle(q, j),
                      pc[q] = "done" \/ (pc[q] = "importing" /\ j < at'[q])
               PROVE  Settled(Rows[q][j].run)'
    BY <1>0 DEF RowsOK, ToSettle
  <2>1. CASE q = p /\ j = i
    BY <1>6, <2>1
  <2>2. CASE ~(q = p /\ j = i)
    <3>1. pc[q] = "done" \/ (pc[q] = "importing" /\ j < at[q])
      BY <1>0, <1>1, <2>2 DEF LedgerKept, HolderOK
    <3> QED BY <1>5, <3>1 DEF LedgerKept, RowsOK
  <2> QED BY <2>1, <2>2
<1> QED BY <1>3, <1>4, <1>7 DEF LedgerKept

LEMMA ImporterKeeps ==
  ASSUME LedgerKept, NEW p \in Importers,
         E!RefuseSource(p) \/ E!Begin(p) \/ E!LockTimeout(p) \/ E!Abort(p) \/ E!Finish(p)
  PROVE  LedgerKept'
<1>1. ledger' = ledger
  BY DEF E!RefuseSource, E!Begin, E!LockTimeout, E!Abort, E!Finish
<1>2. \A run : Settled(run)' <=> Settled(run)
  BY <1>1 DEF Settled
<1>3. HolderOK'
  <2>1. CASE E!RefuseSource(p) \/ E!LockTimeout(p)
    BY <2>1 DEF E!RefuseSource, E!LockTimeout, LedgerKept, HolderOK
  <2>2. CASE E!Begin(p)
    <3>1. \A q \in Importers : pc[q] # "importing"
      BY <2>2, FactoryAssumption DEF E!Begin, E!Assumption, LedgerKept, HolderOK
    <3> QED BY <2>2, <3>1 DEF E!Begin, LedgerKept, HolderOK
  <2>3. CASE E!Abort(p) \/ E!Finish(p)
    <3>1. \A q \in Importers : pc[q] = "importing" => q = p
      BY <2>3 DEF E!Abort, E!Finish, LedgerKept, HolderOK
    <3>2. /\ \/ pc' = [pc EXCEPT ![p] = "failed"]
             \/ pc' = [pc EXCEPT ![p] = "done"]
          /\ at' = [at EXCEPT ![p] = 1] /\ recalled' = [recalled EXCEPT ![p] = {}]
      BY <2>3 DEF E!Abort, E!Finish, E!Leave
    <3>3. \A q \in Importers : pc'[q] # "importing"
      BY <3>1, <3>2 DEF LedgerKept, HolderOK
    <3> QED BY <1>1, <3>2, <3>3 DEF LedgerKept, HolderOK
  <2> QED BY <2>1, <2>2, <2>3
<1>4. RowsOK'
  <2> SUFFICES ASSUME NEW q \in Importers, NEW j \in Nat, j \in 1..Len(Rows[q]),
                      ToSettle(q, j),
                      pc'[q] = "done" \/ (pc'[q] = "importing" /\ j < at'[q])
               PROVE  Settled(Rows[q][j].run)
    BY <1>2 DEF RowsOK, ToSettle
  <2>1. pc[q] = "done" \/ (pc[q] = "importing" /\ j < at[q])
    <3>1. CASE E!RefuseSource(p) \/ E!LockTimeout(p)
      BY <3>1 DEF E!RefuseSource, E!LockTimeout, LedgerKept, HolderOK
    <3>2. CASE E!Begin(p)
      BY <3>2 DEF E!Begin, LedgerKept, HolderOK
    <3>3. CASE E!Abort(p)
      BY <3>3 DEF E!Abort, E!Leave, LedgerKept, HolderOK
    <3>4. CASE E!Finish(p)
      <4>1. Len(Rows[p]) \in Nat
        BY RowFacts
      <4> QED BY <3>4, <4>1 DEF E!Finish, E!Leave, LedgerKept, HolderOK
    <3> QED BY <3>1, <3>2, <3>3, <3>4
  <2> QED BY <2>1 DEF LedgerKept, RowsOK
<1> QED BY <1>1, <1>3, <1>4 DEF LedgerKept, LinesOK

LEMMA AppendKeeps ==
  ASSUME LedgerKept, NEW line \in Runs, E!AppendRun(line)
  PROVE  LedgerKept'
<1>1. /\ lock = None /\ ledger' = ledger \cup {line}
      /\ UNCHANGED << torn, lock, pc, at, recalled, receipts, counted >>
  BY DEF E!AppendRun
<1>2. \A q \in Importers : pc[q] # "importing"
  BY <1>1, FactoryAssumption DEF E!Assumption, LedgerKept, HolderOK
<1>3. Identified(line) /\ line.id[1] = "run"
  BY FactoryAssumption DEF E!Assumption, Identified
<1>4. line \in ledger \/ \A l \in ledger : l.id # line.id
  BY <1>3, FactoryAssumption DEF E!Assumption, LedgerKept, LinesOK
<1>5. LinesOK'
  BY <1>1, <1>3, <1>4, LineKeeps DEF LedgerKept
<1>6. HolderOK'
  BY <1>1, <1>2 DEF LedgerKept, HolderOK
<1>7. RowsOK'
  BY <1>1 DEF LedgerKept, RowsOK, Settled, ToSettle
<1> QED BY <1>5, <1>6, <1>7 DEF LedgerKept

LEMMA LedgerIdles ==
  ASSUME LedgerKept, UNCHANGED << ledger, torn, lock, pc, at, recalled >>
  PROVE  LedgerKept'
BY DEF LedgerKept, LinesOK, HolderOK, RowsOK, Settled, ToSettle

LEMMA LedgerStep ==
  ASSUME LedgerKept, E!Next
  PROVE  LedgerKept'
<1>1. ASSUME NEW p \in Importers,
             \/ E!RefuseSource(p) \/ E!Begin(p) \/ E!LockTimeout(p)
             \/ E!ImportRow(p) \/ E!Abort(p) \/ E!Finish(p)
      PROVE  LedgerKept'
  <2>1. CASE E!ImportRow(p)
    BY <2>1, ImportRowKeeps
  <2> QED BY <1>1, <2>1, ImporterKeeps
<1>2. ASSUME NEW line \in Runs, E!AppendRun(line) PROVE LedgerKept'
  BY <1>2, AppendKeeps
<1>3. ASSUME NEW run, E!WriteReceipt(run) PROVE LedgerKept'
  BY <1>3, LedgerIdles DEF E!WriteReceipt
<1>4. CASE E!DeriveReads \/ E!DeriveEnds
  BY <1>4, LedgerIdles DEF E!DeriveReads, E!DeriveEnds
<1> QED BY <1>1, <1>2, <1>3, <1>4 DEF E!Next

LEMMA LedgerImplies ==
  ASSUME LedgerKept
  PROVE  E!SettledByImport
<1>1. \A l, o \in ledger : l.id = o.id => l = o
  BY DEF LedgerKept, LinesOK
<1>2. ASSUME NEW p \in Importers, pc[p] = "done", NEW i \in 1..Len(Rows[p]),
             Rows[p][i].source = "benchmark", E!Importable(Rows[p][i]),
             NEW l \in E!Effective(ledger), E!SourceRun(l) = Rows[p][i].run
      PROVE  l.shape = "v6"
  <2> DEFINE run == Rows[p][i].run
  <2>1. run # None /\ i \in Nat
    <3>1. Len(Rows[p]) \in Nat
      BY RowFacts
    <3>2. \A j \in 1..Len(Rows[p]) : Rows[p][j].source = "benchmark" => Rows[p][j].run # None
      BY RowFacts
    <3> QED BY <1>2, <3>1, <3>2
  <2>2. PICK o \in ledger : o.shape = "v6" /\ o.run = run
    BY <1>2, <2>1 DEF LedgerKept, RowsOK, ToSettle, Settled
  <2>3. E!SourceRun(o) = run
    BY <2>2 DEF E!SourceRun
  <2>4. E!Rank(o) \in {0, 1, 2}
    BY <2>2 DEF E!Rank
  <2>5. E!Rank(l) <= E!Rank(o)
    BY <1>2, <2>1, <2>3 DEF E!Effective
  <2>6. l.shape # "legacy"
    BY <2>4, <2>5 DEF E!Rank
  <2> QED BY <1>2, <2>1, <2>6 DEF E!SourceRun
<1> QED BY <1>1, <1>2 DEF E!SettledByImport

\* Imports settle their rows and write nothing twice (import_evidence.py,
\* ledger.py: writer_transaction, import_benchmark_evidence).
THEOREM ImportsSettle == FactorySpec => []SettledByImport
<1>1. FactoryInit => LedgerInv
  BY LedgerStarts DEF FactoryInit, LedgerInv
<1>2. LedgerInv /\ [FactoryNext]_everything => LedgerInv'
  <2> SUFFICES ASSUME LedgerInv, [FactoryNext]_everything, part' = "evidence"
               PROVE  LedgerKept'
    BY DEF LedgerInv
  <2>1. part = "evidence" /\ LedgerKept
    BY PartOfRouter DEF LedgerInv
  <2>2. E!Next \/ UNCHANGED ledgers
    BY <2>1 DEF FactoryNext, everything, Time, Authorize, AssignWork, PassArtifacts,
                KeepRegistry, SelectRoutes, KeepEvidence, CaptureUsage, Dispatch, Judge
  <2> QED BY <2>1, <2>2, LedgerStep, LedgerIdles DEF ledgers
<1>3. LedgerInv => SettledByImport
  BY LedgerImplies DEF LedgerInv, SettledByImport
<1> QED BY <1>1, <1>2, <1>3, PTL DEF FactorySpec
-----------------------------------------------------------------------------
(***************************************************************************)
(* Routes are launched on headroom and staffed fairly, for every catalog,  *)
(* policy, price list and snapshot.                                        *)
(***************************************************************************)

Readable(s) ==
  /\ s.observed \in Int \cup {None} /\ s.written \in Int \cup {None}
  /\ DOMAIN s.entries \subseteq Nat
  /\ \A n \in DOMAIN s.entries :
       s.entries[n].pct \in S!Amounts /\ s.entries[n].status \in DOMAIN Multiplier

RoutesKept ==
  /\ hour \in Nat /\ Readable(snapshot)
  /\ S!LaunchesOnHeadroom /\ S!StaffedFairly

RoutesInv == part = "routes" => RoutesKept

-----------------------------------------------------------------------------
\* The worst of some entries is found, and no worse than it says.
LEMMA HealthSays ==
  ASSUME NEW e
  PROVE  /\ S!Severity(S!Health(e)) \in 0..4
         /\ S!Health(e) \in {"healthy", "unknown", "degraded", "likely_exhausted", "exhausted"}
         /\ S!Health(e) \in {"healthy", "degraded"} =>
              S!Measured(e) /\ S!Severity(S!Health(e)) <= 2
         /\ S!Measured(e) /\ S!Severity(S!Health(e)) <= 2 /\ e.pct \in S!Amounts =>
              e.pct >= 10
<1>1. S!Health(e) \in {"healthy", "unknown", "degraded", "likely_exhausted", "exhausted"}
  BY DEF S!Health
<1>2. S!Severity(S!Health(e)) \in 0..4
  BY <1>1 DEF S!Severity
<1>3. S!Health(e) \in {"healthy", "degraded"} =>
         S!Measured(e) /\ S!Severity(S!Health(e)) <= 2
  BY DEF S!Health, S!Severity
<1>4. ASSUME S!Measured(e), S!Severity(S!Health(e)) <= 2, e.pct \in S!Amounts
      PROVE  e.pct >= 10
  <2>1. e.pct \in Nat
    BY <1>4 DEF S!Measured, S!Amounts
  <2>2. S!Health(e) # "exhausted" /\ S!Health(e) # "likely_exhausted"
    BY <1>4 DEF S!Severity
  <2>3. e.pct # 0 /\ e.pct \notin 1..9
    BY <1>4, <2>2 DEF S!Health
  <2> QED BY <2>1, <2>3
<1> QED BY <1>1, <1>2, <1>3, <1>4

LEMMA WorstIsWorst ==
  ASSUME NEW entries, NEW wide, wide \subseteq Nat, wide # {}
  PROVE  /\ S!Worst(entries, wide) \in wide
         /\ \A m \in wide : S!Severity(S!Health(entries[m]))
                              <= S!Severity(S!Health(entries[S!Worst(entries, wide)]))
<1> DEFINE severity(n) == S!Severity(S!Health(entries[n]))
           key == [n \in wide |-> 4 - severity(n)]
           Chosen(n) == \A m \in wide : \/ severity(n) > severity(m)
                                        \/ severity(n) = severity(m) /\ n <= m
<1>1. \A n \in wide : severity(n) \in 0..4
  BY HealthSays
<1>2. PICK n \in wide : \A m \in wide : key[n] < key[m] \/ (key[n] = key[m] /\ n <= m)
  <2>1. key \in [wide -> Nat]
    <3> HIDE DEF severity
    <3> QED BY <1>1
  <2> HIDE DEF key
  <2> QED BY <2>1, FirstOfLeast
<1>3. Chosen(n)
  <2> HIDE DEF severity
  <2> QED BY <1>1, <1>2
<1>4. S!Worst(entries, wide) = CHOOSE m \in wide : Chosen(m)
  BY DEF S!Worst
<1>5. S!Worst(entries, wide) \in wide /\ Chosen(S!Worst(entries, wide))
  <2> HIDE DEF Chosen
  <2> QED BY <1>3, <1>4
<1>6. ASSUME NEW m \in wide PROVE severity(m) <= severity(S!Worst(entries, wide))
  <2>1. severity(m) \in 0..4 /\ severity(S!Worst(entries, wide)) \in 0..4
    BY <1>1, <1>5
  <2>2. \/ severity(S!Worst(entries, wide)) > severity(m)
        \/ severity(S!Worst(entries, wide)) = severity(m)
    BY <1>5
  <2> HIDE DEF severity
  <2> QED BY <2>1, <2>2
<1> QED BY <1>5, <1>6

\* The entries an instance is judged by.
Word(s, c, i) ==
  IF S!OnInstance(s, c, i) # {} THEN S!OnInstance(s, c, i) ELSE S!OnInstance(s, c, c)

\* A clear instance was measured, by a snapshot that is not stale, and nothing
\* it was measured by is nearly spent.
LEMMA ClearIsMeasured ==
  ASSUME NEW s, Readable(s), NEW t, NEW c, NEW i, S!InstanceVetoes(s, t, c, i) = {}
  PROVE  /\ ~S!Stale(s, t)
         /\ \E n \in Word(s, c, i) : s.entries[n].scope = None /\ S!Measured(s.entries[n])
         /\ \A n \in Word(s, c, i) :
              s.entries[n].scope = None /\ S!Measured(s.entries[n]) => s.entries[n].pct >= 10
<1> DEFINE wide == { n \in Word(s, c, i) : s.entries[n].scope = None }
           worst == S!Worst(s.entries, wide)
           headroom == S!InstanceHeadroom(s, t, c, i)
<1>1. headroom.health = IF wide = {} \/ S!Stale(s, t) THEN "unknown"
                        ELSE S!Health(s.entries[worst])
  BY DEF S!InstanceHeadroom, S!Headroom, Word
<1>2. headroom.health \notin {"exhausted", "likely_exhausted", "unknown"}
  BY DEF S!InstanceVetoes, S!When, S!Vetoed
<1>3. wide # {} /\ ~S!Stale(s, t) /\ headroom.health = S!Health(s.entries[worst])
  BY <1>1, <1>2
<1>4. Word(s, c, i) \subseteq DOMAIN s.entries /\ wide \subseteq Nat
  BY DEF Word, S!OnInstance, S!OnChannel, Readable
<1>5. /\ worst \in wide
      /\ \A m \in wide : S!Severity(S!Health(s.entries[m])) <= S!Severity(S!Health(s.entries[worst]))
  <2> HIDE DEF wide
  <2> QED BY <1>3, <1>4, WorstIsWorst
<1> HIDE DEF worst, headroom
<1>6. S!Measured(s.entries[worst]) /\ S!Severity(S!Health(s.entries[worst])) <= 2
  BY <1>2, <1>3, HealthSays
<1>7. ASSUME NEW n \in wide, S!Measured(s.entries[n]) PROVE s.entries[n].pct >= 10
  <2>1. S!Severity(S!Health(s.entries[n])) \in 0..4 /\ S!Severity(S!Health(s.entries[worst])) \in 0..4
    BY HealthSays
  <2>2. S!Severity(S!Health(s.entries[n])) <= 2
    BY <1>5, <1>6, <2>1
  <2>3. s.entries[n].pct \in S!Amounts
    BY <1>4 DEF Readable
  <2> QED BY <1>7, <2>2, <2>3, HealthSays
<1> QED BY <1>3, <1>5, <1>6, <1>7
-----------------------------------------------------------------------------
\* What an eligible route is good for.
LEMMA PriceKnown ==
  ASSUME NEW r \in S!Routes
  PROVE  S!Replacement(r) \in S!Amounts
<1>1. CASE Route[r].model \in DOMAIN Snapshot
  BY <1>1, FactoryAssumption DEF S!Assumption, S!Replacement, S!PriceRow
<1>2. CASE Route[r].model \notin DOMAIN Snapshot /\ S!RatesOf(r) = {}
  BY <1>2 DEF S!Replacement, S!PriceRow, S!Amounts
<1>3. CASE Route[r].model \notin DOMAIN Snapshot /\ S!RatesOf(r) # {}
  <2>1. S!RatesOf(r) \subseteq Rates
    BY DEF S!RatesOf
  <2>2. S!PriceRow(r) \in S!RatesOf(r)
    BY <1>3 DEF S!PriceRow
  <2> QED BY <2>1, <2>2, FactoryAssumption DEF S!Assumption, S!Replacement
<1> QED BY <1>1, <1>2, <1>3

LEMMA EligibleIs ==
  ASSUME NEW s, NEW t, NEW role, NEW by, NEW r \in S!EligibleRoutes(s, t, role, by)
  PROVE  /\ r \in S!Routes /\ S!Replacement(r) \in Nat
         /\ S!Independent(r, role, by)
         /\ Channel[Route[r].channel].kind = "subscription" =>
              /\ S!ClearInstances(s, t, Route[r].channel) # {}
              /\ ~S!SubLimited(s, r)
<1>1. r \in S!Routes /\ S!Reasons(s, t, r, role, by) = {}
  BY DEF S!EligibleRoutes
<1>2. S!Replacement(r) # None /\ S!Independent(r, role, by)
  BY <1>1 DEF S!Reasons, S!When
<1>3. S!Replacement(r) \in Nat
  BY <1>1, <1>2, PriceKnown DEF S!Amounts
<1>4. Channel[Route[r].channel].kind = "subscription" => S!QuotaReasons(s, t, r) = {}
  BY <1>1 DEF S!Reasons
<1>5. S!QuotaReasons(s, t, r) = {} =>
        S!ClearInstances(s, t, Route[r].channel) # {} /\ ~S!SubLimited(s, r)
  <2> SUFFICES ASSUME S!QuotaReasons(s, t, r) = {}
               PROVE  S!ClearInstances(s, t, Route[r].channel) # {} /\ ~S!SubLimited(s, r)
    OBVIOUS
  <2>1. ~S!SubLimited(s, r)
    BY DEF S!QuotaReasons, S!When
  <2>2. ASSUME S!ClearInstances(s, t, Route[r].channel) = {} PROVE FALSE
    <3>1. S!Instances(Route[r].channel) # {}
      BY <2>2 DEF S!QuotaReasons
    <3>2. PICK i \in S!Instances(Route[r].channel) : TRUE
      BY <3>1
    <3>3. S!InstanceVetoes(s, t, Route[r].channel, i) # {}
      BY <2>2 DEF S!ClearInstances
    <3> QED BY <2>2, <3>1, <3>3 DEF S!QuotaReasons
  <2> QED BY <2>1, <2>2
<1> QED BY <1>1, <1>2, <1>3, <1>4, <1>5

LEMMA DiscountKnown ==
  ASSUME NEW s, Readable(s), NEW t, NEW r
  PROVE  S!Discount(s, t, r) \in Nat
<1> DEFINE c == Route[r].channel
           wide == { n \in S!OnChannel(s, c) : s.entries[n].scope = None }
           worst == S!Worst(s.entries, wide)
           limiting == IF wide = {} \/ S!Stale(s, t) THEN None ELSE s.entries[worst]
<1>1. S!Discount(s, t, r) = Multiplier[IF limiting = None THEN "NO DATA" ELSE limiting.status]
  BY DEF S!Discount, S!Headroom
<1>2. wide \subseteq Nat /\ wide \subseteq DOMAIN s.entries
  BY DEF S!OnChannel, Readable
<1>3. wide # {} => worst \in wide
  <2> HIDE DEF wide
  <2> QED BY <1>2, WorstIsWorst
<1>4. limiting # None => limiting.status \in DOMAIN Multiplier
  <2> HIDE DEF wide, worst
  <2> QED BY <1>2, <1>3 DEF Readable
<1> HIDE DEF limiting
<1>5. (IF limiting = None THEN "NO DATA" ELSE limiting.status) \in DOMAIN Multiplier
  BY <1>4, FactoryAssumption DEF S!Assumption
<1>6. Multiplier \in [DOMAIN Multiplier -> Nat]
  BY FactoryAssumption DEF S!Assumption
<1> QED BY <1>1, <1>5, <1>6

LEMMA CheapestChosen ==
  ASSUME NEW s, Readable(s), NEW t, NEW routes_, routes_ \subseteq S!Routes, routes_ # {},
         \A r \in routes_ : S!Replacement(r) \in Nat
  PROVE  S!Cheapest(s, t, routes_) \in routes_
<1> DEFINE key == [r \in routes_ |-> S!Marginal(s, t, r)]
           Chosen(r) == \A o \in routes_ : \/ S!Marginal(s, t, r) < S!Marginal(s, t, o)
                                           \/ S!Marginal(s, t, r) = S!Marginal(s, t, o) /\ r <= o
<1>1. \A r \in routes_ : S!Marginal(s, t, r) \in Nat
  BY DiscountKnown DEF S!Marginal
<1>2. PICK r \in routes_ : \A o \in routes_ : key[r] < key[o] \/ (key[r] = key[o] /\ r <= o)
  <2>1. key \in [routes_ -> Nat] /\ routes_ \subseteq Nat
    BY <1>1, FactoryAssumption DEF S!Assumption
  <2> HIDE DEF key
  <2> QED BY <2>1, FirstOfLeast
<1>3. Chosen(r)
  BY <1>2
<1>4. S!Cheapest(s, t, routes_) = CHOOSE o \in routes_ : Chosen(o)
  BY DEF S!Cheapest
<1> HIDE DEF Chosen
<1> QED BY <1>3, <1>4

-----------------------------------------------------------------------------
LEMMA SelectOnHeadroom ==
  ASSUME RoutesKept, NEW named, NEW pinned, NEW role, NEW by, NEW supervisor,
         S!Select(named, pinned, role, by, supervisor)
  PROVE  S!LaunchesOnHeadroom'
<1>0. PICK r \in S!Chosen(snapshot, hour, named, role, by) :
        \E i \in S!ResolvedInstances(snapshot, hour, r, pinned) :
          answer' = [to |-> "run", route |-> r, instance |-> i]
  BY DEF S!Select
<1>1. PICK i \in S!ResolvedInstances(snapshot, hour, r, pinned) :
        answer' = [to |-> "run", route |-> r, instance |-> i]
  BY <1>0
<1>2. hour' = hour /\ snapshot' = snapshot /\ Readable(snapshot)
  BY DEF S!Select, RoutesKept
<1>3. r \in S!EligibleRoutes(snapshot, hour, role, by)
  <2> DEFINE able == S!EligibleRoutes(snapshot, hour, role, by)
  <2>1. able # {} => S!Cheapest(snapshot, hour, able) \in able
    <3>1. able \subseteq S!Routes /\ \A o \in able : S!Replacement(o) \in Nat
      BY EligibleIs
    <3> HIDE DEF able
    <3> QED BY <1>2, <3>1, CheapestChosen
  <2> QED BY <1>1, <2>1 DEF S!Chosen
<1> SUFFICES ASSUME Channel[Route[r].channel].kind = "subscription"
             PROVE  S!LaunchesOnHeadroom'
  BY <1>1 DEF S!LaunchesOnHeadroom
<1> DEFINE c == Route[r].channel
           es == snapshot.entries
<1>4. S!ClearInstances(snapshot, hour, c) # {} /\ ~S!SubLimited(snapshot, r)
  BY <1>3, EligibleIs
<1>5. S!InstanceVetoes(snapshot, hour, c, i) = {}
  BY <1>1, <1>4 DEF S!ResolvedInstances, S!FirstInstances, S!ClearInstances
<1>6. /\ ~S!Stale(snapshot, hour)
      /\ \E n \in Word(snapshot, c, i) : es[n].scope = None /\ S!Measured(es[n])
      /\ \A n \in Word(snapshot, c, i) :
           es[n].scope = None /\ S!Measured(es[n]) => es[n].pct >= 10
  BY <1>2, <1>5, ClearIsMeasured
<1> DEFINE entries == S!Range(es)
           own == { e \in entries : c \in e.channels /\ S!Instance(e, c) = i }
           word == IF own # {} THEN own
                   ELSE { e \in entries : c \in e.channels /\ S!Instance(e, c) = c }
           limits == { e \in entries : /\ c \in e.channels /\ e.scope # None
                                       /\ S!IsPrefix(e.scope, Route[r].model) }
           stamps == {snapshot.observed, snapshot.written} \ {None}
<1>7. word = { es[n] : n \in Word(snapshot, c, i) }
  <2>1. \A x : { e \in entries : c \in e.channels /\ S!Instance(e, c) = x }
                 = { es[n] : n \in S!OnInstance(snapshot, c, x) }
    BY DEF S!OnInstance, S!OnChannel, S!Range
  <2> HIDE DEF entries
  <2>2. own = { es[n] : n \in S!OnInstance(snapshot, c, i) }
    BY <2>1
  <2>3. own # {} <=> S!OnInstance(snapshot, c, i) # {}
    BY <2>2
  <2>4. CASE own # {}
    <3>1. word = own /\ Word(snapshot, c, i) = S!OnInstance(snapshot, c, i)
      BY <2>3, <2>4 DEF Word
    <3> QED BY <2>2, <3>1
  <2>5. CASE own = {}
    <3>1. /\ word = { e \in entries : c \in e.channels /\ S!Instance(e, c) = c }
          /\ Word(snapshot, c, i) = S!OnInstance(snapshot, c, c)
      BY <2>3, <2>5 DEF Word
    <3>2. { e \in entries : c \in e.channels /\ S!Instance(e, c) = c }
            = { es[n] : n \in S!OnInstance(snapshot, c, c) }
      BY <2>1
    <3> QED BY <3>1, <3>2
  <2> QED BY <2>4, <2>5
<1>8. /\ \E e \in word : e.scope = None /\ S!Measured(e)
      /\ \A e \in word : e.scope = None /\ S!Measured(e) => e.pct >= 10
  <2> HIDE DEF word
  <2> QED BY <1>6, <1>7
<1>9. \A e \in limits : S!Measured(e) /\ e.pct >= 10
  <2> SUFFICES ASSUME NEW e \in limits PROVE S!Measured(e) /\ e.pct >= 10
    OBVIOUS
  <2>1. PICK n \in DOMAIN es : e = es[n]
    BY DEF S!Range
  <2>2. S!Health(e) \notin S!Vetoed
    BY <1>4, <2>1 DEF S!SubLimited, S!OnChannel
  <2>3. S!Health(e) \in {"healthy", "degraded"}
    BY <2>2, HealthSays DEF S!Vetoed
  <2>4. e.pct \in S!Amounts
    BY <1>2, <2>1 DEF Readable
  <2> QED BY <2>3, <2>4, HealthSays
<1>10. stamps # {} /\ stamps \subseteq hour - MaxAge..hour + Skew
  <2>1. stamps \subseteq Int /\ hour \in Nat /\ MaxAge \in Nat /\ Skew \in Nat
    BY <1>2, FactoryAssumption DEF S!Assumption, Readable, RoutesKept
  <2>2. S!Ages(snapshot, hour) = { hour - stamp : stamp \in stamps }
    BY DEF S!Ages
  <2>3. /\ S!Ages(snapshot, hour) # {}
        /\ \A age \in S!Ages(snapshot, hour) : ~(age > MaxAge \/ age < -Skew)
    BY <1>6 DEF S!Stale
  <2> HIDE DEF stamps
  <2>4. stamps # {}
    BY <2>2, <2>3
  <2>5. ASSUME NEW stamp \in stamps PROVE stamp \in hour - MaxAge..hour + Skew
    <3>1. hour - stamp \in S!Ages(snapshot, hour)
      BY <2>2
    <3>2. ~(hour - stamp > MaxAge) /\ ~(hour - stamp < -Skew)
      BY <2>3, <3>1
    <3> QED BY <2>1, <3>2
  <2> QED BY <2>4, <2>5
<1> HIDE DEF entries, own, word, limits
<1> QED BY <1>1, <1>2, <1>8, <1>9, <1>10 DEF S!LaunchesOnHeadroom, entries, own, word, limits
-----------------------------------------------------------------------------
\* The worker of a block is able, and proven where a proven one would do.
LEMMA WorkerChosen ==
  ASSUME NEW s, Readable(s), NEW t, NEW able, able \subseteq S!Routes, able # {},
         \A r \in able : S!Replacement(r) \in Nat
  PROVE  /\ S!Worker(s, t, able) \in able
         /\ S!Proven(able) # {} => S!Worker(s, t, able) \in proven
<1> DEFINE best == { r \in able : \A o \in able : S!Tier(r) <= S!Tier(o) }
           start == S!Start(s, t, able)
<1>1. best # {}
  <2> DEFINE key == [r \in able |-> S!Tier(r)]
  <2>1. key \in [able -> Nat] /\ able \subseteq Nat
    BY FactoryAssumption DEF S!Assumption, S!Tier
  <2>2. PICK r \in able : \A o \in able : key[r] < key[o] \/ (key[r] = key[o] /\ r <= o)
    <3> HIDE DEF key
    <3> QED BY <2>1, FirstOfLeast
  <2>3. \A o \in able : S!Tier(r) <= S!Tier(o)
    <3>1. \A o \in able : key[o] = S!Tier(o) /\ key[o] \in Nat
      BY <2>1
    <3> HIDE DEF key
    <3> QED BY <2>2, <3>1
  <2> QED BY <2>3
<1>2. start = S!Cheapest(s, t, IF S!Proven(best) # {} THEN S!Proven(best) ELSE best)
  BY DEF S!Start
<1>3. start \in best
  <2>1. /\ best \subseteq S!Routes /\ S!Proven(best) \subseteq best
        /\ \A r \in best : S!Replacement(r) \in Nat
    BY DEF S!Proven
  <2>2. CASE S!Proven(best) # {}
    <3>1. S!Cheapest(s, t, S!Proven(best)) \in S!Proven(best)
      <4> HIDE DEF best
      <4> QED BY <2>1, <2>2, CheapestChosen
    <3> QED BY <1>2, <2>1, <2>2, <3>1
  <2>3. CASE S!Proven(best) = {}
    <3>1. S!Cheapest(s, t, best) \in best
      <4> HIDE DEF best
      <4> QED BY <1>1, <2>1, CheapestChosen
    <3> QED BY <1>2, <2>3, <3>1
  <2> QED BY <2>2, <2>3
<1>4. S!Proven(able) # {} => S!Cheapest(s, t, S!Proven(able)) \in S!Proven(able)
  <2>1. S!Proven(able) \subseteq able
    BY DEF S!Proven
  <2> QED BY <2>1, CheapestChosen
<1>5. S!Worker(s, t, able) = IF start \in proven \/ S!Proven(able) = {} THEN start
                             ELSE S!Cheapest(s, t, S!Proven(able))
  BY DEF S!Worker
<1> HIDE DEF start
<1> QED BY <1>3, <1>4, <1>5 DEF S!Proven

\* A reviewer is independent of the author and of the worker.
LEMMA ReviewerChosen ==
  ASSUME NEW s, Readable(s), NEW t, NEW by, NEW worker,
         S!Reviewer(s, t, by, worker) # None,
         NEW other \in {worker, by} \ {None}
  PROVE  S!Independent(S!Reviewer(s, t, by, worker), "review", other)
<1> DEFINE able == S!Reviewers(s, t, by, worker)
           reviewer == S!Reviewer(s, t, by, worker)
<1>1. able # {} /\ reviewer = S!Cheapest(s, t, IF S!Proven(able) # {} THEN S!Proven(able) ELSE able)
  BY DEF S!Reviewer
<1>2. able \subseteq S!Routes /\ \A r \in able : S!Replacement(r) \in Nat
  <2>1. able \subseteq S!EligibleRoutes(s, t, "review", IF by # None THEN by ELSE worker)
    BY DEF S!Reviewers
  <2> HIDE DEF able
  <2> QED BY <2>1, EligibleIs
<1>3. S!Proven(able) \subseteq able
  BY DEF S!Proven
<1>4. reviewer \in able
  <2> HIDE DEF able, reviewer
  <2>1. CASE S!Proven(able) # {}
    <3>1. S!Cheapest(s, t, S!Proven(able)) \in S!Proven(able)
      BY <1>2, <1>3, <2>1, CheapestChosen
    <3> QED BY <1>1, <1>3, <2>1, <3>1
  <2>2. CASE S!Proven(able) = {}
    <3>1. S!Cheapest(s, t, able) \in able
      BY <1>1, <1>2, CheapestChosen
    <3> QED BY <1>1, <2>2, <3>1
  <2> QED BY <2>1, <2>2
<1> HIDE DEF reviewer
<1>5. CASE other = worker
  <2>1. reviewer \in S!EligibleRoutes(s, t, "review", worker)
    BY <1>4, <1>5 DEF S!Reviewers
  <2> QED BY <1>5, <2>1, EligibleIs DEF reviewer
<1>6. CASE other = by
  <2>1. reviewer \in S!EligibleRoutes(s, t, "review", by)
    BY <1>4, <1>6 DEF S!Reviewers
  <2> QED BY <1>6, <2>1, EligibleIs DEF reviewer
<1> QED BY <1>5, <1>6

LEMMA StaffAutoFair ==
  ASSUME RoutesKept, NEW role, NEW by, S!StaffAuto(role, by)
  PROVE  S!StaffedFairly'
<1>0. Readable(snapshot)
  BY DEF RoutesKept
<1> SUFFICES ASSUME NEW able, able = S!EligibleRoutes(snapshot, hour, role, by),
                    NEW worker, worker = S!Worker(snapshot, hour, able),
                    NEW reviewer, reviewer = S!Reviewer(snapshot, hour, by, worker)
             PROVE  S!StaffedFairly'
  OBVIOUS
<1>1. /\ answer' = [to |-> "auto", author |-> by, worker |-> worker, reviewer |-> reviewer,
                    able |-> able]
      /\ proven' = proven
  BY DEF S!StaffAuto, S!Block
<1>2. able # {} => worker \in able /\ (S!Proven(able) # {} => worker \in proven)
  <2>1. able \subseteq S!Routes /\ \A r \in able : S!Replacement(r) \in Nat
    BY EligibleIs
  <2> QED BY <1>0, <2>1, WorkerChosen
<1>3. reviewer # None =>
        \A other \in {worker, by} \ {None} : S!Independent(reviewer, "review", other)
  BY <1>0, ReviewerChosen
<1>4. \A other \in {worker, by} \ {None} :
        S!Independent(reviewer, "review", other) =>
          /\ reviewer # other
          /\ S!Family(reviewer) = S!Family(other) => SameFamilyReview
  BY DEF S!Independent
<1>5. S!Proven(able)' = S!Proven(able)
  BY <1>1 DEF S!Proven
<1> QED BY <1>1, <1>2, <1>3, <1>4, <1>5 DEF S!StaffedFairly, S!Proven

-----------------------------------------------------------------------------
LEMMA RoutesStart == ASSUME S!Init PROVE RoutesKept
BY DEF S!Init, RoutesKept, Readable, S!LaunchesOnHeadroom, S!StaffedFairly

\* An answer stays what it was computed from until it is taken.
LEMMA RoutesStep ==
  ASSUME RoutesKept, S!Next
  PROVE  RoutesKept'
<1>1. CASE S!Take \/ S!Tick
  BY <1>1 DEF S!Take, S!Tick, RoutesKept, Readable, S!LaunchesOnHeadroom, S!StaffedFairly
<1>2. CASE S!Refresh
  <2>1. PICK seen \in Stamps, wrote \in Stamps, list \in Entries :
          snapshot' = [observed |-> seen, written |-> wrote, entries |-> list]
    BY <1>2 DEF S!Refresh
  <2>2. /\ answer' = None /\ hour' = hour
    BY <1>2 DEF S!Refresh
  <2>3. list \in Seq(S!Range(list))
        /\ \A n \in DOMAIN list : list[n].pct \in S!Amounts /\ list[n].status \in DOMAIN Multiplier
    BY FactoryAssumption DEF S!Assumption
  <2>4. DOMAIN list \subseteq Nat
    BY <2>3
  <2>5. Readable(snapshot')
    BY <2>1, <2>3, <2>4, FactoryAssumption DEF S!Assumption, Readable
  <2> QED BY <2>2, <2>5 DEF RoutesKept, Readable, S!LaunchesOnHeadroom, S!StaffedFairly
<1>3. ASSUME NEW r, S!Prove(r) PROVE RoutesKept'
  BY <1>3 DEF S!Prove, RoutesKept, Readable, S!LaunchesOnHeadroom, S!StaffedFairly
<1>4. ASSUME NEW role, NEW by, S!StaffAuto(role, by) PROVE RoutesKept'
  <2>1. S!StaffedFairly'
    BY <1>4, StaffAutoFair
  <2>2. hour' = hour /\ snapshot' = snapshot /\ answer'.to = "auto"
    BY <1>4 DEF S!StaffAuto, S!Block
  <2> QED BY <2>1, <2>2 DEF RoutesKept, Readable, S!LaunchesOnHeadroom
<1>5. ASSUME \/ \E crew \in Crews : S!StaffCrew(crew)
             \/ \E r \in S!Routes, q \in Requests, lee \in BOOLEAN : S!StaffBind(r, q.role, lee)
             \/ \E r \in S!Routes, cached \in BOOLEAN : S!Quote(r, cached)
      PROVE  RoutesKept'
  <2>1. /\ hour' = hour /\ snapshot' = snapshot
        /\ answer'.to # "auto" /\ answer'.to # "run"
    BY <1>5 DEF S!StaffCrew, S!StaffBind, S!Quote
  <2> QED BY <2>1 DEF RoutesKept, Readable, S!LaunchesOnHeadroom, S!StaffedFairly
<1>6. ASSUME NEW named, NEW pinned, NEW role, NEW by, NEW supervisor,
             S!Select(named, pinned, role, by, supervisor)
      PROVE  RoutesKept'
  <2>1. S!LaunchesOnHeadroom'
    BY <1>6, SelectOnHeadroom
  <2>2. hour' = hour /\ snapshot' = snapshot /\ answer'.to = "run"
    BY <1>6 DEF S!Select
  <2> QED BY <2>1, <2>2 DEF RoutesKept, Readable, S!StaffedFairly
<1> QED
  BY <1>1, <1>2, <1>3, <1>4, <1>5, <1>6 DEF S!Next, S!Staff

LEMMA RoutesIdle ==
  ASSUME RoutesKept, UNCHANGED routes
  PROVE  RoutesKept'
BY DEF routes, RoutesKept, Readable, S!LaunchesOnHeadroom, S!StaffedFairly, S!Proven

LEMMA RoutesHold == FactorySpec => []RoutesInv
<1>1. FactoryInit => RoutesInv
  BY RoutesStart DEF FactoryInit, RoutesInv
<1>2. RoutesInv /\ [FactoryNext]_everything => RoutesInv'
  <2> SUFFICES ASSUME RoutesInv, [FactoryNext]_everything, part' = "routes"
               PROVE  RoutesKept'
    BY DEF RoutesInv
  <2>1. part = "routes" /\ RoutesKept
    BY PartOfRouter DEF RoutesInv
  <2>2. S!Next \/ UNCHANGED routes
    BY <2>1 DEF FactoryNext, everything, Time, Authorize, AssignWork, PassArtifacts,
                KeepRegistry, SelectRoutes, KeepEvidence, CaptureUsage, Dispatch, Judge
  <2> QED BY <2>1, <2>2, RoutesStep, RoutesIdle
<1> QED BY <1>1, <1>2, PTL DEF FactorySpec

\* A launch rests on a quota that was measured, in time and with headroom
\* (availability.py, parse_availability; eligibility.py, evaluate_eligibility).
THEOREM LaunchesHaveHeadroom == FactorySpec => []LaunchesOnHeadroom
<1>1. RoutesInv => LaunchesOnHeadroom
  BY DEF RoutesInv, RoutesKept, LaunchesOnHeadroom
<1> QED BY <1>1, RoutesHold, PTL

\* Reviewers are independent and proven workers come first (staff.py,
\* _staff_auto, _select_review_route).
THEOREM BlocksAreFair == FactorySpec => []StaffedFairly
<1>1. RoutesInv => StaffedFairly
  BY DEF RoutesInv, RoutesKept, StaffedFairly
<1> QED BY <1>1, RoutesHold, PTL
=============================================================================
