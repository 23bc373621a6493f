---------------------------- MODULE AttemptVerdict ----------------------------
(***************************************************************************)
(* What becomes of a worker that has returned (staffing/run.py): the oracle *)
(* that runs in what is left of the time, whether the output holds any work *)
(* at all, and the verdict, failure class and verified success on record.   *)
(*                                                                         *)
(* A line of output is prose, an array of bare strings, or a JSON event of  *)
(* which one string counts: the path of objects down to it, each with what  *)
(* its type says and the key the path goes on by.  The clock moves only     *)
(* while the oracle is slept on; the worker and the oracle are external.    *)
(***************************************************************************)
EXTENDS Integers, Sequences

CONSTANTS Outputs,    \* sets of lines a worker may have written
          Total,      \* seconds the worker and the oracle share
          MaxOver,    \* bound: how far the worker outlasts them
          None

ASSUME VerdictAssumption ==
  /\ Total \in Nat
  /\ MaxOver \in Nat
  /\ None \notin {0, 1, 124, "judge_pass", "judge_fail",
                "unattested", "worker_dispatch", "oracle", "evidence", "platform_env"}

\* The path to a string starts at some object.
ASSUME OutputsAssumption ==
  \A output \in Outputs : \A line \in output :
    line[1] = "event" => Len(line[2]) \in Nat \ {0}

VARIABLES dispatch,   \* outcome of the worker, None while it works
          oracle,     \* the oracle's process
          elapsed,    \* seconds since the oracle was launched
          outcome,    \* what run_oracle returned, None without an oracle
          record      \* the attempt record, None until it is built

vars == << dispatch, oracle, elapsed, outcome, record >>

-----------------------------------------------------------------------------
(***************************************************************************)
(* Evidence of work.                                                       *)
(***************************************************************************)
\* The type of an object says "generated" (a message of the assistant), "answer",
\* "completed" (the end of something), "blocking" (an error, a status, usage) or
\* "plain" (nothing of it).
WorkKeys == {"content", "message"}
SlotKeys == {"message", "item"}

Unlocked == [metadata |-> FALSE, locked |-> FALSE, slot |-> FALSE]

\* Bug: the slot is handed down to every object below.
Regrant(context, node, isRoot) ==
  [metadata |-> \/ node.kind \in {"completed", "blocking"}
                \/ (context.metadata /\ ~(context.slot /\ node.kind = "generated")),
   locked |-> FALSE,
   slot |-> context.slot \/ (isRoot /\ node.kind = "completed")]

\* One object of _json_has_work_text: metadata marks all that is below it; only
\* a generated message, directly in the slot of a root that completes
\* something, comes out of it.
Descend(context, node, isRoot) ==
  LET redeemed == /\ ~context.locked
                  /\ context.slot
                  /\ node.kind = "generated"
  IN  [metadata |-> \/ node.kind \in {"completed", "blocking"}
                    \/ (context.metadata /\ ~redeemed),
       locked |-> context.locked \/ node.kind = "blocking",
       slot |-> isRoot /\ node.kind = "completed" /\ node.key \in SlotKeys]

HasWorkText(path) ==
  LET context[n \in 0..Len(path)] ==
        IF n = 0 THEN Unlocked ELSE Descend(context[n - 1], path[n], n = 1)
  IN  ~context[Len(path)].metadata /\ path[Len(path)].key \in WorkKeys

\* stdout_has_work_evidence: an array of strings counts if it is all there is.
HasWork(output) ==
  \/ << "prose" >> \in output
  \/ output = {<< "strings" >>}
  \/ \E line \in output : line[1] = "event" /\ HasWorkText(line[2])

\* no_work_evidence: paths that were not measured accuse nobody.
NoWork ==
  /\ outcome = None
  /\ dispatch.exit = 0
  /\ dispatch.changed = FALSE
  /\ ~HasWork(dispatch.output)

-----------------------------------------------------------------------------
(***************************************************************************)
(* The oracle.                                                             *)
(***************************************************************************)
TimedOut == 124

\* Bug: the oracle gets the whole of the time once more.
WholeBudget(used) == Total

\* oracle_timeout_seconds.
Budget(used) == IF used >= Total THEN 0 ELSE Total - used

Init ==
  /\ dispatch = None
  /\ oracle = [state |-> "none", exit |-> None, at |-> None]
  /\ elapsed = 0
  /\ outcome = None
  /\ record = None

\* dispatch_route returns what the worker did, by itself or killed.  Bound: the
\* time is told apart where an oracle is asked for, the output where none is.
WorkerReturns ==
  /\ dispatch = None
  /\ \E exit \in {0, 1, TimedOut}, changed \in {TRUE, FALSE, None}, asked \in BOOLEAN :
       \E used \in IF asked THEN 0..Total + MaxOver ELSE {0},
          output \in IF asked THEN {{}} ELSE Outputs :
         dispatch' = [used |-> used, exit |-> exit, changed |-> changed,
                      output |-> output, asked |-> asked]
  /\ UNCHANGED << oracle, elapsed, outcome, record >>

\* run_oracle.
Launch ==
  /\ dispatch # None /\ dispatch.asked
  /\ oracle.state = "none" /\ outcome = None
  /\ oracle' = [oracle EXCEPT !.state = "running"]
  /\ UNCHANGED << dispatch, elapsed, outcome, record >>

\* The oracle cannot be set up (run_oracle raises, its caller makes the same
\* evidence of it) or launched: it failed.
LaunchFails ==
  /\ dispatch # None /\ dispatch.asked
  /\ oracle.state = "none" /\ outcome = None
  /\ \E setup \in BOOLEAN : outcome' = [exit |-> None, error |-> TRUE, setup |-> setup]
  /\ UNCHANGED << dispatch, oracle, elapsed, record >>

\* External: the oracle's process ends by itself.
OracleEnds(exit) ==
  /\ oracle.state = "running"
  /\ oracle' = [state |-> "ended", exit |-> exit, at |-> elapsed]
  /\ UNCHANGED << dispatch, elapsed, outcome, record >>

\* A poll finds it ended, or late and kills it, or sleeps at most to the deadline.
PollEnded ==
  /\ oracle.state = "ended" /\ outcome = None
  /\ outcome' = [exit |-> oracle.exit, error |-> FALSE, setup |-> FALSE]
  /\ UNCHANGED << dispatch, oracle, elapsed, record >>

PollLate ==
  /\ oracle.state = "running"
  /\ elapsed >= Budget(dispatch.used)
  /\ oracle' = [oracle EXCEPT !.state = "killed"]
  /\ outcome' = [exit |-> TimedOut, error |-> FALSE, setup |-> FALSE]
  /\ UNCHANGED << dispatch, elapsed, record >>

Sleep ==
  /\ oracle.state = "running"
  /\ elapsed < Budget(dispatch.used)
  /\ elapsed' = elapsed + 1
  /\ UNCHANGED << dispatch, oracle, outcome, record >>

-----------------------------------------------------------------------------
(***************************************************************************)
(* The record.                                                             *)
(***************************************************************************)

\* _oracle_verdict; the mark of a review or a judgement takes its place.
Verdict(mark) ==
  CASE mark # None -> mark
    [] mark = None /\ outcome = None -> "unverified"
    [] mark = None /\ outcome # None ->
         IF outcome.exit = 0 THEN "pass" ELSE "fail"

\* _failure_class: an oracle that answers 124 has not timed out, and is a
\* rejection like any other; a worker that does has.
FailureClass ==
  CASE dispatch.exit = TimedOut \/ oracle.state = "killed" -> "platform_timeout"
    [] NoWork -> "platform_env"
    [] OTHER -> IF outcome = None \/ outcome.exit = 0 THEN None
                ELSE IF outcome.error THEN "platform_env" ELSE "spec_rejected"

\* _verified_success_reason: None if the success is verified.
Gap(attested, mark, measured, priced, subscription) ==
  IF ~attested THEN "unattested"
  ELSE IF dispatch.exit # 0 THEN "worker_dispatch"
  ELSE IF Verdict(mark) # "pass" THEN "oracle"
  ELSE IF FailureClass # None \/ ~measured \/ ~(priced \/ subscription) THEN "evidence"
  ELSE None

\* build_attempt_record, and the code the command exits with.
Conclude(attested, mark, measured, priced, subscription) ==
  /\ dispatch # None /\ record = None
  /\ dispatch.asked => outcome # None
  /\ record' =
       [verdict |-> Verdict(mark), failure |-> FailureClass,
        gap |-> Gap(attested, mark, measured, priced, subscription),
        exit |-> IF NoWork \/ (outcome # None /\ outcome.setup) THEN 3
                 ELSE dispatch.exit]
  /\ UNCHANGED << dispatch, oracle, elapsed, outcome >>

Next ==
  \/ WorkerReturns
  \/ Launch \/ LaunchFails
  \/ \E exit \in {0, 1, TimedOut} : OracleEnds(exit)
  \/ PollEnded \/ PollLate \/ Sleep
  \/ \E attested, measured, priced, subscription \in BOOLEAN,
        mark \in {None, "judge_pass", "judge_fail"} :
       Conclude(attested, mark, measured, priced, subscription)

Spec == Init /\ [][Next]_vars

-----------------------------------------------------------------------------
(***************************************************************************)
(* Properties.                                                             *)
(***************************************************************************)

\* A success is verified only by an oracle that ended by itself, with 0, inside
\* the time the worker left it, after a worker that ended well
\* (oracle_timeout_seconds, run_oracle, _verified_success_reason).
SuccessInTime ==
  record # None /\ record.gap = None =>
    /\ dispatch.exit = 0
    /\ oracle.state = "ended" /\ oracle.exit = 0
    /\ oracle.at = 0 \/ dispatch.used + oracle.at <= Total

\* What a reader takes for an answer: a string that counts, below no object that
\* reports an error, a status or usage, and below no end of anything, unless
\* that is the whole event and carries a generated message directly.
Answers(path) ==
  /\ path[Len(path)].key \in WorkKeys
  /\ \A i \in 1..Len(path) : path[i].kind # "blocking"
  /\ \A i \in 1..Len(path) : path[i].kind = "completed" =>
       /\ i = 1 /\ Len(path) > 1
       /\ path[1].key \in SlotKeys /\ path[2].kind = "generated"

\* A worker is said to have done nothing, and its packet then refused to be sent
\* again unchanged, exactly when it ended well, nothing was asked of an oracle,
\* its paths were measured and unchanged, and it gave no answer; such a run
\* never exits with 0 (no_work_evidence, _json_has_work_text).
NothingDoneIsSaid ==
  record # None /\ ~dispatch.asked =>
    LET answered ==
          \/ << "prose" >> \in dispatch.output
          \/ dispatch.output = {<< "strings" >>}
          \/ \E line \in dispatch.output : line[1] = "event" /\ Answers(line[2])
    IN  /\ record.failure = "platform_env"
             <=> dispatch.exit = 0 /\ dispatch.changed = FALSE /\ ~answered
        /\ record.failure = "platform_env" => record.exit # 0
=============================================================================
