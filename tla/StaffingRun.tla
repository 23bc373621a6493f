---------------------------- MODULE StaffingRun ----------------------------
(***************************************************************************)
(* The router's `run` command on one host: invocations that share the live *)
(* run registry and the attempt ledger, each with the worker it launches.  *)
(*                                                                         *)
(* An invocation reads the ledger and may refuse an unchanged re-dispatch, *)
(* registers its owned paths under the registry's lock, launches one       *)
(* worker, supervises it, appends one attempt and removes its record.      *)
(* Other invocations and `census` run in between, invocations crash or are *)
(* interrupted at any point, and process ids are used again.               *)
(*                                                                         *)
(* Invocations are numbered in the order they start, so a number is also   *)
(* the start time of the process, and names its registry record and its    *)
(* attempt: both have ids of their own in the code.                        *)
(***************************************************************************)
EXTENDS Naturals, Sequences, FiniteSets, FiniteSetsExt

CONSTANTS
  MaxRuns,         \* bound: invocations of `run`
  MaxMishaps,      \* bound: invocations that crash or leave with an exception
  Pids,            \* bound: process ids
  Asked,           \* bound: Asked[r]: what invocation r may be asked
  Jobs,            \* pairs of a packet and a route
  Paths,           \* normalized paths
  Under,           \* <<a, b>>: path a is b or inside it
  Timeouts,        \* values of --timeout, in seconds
  Answers,         \* outputs of a worker that say something and change no file
  StartTimes,      \* /proc tells the start time of a process
  None             \* no value

Runs == 1..MaxRuns
Census == 0

\* The arguments of an invocation that matter here.
Call == [job : Jobs, owned : SUBSET Paths \ {{}}, timeout : Timeouts \cup {None}]

\* DEFAULT_MAX_MINUTES of the watchdog, in seconds.
DefaultCeiling == 7200

\* What an attempt says of its worker, as far as a later invocation asks: it did
\* nothing, it only said something, it was killed for a stall or for lack of
\* progress, or anything else (it changed files, failed, met an oracle, or was
\* killed at the ceiling).
Kinds == {"no_work", "kill", "other"} \cup Answers

\* How an invocation ends.  "refused": before the registry took the run; "failed":
\* nothing was launched; "raised": an exception left the command; "unrecorded":
\* the attempt could not be built or appended; "done": the attempt was appended.
Ends == {"refused", "failed", "raised", "unrecorded", "done"}

ASSUME RunAssumption ==
  /\ MaxRuns \in Nat
  /\ MaxMishaps \in Nat
  /\ Asked \in [Runs -> SUBSET Call]
  /\ Under \subseteq Paths \X Paths
  /\ \A a \in Paths : << a, a >> \in Under
  /\ StartTimes \in BOOLEAN
  /\ None \notin Pids \cup Kinds \cup Ends \cup Nat

\* Whole seconds whose distance from a whole minute a float can tell from 0.05
\* minutes, and short enough for the digits below.
ASSUME TimeoutAssumption ==
  \A t \in Timeouts : t \in 1..59999 /\ t % 60 \notin {3, 57}

VARIABLES
  pc,              \* where an invocation is
  pid,             \* its process id
  call,            \* what it was asked
  parent,          \* the attempt it is an escalation of
  end,             \* how it ended, once that is known
  result,          \* what its worker turned out to have done, until that is recorded
  worker,          \* its worker
  records,         \* record files in the registry directory
  lock,            \* holder of the registry lock
  listed,          \* names the holder found in the directory
  ledger,          \* the attempts that can be read back, oldest first
  torn,            \* the ledger's last line is not a whole record
  began            \* what the ledger was when an invocation started, its length and
                   \* whether it was torn: a history, which no action reads

vars == << pc, pid, call, parent, end, result, worker, records, lock, listed,
           ledger, torn, began >>

\* A definition whose comment starts with "Bug:" is the one after it (or after
\* the next such) with a plausible mistake in it; nothing uses it.  Checking
\* with it in the other's place shows that a property notices the mistake.

-----------------------------------------------------------------------------
Points == {"idle", "begun", "checked", "scanning", "registered", "dispatched",
           "completed", "leaving", "over", "dead"}

\* "killed": the watchdog's signals were sent, and the worker is not gone yet.
Workers == {"none", "running", "killed", "gone"}
Attempt == [run : Runs, kind : Kinds]

TypeOK ==
  /\ pc \in [Runs -> Points]
  /\ pid \in [Runs -> Pids \cup {None}]
  /\ call \in [Runs -> Call \cup {None}]
  /\ parent \in [Runs -> Runs \cup {None}]
  /\ end \in [Runs -> Ends \cup {None}]
  /\ result \in [Runs -> Kinds \cup {None}]
  /\ worker \in [Runs -> Workers]
  /\ records \subseteq Runs
  /\ lock \in Runs \cup {Census, None}
  /\ listed \subseteq Runs
  /\ ledger \in Seq(Attempt)
  /\ torn \in BOOLEAN
  /\ began \in [Runs -> [length : Nat, torn : BOOLEAN]]

Init ==
  /\ pc = [r \in Runs |-> "idle"]
  /\ pid = [r \in Runs |-> None]
  /\ call = [r \in Runs |-> None]
  /\ parent = [r \in Runs |-> None]
  /\ end = [r \in Runs |-> None]
  /\ result = [r \in Runs |-> None]
  /\ worker = [r \in Runs |-> "none"]
  /\ records = {}
  /\ lock = None
  /\ listed = {}
  /\ ledger = << >>
  /\ torn = FALSE
  /\ began = [r \in Runs |-> [length |-> 0, torn |-> FALSE]]

-----------------------------------------------------------------------------
\* The process of an invocation exists.
Alive(r) == pc[r] \notin {"idle", "over", "dead"}

\* The invocation is between its registration and the removal of its record.
Holding(r) == pc[r] \in {"registered", "dispatched", "completed", "leaving"}

\* Bug: only a path inside an owned one counts.
IntersectInside(A, B) == \E a \in A, b \in B : << a, b >> \in Under

\* paths_intersect over two sets of paths.
Intersect(A, B) ==
  \E a \in A, b \in B : << a, b >> \in Under \/ << b, a >> \in Under

Conflict(r, q) == Intersect(call[r].owned, call[q].owned)

\* Bug: start times are compared the wrong way round.
LiveIfReused(q) ==
  \E s \in Runs : Alive(s) /\ pid[s] = pid[q] /\ s # q

\* evaluate_record_liveness: a process has the pid of the record, and where start
\* times are known it is the process that registered.
Live(q) ==
  \E s \in Runs : /\ Alive(s)
                  /\ pid[s] = pid[q]
                  /\ StartTimes => s = q

\* _format_minutes prints a ceiling as a whole number of minutes when it is
\* within three seconds of one, and with six significant digits otherwise.
\* Scale(c) is the power of ten of the last digit; Printed(c) counts that digit.
Scale(c) ==
  CASE c < 6    -> 10000000
    [] c < 60   -> 1000000
    [] c < 600  -> 100000
    [] c < 6000 -> 10000
    [] OTHER    -> 1000

Nearest(c) == (c + 30) \div 60

Printed(c) ==
  IF c + 3 > 60 * Nearest(c) /\ c < 60 * Nearest(c) + 3
    THEN Nearest(c) * Scale(c)
    ELSE (2 * c * Scale(c) + 60) \div 120

Ceiling(t) == IF t = None THEN DefaultCeiling ELSE t

\* Whether a new --timeout lies below a recorded ceiling, as it was printed.
Below(t, c) == t # None /\ t * Scale(c) < 60 * Printed(c)

\* The places in the ledger of the attempts on a job.
On(job) == {i \in DOMAIN ledger : call[ledger[i].run].job = job}

\* Bug: a link to the latest attempt reopens the cycle any number of times.
UnchangedUnlessLinked(r) ==
  LET mine == On(call[r].job)
  IN mine # {} /\ parent[r] # ledger[Max(mine)].run

\* unchanged_redispatch_refusal: whether r must not repeat what its job's latest
\* attempts did.
Unchanged(r) ==
  LET mine == On(call[r].job)
      prior == ledger[Max(mine)]
      before == mine \ {Max(mine)}
      again == before # {} /\ ledger[Max(before)].kind = prior.kind
  IN /\ mine # {}
     /\ \/ prior.kind \in Answers /\ again
        \/ prior.kind = "no_work" /\ (again \/ parent[r] # prior.run)
        \/ /\ prior.kind = "kill"
           /\ parent[r] # prior.run
           /\ ~ Below(call[r].timeout, Ceiling(call[prior.run].timeout))

-----------------------------------------------------------------------------
\* An invocation starts under a free process id, with or without a link to an
\* attempt that was recorded before.
Start(r, p, c) ==
  /\ pc[r] = "idle"
  /\ r > 1 => pc[r - 1] # "idle"
  /\ \A s \in Runs : Alive(s) => pid[s] # p
  /\ pc' = [pc EXCEPT ![r] = "begun"]
  /\ pid' = [pid EXCEPT ![r] = p]
  /\ call' = [call EXCEPT ![r] = c]
  /\ \E q \in {None} \cup {ledger[i].run : i \in DOMAIN ledger} :
       parent' = [parent EXCEPT ![r] = q]
  /\ began' = [began EXCEPT ![r] = [length |-> Len(ledger), torn |-> torn]]
  /\ UNCHANGED << end, result, worker, records, lock, listed, ledger, torn >>

\* The command returns: its process ends.
Leave(r, how) ==
  /\ pc' = [pc EXCEPT ![r] = "over"]
  /\ end' = [end EXCEPT ![r] = how]

\* Selection, metadata, the packet, credentials or the oracle's command line are
\* refused.
Decline(r) ==
  /\ pc[r] = "begun"
  /\ Leave(r, "refused")
  /\ UNCHANGED << pid, call, parent, result, worker, records, lock, listed,
                  ledger, torn, began >>

\* Bug: a damaged line is skipped, as read_events skips it.
UnreadableNever == FALSE

\* What read_attempts makes of the ledger: one damaged line refuses them all.
Unreadable == torn

\* read_attempts and the re-dispatch rule, outside the registry lock.
Check(r) ==
  /\ pc[r] = "begun"
  /\ IF Unreadable \/ Unchanged(r)
       THEN Leave(r, "refused")
       ELSE /\ pc' = [pc EXCEPT ![r] = "checked"]
            /\ UNCHANGED end
  /\ UNCHANGED << pid, call, parent, result, worker, records, lock, listed,
                  ledger, torn, began >>

-----------------------------------------------------------------------------
\* register_run and census_registry take the lock and list the directory.
Scan(h) ==
  /\ lock = None
  /\ lock' = h
  /\ listed' = records

Release ==
  /\ lock' = None
  /\ listed' = {}

Acquire(r) ==
  /\ pc[r] = "checked"
  /\ Scan(r)
  /\ pc' = [pc EXCEPT ![r] = "scanning"]
  /\ UNCHANGED << pid, call, parent, end, result, worker, records, ledger, torn, began >>

\* The lock was not free for _LOCK_TIMEOUT_SECONDS.
GiveUp(r) ==
  /\ pc[r] = "checked"
  /\ lock # None
  /\ Leave(r, "refused")
  /\ UNCHANGED << pid, call, parent, result, worker, records, lock, listed,
                  ledger, torn, began >>

\* _load_records opens the files that were listed.  One that has gone since is an
\* OSError, and the whole operation fails.
Missing == \E q \in listed : q \notin records

Vanished(r) ==
  /\ pc[r] = "scanning"
  /\ Missing
  /\ Release
  /\ Leave(r, "refused")
  /\ UNCHANGED << pid, call, parent, result, worker, records, ledger, torn, began >>

\* Bug: nothing is removed.
PurgedNever == records

\* _purge_stale_locked: what is left of the directory.
Purged == records \ {q \in listed : ~ Live(q)}

\* The live records are compared with the paths of r and its record is published,
\* unless that fails.  Opening, judging and publishing are one step: meanwhile
\* records are only removed, and a removal in between comes to the same as one
\* before the listing or after.
Register(r) ==
  /\ pc[r] = "scanning"
  /\ ~ Missing
  /\ Release
  /\ \/ /\ \A q \in listed : Live(q) => ~ Conflict(r, q)
        /\ records' = Purged \cup {r}
        /\ pc' = [pc EXCEPT ![r] = "registered"]
        /\ UNCHANGED end
     \/ /\ records' = Purged
        /\ Leave(r, "refused")
  /\ UNCHANGED << pid, call, parent, result, worker, ledger, torn, began >>

-----------------------------------------------------------------------------
\* dispatch_route launches the worker.
Launch(r) ==
  /\ pc[r] = "registered"
  /\ pc' = [pc EXCEPT ![r] = "dispatched"]
  /\ worker' = [worker EXCEPT ![r] = "running"]
  /\ UNCHANGED << pid, call, parent, end, result, records, lock, listed,
                  ledger, torn, began >>

\* No command could be built, no directory to work in, no such program.
LaunchFails(r) ==
  /\ pc[r] = "registered"
  /\ pc' = [pc EXCEPT ![r] = "leaving"]
  /\ end' = [end EXCEPT ![r] = "failed"]
  /\ UNCHANGED << pid, call, parent, result, worker, records, lock, listed,
                  ledger, torn, began >>

\* A worker ends, supervised or not.
WorkerEnds(r) ==
  /\ worker[r] \in {"running", "killed"}
  /\ worker' = [worker EXCEPT ![r] = "gone"]
  /\ UNCHANGED << pc, pid, call, parent, end, result, records, lock, listed,
                  ledger, torn, began >>

\* The supervisor sees the worker's exit.
Reap(r) ==
  /\ pc[r] = "dispatched"
  /\ worker[r] = "gone"
  /\ pc' = [pc EXCEPT ![r] = "completed"]
  /\ \E k \in Kinds \ {"kill"} : result' = [result EXCEPT ![r] = k]
  /\ UNCHANGED << pid, call, parent, end, worker, records, lock, listed,
                  ledger, torn, began >>

\* What an attempt says of a kill: a ceiling is not held against a retry.
KillKinds == {"kill", "other"}

\* The watchdog kills the worker, which may have ended since the last poll, and
\* the wait for it succeeds.
Kill(r) ==
  /\ pc[r] = "dispatched"
  /\ pc' = [pc EXCEPT ![r] = "completed"]
  /\ worker' = [worker EXCEPT ![r] = "gone"]
  /\ \E k \in KillKinds : result' = [result EXCEPT ![r] = k]
  /\ UNCHANGED << pid, call, parent, end, records, lock, listed, ledger,
                  torn, began >>

\* Another invocation may come to grief.
Spared == Cardinality({r \in Runs : pc[r] = "dead" \/ end[r] = "raised"}) < MaxMishaps

\* The wait for a killed worker times out, and the exception leaves the command.
KillTimesOut(r) ==
  /\ pc[r] = "dispatched"
  /\ worker[r] = "running"
  /\ Spared
  /\ pc' = [pc EXCEPT ![r] = "leaving"]
  /\ end' = [end EXCEPT ![r] = "raised"]
  /\ worker' = [worker EXCEPT ![r] = "killed"]
  /\ UNCHANGED << pid, call, parent, result, records, lock, listed,
                  ledger, torn, began >>

\* The attempt is appended.  After a torn line it becomes part of that line.
AppendAttempt(r) ==
  /\ pc[r] = "completed"
  /\ pc' = [pc EXCEPT ![r] = "leaving"]
  /\ end' = [end EXCEPT ![r] = "done"]
  /\ ledger' = IF torn THEN ledger ELSE Append(ledger, [run |-> r, kind |-> result[r]])
  /\ result' = [result EXCEPT ![r] = None]
  /\ UNCHANGED << pid, call, parent, worker, records, lock, listed,
                  torn, began >>

\* The attempt cannot be built, is not valid, or the ledger's lock or file is out
\* of reach.
Unrecorded(r) ==
  /\ pc[r] = "completed"
  /\ pc' = [pc EXCEPT ![r] = "leaving"]
  /\ end' = [end EXCEPT ![r] = "unrecorded"]
  /\ result' = [result EXCEPT ![r] = None]
  /\ UNCHANGED << pid, call, parent, worker, records, lock, listed,
                  ledger, torn, began >>

\* Bug: the record is written once more, until it is there.
AfterShortWriteAgain(r) ==
  /\ ledger' = Append(ledger, [run |-> r, kind |-> result[r]])
  /\ UNCHANGED << pc, end, result >>

\* Where a write that stopped short leaves the invocation.
AfterShortWrite(r) ==
  /\ pc' = [pc EXCEPT ![r] = "leaving"]
  /\ end' = [end EXCEPT ![r] = "unrecorded"]
  /\ result' = [result EXCEPT ![r] = None]
  /\ UNCHANGED ledger

\* The one write of the attempt was short.
ShortWrite(r) ==
  /\ pc[r] = "completed"
  /\ torn' = TRUE
  /\ AfterShortWrite(r)
  /\ UNCHANGED << pid, call, parent, worker, records, lock, listed,
                  began >>

\* deregister_run, without the lock; removing the file may fail.
Deregister(r) ==
  /\ pc[r] = "leaving"
  /\ Leave(r, end[r])
  /\ records' \in {records \ {r}, records}
  /\ UNCHANGED << pid, call, parent, result, worker, lock, listed,
                  ledger, torn, began >>

-----------------------------------------------------------------------------
\* An interrupt: what finally clauses release, they release; the worker runs in a
\* session of its own and is not told.
Interrupt(r) ==
  /\ Alive(r)
  /\ end[r] = None
  /\ Spared
  /\ pc' = [pc EXCEPT ![r] = IF Holding(r) THEN "leaving" ELSE "over"]
  /\ end' = [end EXCEPT ![r] = "raised"]
  /\ result' = [result EXCEPT ![r] = None]
  /\ IF lock = r THEN Release ELSE UNCHANGED << lock, listed >>
  /\ UNCHANGED << pid, call, parent, worker, records, ledger, torn, began >>

\* The process is gone at once; the kernel releases its lock.
Crash(r) ==
  /\ Alive(r)
  /\ Spared
  /\ pc' = [pc EXCEPT ![r] = "dead"]
  /\ result' = [result EXCEPT ![r] = None]
  /\ IF lock = r THEN Release ELSE UNCHANGED << lock, listed >>
  /\ UNCHANGED << pid, call, parent, end, worker, records, ledger, torn, began >>

\* `census` takes the lock; it lists, reads and purges like a registration, and
\* fails like one.
CensusBegins ==
  /\ Scan(Census)
  /\ UNCHANGED << pc, pid, call, parent, end, result, worker, records, ledger, torn, began >>

CensusEnds ==
  /\ lock = Census
  /\ records' = IF Missing THEN records ELSE Purged
  /\ Release
  /\ UNCHANGED << pc, pid, call, parent, end, result, worker, ledger, torn, began >>

-----------------------------------------------------------------------------
\* What an invocation does next when nobody stops it.
Step(r) ==
  \/ Decline(r) \/ Check(r)
  \/ Acquire(r) \/ GiveUp(r) \/ Vanished(r) \/ Register(r)
  \/ Launch(r) \/ LaunchFails(r) \/ Reap(r) \/ Kill(r) \/ KillTimesOut(r)
  \/ AppendAttempt(r) \/ Unrecorded(r) \/ ShortWrite(r) \/ Deregister(r)

CensusStep == CensusBegins \/ CensusEnds

Next ==
  \/ \E r \in Runs :
       \/ \E p \in Pids, c \in Asked[r] : Start(r, p, c)
       \/ Step(r) \/ WorkerEnds(r) \/ Interrupt(r) \/ Crash(r)
  \/ CensusStep

Spec == Init /\ [][Next]_vars

\* A process that can go on does.  Somebody runs `census` now and then.  Workers
\* owe nothing: the watchdog's ceiling is part of the supervisor.
Fairness == (\A r \in Runs : WF_vars(Step(r))) /\ WF_vars(CensusStep)

FairSpec == Spec /\ Fairness
-----------------------------------------------------------------------------
\* Two invocations that hold a registration own no intersecting paths, whatever
\* crashed before them and whichever process ids came back (register_run,
\* evaluate_record_liveness).
LiveRunsDisjoint ==
  \A r, q \in Runs : r # q /\ Holding(r) /\ Holding(q) => ~ Conflict(r, q)

\* The record of an invocation that is still at work is in the registry: no purge
\* takes it, although purges judge by process ids and removal takes no lock.
LiveRunsRegistered == \A r \in Runs : Holding(r) => r \in records

\* An invocation that says its attempt is recorded recorded it once, unless the
\* ledger was torn; one that says otherwise has no attempt, and one that was
\* refused launched nothing (append_attempt is never retried).
RecordedOnce ==
  /\ \A i, j \in DOMAIN ledger : i # j => ledger[i].run # ledger[j].run
  /\ \A i \in DOMAIN ledger : end[ledger[i].run] = "done"
  /\ \A r \in Runs : end[r] = "done" /\ ~ torn => \E i \in DOMAIN ledger : ledger[i].run = r
  /\ \A r \in Runs : end[r] \in {"refused", "failed"} => worker[r] = "none"

\* Attempt k of the ledger is the next on the job of attempt j.
Follows(j, k) ==
  LET job(i) == call[ledger[i].run].job
  IN /\ j < k
     /\ job(j) = job(k)
     /\ \A i \in DOMAIN ledger : j < i /\ i < k => job(i) # job(k)

\* Two attempts in a row on one packet and route that did nothing, or gave the
\* same answer, are not followed by a third, linked or not: only by one that
\* was under way before the second was recorded (unchanged_redispatch_refusal).
SpentCyclesStay ==
  \A i, j, k \in DOMAIN ledger :
    /\ Follows(i, j) /\ Follows(j, k)
    /\ ledger[i].kind = ledger[j].kind
    /\ ledger[i].kind \in {"no_work"} \cup Answers
    => began[ledger[k].run].length < j

\* Once an append was cut short, no invocation that starts later launches a worker
\* (read_attempts fails closed, and nothing repairs the ledger).
TornLedgerStopsRuns == \A r \in Runs : began[r].torn => worker[r] = "none"

\* Again and again every record in the registry belongs to a living process: what
\* a crash or a failed removal leaves does not keep its paths for good
\* (census_registry, _purge_stale_locked).
StaleRecordsGo == []<>(\A r \in records : Alive(r))

\* An attempt that was killed for a stall or for lack of progress is followed, on
\* its packet and route, by one linked to it, one with a strictly lower timeout,
\* or one that was under way before ("retried with a strictly lower timeout").
KillsRetriedLower ==
  \A j, k \in DOMAIN ledger :
    LET before == ledger[j].run
        after == ledger[k].run
    IN /\ Follows(j, k)
       /\ ledger[j].kind = "kill"
       /\ began[after].length >= j
       /\ parent[after] # before
       => Ceiling(call[after].timeout) < Ceiling(call[before].timeout)

\* Workers that run at the same time own no intersecting paths, unless the process
\* of one invocation was killed outright ("parallel work is permitted only for
\* disjoint owned paths").
WorkersDisjoint ==
  \A r, q \in {s \in Runs : worker[s] = "running" /\ pc[s] # "dead"} :
    r # q => ~ Conflict(r, q)
=============================================================================
