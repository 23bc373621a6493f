# AI-Emp-Factory in TLA+

A verification development kept beside the repository: TLA+ modules translated
from its source, TLC configurations that check them on small instances, and
theorems that TLAPS proves for every instance.

Paths are relative to `src/`; `store.go` and `board.go` stand for
`board/source/internal/store/store.go` and `board/source/internal/services/board.go`,
and `doctor.py`, `run.py`, `census.py`, `ledger.py` for the router's files under
`router/src/lee_llm_router/` (the last three in `staffing/`).

## 1. Inventory

### 1.1 The parts and how they interact

```
 workers (internal/worker)   employees (board_seam)   operators, managers (cli, dashboard)
            \                        |                        /
             +---------- HTTP API (internal/httpapi) --------+
                legacy path  |  participant path (bound grant)
                             v
                 services (internal/services)  ---- active-state cache
                             v
                 store (internal/store): SQLite, ONE connection
                             ^
              stale sweeper (ticker in internal/httpapi)

 router (lee_llm_router): staffs a task with a model, runs attempts, keeps a ledger
   quotas (ai-subs) -> availability -> eligibility -> staff, run -> worker -> oracle
                                                            |
              imports (benchmark, Agent-Orch) --> attempt ledger --> rollup, report, ladders
 factory: deployment records of employees, reconciled with seed, missions, workspaces
 schemas: what an employee may do (authority), for whom now (assignment), and what it
   passes on (contract, envelope); the factory delegates over the Board
 board/deploy: cutover, rollback and backup of one Board instance
```

| Component | State it keeps | Operations | What makes it hard |
|---|---|---|---|
| Task store (`store.go`) | tables `tasks`, `leases`, `agents`, `machines`, `messages` | register, create, poll-and-claim, renew (two forms), expire, transition, acknowledge | every transaction is atomic (one connection) but a renewal is three statements; the clock is read before the wait for the connection; deadlines are compared as text |
| Services (`board.go`) | none | submit, complete, block, fail, cancel, approve, approve-only, send back | read-check in one statement, write in a later transaction |
| HTTP API (`httpapi`) | the sweeper's ticker | routes, the participant boundary | ownership is tested in the handler, the lease is derived, and both are asserted again in the transaction |
| Review gate (`store.go`) | review tasks and at most one disposition of each | upsert, disposition | replay against conflict; racing task actions |
| Active-state cache (`services/active_state*.go`) | the published artifact, one refresh generation, the persisted file | read, refresh, persist | coalescing, deadlines, late results |
| Observation ledger | append-only rows | append, list | order by text; idempotent append |
| Worker (`worker.go`) | the task it runs, the renewer goroutine | poll, renew, execute, upload, report | lost renewals, late results, restarts |
| Auth (`auth/local.go`) | users, sessions, tokens, grants | login, verify, reload | a reload under open sessions |
| Router `run` (`doctor.py`, `staffing/run.py`, `ledger.py`) | the attempt ledger, one worker per invocation | select, check, launch, supervise, append | the ledger is read before the registry lock; a short write; an exception between launch and record |
| Live-run registry (`staffing/census.py`) | one record file per invocation at work | register, purge, census, deregister | process ids come back; removal takes no lock; a crash leaves its record |
| Selection (`availability.py`, `staffing/eligibility.py`, `staff.py`, `ladder.py`, `price.py`, `run.py`) | none: a quota snapshot with an age, policy and terms | evaluate, staff (auto, crew, bind), quote, select | several buckets speak of one channel; stale or malformed ones; four paths with exclusions of their own |
| Worker's end (`watchdog.py`, `staffing/run.py`) | a child process and its descendants; receipts; the oracle | poll, kill, capture usage, bill, run the oracle, judge | processes that fork, hide and give ids back during the kill; receipts cut or repeated; one budget for worker and oracle |
| Evidence (`import_evidence.py`, `rollup.py`, `evidence.py`, `evidence_report.py`, `ladder_derivation.py`) | lines of the attempt ledger | import, correct, count, compare, derive ladders | imports broken off and repeated; one rule written three times |
| Employee registry (`factory/scripts/employee_registry.py`, `deployment.py`) | one record file per employee, evidence files | generate, activate, reconcile | nothing locks the directory; a shared temporary file; a stop between two writes |
| Authority, assignment (`schemas/ai_employee`) | a contract; a grant, its status, an assignment | grant, decide; observe, admit | specificity without ties; a revocation after the observation |
| Employee contract (`contract.py`, `envelope.py`) | artifact numbers, artifacts passed on | run, refuse, envelope, load | doubt that gets lost along a chain of employees |
| `board_delegate` | a remote task | delegate, close | retries over a remote state machine |
| Deployment scripts | unit files, backups, instance directory | cutover, rollback, backup | a stop between two steps |
| Projections, cockpit, roster, command lines of providers | none of their own | read models, rendering, validation, parsing | pure data |

What makes the core correct: no task is handed to two agents at a time; a claim
and its lease begin and end together; a late answer changes nothing; a
participant settles only what it holds; an agent that died gives its task back;
review requests go with the review; and the text comparison of deadlines does
no more harm than its one second. What makes the shared state artifact correct:
one collector at a time, nothing late published, nothing older shown after
something newer, and a restart that goes on from what was shown. What makes the
router's runs correct: invocations at work own disjoint paths, an attempt is
recorded once or not at all and the exit code says which, a job that did nothing
twice is not dispatched a third time, a damaged ledger stops everything, and what
a crash leaves does not keep its paths for good; a route is launched on headroom
that was measured and fresh, and reviewed by another than its author; the kill of
a worker reaches its processes and no other; a bill covers what was used; a
verified success was earned in time; an import settles its rows once, and all
readers of the ledger count alike. What makes employees trustworthy: a denial
stands whatever else is granted, work ends with its authority, doubt about an
input travels with the output, and what the registry calls active rests on
evidence.

### 1.2 Interactions that the models keep

* A *call* is a request in flight: the handler, the service and the store each
  execute statements of their own, and the connection is given to somebody else
  in between. Calls end at any point (a cancelled context, a stopped server) and
  keep what they committed.
* The *sweeper* runs on a ticker and competes with every call.
* The *clock* is read by `PollAndClaim`, `RenewLease`, `ExpireStaleLeases` and
  `ActiveLeaseForParticipation` before they wait for the connection, so what they
  compare with may be late by the time of that wait.
* The *cache* of a process is touched in sections under its mutex; the file is
  written between two of them, and the command line's processes write the same
  file as the server. A collector is a goroutine that may never return.
* *Invocations* of the router share two files and nothing else: the registry under
  a kernel lock, from which each removes its own record without the lock, and the
  ledger. An interrupt runs the finally clauses, a crash runs nothing, and the
  worker, in a session of its own, hears of neither.

## 2. Plan

1. **Done.** `TimeText` (stored times as text), `TaskBoard` (store, services,
   handlers and sweeper in one module, because their interleaving is the point),
   `WorkOwnership` (what the Board promises) and the proofs.
2. **Done.** `ActiveStateCache` (coalesced refresh, deadlines, the file and
   restarts) and its proofs. `PublishedInOrder` is its abstract promise: what a
   process shows is a register whose version only grows.
3. **Done.** `StaffingRun` (the router's `run` command: registry, re-dispatch rule,
   worker, ledger) and its proofs.
4. **Done.** The rest of an attempt: `RouteSelection`, `SupervisedDispatch`,
   `UsageCapture`, `AttemptVerdict`, `EvidenceLedger`, with the proofs of
   `RouterProofs` and `MeasureProofs`.
5. **Done.** Employees: `Authority`, `Assignment`, `EmployeePipeline`,
   `EmployeeRegistry`, with the proofs of `SchemaProofs` and `RegistryProofs`.
   `Factory` holds all the parts of 4 and 5, each in an instance.
6. Left to model: `ReviewGate` (`UpsertBoardReviewTask` and `ApplyReviewDisposition`
   racing the task actions: a decision is taken once), `Worker` and `Delegation`
   composed with `TaskBoard` (renewer, executor, `board_delegate`), `Auth` (sessions
   and the reload of the auth file), `Deployment` (cutover and rollback).
7. **Done.** A theorem for every invariant and action property that the passing runs
   check. Left to prove: those of the modules of 6, and that `StaffingRun` and
   `EvidenceLedger`, which both append to the ledger, keep one append-only sequence.

Every module takes its sizes as CONSTANTS with named assumptions, has one action
per operation, states its invariants as conjunctions of named parts, and uses no
RECURSIVE operator, so that it can be proved about: what is recursive is a
function, or a least closed set (the descendants of a process).

## 3. Modules

### `TimeText`
`nowText` (`store.go:2289`) stores times in RFC 3339 with trailing zeros of the
fraction removed; `formatObservationTime` (`observations.go:18`) keeps them.
SQLite compares the texts byte by byte. An instant is a number of ticks; a text
is a sequence of codes whose order is the bytes' (`.` < digits < `Z`). `NanoLess`
and `FixedLess` are the comparisons the queries make. The seconds and everything
to their left have a fixed width and are kept as one number. `Weight` counts the
ticks in a unit of each place of the fraction.

### `TaskBoard`
| Variable | Code |
|---|---|
| `now` | the wall clock, in ticks |
| `tasks` | `tasks`: `status`, `assigned_agent_id`, the review target columns |
| `leases` | `leases`: `status`, `task_id`, `agent_id`, `machine_id`, `expires_at` |
| `agents` | `agents.status` |
| `requests` | targets of the pending `review_request` messages of a task |
| `calls` | requests in flight: `at` is the statement that runs next |

| Action | Code |
|---|---|
| `RegisterAgent`, `DecayPresence` | `store.go:341`, `:785` |
| `CreateTask` | `store.go:463` |
| `Poll` (`Claim`, `Offered`, `Eligible`) | `poll` (`server.go:1212`), `PollAndClaim`, `findEligibleTask` |
| `ExpireStaleLeases` | `store.go:736`, started by `StartStaleSweeper` |
| `RenewLease`, `RenewPresence` | the statements of `RenewLease` (`store.go:627`) |
| `StartRenewal`, `RenewParticipantLease` | `renewLease` (`server.go:1254`), `store.go:663` |
| `StartAction`, `StartParticipantAction`, `FindLease` | `taskAction` (`server.go:878`) |
| `ReadTask` | the services' read and `allowTransition` (`board.go:165-295`) |
| `WriteTask` (`Released`, `Commits`, `ApplyTransition`) | `ApplyTaskTransition` (`store.go:825-1041`) |
| `AcknowledgeMessage` | `store.go:1522`, for review requests |
| `AbandonCall` | a cancelled context or a stopped server |

Participants are the agents behind a bound grant; `Home` is the machine of the
grant. A participant's call carries agent, machine and the lease its handler
derived, and `Binds` is the predicate the transaction asserts. Every other
caller takes the legacy path: it may name any lease that was issued, or none.

What is abstracted: capability and machine requirements are the constant
`CanRun`; priorities are `Rank`, and the choice between equal ranks is open (the
store takes the oldest); which agents fell silent is open; machines are always
registered; texts of tasks, messages and events are left out.

Some definitions come with a sibling whose comment starts with "Bug:": the
mistake a maintainer could make there. Nothing uses them; put in place of the
definition, each makes TLC refute the property it is meant for.

### `WorkOwnership`
What the Board promises about a task: it is `absent`, `open`, `held` or `closed`,
it is held by exactly one worker, and a holder changes only through `open` or
`closed`. `TaskBoard` implements it with `phase` and `holders` computed from
`tasks` and `leases` (`OwnershipSpec`).

### `ActiveStateCache`
The cache of each process (`services/active_state.go`), the refresh generations
(`active_state_refresh.go`) and the file (`active_state_store.go`).

| Variable | Code |
|---|---|
| `source` | version of the rows `collectActiveState` reads |
| `disk` | the file at `path`: an artifact, absent, or not valid |
| `cache` | `current`, `lastErr`, `persistErr`, `inflight`, `collecting`, `loaded` of each process |
| `gens` | an `activeStateRefresh`: `at` is where `runRefresh` and `finishRefresh` are, `collector` where its collector goroutine is, `sent` the buffered channel, `expired` the context |
| `callers` | calls of `Read` and `Refresh`: `at` is the section that comes next |

| Action | Code |
|---|---|
| `Read` (`Loaded`) | `active_state.go:119`, with `ensureLoadedLocked` |
| `Refresh`, `BeginRefresh`, `Answer`, `Abandon` | `active_state.go:138`, `active_state_refresh.go:19`; the two cases of the caller's select |
| `Collect`, `Return`, `Clear` | the collector goroutine, `active_state_refresh.go:65` |
| `Expire`, `Receive`, `Timeout` | the context and the two cases of `runRefresh`'s select |
| `Persist`, `Publish` | `finishRefresh` before and under the lock |
| `Change`, `Damage`, `Crash` | the Board's rows, the file system, the end of a process |

An artifact is the version of the rows it was collected from and a note whether
the deadline had passed when the collector handed it over; the code has no such
note, `LateResultsDiscarded` needs it. Whether an artifact has expired, whether a
collection, the building of an artifact or a write fails, and when a deadline
passes are left open. A generation nobody refers to any more is garbage, and its
name stands for the next one.

### `StaffingRun`
The router's `run` command (`doctor.py:1534`) on one host, any number of times,
with `census`.

| Variable | Code |
|---|---|
| `pc` | the statement of `_run_run` an invocation is at; `leaving` is its outer finally |
| `pid` | `os.getpid()`; start times are the invocations' numbers |
| `call`, `parent` | packet and route, `--owned-paths`, `--timeout`; `--parent` |
| `end`, `result` | how the command ends; what `dispatch_route` and the oracle came to |
| `worker` | the process `run_supervised_dispatch` starts |
| `records`, `lock`, `listed` | the registry's files, its `flock`, what its holder's glob returned |
| `ledger`, `torn` | the lines `read_attempts` can read; whether the last one is not whole |
| `began` | what the ledger was when an invocation started; the code has no such thing |

| Action | Code |
|---|---|
| `Start`, `Decline` | arguments, selection, credentials: refusals before the ledger is read |
| `Check` (`Unreadable`, `Unchanged`) | `read_attempts` and `unchanged_redispatch_refusal` (`run.py:1099`) |
| `Acquire`, `GiveUp`, `Vanished`, `Register` | `register_run` under `_registry_lock`; `Vanished` is the record that went between the listing and its read |
| `Launch`, `LaunchFails` | `dispatch_route` (`run.py:2783`) |
| `Reap`, `Kill`, `KillTimesOut` | `run_supervised` (`watchdog.py:251`) |
| `AppendAttempt`, `ShortWrite`, `Unrecorded` | `append_attempt` and `_append_line`; any failure before the write |
| `Deregister` | the finally clause and `deregister_run`, which may fail |
| `Interrupt`, `Crash`, `WorkerEnds` | the host |
| `CensusBegins`, `CensusEnds` | `census_registry` |

What is abstracted: an attempt is the kind of its result, as far as
`unchanged_redispatch_refusal` asks (no work, a repeatable answer, a kill for a
stall or for lack of progress, or anything else); paths are normalized and
`Under` says which contains which; when the watchdog kills is open. A ceiling is
compared in the digits `_format_minutes` prints (`Printed`), rounding included.
The append under the ledger's lock is one write and one step.

### `RouteSelection`
| Variable | Code |
|---|---|
| `now` | the clock, which dates the terms and ages the snapshot |
| `snapshot` | the file of ai-subs: its time and its entries, a bucket each |
| `proven` | routes with a verified run in the ledger (`proof.py`) |
| `answer` | what was answered last, with the state it was answered from |

| Action | Code |
|---|---|
| `Refresh`, `Prove`, `Tick`, `Take` | ai-subs, earlier runs, the clock, whoever asked |
| `Select` (`Chosen`, `Reasons`, `Headroom`) | `select_route` (`run.py:663`), `evaluate_eligibility`, `parse_availability` |
| `Staff` (`StaffAuto`, `StaffCrew`, `StaffBind`) | `staff` (`staff.py:937`) |
| `Quote` (`PriceRow`, `Marginal`, `Discount`) | `compute_price` (`price.py`), `route_price` (`terms.py`) |

Prices and percentages are integers, a model is a sequence of tokens of which
policy may name a prefix, and what is not comparable (a missing price, a missing
horizon) is `None`.

### `SupervisedDispatch`
The process table, one read or one signal at a time: `Fork`, `Exit` and `Appear`
(a stranger that is given a free id) are external; `Refresh` is
`_LinuxDescendantTree.refresh`, `StopRoot` to `Kill` are `terminate`, `KillGroup`,
`FallBack` and `Wait` the rest of `_ProcessGroupProxy`. A process carries what the
supervisor can see of it (parent, group, marker, birth) and `tree`, whether it
descends from the worker, which only the property looks at. `phase` is the
statement `terminate` is at, `todo` what it has still to signal. `reused`, which the
code does not have, says whether one of the tree took during the kill an id that
the supervisor remembers for a process that is gone: the end of the freeze passes
compares ids, so such a process is taken for the one before it (see the differences
in section 4).

### `UsageCapture`
`turns` is what the session really consumed, `lines` the receipts it wrote, `usage`
and `bill` what the router made of them. `Turn`, `Receipt`, `Repeat` and `Garble`
are the harness's; `Settle` is the end of `dispatch_route` with `_attempt_cost`
for each of the six harnesses, whose parsers are `CodexUsage`, `ClaudeUsage`,
`MessageUsage` (Pi), `OmpUsage`, `StepUsage` (OpenCode) and `AgyUsage`. A bill is
kept as the quantities priced at each rate. Assumed of receipts: a field is right
or missing, except that one total may be off by one; a Claude result without rows
is of one model; Pi and OMP start on the launched model; what is repeated carries
its id. For the harnesses with a receipt per turn a line that cannot be read is
assumed away: the parsers skip it and bill less.

### `AttemptVerdict`
`dispatch` is the worker's outcome, `oracle`, `elapsed` and `outcome` are
`run_oracle` (`run.py:3347`), one poll or sleep at a time, `record` is what
`build_attempt_record` says of it. `Descend` walks one JSON event of the output as
`_json_has_work_text` does; `Verdict`, `FailureClass` and `Gap` are the functions of
these names. The keys and types are told apart as far as the code does.

### `EvidenceLedger`
`ledger`, `torn`, `lock` are the file and its lock; `pc`, `at` and `known` are where
each importer is in its source and what it knows of the ledger; `receipts` are the
`usage.json` files of Agent-Orch, which may come late; `counted` is what the readers
last made of the ledger. `Begin`, `ImportRow`, `Abort`, `Leave` and `Finish` are the
imports inside `writer_transaction`; `AppendRun` is another run; `Effective`,
`Join`, `Rungs` and `Recommended` are the four readers (`rollup.py`, `evidence.py`,
`ladder_derivation.py`, `evidence_report.py`). Costs are kept as totals and counts
and compared by cross-multiplication. The levels of the join are the whole class and
its prefixes of four to two components; it takes the widest level that has a line.

### `EmployeeRegistry`
`file`, `tmp`, `evidence` are the files of each employee, `seed`, `source`, `homes`
and `mission` what people and Auto-Orch keep. `generating` and `activating` are the
commands at work, at the file operation that comes next: a file is `Torn` from its
opening to its write, and an open file keeps its place under a rename (`Moved`).
`Findings` is `reconcile` for one employee.

### `EmployeePipeline`
`made` are the artifacts of a pursuit, `sequence` the numbers a context gave out.
`RunEmployee` is `Employee.run` on any supply of earlier artifacts, loaded back from
the wire or not, with any outcome of the domain logic; `RunRefusingDouble` is
`Double.refusing`. Confidence is an integer, and `Rounded` is what two decimals do.

### `Authority` and `Assignment`
`Authority` builds a contract grant by grant (`GrantPath`, `GrantCommand`,
`GrantTool`, with what the constructors refuse) and answers for every path, command
and tool in each state (`DecidePath`, `DecideCommand`, `DecideTool`). References are
numbers in their sorted order. In `Assignment` a grant, its statuses and one
assignment are records, and a digest is the record itself; `Admits` is
`validate_authority_status` with all it calls, asked at every moment.

### `Factory`
The ten parts of 4 and 5 in one module, each in an instance of its module
(`AttemptVerdict` and `TimeText` as they are). They share no state, so a behaviour
is one of a single part, and the variables of the others are `None` throughout. Its
properties are those of the parts, said of the part that is awake; `FactoryAssumption`
is the conjunction of what the parts assume of their constants.

### `MCTaskBoard`, `MCActiveState`, `MCStaffingRun`, `MCFactory`
Instances for TLC: which agents can run which task, ranks and homes; the
symmetry of processes, callers and generations; what each invocation is asked;
the rows, catalogs, receipts and missions of the factory.

## 4. Runs

| Run | Question | Bounds |
|---|---|---|
| `races` | do claims, sweeps, renewals and two calls in flight break ownership? | 1 task, 2 agents (one a participant), 2 machines, 2 leases, 2 calls |
| `actions` | all eight actions, with full and half review targets | 1 task, 2 leases, 1 call |
| `queue` | two tasks of different rank; refinement | 2 tasks, 3 leases, 1 call, clock lag 1 |
| `clock` | deadlines on both sides of a whole second; an expired lease does not stay | 2 ticks to a second, lag 1; fair sweeper and clock |
| `expired_lease` | *violated*: a lease past its deadline passes the transaction | as `clock` |
| `finished_tasks` | *violated*: a done task moves again | 2 calls |
| `active_state` | one collector, nothing late, versions in order, nothing lost by a restart, every wait ends | 1 process, 1 caller, 2 generations, 1 change of the rows |
| `active_refused` | *violated*: a refresh is refused after the collector returned | 2 callers |
| `staffing_run` | are owners disjoint, attempts recorded once, spent cycles and torn ledgers respected, stale records purged? | 3 invocations of one packet and route, a directory and a file in it, 2 process ids, 1 crash or exception |
| `run_workers` | *violated*: two workers on the same paths | 2 invocations |
| `run_kills` | *violated*: a kill is retried with the same timeout | 2 invocations with 100 seconds |
| `factory` | the questions below, one part at a time | below |

| Part of `factory` | Question | Bounds |
|---|---|---|
| time | is the fixed text order of times their order? | all pairs of instants of three seconds at nine ticks each |
| authority | does a name ever decide; does a denial stand? | 3 grants; 4 roots of which two are one, 4 command forms with the wildcard on either side, paths and commands of 1 or 2 tokens |
| assignment | does work end with its authority? | 4 moments, 2 statuses of at most 2 ticks, 3 scopes, 2 works |
| pipeline | is doubt ever lost? | 3 employees in a chain, 2 contexts of different providers, 3 artifacts |
| registry | is what is active proven; is a clean report true? | 2 employees, 2 activators and a generator at once, 1 edit by hand |
| routes | is what is launched backed by headroom; are reviewers independent? | 4 routes, 2 channels, 2 instances, up to 2 of 7 buckets, 3 ages, 4 requests, 3 crews |
| evidence | are rows settled once; do the readers agree? | 2 importers with 3 rows and 1 row, 2 legacy lines, 5 runs of 2 routes on 2 instances, months of 2 ticks |
| usage | does a bill cover what was used? | 6 harnesses, 2 turns of 2 models, 2 receipts, 3 prices |
| dispatch | does the kill reach the worker's processes and no other? | 4 process ids, 3 births, the pass limit of the code |
| verdict | was a success earned in time; is a worker that did nothing told from one that did? | budget 3, the worker up to 1 beyond it; events of up to 3 nested objects, alone or before an empty completion |

Two calls are enough for every race between a check and a write: the hazard
needs one call that read and one that commits in between, and the sweeper and the
polls run without being calls. Two leases on one task give the case that matters
(the lease of the earlier claim is still named while the later one is active);
three leases with two tasks add the claim of the second task. The clock runs a
few ticks past the longest lease; the bound `MaxNow` stops it. Its value in the
`clock` run is a whole second: there the text order and the order of time agree
about every deadline that is not after it, so the stopped clock hides nothing.
For the cache, two generations are all that a process can have goroutines of (one
in flight, one abandoned collector), two versions are enough for an older and a
newer artifact, and a caller that gives up and comes back joins the generation
it left, as a second one would. Several processes on one file and several
callers are covered by the theorems. `ShownIsKept` and
`UnavailableMeansNothingKept` are about the only process that uses the file: with
two, the slower one may rename an older artifact over a newer one, which the code
does not prevent (a hazard in `PROJECT.json`).
For the router, three invocations of one job are what a spent cycle needs: two
attempts and the one that must not follow. With two process ids the third has the
id of an earlier one, whose record a crash may have left behind, while the other
may still be at work. A mishap is a crash, an interrupt or a timed-out wait, at
any point; one is allowed. Attempts on other jobs only lengthen the ledger. More
of everything is covered by the theorems.
`CHECK_DEADLOCK FALSE` is set where the bounded clock, leases and tasks run out, and
in `factory`, whose parts end (a bill is settled, a record is built, the wait is over).

The bounds of `factory` follow the cases its properties tell apart. A tie between
grants needs two that may answer, and a third that answers before them. An
admission that outlasts a revocation needs a tick to observe, one to revoke and one
life of a status. The pipeline needs three employees for doubt to pass through a
second. Two activators and a generator are all that can meet on one record and one
temporary file; a second employee shows that they do not meet elsewhere. Two
buckets of one channel are enough for every disagreement of two, and the reduction
takes the worst of any number. A row is settled twice by two appearances of it, a
second date and a repeated import; weighting needs two instances with a different
number of passes. Two turns are enough for a repeated, lost or foreign receipt.
Three births give a child, a grandchild that leaves the group, and a stranger on an
id that came back. Three nested objects are the root, the slot it grants and one
object below that must not inherit it.

Invariants of type are left to the theorems of `ActiveStateProofs` and
`StaffingRunProofs`; the runs spend their time on the rest.

### Fairness
`WF(Tick)` and `WF(ExpireStaleLeases)`: time passes, and `StartStaleSweeper`
(`server.go:106`) runs a ticker for as long as the server lives. No worker,
operator or call is assumed to do anything. `StaleLeaseSettles` follows from
these two alone.

For the cache: the timer of a generation fires, its goroutine goes on (`Receive`
or `Timeout`, `Persist`, `Publish`), and a caller whose `done` is closed returns.
Collectors owe nothing: `WaitsEnd` must hold when one never returns.

For the router: an invocation that can go on does (its process is scheduled, and
the watchdog's ceiling is its own), and somebody runs `census` now and then, or
another `run`, which purges the same way. Workers owe nothing. `StaleRecordsGo`
needs `census`: nothing else removes what the last invocation left.

### What the violations say
* `ExpiredLeaseCannotPass`: the comment at `store.go:843` says an expired lease
  cannot pass the transaction. `expires_at > ?` compares texts, and a deadline on
  a whole second (`...05Z`) is greater than any fraction of it (`...05.5Z`), so
  it passes for up to a second. `DeadlineWithinASecond` is what does hold.
* `FinishedTasksStay`: `allowTransition` (`board.go:283`) judges a status read
  before the write, and the write of a legacy caller does not repeat it. An
  approval and a send-back that both read `review` both commit, and the done task
  is ready again.
* `RefusedOnlyWhileCollecting`: the receipt of a refusal says that a collector has
  not returned (`active_state.go:94`). The flag is cleared in a section of its own
  after the result was sent, so the generation may be over, and well, and the next
  refresh is still refused.
* `WorkersDisjoint`: work is to be parallel only on disjoint paths (`census.py:6`,
  `doctor.py:1601`). An interrupt removes the record in the finally clause
  (`doctor.py:2022`), nothing kills the worker (`run.py:2749`), and the next
  invocation registers and launches a second worker on the same paths. An outright
  kill of the process is left out of the statement: no program can do anything
  about that.
* `KillsRetriedLower`: a killed dispatch may be repeated without a link only with a
  strictly lower timeout (`run.py:1115`). The ceiling is read back from the text
  in the attempt's note, and 100 seconds were printed as 1.66667 minutes, which is
  more.

### Differences noticed that no run shows
Seen while reading, and kept as the code has them:
* A reconciliation is to go on "without letting one entry abort the run", but an
  error in one mission's `paused` value, or a record that cannot be rebuilt, ends it.
* Evidence of an activation is overwritten by a later one of the same employee.
* `supervised_read` goes on while the pipes have something to read, so a worker that
  writes without pause keeps the ceiling from being checked, which `watchdog.py:24`
  calls unconditional; on a normal exit descendants are left running.
* A reserve is waived by the horizon of the limiting bucket, while the least
  fraction may be another's; a channel's malformed bucket is outvoted by a degraded
  one; `bind` does not look at the reserves of model buckets.
* Run ids that start with `v6:` meet the ids of corrections; an attempt imported
  before its `usage.json` came is never corrected; the ladders read the ledger twice
  in one derivation; ladders average the passes that have a price, where the report
  says that the cost is unavailable.
* An array of bare strings counts as work only when it is the whole output. A
  reviewer's mark takes the place of a failed oracle's verdict, while the failure
  class stays; no marked attempt is ever a verified success.
* A worker that exits with 124 by itself is recorded as a timeout.
* Confidence is rounded to two decimals on the wire, and artifact ids of two
  contexts collide; `from_dict` refuses repeated input ids that `run` accepts.
* Receipts of Pi and OMP are not compared with the model that was priced, as those
  of Claude are.
* "Once every known generation is stopped, no member can create another generation"
  (`run.py:2232`): the loop that stops them ends when the *ids* it knows are those of
  the pass before (`run.py:2377`). A process that ended between two passes, and whose
  id went to another of the tree, leaves the ids as they were, and what the new one
  forked meanwhile is not looked for again. Stated without `~reused`,
  `KillIsExact` is violated by such a survivor once `MaxBirths` is 5.
* A correction is dated by the row it is imported from, the line it supersedes by the
  row of its own time. Were the row moved to another month in between, the report of
  the earlier month would go on counting the old line, and that of the later month the
  correction, while the rollup counts the run once.

## 5. Proofs

Every theorem is about the specification the runs check, with every constant left
open and only the named assumptions of the constants assumed: `BoardAssumption`,
`CacheAssumption`, `RunAssumption`, `TimeTextAssumption`, `VerdictAssumption`,
`OutputsAssumption` and `FactoryAssumption`. TLC evaluates them on every run. Most say
what the constants are (a time is a number, `None` is nothing else). Those that say
more, because the code makes sure of it elsewhere:
* `UsageCapture`: a consumption is a record of natural numbers, as the parsers
  require of a receipt's fields.
* `RouteSelection`: the entries of a snapshot have the amounts and states to which
  `parse_availability` reduces whatever the file holds.
* `EvidenceLedger`: the lines that are there before the first import are of the old
  shape under the old id; the lines of runs are neither; and a line of the old shape
  has the month of the row from which its run would be corrected. Both took their date
  from the same row of the CSV, whose digest the sidecar pins. The last is needed for
  the reports of the months to count a run once (see the differences in section 4).
  Prices are natural numbers, and a success without a route has no price, as none is
  computed for it.

### The Board: `TaskBoardProofs`
* `TypeCorrect`. `TypeOK` also says that a call in flight carries what its next
  statement needs, and that a participant's call carries its own machine; the later
  proofs rest on it.
* None of `ClaimedIffLeased`, `OneActiveLease` and `HolderIsAssignee` is inductive
  alone. A transition ends *all* of a task's active leases only because there is at
  most one; a claim makes no second one only because a task with an active lease is
  not ready; the sweeper may reset status and assignee only because the task of a
  stale lease is claimed by that lease's holder. Their conjunction `LeaseInv` is
  inductive, with `TypeOK`.
* `LateWriteIsFenced`, `ParticipantSettlesOwnClaim` and `BusyOnlyWithLease`, action
  properties, from `LeaseInv`; and the invariant `RequestsFollowReview`.
* `DeadlineWithinASecond`. The queries compare texts whose fractions lose their
  trailing zeros, and an instant and its text disagree only inside one second: two
  texts of different seconds compare as the seconds do, whatever the fractions. So a
  deadline that passes as text lies less than a second before the clock that was
  read, for any resolution of the clock and any wait for the connection.
* `OwnershipCorrect`: `Spec` implements `WorkOwnership`; every action is a step of it
  or changes neither `phase` nor `holders`. It needs one more invariant,
  `CallsOnTasks`: a call in flight is about a task that exists.

### The cache: `ActiveStateProofs`
* `OneCollector` is not inductive: a new collector is the only one because the flag
  covers each that is outstanding, and the flag may be cleared only because there is
  one. `SingleFlight` says that, and that the cache points to the generation in
  flight and back.
* `InOrder` needs it: what the generation in flight has in hand was collected no
  earlier than what is shown, since it started after the last publication and the
  file is looked at only once, before any generation; and what is late has its
  deadline passed, so the second look at the context drops it. `LateResultsDiscarded`
  and `PublishedInOrder` follow, with any number of processes on one file.
* `Waiters` adds that the generation a caller waits for is of its process and shown
  once it is over, which gives `CollectedIsShown`.
* `ShownIsKept` and `UnavailableMeansNothingKept` are false of two processes on one
  file, and proved of one (`ASSUME NEW b, Boards = {b}`, the server by itself). `Kept`
  says what the file is owed while a generation is between its rename and its
  publication; `Looked`, that whoever waits has had the file read.

### The router's runs: `StaffingRunProofs`
Any number of invocations and process ids, start times known or not.
* `LiveRunsDisjoint` is inductive only with `LiveRunsRegistered`: a registration
  sees whoever is at work because its record is there, was there when the directory
  was listed (`LockIsScan`: what is added is added by the holder of the lock), and is
  judged live because its process exists; for the same reason no purge takes it.
* `TornLedgerStopsRuns` and `RecordedOnce` are inductive with where an invocation must
  be: one that started on a torn ledger gets no further than its check, and one that
  has not left has no end yet.
* `SpentCyclesStay` compares an attempt with the ledger as it was when its invocation
  started, arbitrarily many appends ago. `ISpent` carries the answer of the check
  along: while an invocation is under way, whatever pair was spent on its job when it
  started is not the latest any more, since another attempt on the job was recorded
  after it; appends only add to that. The check looks at the two greatest places of
  the job in the ledger, which exist for a ledger of any length.

### Employees: `SchemaProofs`, `RegistryProofs`
* `NoTieToBreak` and `DenialStands` (`ContractKept`): the constructors leave no two
  path grants with one normalized root and no two grants of one effect that could tie,
  and specificity is a total order of what is left, so that of any finite set of grants
  that may answer exactly one decides. A grant that is added changes an answer only
  where it is the more specific one, and a denial of a command or tool precedes every
  permission.
* `WorkEndsWithItsAuthority` compares the clock with a revocation that no record of
  the assignment mentions. `StatusInv` connects them: each status was written no later
  than now, lives no longer than allowed, and if it does not tell of the revocation it
  was written before it.
* `DoubtIsDeclared` (`ArtifactsKept`): every artifact rests on artifacts made before
  it, so what is appended changes nothing about the inputs of what is there, and each
  declares what was doubtful about its inputs then, rounded to the wire's two decimals.
* `ActivationHasEvidence` speaks of the file only, but what a rename puts there was
  written two steps before, and a generator may have read it in between.
  `RegistryKept` says that whatever is in a file, in a temporary file or in the hands
  of a command is vouched for, whoever wrote it and wherever commands were stopped.
  `CleanReportIsTrue` follows from it and from what each finding would have said.

### The rest of an attempt: `RouterProofs`
* `SuccessInTime` is about a record that is built after the oracle is gone.
  `VerdictInv` says that a poll never comes later than the budget, so what ended did
  within it, that an answer of 0 is the oracle's own, and that an outcome is final.
* `NothingDoneIsSaid`, for outputs nested to any depth: by induction along the path from
  the root, the context that `Descend` hands down says whether anything on the way
  stands against the string, as `Answers` says without a walk.
* `KillIsExact` (`DispatchKept`): each remembered identity stands for one birth, so a
  signal that checks the birth reaches nobody else's process; and once a pass finds
  the ids it had before, everything that carries the marker is stopped and remembered,
  and what is stopped does not fork. The second half holds only until one of the tree
  takes an id remembered for another (`reused`), which the proof attempt brought to
  light: the code compares ids where its comment speaks of generations.
* `SettledByImport` (`LedgerKept`): no two lines share an id, because what the holder
  of the lock knows is the ledger; a row that was passed has a line of the repaired
  shape, and `Effective` prefers it to an old one whatever else is appended.
* `LaunchesOnHeadroom` and `StaffedFairly` (`RoutesKept`): an answer is kept with the
  state it was given from, so both reduce to the four paths of selection and staffing,
  for every catalog, policy, crew and snapshot.

### Measures: `MeasureProofs`
* `FixedTextIsChronological`: the digits of a fixed layout order as the number does,
  for any base and number of places (induction over the places, `Weight`).
* `BilledInFull` (`SessionInv`): which turns each line of a session stands for, for
  each of the six harnesses; the sums of the bill are then sums over a partition of the
  turns.
* `ReadersCountAlike` (`MonthsKept`, with `LedgerKept`): the lines of one run of the
  benchmark are of one month, so leaving superseded lines out before or after a month
  is chosen is the same; the counts of the rows of a month, and of the months, then add
  up to the group by the sum over a partition, and the join takes whole groups because
  a prefix of a class does not tell two lines of one class apart.
* `CheapestAgreed` (`PricesKept`): for a class whose lines are all of one month, the
  report's cost of a route, weighted over its instances, is the mean the ladder takes
  over all its successes (`MeanOfParts`: a sum of sums over a partition); the key of a
  ladder is a total order of rungs of different routes, so they can be sorted by it
  (`RungsInOrder`); and what the report recommends is one of the routes it compared.
  It holds of each step that ends a derivation whatever was appended since the lines
  were counted.

### Induction, order and sums: `InductionLemmas`
The library's induction theorems take an operator, which the provers here cannot
instantiate. These lemmas take sets and functions. A set of naturals has a least
member, because the order is well-founded (`LeastNumber`); from that follow the
induction up to a bound (`UpTo`), the greatest member of a finite set under any total
preorder (`GreatestMember`), the existence of what is computed in n steps (`Iteration`)
and the induction over the subsets of a finite set (`FiniteInduction`). A sum is a
`MapThenSumSet`, whose fold takes the members in an order of its choice: the lemmas
show that the order does not matter (`SumsAnyOrder`, `FoldIsSum`), and how sums behave
under a new member, zeros and partitions (`SumFacts`, `SumOfZeros`, `SumOfParts`,
`SumOfTwo`, `SumOfSums`). A finite set can be put in any total order (`SortedExists`).

### What only TLC checks
* `WaitsEnd`, `StaleLeaseSettles` and `StaleRecordsGo`: liveness under fairness is out
  of the prover's reach.
* The violated statements, of course.

## 6. Not modelled

* The machines' presence columns (third statement of `RenewLease`, second of
  `DecayPresence`): nothing reads them but display.
* `not_before_at` is never written and `waiting` never set; both are left out.
* Review requests written by hand with `CreateMessage`, whose kind is free: the
  model's requests are those the transitions write.
* What an artifact holds, its digest and validation, and the staleness rule of
  `readLocked`; a cache without a file.
* The registry's lock file where `fcntl` is missing, escalation advice
  (`next_action.py`, `block.py`), the staging of credentials, and a caller that gives
  two invocations one `attempt_id`.
* When the clocks of `StallWatchdog` expire: `Expire` and `Kill` may happen at any
  poll. Its progress detection reads directories.
* The loading and validation of catalogs, packets and policies: they yield the
  constants of `RouteSelection`. The check of the pinned price list's digest, and
  expected costs, which no caller supplies.
* In the registry: duplicate and unseeded records, attention from a mission's
  health, the roster's prose. In assignments: credential scopes; a work is one value
  for the employee, tenant, principal, context, purpose and data class.
* `foundation.py`, which lays down a directory once and validates its files.
* Usage artifacts of OpenCode workers, prices beyond what an integer holds.
* Cycle reports, audit rows, API tokens: inserts without further state.
* The components of section 1 that the plan leaves, with the reason for each of the
  others in `PROJECT.json`: what only renders, reads or forwards.
