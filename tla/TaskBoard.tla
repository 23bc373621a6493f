----------------------------- MODULE TaskBoard -----------------------------
(***************************************************************************)
(* The Board's task store and the services in front of it: tasks, leases,  *)
(* agent presence, review requests and the calls that are in flight.       *)
(*                                                                         *)
(* The store opens SQLite with one connection, so every transaction of     *)
(* store.go is one atomic step.  A service call is not: the HTTP handler,  *)
(* the service and the store each read or write in a statement or a        *)
(* transaction of their own, and other calls run in between.  A call is a  *)
(* record in `calls`; its `at` names the statement it executes next.       *)
(*                                                                         *)
(* Participants are the agents behind a bound grant (agent and machine):   *)
(* the server derives their lease and asserts it again in the transaction. *)
(* Every other caller (worker, operator, manager) takes the legacy path.   *)
(***************************************************************************)
EXTENDS Naturals

CONSTANTS
  Tasks, Agents, Machines,
  Participants,    \* agents with a bound participant grant
  Home,            \* Home[a]: the machine a participant is bound to
  TargetTypes,     \* actor types of review targets
  TargetIds,       \* actor ids of review targets
  Leases,          \* bound: lease ids that can be issued
  Callers,         \* bound: service calls in flight at a time
  AskedOps,        \* bound: the task actions callers ask for
  CanRun,          \* <<a, m, t>>: a on m meets t's capability and machine rows
  Rank,            \* Rank[t]: priority_rank of t
  LeaseTicks,      \* length of a lease
  Fractions,       \* clock ticks to a second
  Lag,             \* bound: ticks a call waits for the store's connection
  MaxNow,          \* bound: the clock stops here
  None             \* an empty reference

ASSUME BoardAssumption ==
  /\ Participants \subseteq Agents
  /\ Home \in [Participants -> Machines]
  /\ CanRun \subseteq Agents \X Machines \X Tasks
  /\ AskedOps \subseteq {"review", "complete", "block", "fail", "cancel",
                     "approve", "approveOnly", "sendBack"}
  /\ Rank \in [Tasks -> Nat]
  /\ LeaseTicks \in Nat /\ LeaseTicks > 0
  /\ Fractions \in Nat /\ Fractions > 1
  /\ Lag \in Nat
  /\ MaxNow \in Nat
  /\ None \notin Agents \cup Machines \cup Leases \cup Tasks
  /\ None \notin TargetTypes \cup TargetIds

VARIABLES
  now,             \* wall clock, in ticks
  tasks,           \* rows of tasks
  leases,          \* rows of leases
  agents,          \* status column of agents
  requests,        \* targets of the pending review_request messages of a task
  calls            \* service calls in flight

vars == << now, tasks, leases, agents, requests, calls >>

\* A definition whose comment starts with "Bug:" is the one after it (or after
\* the next such) with a plausible mistake in it; nothing uses it.  Checking
\* with it in the other's place shows that a property notices the mistake.

-----------------------------------------------------------------------------
TaskStatus == {"ready", "claimed", "review", "done", "blocked", "failed", "cancelled"}
LeaseStatus == {"active", "expired", "released", "completed", "cancelled"}
AgentStatus == {"idle", "polling", "busy", "offline"}

\* The actions of a task, the status each writes and the one it leaves on the
\* leases it releases.
Ops == {"review", "complete", "block", "fail", "cancel", "approve", "approveOnly", "sendBack"}

StatusOf == [op \in Ops |->
  CASE op \in {"review", "approveOnly"}  -> "review"
    [] op \in {"complete", "approve"}    -> "done"
    [] op = "block"                      -> "blocked"
    [] op = "fail"                       -> "failed"
    [] op = "cancel"                     -> "cancelled"
    [] op = "sendBack"                   -> "ready"]

ReleasedAs == [op \in Ops |->
  CASE op \in {"block", "fail"} -> "released"
    [] op = "cancel"            -> "cancelled"
    [] OTHER                    -> "completed"]

\* Actions whose service first requires the task to be in review.
Outcomes == {"approve", "approveOnly", "sendBack"}

\* Actions a participant's route table lets through.
ParticipantOps == {"review", "complete", "block", "fail"}

NoTarget == [type |-> None, id |-> None]
NoTask == [status |-> "absent", assigned |-> None, target |-> NoTarget]
NoLease == [status |-> "absent", task |-> None, agent |-> None, machine |-> None, expires |-> 0]
Idle == [at |-> "idle", op |-> None, task |-> None, lease |-> None,
         agent |-> None, machine |-> None, target |-> NoTarget]

\* Where a call is.  "lease": the participant handler looks for its lease;
\* "read": the service reads the task; "write": the store applies the
\* transition; "renew": the participant renewal transaction; "presence": the
\* second statement of a legacy renewal.
Points == {"idle", "lease", "read", "write", "renew", "presence"}

Target == [type : TargetTypes \cup {None}, id : TargetIds \cup {None}]
TaskRow == [status : TaskStatus \cup {"absent"}, assigned : Agents \cup {None},
            target : Target]
LeaseRow == [status : LeaseStatus \cup {"absent"}, task : Tasks \cup {None},
             agent : Agents \cup {None}, machine : Machines \cup {None}, expires : Nat]
Call == [at : Points, op : Ops \cup {None}, task : Tasks \cup {None},
         lease : Leases \cup {None}, agent : Participants \cup {None},
         machine : Machines \cup {None}, target : Target]

\* A lease that was issued names its task, its holder and the machine.
Issued(row) ==
  row.status # "absent" => row.task \in Tasks /\ row.agent \in Agents /\ row.machine \in Machines

\* A call carries what its next statement needs, and a participant's call its
\* own machine.
Prepared(k) ==
  /\ k.at \in {"lease", "read", "write"} => k.op \in Ops /\ k.task \in Tasks
  /\ k.at = "renew" => k.agent # None
  /\ k.at \in {"renew", "presence"} => k.lease \in Leases
  /\ k.agent # None => /\ k.task \in Tasks
                       /\ k.machine = Home[k.agent]
                       /\ k.at # "lease" => k.lease # None

TypeOK ==
  /\ now \in 0..MaxNow
  /\ tasks \in [Tasks -> TaskRow]
  /\ leases \in [Leases -> LeaseRow]
  /\ agents \in [Agents -> AgentStatus \cup {"absent"}]
  /\ requests \in [Tasks -> SUBSET Target]
  /\ calls \in [Callers -> Call]
  /\ \A l \in Leases : Issued(leases[l])
  /\ \A c \in Callers : Prepared(calls[c])

-----------------------------------------------------------------------------
Text == INSTANCE TimeText WITH Base <- Fractions, Digits <- 1

Exists(t) == tasks[t].status # "absent"
Registered(a) == agents[a] # "absent"
Active(l) == leases[l].status = "active"
ActiveOn(t) == {l \in Leases : Active(l) /\ leases[l].task = t}
Holds(a) == \E l \in Leases : Active(l) /\ leases[l].agent = a

\* PollAndClaim, RenewLease, ExpireStaleLeases and ActiveLeaseForParticipation
\* read the clock before they wait for the store's one connection; the other
\* transactions read it inside.
Readings == {at \in 0..now : now <= at + Lag}

\* The store's `expires_at > ?`, a comparison of texts; its negation is the
\* sweeper's `expires_at <= ?`.
Unexpired(l, at) == Text!NanoLess(at, leases[l].expires)

\* The call acts for a participant: RequireActiveLease is set.
Bound(k) == k.agent # None

\* Bug: a lease counts until the sweeper gets to it.
BindsUntilSwept(k, l, at) ==
  /\ l = k.lease
  /\ Active(l)
  /\ leases[l].task = k.task
  /\ leases[l].agent = k.agent
  /\ leases[l].machine = k.machine

\* The lease row is the one a participant call is bound to.
Binds(k, l, at) ==
  /\ l = k.lease
  /\ Active(l)
  /\ leases[l].task = k.task
  /\ leases[l].agent = k.agent
  /\ leases[l].machine = k.machine
  /\ Unexpired(l, at)

\* allowTransition: an error for what a cancelled, done or failed task may not do.
AllowTransition(from, to) ==
  /\ from \notin {"cancelled", "done"}
  /\ from = "failed" => to \notin {"review", "done"}

\* A review request goes out only to a target named in full; the columns of the
\* task keep what a review leaves empty.
Routed(g) == g.type # None /\ g.id # None

Retarget(old, g) ==
  [type |-> IF g.type # None THEN g.type ELSE old.type,
   id |-> IF g.id # None THEN g.id ELSE old.id]

Init ==
  /\ now = 0
  /\ tasks = [t \in Tasks |-> NoTask]
  /\ leases = [l \in Leases |-> NoLease]
  /\ agents = [a \in Agents |-> "absent"]
  /\ requests = [t \in Tasks |-> {}]
  /\ calls = [c \in Callers |-> Idle]

-----------------------------------------------------------------------------
\* Time passes.
Tick ==
  /\ now < MaxNow
  /\ now' = now + 1
  /\ UNCHANGED << tasks, leases, agents, requests, calls >>

\* Registering again, also in the middle of a claim, resets the agent to idle.
RegisterAgent(a) ==
  /\ agents' = [agents EXCEPT ![a] = "idle"]
  /\ UNCHANGED << now, tasks, leases, requests, calls >>

\* DecayPresence marks silent agents offline; which ones were silent (their
\* last_seen_at) is left open.
DecayPresence(a) ==
  /\ agents[a] \in {"idle", "polling", "busy"}
  /\ agents' = [agents EXCEPT ![a] = "offline"]
  /\ UNCHANGED << now, tasks, leases, requests, calls >>

\* A new task, free or pre-assigned to a registered agent (a foreign key).
CreateTask(t, a) ==
  /\ ~Exists(t)
  /\ a # None => Registered(a)
  /\ tasks' = [tasks EXCEPT ![t] = [status |-> "ready", assigned |-> a, target |-> NoTarget]]
  /\ UNCHANGED << now, leases, agents, requests, calls >>

-----------------------------------------------------------------------------
\* Bug: an assigned task is offered to any agent.
EligibleForAnyone(t, a, m, assignedOnly) ==
  tasks[t].status = "ready" /\ ActiveOn(t) = {} /\ <<a, m, t>> \in CanRun

\* Bug: a claimed task is offered again.
EligibleUntilSettled(t, a, m, assignedOnly) ==
  /\ tasks[t].status \in {"ready", "claimed"}
  /\ tasks[t].assigned = a \/ (tasks[t].assigned = None /\ ~assignedOnly)
  /\ <<a, m, t>> \in CanRun

\* findEligibleTask: one of the eligible tasks of the best rank.  Equal ranks
\* are served by created_at in the store; here the choice among them is open.
Eligible(t, a, m, assignedOnly) ==
  /\ tasks[t].status = "ready"
  /\ tasks[t].assigned = a \/ (tasks[t].assigned = None /\ ~assignedOnly)
  /\ ActiveOn(t) = {}
  /\ <<a, m, t>> \in CanRun

Offered(t, a, m, assignedOnly) ==
  /\ Eligible(t, a, m, assignedOnly)
  /\ \A u \in Tasks : Eligible(u, a, m, assignedOnly) => Rank[t] <= Rank[u]

\* PollAndClaim.  A poll that finds nothing rolls back what it wrote.
Claim(a, m, t, l, assignedOnly) ==
  /\ Registered(a)
  /\ Offered(t, a, m, assignedOnly)
  /\ leases[l].status = "absent"
  /\ tasks' = [tasks EXCEPT ![t] =
       [tasks[t] EXCEPT !.status = "claimed",
                        !.assigned = IF tasks[t].assigned = None THEN a ELSE tasks[t].assigned]]
  /\ \E at \in Readings : leases' = [leases EXCEPT ![l] =
       [status |-> "active", task |-> t, agent |-> a, machine |-> m,
        expires |-> at + LeaseTicks]]
  /\ agents' = [agents EXCEPT ![a] = "busy"]
  /\ UNCHANGED << now, requests, calls >>

\* A legacy poll names its agent and machine; a participant polls as the agent
\* and from the machine of its grant, for work assigned to it.
Poll(a, m, t, l) ==
  \/ Claim(a, m, t, l, FALSE)
  \/ a \in Participants /\ m = Home[a] /\ Claim(a, m, t, l, TRUE)

\* Bug: a busy agent's lease is never stale.
StaleAndSilent(at) ==
  {l \in Leases : Active(l) /\ ~Unexpired(l, at) /\ agents[leases[l].agent] # "busy"}

\* ExpireStaleLeases: every active lease whose deadline text is not after now
\* expires, and its task returns to the pool without an assignee.  The holder's
\* presence is not touched.
Stale(at) == {l \in Leases : Active(l) /\ ~Unexpired(l, at)}

Sweep(at) ==
  LET freed == {leases[l].task : l \in Stale(at)}
  IN /\ Stale(at) # {}
     /\ leases' = [l \in Leases |->
          IF l \in Stale(at) THEN [leases[l] EXCEPT !.status = "expired"] ELSE leases[l]]
     /\ tasks' = [t \in Tasks |->
          IF t \in freed THEN [tasks[t] EXCEPT !.status = "ready", !.assigned = None]
                         ELSE tasks[t]]
     /\ UNCHANGED << now, agents, requests, calls >>

ExpireStaleLeases == \E at \in Readings : Sweep(at)

-----------------------------------------------------------------------------
\* RenewLease, first statement: any active lease, unexpired or not.
RenewLease(c, l) ==
  /\ calls[c] = Idle
  /\ Active(l)
  /\ \E at \in Readings : leases' = [leases EXCEPT ![l].expires = at + LeaseTicks]
  /\ calls' = [calls EXCEPT ![c] = [Idle EXCEPT !.at = "presence", !.lease = l]]
  /\ UNCHANGED << now, tasks, agents, requests >>

\* Bug: the holder of a lease that was released in between.
HolderOfAny(l) == leases[l].agent

\* RenewLease, second statement: the holder is busy, if the lease is still
\* active.  (The third does the same for the machine.)
Holder(l) == IF Active(l) THEN leases[l].agent ELSE None

RenewPresence(c) ==
  /\ calls[c].at = "presence"
  /\ agents' = [a \in Agents |-> IF a = Holder(calls[c].lease) THEN "busy" ELSE agents[a]]
  /\ calls' = [calls EXCEPT ![c] = Idle]
  /\ UNCHANGED << now, tasks, leases, requests >>

\* renewLease for a participant: the handler reads the lease and compares its
\* deadline with the clock as a time, not as text.
StartRenewal(c, l) ==
  /\ calls[c] = Idle
  /\ Active(l)
  /\ leases[l].agent \in Participants
  /\ leases[l].machine = Home[leases[l].agent]
  /\ leases[l].expires > now
  /\ calls' = [calls EXCEPT ![c] =
       [Idle EXCEPT !.at = "renew", !.task = leases[l].task, !.lease = l,
                    !.agent = leases[l].agent, !.machine = leases[l].machine]]
  /\ UNCHANGED << now, tasks, leases, agents, requests >>

\* RenewParticipantLease: one transaction that asserts the whole binding.
RenewParticipantLease(c) ==
  LET k == calls[c]
  IN /\ k.at = "renew"
     /\ calls' = [calls EXCEPT ![c] = Idle]
     /\ IF Binds(k, k.lease, now)
        THEN /\ leases' = [leases EXCEPT ![k.lease].expires = now + LeaseTicks]
             /\ agents' = [agents EXCEPT ![k.agent] = "busy"]
        ELSE UNCHANGED << leases, agents >>
     /\ UNCHANGED << now, tasks, requests >>

-----------------------------------------------------------------------------
\* taskAction for a legacy caller: nothing is read before the service is
\* called.  The caller may name a lease that was issued to it at some time, and
\* a review may name its target, or only half of it.
StartAction(c, op, t, l, g) ==
  /\ calls[c] = Idle
  /\ Exists(t)
  /\ l # None => leases[l].status # "absent"
  /\ g # NoTarget => op = "review"
  /\ calls' = [calls EXCEPT ![c] =
       [Idle EXCEPT !.at = "read", !.op = op, !.task = t, !.lease = l, !.target = g]]
  /\ UNCHANGED << now, tasks, leases, agents, requests >>

\* taskAction for a participant: it must own the task, and the task be claimed.
StartParticipantAction(c, op, t, a) ==
  /\ calls[c] = Idle
  /\ tasks[t].assigned = a
  /\ tasks[t].status = "claimed"
  /\ calls' = [calls EXCEPT ![c] =
       [Idle EXCEPT !.at = "lease", !.op = op, !.task = t, !.agent = a, !.machine = Home[a]]]
  /\ UNCHANGED << now, tasks, leases, agents, requests >>

\* Bug: the derived lease is not handed on to the service.
FindLeaseForgetsIt(c) ==
  /\ calls[c].at = "lease"
  /\ calls' = [calls EXCEPT ![c].at = "read"]
  /\ UNCHANGED << now, tasks, leases, agents, requests >>

\* The lease is derived by ActiveLeaseForParticipation, never taken from the
\* request; without one the call is refused.
FindLease(c) ==
  LET k == calls[c]
      mine(at) == {l \in Leases : Binds([k EXCEPT !.lease = l], l, at)}
  IN /\ k.at = "lease"
     /\ \E at \in Readings :
          \/ mine(at) = {} /\ calls' = [calls EXCEPT ![c] = Idle]
          \/ \E l \in mine(at) : calls' = [calls EXCEPT ![c].at = "read", ![c].lease = l]
     /\ UNCHANGED << now, tasks, leases, agents, requests >>

\* The service reads the task and refuses what allowTransition refuses; an
\* outcome also needs the task in review.
ReadTask(c) ==
  LET k == calls[c]
      status == tasks[k.task].status
      allowed == /\ AllowTransition(status, StatusOf[k.op])
                 /\ k.op \in Outcomes => status = "review"
  IN /\ k.at = "read"
     /\ calls' = [calls EXCEPT ![c] = IF allowed THEN [k EXCEPT !.at = "write"] ELSE Idle]
     /\ UNCHANGED << now, tasks, leases, agents, requests >>

\* Bug: a transition that names no lease releases none.
ReleasedIfNamed(k) ==
  IF Bound(k) THEN {l \in Leases : Binds(k, l, now)} ELSE ActiveOn(k.task) \cap {k.lease}

\* Bug: the lease a caller names is ignored.
ReleasedByTask(k) ==
  IF Bound(k) THEN {l \in Leases : Binds(k, l, now)} ELSE ActiveOn(k.task)

\* ApplyTaskTransition: the leases the transition releases, and whether it
\* commits.
Released(k) ==
  IF Bound(k) THEN {l \in Leases : Binds(k, l, now)}
  ELSE IF k.lease # None THEN ActiveOn(k.task) \cap {k.lease}
  ELSE ActiveOn(k.task)

\* Bug: the transition does not insist on its lease.
CommitsOnStatus(k) == Bound(k) => tasks[k.task].status = "claimed"

\* Bug: the transaction trusts what the participant's handler read.
CommitsOnRead(k) == ~Bound(k) /\ k.lease # None => Released(k) # {}

Commits(k) ==
  /\ Bound(k) => tasks[k.task].status = "claimed"
  /\ k.lease # None => Released(k) # {}

\* Bug: a new request does not replace the one that waits.
RequestsPileUp(k) ==
  IF k.op = "review" THEN requests[k.task] \cup {g \in {k.target} : Routed(g)} ELSE {}

\* ApplyTaskTransition: a routed review replaces the requests that wait, one
\* that is not leaves them, and any other outcome acknowledges them.
RequestsAfter(k) ==
  IF k.op # "review" THEN {}
  ELSE IF Routed(k.target) THEN {k.target}
  ELSE requests[k.task]

\* ApplyTaskTransition: the task, its leases, the presence of their holders and
\* its review requests change together.
ApplyTransition(k) ==
  LET t == k.task
      status == StatusOf[k.op]
      freed == Released(k)
  IN /\ tasks' = [tasks EXCEPT ![t] =
          [tasks[t] EXCEPT !.status = status,
                           !.target = IF status = "review"
                                      THEN Retarget(tasks[t].target, k.target)
                                      ELSE NoTarget]]
     /\ leases' = [l \in Leases |->
          IF l \in freed THEN [leases[l] EXCEPT !.status = ReleasedAs[k.op]]
                         ELSE leases[l]]
     /\ agents' = [a \in Agents |->
          IF agents[a] = "busy" /\ \E l \in freed : leases[l].agent = a
          THEN "idle" ELSE agents[a]]
     /\ requests' = [requests EXCEPT ![t] = RequestsAfter(k)]

WriteTask(c) ==
  LET k == calls[c]
  IN /\ k.at = "write"
     /\ calls' = [calls EXCEPT ![c] = Idle]
     /\ IF Commits(k) THEN ApplyTransition(k)
                      ELSE UNCHANGED << tasks, leases, agents, requests >>
     /\ UNCHANGED now

\* AcknowledgeMessage for a pending review request.
AcknowledgeMessage(t, g) ==
  /\ g \in requests[t]
  /\ requests' = [requests EXCEPT ![t] = requests[t] \ {g}]
  /\ UNCHANGED << now, tasks, leases, agents, calls >>

\* A call ends between two of its statements: its context is cancelled or the
\* server stops.  What it committed stays.
AbandonCall(c) ==
  /\ calls[c] # Idle
  /\ calls' = [calls EXCEPT ![c] = Idle]
  /\ UNCHANGED << now, tasks, leases, agents, requests >>

-----------------------------------------------------------------------------
Presence == \E a \in Agents : RegisterAgent(a) \/ DecayPresence(a)

Queue ==
  \/ \E t \in Tasks, a \in Agents \cup {None} : CreateTask(t, a)
  \/ \E a \in Agents, m \in Machines, t \in Tasks, l \in Leases : Poll(a, m, t, l)
  \/ ExpireStaleLeases

Renewal ==
  \E c \in Callers :
    \/ \E l \in Leases : RenewLease(c, l) \/ StartRenewal(c, l)
    \/ RenewPresence(c)
    \/ RenewParticipantLease(c)

Actions ==
  \E c \in Callers :
    \/ \E op \in AskedOps, t \in Tasks, l \in Leases \cup {None}, g \in Target :
         StartAction(c, op, t, l, g)
    \/ \E op \in AskedOps \cap ParticipantOps, t \in Tasks, a \in Participants :
         StartParticipantAction(c, op, t, a)
    \/ FindLease(c)
    \/ ReadTask(c)
    \/ WriteTask(c)
    \/ AbandonCall(c)

Next ==
  \/ Tick
  \/ Presence
  \/ Queue
  \/ Renewal
  \/ Actions
  \/ \E t \in Tasks, g \in Target : AcknowledgeMessage(t, g)

Spec == Init /\ [][Next]_vars

\* The stale sweeper runs on a ticker of its own, and time does pass; nothing
\* else is owed by anybody.
Fairness == WF_vars(Tick) /\ WF_vars(ExpireStaleLeases)
FairSpec == Spec /\ Fairness

-----------------------------------------------------------------------------
\* A task is claimed exactly while some lease on it is active: no transition,
\* renewal or sweep leaves a claim without a lease, or a lease on a task that
\* was already settled or returned to the pool.
ClaimedIffLeased ==
  \A t \in Tasks : tasks[t].status = "claimed" <=> ActiveOn(t) # {}

\* A task has one active lease at most (what the unique index
\* one_active_lease_per_task would otherwise have to refuse).
OneActiveLease ==
  \A l, m \in Leases :
    Active(l) /\ Active(m) /\ leases[l].task = leases[m].task => l = m

\* The holder of an active lease is the task's assignee, so the two ownership
\* tests of a participant action (assignee in the handler, lease in the store)
\* never disagree.
HolderIsAssignee ==
  \A l \in Leases : Active(l) => tasks[leases[l].task].assigned = leases[l].agent

\* A review request waits only while its task is in review, alone, and while
\* the task has a review target: no inbox keeps a request that was decided or
\* withdrawn, and no two reviewers are asked.  (They may name different
\* targets: a second review that names half of one changes the task's columns
\* and sends nothing.)
RequestsFollowReview ==
  \A t \in Tasks :
    requests[t] # {} => /\ tasks[t].status = "review"
                        /\ Routed(tasks[t].target)
                        /\ \E g \in Target : Routed(g) /\ requests[t] = {g}

\* A write that names a lease takes effect only while that lease is the active
\* one of the task: the result a worker posts after its lease expired, and
\* after somebody else claimed the task, changes nothing.
LateWriteIsFenced ==
  [][ \A c \in Callers :
        LET k == calls[c]
        IN /\ k.at = "write" /\ k.lease # None
           /\ calls'[c] = Idle
           /\ << tasks, leases >>' # << tasks, leases >>
           => ActiveOn(k.task) = {k.lease} ]_vars

\* A participant settles only work it holds: whatever ran since its handler
\* read the task, the task it moves is claimed by it, under its own lease, on
\* its own machine, and no other task moves.
ParticipantSettlesOwnClaim ==
  [][ \A c \in Callers :
        LET k == calls[c]
        IN Bound(k) /\ calls'[c] = Idle /\ tasks' # tasks
           => /\ tasks[k.task].status = "claimed"
              /\ tasks[k.task].assigned = k.agent
              /\ \E l \in ActiveOn(k.task) :
                   leases[l].agent = k.agent /\ leases[l].machine = Home[k.agent]
              /\ \A t \in Tasks \ {k.task} : tasks'[t] = tasks[t] ]_vars

\* An agent turns busy only when it holds an active lease: a renewal whose
\* lease was released between its two statements does not leave its agent busy.
BusyOnlyWithLease ==
  [][ \A a \in Agents :
        agents[a] # "busy" /\ agents'[a] = "busy" => Holds(a)' ]_vars

\* A participant's write or renewal commits less than a second after the
\* lease's deadline, and the sweeper takes no lease a second or more before it:
\* the misorder of RFC3339Nano text is confined to one second.
DeadlineWithinASecond ==
  [][ /\ \A c \in Callers :
           LET k == calls[c]
           IN Bound(k) /\ calls'[c] = Idle /\ leases' # leases
              => now < leases[k.lease].expires + Fractions
      /\ \A l \in Leases :
           Active(l) /\ leases'[l].status = "expired"
           => leases[l].expires < now + Fractions ]_vars

\* A lease past its deadline does not stay so: it is swept, settled, or renewed
\* by its holder.
StaleLeaseSettles ==
  \A l \in Leases :
    Active(l) /\ leases[l].expires <= now
      ~> ~Active(l) \/ leases[l].expires > now

\* The Board implements the ownership of work: claimed is held, the agents of
\* the active leases are the holders, and every other status is closed.
Phase(t) ==
  CASE tasks[t].status = "absent"  -> "absent"
    [] tasks[t].status = "ready"   -> "open"
    [] tasks[t].status = "claimed" -> "held"
    [] OTHER                       -> "closed"

Holders(t) == {leases[l].agent : l \in ActiveOn(t)}

Ownership == INSTANCE WorkOwnership WITH
  Work <- Tasks, Workers <- Agents,
  phase <- [t \in Tasks |-> Phase(t)], holders <- [t \in Tasks |-> Holders(t)]

\* Every step of the Board is a step of WorkOwnership or leaves it alone: a
\* claimed task never passes to another agent without having been returned to
\* the pool, and no two agents are ever handed the same task.
OwnershipSpec == Ownership!Spec

\* "A lease that expires after the handler's read but before this write
\* therefore cannot pass the assertion" (ApplyTaskTransition), and an expired
\* lease is not "revived after a handler-side precheck" (RenewParticipantLease).
ExpiredLeaseCannotPass ==
  [][ \A c \in Callers :
        LET k == calls[c]
        IN Bound(k) /\ calls'[c] = Idle /\ leases' # leases
           => leases[k.lease].expires > now ]_vars

\* "done tasks cannot transition", "cancelled tasks cannot transition"
\* (allowTransition).
FinishedTasksStay ==
  [][ \A t \in Tasks :
        tasks[t].status \in {"done", "cancelled"}
        => tasks'[t].status = tasks[t].status ]_vars
=============================================================================
