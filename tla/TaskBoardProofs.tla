-------------------------- MODULE TaskBoardProofs --------------------------
(***************************************************************************)
(* Proofs about TaskBoard for every value of its constants: its types, a   *)
(* claim and its lease, what the steps of the Board may do (fencing of     *)
(* late writes, participants settling their own claims, review requests,   *)
(* deadlines), and the refinement of WorkOwnership.                        *)
(***************************************************************************)
EXTENDS TaskBoard, TLAPS

\* The empty store is well typed.
LEMMA InitTypeOK == Init => TypeOK
  <1> SUFFICES ASSUME Init PROVE TypeOK
    OBVIOUS
  <1> USE BoardAssumption
  <1>1. now \in 0..MaxNow
    BY DEF Init
  <1>2. tasks \in [Tasks -> TaskRow]
    BY DEF Init, NoTask, TaskRow, NoTarget, Target
  <1>3. /\ leases \in [Leases -> LeaseRow]
        /\ \A l \in Leases : Issued(leases[l])
    BY DEF Init, NoLease, LeaseRow, Issued
  <1>4. agents \in [Agents -> AgentStatus \cup {"absent"}]
    BY DEF Init
  <1>5. requests \in [Tasks -> SUBSET Target]
    BY DEF Init
  <1>6. /\ calls \in [Callers -> Call]
        /\ \A c \in Callers : Prepared(calls[c])
    BY DEF Init, Idle, Call, Points, Prepared, NoTarget, Target
  <1> QED
    BY <1>1, <1>2, <1>3, <1>4, <1>5, <1>6 DEF TypeOK

\* A clock reading gives a deadline.
LEMMA ReadingsAreInstants ==
  ASSUME TypeOK, NEW at \in Readings
  PROVE  at \in Nat /\ at + LeaseTicks \in Nat
  BY BoardAssumption DEF TypeOK, Readings

\* The clock stays within its bound.
LEMMA TypeTick == TypeOK /\ Tick => TypeOK'
  BY BoardAssumption DEF TypeOK, Tick

\* Registering and decaying write presence only.
LEMMA TypePresence == TypeOK /\ Presence => TypeOK'
  BY DEF TypeOK, Presence, RegisterAgent, DecayPresence, AgentStatus

\* A created row is a task row.
LEMMA TypeCreate ==
  ASSUME TypeOK, NEW t \in Tasks, NEW a \in Agents \cup {None}, CreateTask(t, a)
  PROVE  TypeOK'
  BY DEF TypeOK, CreateTask, TaskRow, TaskStatus, NoTarget, Target

\* PollAndClaim writes a task row and a lease that names its task, holder and
\* machine.
LEMMA TypeClaim ==
  ASSUME TypeOK, NEW a \in Agents, NEW m \in Machines, NEW t \in Tasks, NEW l \in Leases,
         Poll(a, m, t, l)
  PROVE  TypeOK'
  <1>1. PICK only \in BOOLEAN : Claim(a, m, t, l, only)
    BY DEF Poll
  <1>2. tasks' \in [Tasks -> TaskRow]
    <2> DEFINE row == [tasks[t] EXCEPT !.status = "claimed",
                         !.assigned = IF tasks[t].assigned = None
                                      THEN a ELSE tasks[t].assigned]
    <2>1. tasks[t] \in TaskRow
      BY DEF TypeOK
    <2>2. row \in TaskRow
      BY <2>1 DEF TaskRow, TaskStatus
    <2>3. tasks' = [tasks EXCEPT ![t] = row]
      BY <1>1 DEF Claim
    <2> HIDE DEF row
    <2> QED
      BY <2>2, <2>3 DEF TypeOK
  <1>3. /\ leases' \in [Leases -> LeaseRow]
        /\ \A x \in Leases : Issued(leases'[x])
    <2> PICK e \in Nat :
          leases' = [leases EXCEPT ![l] =
            [status |-> "active", task |-> t, agent |-> a, machine |-> m, expires |-> e]]
      BY <1>1, ReadingsAreInstants DEF Claim
    <2> QED
      BY DEF TypeOK, LeaseRow, LeaseStatus, Issued
  <1>4. agents' \in [Agents -> AgentStatus \cup {"absent"}]
    BY <1>1 DEF TypeOK, Claim, AgentStatus
  <1> QED
    BY <1>1, <1>2, <1>3, <1>4 DEF TypeOK, Claim

\* A sweep keeps the rows it rewrites well typed.
LEMMA TypeExpire == TypeOK /\ ExpireStaleLeases => TypeOK'
  <1> SUFFICES ASSUME TypeOK, NEW at \in Readings, Sweep(at) PROVE TypeOK'
    BY DEF ExpireStaleLeases
  <1>1. tasks' \in [Tasks -> TaskRow]
    BY DEF TypeOK, Sweep, Stale, TaskRow, TaskStatus
  <1>2. leases' \in [Leases -> LeaseRow]
    <2>1. \A r \in LeaseRow : [r EXCEPT !.status = "expired"] \in LeaseRow
      BY DEF LeaseRow, LeaseStatus
    <2> QED
      BY <2>1 DEF TypeOK, Sweep, Stale
  <1>3. \A x \in Leases : Issued(leases'[x])
    <2> SUFFICES ASSUME NEW x \in Leases PROVE Issued(leases'[x])
      OBVIOUS
    <2>1. leases[x] \in LeaseRow /\ Issued(leases[x])
      BY DEF TypeOK
    <2>2. \/ leases'[x] = leases[x]
          \/ Active(x) /\ leases'[x] = [leases[x] EXCEPT !.status = "expired"]
      BY DEF Sweep, Stale
    <2> QED
      BY <2>1, <2>2 DEF Issued, Active, LeaseRow
  <1> QED
    BY <1>1, <1>2, <1>3 DEF TypeOK, Sweep, Stale

\* Writing the deadline of an issued lease keeps the table of leases typed.
LEMMA TypeDeadline ==
  ASSUME TypeOK, NEW l \in Leases, NEW e \in Nat,
         leases' = [leases EXCEPT ![l].expires = e]
  PROVE  /\ leases' \in [Leases -> LeaseRow]
         /\ \A x \in Leases : Issued(leases'[x])
  <1>1. leases[l] \in LeaseRow /\ Issued(leases[l])
    BY DEF TypeOK
  <1>2. [leases[l] EXCEPT !.expires = e] \in LeaseRow
    BY <1>1 DEF LeaseRow
  <1>3. leases' = [leases EXCEPT ![l] = [leases[l] EXCEPT !.expires = e]]
    OBVIOUS
  <1>4. leases' \in [Leases -> LeaseRow]
    BY <1>2, <1>3 DEF TypeOK
  <1>5. ASSUME NEW x \in Leases PROVE Issued(leases'[x])
    <2>1. CASE x = l
      BY <1>1, <1>3, <2>1 DEF TypeOK, Issued, LeaseRow
    <2>2. CASE x # l
      BY <1>3, <2>2 DEF TypeOK
    <2> QED
      BY <2>1, <2>2
  <1> QED
    BY <1>4, <1>5

\* A call that is replaced by a prepared call keeps the calls typed.
LEMMA TypeCall ==
  ASSUME TypeOK, NEW c \in Callers, NEW k \in Call, Prepared(k),
         calls' = [calls EXCEPT ![c] = k]
  PROVE  /\ calls' \in [Callers -> Call]
         /\ \A x \in Callers : Prepared(calls'[x])
  BY DEF TypeOK

\* A caller without a call carries nothing.
LEMMA IdleTyped == Idle \in Call /\ Prepared(Idle)
  BY DEF Idle, Call, Points, Prepared, NoTarget, Target

\* Both renewals keep every row well typed and every call prepared.
LEMMA TypeRenewal ==
  ASSUME TypeOK, Renewal
  PROVE  TypeOK'
  <1> PICK c \in Callers :
        \/ \E l \in Leases : RenewLease(c, l) \/ StartRenewal(c, l)
        \/ RenewPresence(c)
        \/ RenewParticipantLease(c)
    BY DEF Renewal
  <1>0. now + LeaseTicks \in Nat
    BY BoardAssumption DEF TypeOK
  <1>1. ASSUME NEW l \in Leases, RenewLease(c, l) PROVE TypeOK'
    <2> DEFINE k == [Idle EXCEPT !.at = "presence", !.lease = l]
    <2>1. k \in Call /\ Prepared(k)
      BY DEF Idle, Call, Points, Prepared, NoTarget, Target
    <2>2. calls' = [calls EXCEPT ![c] = k]
      BY <1>1 DEF RenewLease
    <2> HIDE DEF k
    <2>3. /\ calls' \in [Callers -> Call]
          /\ \A x \in Callers : Prepared(calls'[x])
      BY <2>1, <2>2, TypeCall
    <2>4. PICK e \in Nat : leases' = [leases EXCEPT ![l].expires = e]
      BY <1>1, ReadingsAreInstants DEF RenewLease
    <2>5. /\ leases' \in [Leases -> LeaseRow]
          /\ \A x \in Leases : Issued(leases'[x])
      BY <2>4, TypeDeadline
    <2> QED
      BY <1>1, <2>3, <2>5 DEF TypeOK, RenewLease
  <1>2. ASSUME NEW l \in Leases, StartRenewal(c, l) PROVE TypeOK'
    <2> DEFINE k == [Idle EXCEPT !.at = "renew", !.task = leases[l].task, !.lease = l,
                       !.agent = leases[l].agent, !.machine = leases[l].machine]
    <2>1. /\ leases[l] \in LeaseRow
          /\ leases[l].task \in Tasks
          /\ leases[l].agent \in Participants
          /\ leases[l].machine = Home[leases[l].agent]
          /\ leases[l].machine \in Machines
      BY <1>2, BoardAssumption DEF StartRenewal, TypeOK, Issued, Active
    <2>2. k \in Call /\ Prepared(k)
      BY <2>1, BoardAssumption DEF Idle, Call, Points, Prepared, NoTarget, Target
    <2>3. calls' = [calls EXCEPT ![c] = k]
      BY <1>2 DEF StartRenewal
    <2> HIDE DEF k
    <2>4. /\ calls' \in [Callers -> Call]
          /\ \A x \in Callers : Prepared(calls'[x])
      BY <2>2, <2>3, TypeCall
    <2> QED
      BY <1>2, <2>4 DEF TypeOK, StartRenewal
  <1>3. CASE RenewPresence(c)
    <2>1. calls' = [calls EXCEPT ![c] = Idle]
      BY <1>3 DEF RenewPresence
    <2>2. /\ calls' \in [Callers -> Call]
          /\ \A x \in Callers : Prepared(calls'[x])
      BY <2>1, TypeCall, IdleTyped
    <2>3. agents' \in [Agents -> AgentStatus \cup {"absent"}]
      BY <1>3 DEF RenewPresence, TypeOK, AgentStatus
    <2> QED
      BY <1>3, <2>2, <2>3 DEF TypeOK, RenewPresence
  <1>4. CASE RenewParticipantLease(c)
    <2>1. calls' = [calls EXCEPT ![c] = Idle]
      BY <1>4 DEF RenewParticipantLease
    <2>2. /\ calls' \in [Callers -> Call]
          /\ \A x \in Callers : Prepared(calls'[x])
      BY <2>1, TypeCall, IdleTyped
    <2>3. calls[c] \in Call /\ Prepared(calls[c]) /\ calls[c].at = "renew"
      BY <1>4 DEF RenewParticipantLease, TypeOK
    <2>4. calls[c].lease \in Leases /\ calls[c].agent \in Participants
      BY <2>3 DEF Call, Prepared
    <2>5. /\ leases' \in [Leases -> LeaseRow]
          /\ \A x \in Leases : Issued(leases'[x])
      <3>1. CASE Binds(calls[c], calls[c].lease, now)
        <4>1. leases' = [leases EXCEPT ![calls[c].lease].expires = now + LeaseTicks]
          BY <1>4, <3>1 DEF RenewParticipantLease
        <4> QED
          BY <1>0, <2>4, <4>1, TypeDeadline
      <3>2. CASE ~Binds(calls[c], calls[c].lease, now)
        BY <1>4, <3>2 DEF RenewParticipantLease, TypeOK
      <3> QED
        BY <3>1, <3>2
    <2>6. agents' \in [Agents -> AgentStatus \cup {"absent"}]
      BY <1>4, <2>4 DEF RenewParticipantLease, TypeOK, AgentStatus
    <2> QED
      BY <1>4, <2>2, <2>5, <2>6 DEF TypeOK, RenewParticipantLease
  <1> QED
    BY <1>1, <1>2, <1>3, <1>4

\* What a released lease's row becomes is a lease row.
LEMMA TypeRelease ==
  ASSUME TypeOK, NEW freed, NEW s \in LeaseStatus,
         leases' = [l \in Leases |-> IF l \in freed THEN [leases[l] EXCEPT !.status = s]
                                                    ELSE leases[l]],
         \A l \in freed : l \in Leases /\ Active(l)
  PROVE  /\ leases' \in [Leases -> LeaseRow]
         /\ \A x \in Leases : Issued(leases'[x])
  <1>1. \A r \in LeaseRow : [r EXCEPT !.status = s] \in LeaseRow
    BY DEF LeaseRow
  <1>2. leases' \in [Leases -> LeaseRow]
    BY <1>1 DEF TypeOK
  <1>3. ASSUME NEW x \in Leases PROVE Issued(leases'[x])
    <2>1. leases[x] \in LeaseRow /\ Issued(leases[x])
      BY DEF TypeOK
    <2>2. \/ leases'[x] = leases[x]
          \/ Active(x) /\ leases'[x] = [leases[x] EXCEPT !.status = s]
      OBVIOUS
    <2> QED
      BY <2>1, <2>2 DEF Issued, Active, LeaseRow
  <1> QED
    BY <1>2, <1>3

\* A transition, committed or refused, keeps every row well typed.
LEMMA TypeWrite ==
  ASSUME TypeOK, NEW c \in Callers, WriteTask(c)
  PROVE  TypeOK'
  <1> DEFINE k == calls[c]
             t == k.task
  <1>1. k \in Call /\ Prepared(k) /\ k.at = "write"
    BY DEF TypeOK, WriteTask
  <1>2. t \in Tasks /\ k.op \in Ops
    BY <1>1 DEF Prepared
  <1>3. calls' = [calls EXCEPT ![c] = Idle] /\ now' = now
    BY DEF WriteTask
  <1>4. /\ calls' \in [Callers -> Call]
        /\ \A x \in Callers : Prepared(calls'[x])
    BY <1>3, TypeCall, IdleTyped
  <1>5. CASE Commits(k)
    <2>1. ApplyTransition(k)
      BY <1>5 DEF WriteTask
    <2>2. StatusOf[k.op] \in TaskStatus /\ ReleasedAs[k.op] \in LeaseStatus
      BY <1>2 DEF StatusOf, ReleasedAs, TaskStatus, LeaseStatus, Ops
    <2>3. tasks' \in [Tasks -> TaskRow]
      <3> DEFINE row == [tasks[t] EXCEPT
                           !.status = StatusOf[k.op],
                           !.target = IF StatusOf[k.op] = "review"
                                      THEN Retarget(tasks[t].target, k.target)
                                      ELSE NoTarget]
      <3>1. tasks[t] \in TaskRow /\ k.target \in Target
        BY <1>1, <1>2 DEF TypeOK, Call
      <3>2. row \in TaskRow
        BY <2>2, <3>1 DEF TaskRow, Target, Retarget, NoTarget
      <3>3. tasks' = [tasks EXCEPT ![t] = row]
        BY <2>1 DEF ApplyTransition
      <3> HIDE DEF row
      <3> QED
        BY <3>2, <3>3 DEF TypeOK
    <2>4. \A l \in Released(k) : l \in Leases /\ Active(l)
      BY DEF Released, Binds, ActiveOn
    <2>5. leases' = [l \in Leases |->
            IF l \in Released(k) THEN [leases[l] EXCEPT !.status = ReleasedAs[k.op]]
                                 ELSE leases[l]]
      BY <2>1 DEF ApplyTransition
    <2>6. /\ leases' \in [Leases -> LeaseRow]
          /\ \A x \in Leases : Issued(leases'[x])
      BY <2>2, <2>4, <2>5, TypeRelease
    <2>7. agents' \in [Agents -> AgentStatus \cup {"absent"}]
      BY <2>1 DEF ApplyTransition, TypeOK, AgentStatus
    <2>8. requests' \in [Tasks -> SUBSET Target]
      BY <1>1, <1>2, <2>1 DEF ApplyTransition, RequestsAfter, TypeOK, Call
    <2> QED
      BY <1>3, <1>4, <2>3, <2>6, <2>7, <2>8 DEF TypeOK
  <1>6. CASE ~Commits(k)
    <2>1. UNCHANGED << tasks, leases, agents, requests >>
      BY <1>6 DEF WriteTask
    <2> QED
      BY <1>3, <1>4, <2>1 DEF TypeOK
  <1> QED
    BY <1>5, <1>6

\* A task action carries from statement to statement what the next one needs.
LEMMA TypeActions ==
  ASSUME TypeOK, Actions
  PROVE  TypeOK'
  <1> PICK c \in Callers :
        \/ \E op \in AskedOps, t \in Tasks, l \in Leases \cup {None}, g \in Target :
             StartAction(c, op, t, l, g)
        \/ \E op \in AskedOps \cap ParticipantOps, t \in Tasks, a \in Participants :
             StartParticipantAction(c, op, t, a)
        \/ FindLease(c)
        \/ ReadTask(c)
        \/ WriteTask(c)
        \/ AbandonCall(c)
    BY DEF Actions
  <1>0. AskedOps \subseteq Ops
    BY BoardAssumption DEF Ops
  <1>1. ASSUME NEW op \in AskedOps, NEW t \in Tasks, NEW l \in Leases \cup {None},
               NEW g \in Target, StartAction(c, op, t, l, g)
        PROVE  TypeOK'
    <2> DEFINE k == [Idle EXCEPT !.at = "read", !.op = op, !.task = t, !.lease = l,
                                 !.target = g]
    <2>1. k \in Call /\ Prepared(k)
      BY <1>0 DEF Idle, Call, Points, Prepared, NoTarget, Target
    <2>2. calls' = [calls EXCEPT ![c] = k]
      BY <1>1 DEF StartAction
    <2> HIDE DEF k
    <2>3. /\ calls' \in [Callers -> Call]
          /\ \A x \in Callers : Prepared(calls'[x])
      BY <2>1, <2>2, TypeCall
    <2> QED
      BY <1>1, <2>3 DEF TypeOK, StartAction
  <1>2. ASSUME NEW op \in AskedOps \cap ParticipantOps, NEW t \in Tasks,
               NEW a \in Participants, StartParticipantAction(c, op, t, a)
        PROVE  TypeOK'
    <2> DEFINE k == [Idle EXCEPT !.at = "lease", !.op = op, !.task = t, !.agent = a,
                                 !.machine = Home[a]]
    <2>1. k \in Call /\ Prepared(k)
      BY <1>0, BoardAssumption DEF Idle, Call, Points, Prepared, NoTarget, Target
    <2>2. calls' = [calls EXCEPT ![c] = k]
      BY <1>2 DEF StartParticipantAction
    <2> HIDE DEF k
    <2>3. /\ calls' \in [Callers -> Call]
          /\ \A x \in Callers : Prepared(calls'[x])
      BY <2>1, <2>2, TypeCall
    <2> QED
      BY <1>2, <2>3 DEF TypeOK, StartParticipantAction
  <1>3. CASE FindLease(c)
    <2>1. calls[c] \in Call /\ Prepared(calls[c]) /\ calls[c].at = "lease"
      BY <1>3 DEF TypeOK, FindLease
    <2>2. PICK k \in Call : Prepared(k) /\ calls' = [calls EXCEPT ![c] = k]
      <3>1. CASE calls' = [calls EXCEPT ![c] = Idle]
        BY <3>1, IdleTyped
      <3>2. ASSUME NEW l \in Leases,
                   calls' = [calls EXCEPT ![c].at = "read", ![c].lease = l]
            PROVE  \E k \in Call : Prepared(k) /\ calls' = [calls EXCEPT ![c] = k]
        <4> DEFINE k == [calls[c] EXCEPT !.at = "read", !.lease = l]
        <4>1. k \in Call /\ Prepared(k)
          BY <2>1, BoardAssumption DEF Call, Points, Prepared
        <4>2. calls' = [calls EXCEPT ![c] = k]
          BY <2>1, <3>2 DEF TypeOK
        <4> QED
          BY <4>1, <4>2
      <3> QED
        BY <1>3, <3>1, <3>2 DEF FindLease
    <2>3. /\ calls' \in [Callers -> Call]
          /\ \A x \in Callers : Prepared(calls'[x])
      BY <2>2, TypeCall
    <2> QED
      BY <1>3, <2>3 DEF TypeOK, FindLease
  <1>4. CASE ReadTask(c)
    <2>1. calls[c] \in Call /\ Prepared(calls[c]) /\ calls[c].at = "read"
      BY <1>4 DEF TypeOK, ReadTask
    <2>2. [calls[c] EXCEPT !.at = "write"] \in Call
          /\ Prepared([calls[c] EXCEPT !.at = "write"])
      BY <2>1 DEF Call, Points, Prepared
    <2>3. \/ calls' = [calls EXCEPT ![c] = [calls[c] EXCEPT !.at = "write"]]
          \/ calls' = [calls EXCEPT ![c] = Idle]
      BY <1>4 DEF ReadTask
    <2>4. /\ calls' \in [Callers -> Call]
          /\ \A x \in Callers : Prepared(calls'[x])
      BY <2>2, <2>3, TypeCall, IdleTyped
    <2> QED
      BY <1>4, <2>4 DEF TypeOK, ReadTask
  <1>5. CASE WriteTask(c)
    BY <1>5, TypeWrite
  <1>6. CASE AbandonCall(c)
    <2>1. /\ calls' \in [Callers -> Call]
          /\ \A x \in Callers : Prepared(calls'[x])
      BY <1>6, TypeCall, IdleTyped DEF AbandonCall
    <2> QED
      BY <1>6, <2>1 DEF TypeOK, AbandonCall
  <1> QED
    BY <1>1, <1>2, <1>3, <1>4, <1>5, <1>6

\* Acknowledging takes a request away.
LEMMA TypeAcknowledge ==
  ASSUME TypeOK, NEW t \in Tasks, NEW g \in Target, AcknowledgeMessage(t, g)
  PROVE  TypeOK'
  BY DEF TypeOK, AcknowledgeMessage

\* Every step keeps the state well typed.
LEMMA TypeStep == TypeOK /\ [Next]_vars => TypeOK'
  <1> SUFFICES ASSUME TypeOK, [Next]_vars PROVE TypeOK'
    OBVIOUS
  <1>1. CASE Tick
    BY <1>1, TypeTick
  <1>2. CASE Presence
    BY <1>2, TypePresence
  <1>3. CASE Queue
    BY <1>3, TypeCreate, TypeClaim, TypeExpire DEF Queue
  <1>4. CASE Renewal
    BY <1>4, TypeRenewal
  <1>5. CASE Actions
    BY <1>5, TypeActions
  <1>6. CASE \E t \in Tasks, g \in Target : AcknowledgeMessage(t, g)
    BY <1>6, TypeAcknowledge
  <1>7. CASE UNCHANGED vars
    BY <1>7 DEF vars, TypeOK
  <1> QED
    BY <1>1, <1>2, <1>3, <1>4, <1>5, <1>6, <1>7 DEF Next

\* TypeOK is an invariant, so the rows and calls of every reachable state are
\* those the store and the handlers can produce.
THEOREM TypeCorrect == Spec => []TypeOK
  BY InitTypeOK, TypeStep, PTL DEF Spec
-----------------------------------------------------------------------------
\* The three facts hold each other up: a sweep or a settling write frees the
\* task's only lease (OneActiveLease), so no lease outlives the claim
\* (ClaimedIffLeased), so the next claim starts on a task without leases and
\* may set the assignee (HolderIsAssignee).
LeaseInv ==
  /\ ClaimedIffLeased
  /\ OneActiveLease
  /\ HolderIsAssignee

\* An active lease names a task, a holder and a machine.
LEMMA ActiveIsIssued ==
  ASSUME TypeOK, NEW l \in Leases, Active(l)
  PROVE  /\ leases[l].task \in Tasks
         /\ leases[l].agent \in Agents
         /\ leases[l].machine \in Machines
  BY DEF TypeOK, Issued, Active

\* Steps that touch neither the tasks' status and assignee nor the leases'
\* status and holder keep the invariant.
LEMMA LeaseFrame ==
  ASSUME LeaseInv,
         \A t \in Tasks : /\ tasks'[t].status = tasks[t].status
                          /\ tasks'[t].assigned = tasks[t].assigned,
         \A l \in Leases : /\ leases'[l].status = leases[l].status
                           /\ leases'[l].task = leases[l].task
                           /\ leases'[l].agent = leases[l].agent,
         TypeOK
  PROVE  LeaseInv'
  <1>1. \A l \in Leases : Active(l)' <=> Active(l)
    BY DEF Active
  <1>2. \A t \in Tasks : ActiveOn(t)' = ActiveOn(t)
    BY <1>1 DEF ActiveOn
  <1>3. ClaimedIffLeased'
    BY <1>2 DEF LeaseInv, ClaimedIffLeased
  <1>4. OneActiveLease'
    BY <1>1 DEF LeaseInv, OneActiveLease
  <1>5. HolderIsAssignee'
    BY <1>1, ActiveIsIssued DEF LeaseInv, HolderIsAssignee
  <1> QED
    BY <1>3, <1>4, <1>5 DEF LeaseInv

\* A created task has no lease yet.
LEMMA LeaseCreate ==
  ASSUME TypeOK, LeaseInv, NEW t \in Tasks, NEW a \in Agents \cup {None}, CreateTask(t, a)
  PROVE  LeaseInv'
  <1>1. ActiveOn(t) = {}
    BY DEF CreateTask, Exists, LeaseInv, ClaimedIffLeased
  <1>2. \A l \in Leases : Active(l)' <=> Active(l)
    BY DEF CreateTask, Active
  <1>3. \A u \in Tasks : ActiveOn(u)' = ActiveOn(u)
    BY <1>2 DEF ActiveOn, CreateTask
  <1>4. \A u \in Tasks \ {t} : tasks'[u] = tasks[u]
    BY DEF CreateTask, TypeOK
  <1>5. tasks'[t].status = "ready"
    BY DEF CreateTask, TypeOK
  <1>6. ClaimedIffLeased'
    BY <1>1, <1>3, <1>4, <1>5 DEF LeaseInv, ClaimedIffLeased
  <1>7. OneActiveLease'
    BY <1>2 DEF CreateTask, LeaseInv, OneActiveLease
  <1>8. HolderIsAssignee'
    BY <1>1, <1>2, <1>4, ActiveIsIssued DEF CreateTask, LeaseInv, HolderIsAssignee, ActiveOn
  <1> QED
    BY <1>6, <1>7, <1>8 DEF LeaseInv

\* A claim starts on a task without active leases and leaves it with one.
LEMMA LeaseClaim ==
  ASSUME TypeOK, LeaseInv, NEW a \in Agents, NEW m \in Machines, NEW t \in Tasks,
         NEW l \in Leases, Poll(a, m, t, l)
  PROVE  LeaseInv'
  <1>1. PICK only \in BOOLEAN : Claim(a, m, t, l, only)
    BY DEF Poll
  <1>2. ActiveOn(t) = {} /\ ~Active(l)
    BY <1>1 DEF Claim, Offered, Eligible, Active
  <1>3. /\ Active(l)' /\ leases'[l].task = t /\ leases'[l].agent = a
        /\ \A x \in Leases \ {l} : leases'[x] = leases[x]
    BY <1>1 DEF Claim, Active, TypeOK
  <1>4. \A x \in Leases \ {l} : Active(x)' <=> Active(x)
    BY <1>3 DEF Active
  <1>5. /\ tasks'[t].status = "claimed"
        /\ tasks'[t].assigned = a
        /\ \A u \in Tasks \ {t} : tasks'[u] = tasks[u]
    <2>1. tasks[t].assigned \in {a, None}
      BY <1>1 DEF Claim, Offered, Eligible
    <2>2. tasks[t] \in TaskRow
      BY DEF TypeOK
    <2> QED
      BY <1>1, <2>1, <2>2 DEF Claim, TypeOK, TaskRow
  <1>6. ClaimedIffLeased'
    <2>1. ASSUME NEW u \in Tasks PROVE (tasks'[u].status = "claimed") <=> (ActiveOn(u)' # {})
      <3>1. CASE u = t
        BY <1>3, <1>5, <3>1 DEF ActiveOn
      <3>2. CASE u # t
        <4>1. ActiveOn(u)' = ActiveOn(u)
          BY <1>2, <1>3, <1>4, <3>2 DEF ActiveOn
        <4> QED
          BY <1>5, <3>2, <4>1 DEF LeaseInv, ClaimedIffLeased
      <3> QED
        BY <3>1, <3>2
    <2> QED
      BY <2>1 DEF ClaimedIffLeased
  <1>7. OneActiveLease'
    BY <1>2, <1>3, <1>4 DEF LeaseInv, OneActiveLease, ActiveOn
  <1>8. HolderIsAssignee'
    BY <1>2, <1>3, <1>4, <1>5, ActiveIsIssued DEF LeaseInv, HolderIsAssignee, ActiveOn
  <1> QED
    BY <1>6, <1>7, <1>8 DEF LeaseInv

\* The sweep takes the only lease of each task it returns to the pool.
LEMMA LeaseExpire ==
  ASSUME TypeOK, LeaseInv, ExpireStaleLeases
  PROVE  LeaseInv'
  <1> PICK at \in Readings : Sweep(at)
    BY DEF ExpireStaleLeases
  <1> DEFINE stale == Stale(at)
             freed == {leases[l].task : l \in stale}
  <1>1. \A l \in Leases : /\ Active(l)' <=> (Active(l) /\ l \notin stale)
                          /\ leases'[l].task = leases[l].task
                          /\ leases'[l].agent = leases[l].agent
    <2> SUFFICES ASSUME NEW l \in Leases
                 PROVE  /\ Active(l)' <=> (Active(l) /\ l \notin stale)
                        /\ leases'[l].task = leases[l].task
                        /\ leases'[l].agent = leases[l].agent
      OBVIOUS
    <2>1. leases[l] \in LeaseRow
      BY DEF TypeOK
    <2>2. leases'[l] = IF l \in stale THEN [leases[l] EXCEPT !.status = "expired"]
                                      ELSE leases[l]
      BY DEF Sweep, Stale
    <2> QED
      BY <2>1, <2>2 DEF Active, LeaseRow
  <1>2. \A t \in Tasks : IF t \in freed THEN tasks'[t].status = "ready"
                                        ELSE tasks'[t] = tasks[t]
    <2> SUFFICES ASSUME NEW t \in Tasks
                 PROVE  IF t \in freed THEN tasks'[t].status = "ready"
                                       ELSE tasks'[t] = tasks[t]
      OBVIOUS
    <2>1. tasks[t] \in TaskRow
      BY DEF TypeOK
    <2>2. tasks'[t] = IF t \in freed
                      THEN [tasks[t] EXCEPT !.status = "ready", !.assigned = None]
                      ELSE tasks[t]
      BY DEF Sweep, Stale
    <2> QED
      BY <2>1, <2>2 DEF TaskRow
  <1> HIDE DEF stale
  <1>s. \A l \in stale : l \in Leases /\ Active(l)
    BY DEF stale, Stale
  <1>3. \A l \in Leases : Active(l)' => leases[l].task \notin freed
    BY <1>1, <1>s DEF LeaseInv, OneActiveLease
  <1>4. ClaimedIffLeased'
    <2>1. ASSUME NEW t \in Tasks PROVE (tasks'[t].status = "claimed") <=> (ActiveOn(t)' # {})
      <3>1. CASE t \in freed
        BY <1>1, <1>2, <1>3, <3>1 DEF ActiveOn
      <3>2. CASE t \notin freed
        <4>1. ActiveOn(t)' = ActiveOn(t)
          BY <1>1, <1>s, <3>2 DEF ActiveOn
        <4> QED
          BY <1>2, <3>2, <4>1 DEF LeaseInv, ClaimedIffLeased
      <3> QED
        BY <3>1, <3>2
    <2> QED
      BY <2>1 DEF ClaimedIffLeased
  <1>5. OneActiveLease'
    BY <1>1 DEF LeaseInv, OneActiveLease
  <1>6. HolderIsAssignee'
    BY <1>1, <1>2, <1>3, ActiveIsIssued DEF LeaseInv, HolderIsAssignee
  <1> QED
    BY <1>4, <1>5, <1>6 DEF LeaseInv

\* A transition that commits leaves its task without a lease.
LEMMA CommitFrees ==
  ASSUME TypeOK, LeaseInv, NEW k \in Call, Prepared(k), k.at = "write", Commits(k)
  PROVE  Released(k) = ActiveOn(k.task)
  <1>1. CASE Bound(k)
    <2>1. k.lease # None
      BY <1>1 DEF Prepared, Bound
    <2>2. PICK l \in Released(k) : TRUE
      BY <2>1 DEF Commits
    <2>3. Released(k) \subseteq ActiveOn(k.task)
      BY <1>1 DEF Released, Binds, ActiveOn
    <2> QED
      BY <1>1, <2>2, <2>3 DEF LeaseInv, OneActiveLease, ActiveOn, Active
  <1>2. CASE ~Bound(k) /\ k.lease # None
    <2>1. PICK l \in Released(k) : TRUE
      BY <1>2 DEF Commits
    <2>2. Released(k) \subseteq ActiveOn(k.task)
      BY <1>2 DEF Released
    <2> QED
      BY <1>2, <2>1, <2>2 DEF LeaseInv, OneActiveLease, ActiveOn, Active
  <1>3. CASE ~Bound(k) /\ k.lease = None
    BY <1>3 DEF Released
  <1> QED
    BY <1>1, <1>2, <1>3

\* What a committed transition does to the leases and to the tasks.
LEMMA CommitEffect ==
  ASSUME TypeOK, LeaseInv, NEW c \in Callers, WriteTask(c),
         NEW k, k = calls[c], Commits(k)
  PROVE  /\ k.task \in Tasks
         /\ ActiveOn(k.task)' = {}
         /\ \A l \in Leases : /\ Active(l)' <=> (Active(l) /\ leases[l].task # k.task)
                              /\ leases'[l].task = leases[l].task
                              /\ leases'[l].agent = leases[l].agent
         /\ \A t \in Tasks \ {k.task} : tasks'[t] = tasks[t]
         /\ tasks'[k.task].status = StatusOf[k.op]
         /\ StatusOf[k.op] \notin {"claimed", "absent"}
         /\ tasks'[k.task].assigned = tasks[k.task].assigned
  <1>1. k \in Call /\ Prepared(k) /\ k.at = "write"
    BY DEF TypeOK, WriteTask
  <1>2. k.task \in Tasks /\ k.op \in Ops
    BY <1>1 DEF Prepared
  <1>3. Released(k) = ActiveOn(k.task)
    BY <1>1, CommitFrees
  <1>4. ApplyTransition(k)
    BY DEF WriteTask
  <1>5. StatusOf[k.op] \notin {"claimed", "absent"}
    BY <1>2 DEF StatusOf, Ops
  <1>6. ReleasedAs[k.op] # "active"
    BY <1>2 DEF ReleasedAs, Ops
  <1>7. ASSUME NEW l \in Leases
        PROVE  /\ Active(l)' <=> (Active(l) /\ leases[l].task # k.task)
               /\ leases'[l].task = leases[l].task
               /\ leases'[l].agent = leases[l].agent
    <2>1. leases[l] \in LeaseRow
      BY DEF TypeOK
    <2>2. leases'[l] = IF l \in ActiveOn(k.task)
                       THEN [leases[l] EXCEPT !.status = ReleasedAs[k.op]] ELSE leases[l]
      BY <1>3, <1>4 DEF ApplyTransition
    <2>3. l \in ActiveOn(k.task) <=> Active(l) /\ leases[l].task = k.task
      BY DEF ActiveOn
    <2>4. CASE l \in ActiveOn(k.task)
      BY <1>6, <2>1, <2>2, <2>3, <2>4 DEF Active, LeaseRow
    <2>5. CASE l \notin ActiveOn(k.task)
      BY <2>2, <2>3, <2>5 DEF Active
    <2> QED
      BY <2>4, <2>5
  <1>8. ActiveOn(k.task)' = {}
    BY <1>7 DEF ActiveOn
  <1>9. /\ \A t \in Tasks \ {k.task} : tasks'[t] = tasks[t]
        /\ tasks'[k.task].status = StatusOf[k.op]
        /\ tasks'[k.task].assigned = tasks[k.task].assigned
    <2> DEFINE row == [tasks[k.task] EXCEPT
                         !.status = StatusOf[k.op],
                         !.target = IF StatusOf[k.op] = "review"
                                    THEN Retarget(tasks[k.task].target, k.target)
                                    ELSE NoTarget]
    <2>1. tasks[k.task] \in TaskRow
      BY <1>2 DEF TypeOK
    <2>2. row.status = StatusOf[k.op] /\ row.assigned = tasks[k.task].assigned
      BY <2>1 DEF TaskRow
    <2>3. tasks' = [tasks EXCEPT ![k.task] = row]
      BY <1>4 DEF ApplyTransition
    <2> HIDE DEF row
    <2> QED
      BY <1>2, <2>2, <2>3 DEF TypeOK
  <1> QED
    BY <1>2, <1>5, <1>7, <1>8, <1>9

\* A committed transition ends every lease of the task it moves.
LEMMA LeaseWrite ==
  ASSUME TypeOK, LeaseInv, NEW c \in Callers, WriteTask(c)
  PROVE  LeaseInv'
  <1>1. PICK k : k = calls[c]
    OBVIOUS
  <1>2. CASE ~Commits(k)
    <2>1. UNCHANGED << tasks, leases >>
      BY <1>1, <1>2 DEF WriteTask
    <2> QED
      BY <2>1, LeaseFrame
  <1>3. CASE Commits(k)
    <2>1. /\ k.task \in Tasks
          /\ ActiveOn(k.task)' = {}
          /\ \A l \in Leases : /\ Active(l)' <=> (Active(l) /\ leases[l].task # k.task)
                               /\ leases'[l].task = leases[l].task
                               /\ leases'[l].agent = leases[l].agent
          /\ \A t \in Tasks \ {k.task} : tasks'[t] = tasks[t]
          /\ tasks'[k.task].status # "claimed"
      BY <1>1, <1>3, CommitEffect
    <2>2. \A t \in Tasks \ {k.task} : ActiveOn(t)' = ActiveOn(t)
      BY <2>1 DEF ActiveOn
    <2>3. ClaimedIffLeased'
      BY <2>1, <2>2 DEF LeaseInv, ClaimedIffLeased
    <2>4. OneActiveLease'
      BY <2>1 DEF LeaseInv, OneActiveLease
    <2>5. HolderIsAssignee'
      BY <2>1, ActiveIsIssued DEF LeaseInv, HolderIsAssignee
    <2> QED
      BY <2>3, <2>4, <2>5 DEF LeaseInv
  <1> QED
    BY <1>2, <1>3

\* A renewal moves deadlines only.
LEMMA RenewalFrame ==
  ASSUME TypeOK, Renewal
  PROVE  /\ UNCHANGED tasks
         /\ \A l \in Leases : /\ leases'[l].status = leases[l].status
                             /\ leases'[l].task = leases[l].task
                             /\ leases'[l].agent = leases[l].agent
  <1> PICK c \in Callers :
        \/ \E l \in Leases : RenewLease(c, l) \/ StartRenewal(c, l)
        \/ RenewPresence(c)
        \/ RenewParticipantLease(c)
    BY DEF Renewal
  <1>1. UNCHANGED tasks
    BY DEF RenewLease, StartRenewal, RenewPresence, RenewParticipantLease
  <1>2. \/ UNCHANGED leases
        \/ \E l \in Leases, e \in Nat : leases' = [leases EXCEPT ![l].expires = e]
    <2>1. now + LeaseTicks \in Nat
      BY BoardAssumption DEF TypeOK
    <2>2. RenewParticipantLease(c) => calls[c].lease \in Leases
      BY DEF RenewParticipantLease, TypeOK, Prepared
    <2>3. \A l \in Leases : RenewLease(c, l) =>
            \E e \in Nat : leases' = [leases EXCEPT ![l].expires = e]
      BY ReadingsAreInstants DEF RenewLease
    <2> QED
      BY <2>1, <2>2, <2>3 DEF StartRenewal, RenewPresence, RenewParticipantLease
  <1>3. \A l \in Leases : /\ leases'[l].status = leases[l].status
                          /\ leases'[l].task = leases[l].task
                          /\ leases'[l].agent = leases[l].agent
    <2>1. ASSUME NEW l \in Leases, NEW e \in Nat,
                 leases' = [leases EXCEPT ![l].expires = e],
                 NEW x \in Leases
          PROVE  /\ leases'[x].status = leases[x].status
                 /\ leases'[x].task = leases[x].task
                 /\ leases'[x].agent = leases[x].agent
      <3>1. leases[l] \in LeaseRow
        BY DEF TypeOK
      <3>2. leases' = [leases EXCEPT ![l] = [leases[l] EXCEPT !.expires = e]]
        BY <2>1
      <3>3. CASE x = l
        BY <3>1, <3>2, <3>3 DEF TypeOK, LeaseRow
      <3>4. CASE x # l
        BY <3>2, <3>4 DEF TypeOK
      <3> QED
        BY <3>3, <3>4
    <2> QED
      BY <1>2, <2>1
  <1> QED
    BY <1>1, <1>3

\* The invariant is inductive.
LEMMA LeaseStep == TypeOK /\ LeaseInv /\ [Next]_vars => LeaseInv'
  <1> SUFFICES ASSUME TypeOK, LeaseInv, [Next]_vars PROVE LeaseInv'
    OBVIOUS
  <1>1. CASE UNCHANGED << tasks, leases >>
    BY <1>1, LeaseFrame
  <1>2. CASE Tick \/ Presence
    BY <1>1, <1>2 DEF Tick, Presence, RegisterAgent, DecayPresence
  <1>3. CASE Queue
    BY <1>3, LeaseCreate, LeaseClaim, LeaseExpire DEF Queue
  <1>4. CASE Renewal
    BY <1>4, RenewalFrame, LeaseFrame
  <1>5. CASE Actions
    BY <1>1, <1>5, LeaseWrite DEF Actions, StartAction, StartParticipantAction, FindLease,
         ReadTask, AbandonCall
  <1>6. CASE \E t \in Tasks, g \in Target : AcknowledgeMessage(t, g)
    BY <1>1, <1>6 DEF AcknowledgeMessage
  <1>7. CASE UNCHANGED vars
    BY <1>1, <1>7 DEF vars
  <1> QED
    BY <1>2, <1>3, <1>4, <1>5, <1>6, <1>7 DEF Next

\* An empty store satisfies the invariant.
LEMMA LeaseInit == Init => LeaseInv
  BY DEF Init, LeaseInv, ClaimedIffLeased, OneActiveLease, HolderIsAssignee, ActiveOn, Active,
         NoTask, NoLease

\* The invariant holds of every behaviour.
LEMMA LeaseCorrect == Spec => []LeaseInv
  BY LeaseInit, LeaseStep, TypeCorrect, PTL DEF Spec

\* A task is claimed exactly while it has an active lease: the sweeper may
\* return the task of a stale lease to the pool without looking at its status.
THEOREM ClaimedIffLeasedCorrect == Spec => []ClaimedIffLeased
  <1>1. LeaseInv => ClaimedIffLeased
    BY DEF LeaseInv
  <1> QED
    BY <1>1, LeaseCorrect, PTL

\* The unique index one_active_lease_per_task is never what stops a claim.
THEOREM OneActiveLeaseCorrect == Spec => []OneActiveLease
  <1>1. LeaseInv => OneActiveLease
    BY DEF LeaseInv
  <1> QED
    BY <1>1, LeaseCorrect, PTL

\* The agent of an active lease is the assignee of its task.
THEOREM HolderIsAssigneeCorrect == Spec => []HolderIsAssignee
  <1>1. LeaseInv => HolderIsAssignee
    BY DEF LeaseInv
  <1> QED
    BY <1>1, LeaseCorrect, PTL
-----------------------------------------------------------------------------
\* A step that moves a call is one of its own statements.
LEMMA OnlyCallsWriteCalls ==
  ASSUME Next, calls' # calls
  PROVE  Renewal \/ Actions
  <1>1. Tick => UNCHANGED calls
    BY DEF Tick
  <1>2. Presence => UNCHANGED calls
    BY DEF Presence, RegisterAgent, DecayPresence
  <1>3. Queue => UNCHANGED calls
    <2>1. \A t \in Tasks, a \in Agents \cup {None} : CreateTask(t, a) => UNCHANGED calls
      BY DEF CreateTask
    <2>2. \A a \in Agents, m \in Machines, t \in Tasks, l \in Leases :
            Poll(a, m, t, l) => UNCHANGED calls
      <3>1. \A a \in Agents, m \in Machines, t \in Tasks, l \in Leases, only \in BOOLEAN :
              Claim(a, m, t, l, only) => UNCHANGED calls
        BY DEF Claim
      <3> QED
        BY <3>1 DEF Poll
    <2>3. ExpireStaleLeases => UNCHANGED calls
      BY DEF ExpireStaleLeases, Sweep
    <2> QED
      BY <2>1, <2>2, <2>3 DEF Queue
  <1>4. (\E t \in Tasks, g \in Target : AcknowledgeMessage(t, g)) => UNCHANGED calls
    BY DEF AcknowledgeMessage
  <1> QED
    BY <1>1, <1>2, <1>3, <1>4 DEF Next

\* Of the statements of a call, only the write moves a task.
LEMMA OnlyWritesMoveTasks ==
  ASSUME Next, calls' # calls, tasks' # tasks
  PROVE  \E c \in Callers : WriteTask(c)
  <1>1. Renewal => UNCHANGED tasks
    BY DEF Renewal, RenewLease, StartRenewal, RenewPresence, RenewParticipantLease
  <1>2. Actions => UNCHANGED tasks \/ \E c \in Callers : WriteTask(c)
    BY DEF Actions, StartAction, StartParticipantAction, FindLease, ReadTask, AbandonCall
  <1> QED
    BY <1>1, <1>2, OnlyCallsWriteCalls

\* A call that ends with a change of tasks or leases ended by its write, and
\* the write committed.
LEMMA EndedByWrite ==
  ASSUME TypeOK, Next, NEW c \in Callers,
         calls[c].at = "write", calls'[c] = Idle,
         << tasks, leases >>' # << tasks, leases >>
  PROVE  WriteTask(c) /\ Commits(calls[c])
  <1>1. calls' # calls
    BY DEF Idle
  <1>2. Renewal \/ Actions
    BY <1>1, OnlyCallsWriteCalls
  <1>3. ASSUME NEW d \in Callers, NEW k, calls' = [calls EXCEPT ![d] = k] PROVE d = c
    BY <1>3 DEF TypeOK, Idle
  <1>4. CASE Renewal
    <2> PICK d \in Callers :
          \/ \E l \in Leases : RenewLease(d, l) \/ StartRenewal(d, l)
          \/ RenewPresence(d)
          \/ RenewParticipantLease(d)
      BY <1>4 DEF Renewal
    <2>1. \E k : calls' = [calls EXCEPT ![d] = k]
      BY DEF RenewLease, StartRenewal, RenewPresence, RenewParticipantLease
    <2>2. d = c
      BY <1>3, <2>1
    <2>3. calls[d].at # "write"
      <3>1. \A l \in Leases : RenewLease(d, l) \/ StartRenewal(d, l) => calls[d] = Idle
        BY DEF RenewLease, StartRenewal
      <3>2. RenewPresence(d) => calls[d].at = "presence"
        BY DEF RenewPresence
      <3>3. RenewParticipantLease(d) => calls[d].at = "renew"
        BY DEF RenewParticipantLease
      <3>4. Idle.at = "idle"
        BY DEF Idle
      <3> QED
        BY <3>1, <3>2, <3>3, <3>4
    <2> QED
      BY <2>2, <2>3
  <1>5. CASE Actions
    <2> PICK d \in Callers : WriteTask(d) \/ UNCHANGED << tasks, leases >>
      BY <1>5 DEF Actions, StartAction, StartParticipantAction, FindLease, ReadTask, AbandonCall
    <2>1. WriteTask(d)
      OBVIOUS
    <2>2. d = c
      BY <1>3, <2>1 DEF WriteTask
    <2> QED
      BY <2>1, <2>2 DEF WriteTask
  <1> QED
    BY <1>2, <1>4, <1>5

\* The result posted under a lost lease changes nothing, whatever happened to
\* the task since.
THEOREM LateWriteIsFencedCorrect == Spec => LateWriteIsFenced
  <1> DEFINE Fenced ==
        \A c \in Callers :
          LET k == calls[c]
          IN /\ k.at = "write" /\ k.lease # None
             /\ calls'[c] = Idle
             /\ << tasks, leases >>' # << tasks, leases >>
             => ActiveOn(k.task) = {k.lease}
  <1>1. TypeOK /\ LeaseInv /\ [Next]_vars => [Fenced]_vars
    <2> SUFFICES ASSUME TypeOK, LeaseInv, Next, NEW c \in Callers,
                        calls[c].at = "write", calls[c].lease # None, calls'[c] = Idle,
                        << tasks, leases >>' # << tasks, leases >>
                 PROVE  ActiveOn(calls[c].task) = {calls[c].lease}
      OBVIOUS
    <2>1. Commits(calls[c])
      BY EndedByWrite
    <2>2. calls[c] \in Call /\ Prepared(calls[c])
      BY DEF TypeOK
    <2>3. Released(calls[c]) = ActiveOn(calls[c].task)
      BY <2>1, <2>2, CommitFrees
    <2>4. Released(calls[c]) # {}
      BY <2>1 DEF Commits
    <2>5. Released(calls[c]) \subseteq {calls[c].lease}
      BY DEF Released, Binds
    <2> QED
      BY <2>3, <2>4, <2>5
  <1>2. Spec => [][Next]_vars
    BY DEF Spec
  <1> QED
    BY <1>1, <1>2, TypeCorrect, LeaseCorrect, PTL DEF LateWriteIsFenced

\* A participant's call moves no task but the one it holds.
THEOREM ParticipantSettlesOwnClaimCorrect == Spec => ParticipantSettlesOwnClaim
  <1> DEFINE Own ==
        \A c \in Callers :
          LET k == calls[c]
          IN Bound(k) /\ calls'[c] = Idle /\ tasks' # tasks
             => /\ tasks[k.task].status = "claimed"
                /\ tasks[k.task].assigned = k.agent
                /\ \E l \in ActiveOn(k.task) :
                     leases[l].agent = k.agent /\ leases[l].machine = Home[k.agent]
                /\ \A t \in Tasks \ {k.task} : tasks'[t] = tasks[t]
  <1>1. TypeOK /\ LeaseInv /\ [Next]_vars => [Own]_vars
    <2> SUFFICES ASSUME TypeOK, LeaseInv, Next, NEW c \in Callers, NEW k, k = calls[c],
                        Bound(k), calls'[c] = Idle, tasks' # tasks
                 PROVE  /\ tasks[k.task].status = "claimed"
                        /\ tasks[k.task].assigned = k.agent
                        /\ \E l \in ActiveOn(k.task) :
                             leases[l].agent = k.agent /\ leases[l].machine = Home[k.agent]
                        /\ \A t \in Tasks \ {k.task} : tasks'[t] = tasks[t]
      OBVIOUS
    <2>1. calls' # calls
      BY DEF Idle, Bound
    <2>2. PICK d \in Callers : WriteTask(d)
      BY <2>1, OnlyWritesMoveTasks
    <2>3. d = c
      <3>1. calls' = [calls EXCEPT ![d] = Idle]
        BY <2>2 DEF WriteTask
      <3>2. k # Idle
        BY DEF Bound, Idle
      <3> QED
        BY <3>1, <3>2 DEF TypeOK
    <2>4. WriteTask(c) /\ Commits(k)
      BY <2>2, <2>3 DEF WriteTask
    <2>5. k \in Call /\ Prepared(k) /\ k.at = "write"
      BY <2>4 DEF TypeOK, WriteTask
    <2>6. k.lease # None /\ k.machine = Home[k.agent]
      BY <2>5 DEF Prepared, Bound
    <2>7. PICK l \in Leases : Binds(k, l, now)
      BY <2>4, <2>6 DEF Commits, Released
    <2>8. tasks[k.task].status = "claimed"
      BY <2>4 DEF Commits
    <2>9. tasks[k.task].assigned = k.agent
      BY <2>7 DEF Binds, LeaseInv, HolderIsAssignee
    <2>10. \A t \in Tasks \ {k.task} : tasks'[t] = tasks[t]
      BY <2>4, CommitEffect
    <2> QED
      BY <2>6, <2>7, <2>8, <2>9, <2>10 DEF Binds, ActiveOn
  <1>2. Spec => [][Next]_vars
    BY DEF Spec
  <1> QED
    BY <1>1, <1>2, TypeCorrect, LeaseCorrect, PTL DEF ParticipantSettlesOwnClaim

-----------------------------------------------------------------------------
\* What a transition leaves of the review requests.
LEMMA RequestsWrite ==
  ASSUME TypeOK, RequestsFollowReview, NEW c \in Callers, WriteTask(c)
  PROVE  RequestsFollowReview'
  <1>1. PICK k : k = calls[c]
    OBVIOUS
  <1>2. CASE ~Commits(k)
    BY <1>1, <1>2 DEF WriteTask, RequestsFollowReview
  <1>3. CASE Commits(k)
    <2> DEFINE row == [tasks[k.task] EXCEPT
                         !.status = StatusOf[k.op],
                         !.target = IF StatusOf[k.op] = "review"
                                    THEN Retarget(tasks[k.task].target, k.target)
                                    ELSE NoTarget]
    <2>1. k \in Call /\ k.task \in Tasks /\ k.op \in Ops
      BY <1>1 DEF TypeOK, WriteTask, Prepared
    <2>2. tasks[k.task] \in TaskRow /\ k.target \in Target
      BY <2>1 DEF TypeOK, Call
    <2>3. ApplyTransition(k)
      BY <1>1, <1>3 DEF WriteTask
    <2>4. tasks' = [tasks EXCEPT ![k.task] = row]
      BY <2>3 DEF ApplyTransition
    <2>5. requests' = [requests EXCEPT ![k.task] =
            IF k.op = "review" THEN IF Routed(k.target) THEN {k.target}
                                                        ELSE requests[k.task]
                               ELSE {}]
      BY <2>3 DEF ApplyTransition, RequestsAfter
    <2>6. k.op = "review" => /\ row.status = "review"
                             /\ row.target = Retarget(tasks[k.task].target, k.target)
      BY <2>2 DEF TaskRow, StatusOf, Ops
    <2> HIDE DEF row
    <2>7. tasks'[k.task] = row /\ \A t \in Tasks \ {k.task} : tasks'[t] = tasks[t]
      BY <2>1, <2>4 DEF TypeOK
    <2>8. ASSUME NEW t \in Tasks, requests'[t] # {}
          PROVE  /\ tasks'[t].status = "review"
                 /\ Routed(tasks'[t].target)
                 /\ \E g \in Target : Routed(g) /\ requests'[t] = {g}
      <3>1. CASE t # k.task
        BY <2>5, <2>7, <2>8, <3>1 DEF RequestsFollowReview, TypeOK
      <3>2. CASE t = k.task /\ k.op = "review" /\ Routed(k.target)
        <4>1. row.target = k.target
          BY <2>2, <2>6, <3>2 DEF Retarget, Routed, Target
        <4> QED
          BY <2>1, <2>2, <2>5, <2>6, <2>7, <3>2, <4>1 DEF TypeOK
      <3>3. CASE t = k.task /\ k.op = "review" /\ ~Routed(k.target)
        <4>1. requests'[t] = requests[t]
          BY <2>1, <2>5, <3>3 DEF TypeOK
        <4>2. /\ Routed(tasks[t].target)
              /\ \E g \in Target : Routed(g) /\ requests[t] = {g}
          BY <2>8, <4>1 DEF RequestsFollowReview
        <4>3. Routed(row.target)
          BY <2>6, <3>3, <4>2 DEF Retarget, Routed
        <4> QED
          BY <2>6, <2>7, <3>3, <4>1, <4>2, <4>3
      <3>4. CASE t = k.task /\ k.op # "review"
        BY <2>1, <2>5, <2>8, <3>4 DEF TypeOK
      <3> QED
        BY <3>1, <3>2, <3>3, <3>4
    <2> QED
      BY <2>8 DEF RequestsFollowReview
  <1> QED
    BY <1>2, <1>3

\* Claims and sweeps move tasks that are not in review, so they take no request
\* out of step: a swept task is claimed, because a claim and its lease end
\* together.
LEMMA RequestsStep ==
  TypeOK /\ LeaseInv /\ RequestsFollowReview /\ [Next]_vars => RequestsFollowReview'
  <1> SUFFICES ASSUME TypeOK, LeaseInv, RequestsFollowReview, [Next]_vars
               PROVE  RequestsFollowReview'
    OBVIOUS
  <1>1. CASE UNCHANGED << tasks, requests >>
    BY <1>1 DEF RequestsFollowReview
  <1>2. ASSUME UNCHANGED requests,
               \A t \in Tasks : tasks[t].status = "review" => tasks'[t] = tasks[t]
        PROVE  RequestsFollowReview'
    BY <1>2 DEF RequestsFollowReview
  <1>3. CASE Tick \/ Presence \/ UNCHANGED vars
    BY <1>1, <1>3 DEF Tick, Presence, RegisterAgent, DecayPresence, vars
  <1>4. CASE Queue
    <2>1. ASSUME NEW t \in Tasks, NEW a \in Agents \cup {None}, CreateTask(t, a)
          PROVE  RequestsFollowReview'
      BY <1>2, <2>1 DEF CreateTask, Exists, TypeOK
    <2>2. ASSUME NEW a \in Agents, NEW m \in Machines, NEW t \in Tasks, NEW l \in Leases,
                 Poll(a, m, t, l)
          PROVE  RequestsFollowReview'
      <3>1. PICK only \in BOOLEAN : Claim(a, m, t, l, only)
        BY <2>2 DEF Poll
      <3>2. tasks[t].status = "ready"
        BY <3>1 DEF Claim, Offered, Eligible
      <3>3. UNCHANGED requests /\ \A u \in Tasks \ {t} : tasks'[u] = tasks[u]
        BY <3>1 DEF Claim, TypeOK
      <3> QED
        BY <1>2, <3>2, <3>3
    <2>3. ASSUME NEW at \in Readings, Sweep(at)
          PROVE  RequestsFollowReview'
      <3>1. ASSUME NEW t \in Tasks, tasks[t].status = "review"
            PROVE  tasks'[t] = tasks[t]
        <4>1. ActiveOn(t) = {}
          BY <3>1 DEF LeaseInv, ClaimedIffLeased
        <4>2. t \notin {leases[l].task : l \in Stale(at)}
          BY <4>1 DEF ActiveOn, Stale
        <4> QED
          BY <2>3, <4>2 DEF Sweep
      <3>2. UNCHANGED requests
        BY <2>3 DEF Sweep
      <3> QED
        BY <1>2, <3>1, <3>2
    <2> QED
      BY <1>4, <2>1, <2>2, <2>3 DEF Queue, ExpireStaleLeases
  <1>5. CASE Renewal
    BY <1>1, <1>5 DEF Renewal, RenewLease, StartRenewal, RenewPresence, RenewParticipantLease
  <1>6. CASE Actions
    BY <1>1, <1>6, RequestsWrite DEF Actions, StartAction, StartParticipantAction, FindLease,
         ReadTask, AbandonCall
  <1>7. CASE \E t \in Tasks, g \in Target : AcknowledgeMessage(t, g)
    <2> PICK t \in Tasks, g \in Target : AcknowledgeMessage(t, g)
      BY <1>7
    <2>1. /\ UNCHANGED tasks
          /\ requests'[t] = {}
          /\ \A u \in Tasks \ {t} : requests'[u] = requests[u]
      BY DEF AcknowledgeMessage, RequestsFollowReview, TypeOK
    <2> QED
      BY <2>1 DEF RequestsFollowReview
  <1> QED
    BY <1>3, <1>4, <1>5, <1>6, <1>7 DEF Next

\* No inbox keeps a review request that was decided or withdrawn, and no two
\* reviewers are asked.
THEOREM RequestsFollowReviewCorrect == Spec => []RequestsFollowReview
  <1>1. Init => RequestsFollowReview
    BY DEF Init, RequestsFollowReview
  <1> QED
    BY <1>1, RequestsStep, TypeCorrect, LeaseCorrect, PTL DEF Spec

\* No statement makes an agent busy that holds no active lease.
THEOREM BusyOnlyWithLeaseCorrect == Spec => BusyOnlyWithLease
  <1> DEFINE Earned ==
        \A a \in Agents : agents[a] # "busy" /\ agents'[a] = "busy" => Holds(a)'
  <1>1. TypeOK /\ [Next]_vars => [Earned]_vars
    <2> SUFFICES ASSUME TypeOK, Next, NEW a \in Agents, agents[a] # "busy", agents'[a] = "busy"
                 PROVE  Holds(a)'
      OBVIOUS
    <2>0. agents' # agents
      OBVIOUS
    <2>1. ~Tick /\ ~\E t \in Tasks, g \in Target : AcknowledgeMessage(t, g)
      BY <2>0 DEF Tick, AcknowledgeMessage
    <2>2. ~Presence
      BY DEF Presence, RegisterAgent, DecayPresence, TypeOK
    <2>3. CASE Queue
      <3>1. PICK b \in Agents, m \in Machines, t \in Tasks, l \in Leases : Poll(b, m, t, l)
        BY <2>0, <2>3 DEF Queue, CreateTask, ExpireStaleLeases, Sweep
      <3>2. PICK only \in BOOLEAN : Claim(b, m, t, l, only)
        BY <3>1 DEF Poll
      <3>3. a = b
        BY <3>2 DEF Claim, TypeOK
      <3>4. leases'[l].status = "active" /\ leases'[l].agent = b
        BY <3>2 DEF Claim, TypeOK
      <3> QED
        BY <3>3, <3>4 DEF Holds, Active
    <2>4. CASE Renewal
      <3> PICK c \in Callers : RenewPresence(c) \/ RenewParticipantLease(c)
        BY <2>0, <2>4 DEF Renewal, RenewLease, StartRenewal
      <3>1. CASE RenewPresence(c)
        <4>1. Active(calls[c].lease) /\ leases[calls[c].lease].agent = a
          BY <3>1, BoardAssumption DEF RenewPresence, Holder
        <4>2. calls[c].lease \in Leases /\ leases' = leases
          BY <3>1 DEF RenewPresence, TypeOK, Prepared
        <4> QED
          BY <4>1, <4>2 DEF Holds, Active
      <3>2. CASE RenewParticipantLease(c)
        <4>1. PICK k : k = calls[c]
          OBVIOUS
        <4>2. k.lease \in Leases /\ Binds(k, k.lease, now)
          BY <2>0, <3>2, <4>1 DEF RenewParticipantLease, TypeOK, Prepared
        <4>3. a = k.agent
          BY <3>2, <4>1, <4>2 DEF RenewParticipantLease, TypeOK
        <4>4. leases[k.lease] \in LeaseRow
          BY <4>2 DEF TypeOK
        <4>5. leases' = [leases EXCEPT ![k.lease] =
                           [leases[k.lease] EXCEPT !.expires = now + LeaseTicks]]
          BY <3>2, <4>1, <4>2 DEF RenewParticipantLease
        <4>6. leases'[k.lease].status = "active" /\ leases'[k.lease].agent = a
          BY <4>2, <4>3, <4>4, <4>5 DEF Binds, Active, LeaseRow, TypeOK
        <4> QED
          BY <4>2, <4>6 DEF Holds, Active
      <3> QED
        BY <3>1, <3>2
    <2>5. CASE Actions
      <3> PICK c \in Callers : WriteTask(c)
        BY <2>0, <2>5 DEF Actions, StartAction, StartParticipantAction, FindLease, ReadTask,
             AbandonCall
      <3> QED
        BY <2>0 DEF WriteTask, ApplyTransition
    <2> QED
      BY <2>1, <2>2, <2>3, <2>4, <2>5 DEF Next
  <1>2. Spec => [][Next]_vars
    BY DEF Spec
  <1> QED
    BY <1>1, <1>2, TypeCorrect, PTL DEF BusyOnlyWithLease

-----------------------------------------------------------------------------
(***************************************************************************)
(* Deadlines are texts.  The texts of two seconds order as the seconds do, *)
(* so what RFC3339Nano misorders lies within one second.                   *)
(***************************************************************************)
LEMMA SecondIsAPlace == Text!TicksPerSecond = Fractions
  <1> DEFINE Is(f) == f = [n \in 0..1 |-> IF n = 0 THEN 1 ELSE Fractions * f[n - 1]]
             weight == [n \in 0..1 |-> IF n = 0 THEN 1 ELSE Fractions]
  <1>1. Is(weight)
    BY BoardAssumption
  <1>2. Text!Weight = CHOOSE f : Is(f)
    BY DEF Text!Weight
  <1>3. Is(Text!Weight)
    <2> HIDE DEF Is, weight
    <2> QED
      BY <1>1, <1>2
  <1> QED
    BY <1>3, BoardAssumption DEF Text!TicksPerSecond

LEMMA TextWithinASecond ==
  ASSUME NEW t \in Nat, NEW u \in Nat
  PROVE  /\ Text!NanoLess(t, u) => t < u + Fractions
         /\ ~Text!NanoLess(t, u) => u < t + Fractions
  <1>1. /\ Text!NanoLess(t, u) => t \div Fractions <= u \div Fractions
        /\ ~Text!NanoLess(t, u) => u \div Fractions <= t \div Fractions
    BY SecondIsAPlace, BoardAssumption DEF Text!NanoLess, Text!Second
  <1>2. \A x, y \in Nat : x \div Fractions <= y \div Fractions => x < y + Fractions
    BY BoardAssumption
  <1> QED
    BY <1>1, <1>2

\* A participant's write or renewal changes leases only while its own binds.
LEMMA BoundWhileUnexpired ==
  ASSUME TypeOK, Next, NEW c \in Callers, NEW k, k = calls[c],
         Bound(k), calls'[c] = Idle, leases' # leases
  PROVE  k.lease \in Leases /\ Unexpired(k.lease, now)
  <1>1. k # Idle /\ k \in Call /\ Prepared(k)
    BY DEF Bound, Idle, TypeOK
  <1>2. Renewal \/ Actions
    BY <1>1, OnlyCallsWriteCalls
  <1>3. ASSUME NEW d \in Callers, NEW e, calls' = [calls EXCEPT ![d] = e] PROVE d = c
    BY <1>1, <1>3 DEF TypeOK
  <1>4. CASE Renewal
    <2> PICK d \in Callers :
          \/ \E l \in Leases : RenewLease(d, l)
          \/ RenewParticipantLease(d)
      BY <1>4 DEF Renewal, StartRenewal, RenewPresence
    <2>1. d = c
      BY <1>3 DEF RenewLease, RenewParticipantLease
    <2>2. ~\E l \in Leases : RenewLease(d, l)
      BY <1>1, <2>1 DEF RenewLease
    <2>3. k.at = "renew" /\ Binds(k, k.lease, now)
      BY <2>1, <2>2 DEF RenewParticipantLease
    <2> QED
      BY <1>1, <2>3 DEF Binds, Prepared
  <1>5. CASE Actions
    <2> PICK d \in Callers : WriteTask(d)
      BY <1>5 DEF Actions, StartAction, StartParticipantAction, FindLease, ReadTask, AbandonCall
    <2>1. d = c
      BY <1>3 DEF WriteTask
    <2>2. ApplyTransition(k)
      BY <2>1 DEF WriteTask
    <2>3. Released(k) # {}
      BY <2>2 DEF ApplyTransition, TypeOK
    <2>4. PICK l \in Leases : Binds(k, l, now)
      BY <2>3 DEF Released
    <2> QED
      BY <2>4 DEF Binds
  <1> QED
    BY <1>2, <1>4, <1>5

\* Only the sweeper expires a lease.
LEMMA ExpiredBySweep ==
  ASSUME TypeOK, Next, NEW l \in Leases, Active(l), leases'[l].status = "expired"
  PROVE  \E at \in Readings : l \in Stale(at)
  <1>1. leases'[l] # leases[l] /\ leases[l] \in LeaseRow
    BY DEF Active, TypeOK
  <1>2. ~Tick /\ ~Presence /\ ~\E t \in Tasks, g \in Target : AcknowledgeMessage(t, g)
    BY <1>1 DEF Tick, Presence, RegisterAgent, DecayPresence, AcknowledgeMessage
  <1>3. ~Renewal
    <2> SUFFICES ASSUME NEW d \in Callers, NEW m \in Leases,
                        RenewLease(d, m) \/ RenewParticipantLease(d)
                 PROVE  FALSE
      BY <1>1 DEF Renewal, StartRenewal, RenewPresence
    <2>1. \A i \in Leases : \A e : leases' = [leases EXCEPT ![i].expires = e] => leases'[l].status # "expired"
      BY DEF TypeOK, LeaseRow, Active
    <2>2. RenewParticipantLease(d) => calls[d].lease \in Leases
      BY DEF RenewParticipantLease, TypeOK, Prepared
    <2> QED
      BY <1>1, <2>1, <2>2 DEF RenewLease, RenewParticipantLease
  <1>4. ~Actions
    <2> SUFFICES ASSUME NEW d \in Callers, ApplyTransition(calls[d]), calls[d].at = "write"
                 PROVE  FALSE
      BY <1>1 DEF Actions, StartAction, StartParticipantAction, FindLease, ReadTask, AbandonCall,
           WriteTask
    <2>1. calls[d].op \in Ops
      BY DEF TypeOK, Prepared
    <2>2. ReleasedAs[calls[d].op] # "expired"
      BY <2>1 DEF ReleasedAs, Ops
    <2> QED
      BY <1>1, <2>2 DEF ApplyTransition, LeaseRow, Active
  <1>5. Queue
    BY <1>2, <1>3, <1>4 DEF Next
  <1>6. ExpireStaleLeases
    <2>1. \A t \in Tasks, a \in Agents \cup {None} : ~CreateTask(t, a)
      BY <1>1 DEF CreateTask
    <2>2. \A a \in Agents, m \in Machines, t \in Tasks, i \in Leases : ~Poll(a, m, t, i)
      <3>1. \A a \in Agents, m \in Machines, t \in Tasks, i \in Leases, only \in BOOLEAN :
              ~Claim(a, m, t, i, only)
        BY <1>1 DEF Claim, TypeOK, Active
      <3> QED
        BY <3>1 DEF Poll
    <2> QED
      BY <1>5, <2>1, <2>2 DEF Queue
  <1> QED
    BY <1>1, <1>6 DEF ExpireStaleLeases, Sweep

\* No call and no sweep misses a deadline by a second, whatever the texts are
\* and however long the clock reading waited.
THEOREM DeadlineWithinASecondCorrect == Spec => DeadlineWithinASecond
  <1> DEFINE Punctual ==
        /\ \A c \in Callers :
             LET k == calls[c]
             IN Bound(k) /\ calls'[c] = Idle /\ leases' # leases
                => now < leases[k.lease].expires + Fractions
        /\ \A l \in Leases :
             Active(l) /\ leases'[l].status = "expired"
             => leases[l].expires < now + Fractions
  <1>1. TypeOK /\ [Next]_vars => [Punctual]_vars
    <2> SUFFICES ASSUME TypeOK, Next PROVE Punctual
      OBVIOUS
    <2>1. now \in Nat /\ \A l \in Leases : leases[l].expires \in Nat
      BY BoardAssumption DEF TypeOK, LeaseRow
    <2>2. ASSUME NEW c \in Callers, NEW k, k = calls[c],
                 Bound(k), calls'[c] = Idle, leases' # leases
          PROVE  now < leases[k.lease].expires + Fractions
      BY <2>1, <2>2, BoundWhileUnexpired, TextWithinASecond DEF Unexpired
    <2>3. ASSUME NEW l \in Leases, Active(l), leases'[l].status = "expired"
          PROVE  leases[l].expires < now + Fractions
      <3>1. PICK at \in Readings : l \in Stale(at)
        BY <2>3, ExpiredBySweep
      <3>2. at \in Nat /\ at <= now
        BY <2>1 DEF Readings
      <3>3. leases[l].expires < at + Fractions
        BY <2>1, <3>1, <3>2, TextWithinASecond DEF Stale, Unexpired
      <3> QED
        BY <2>1, <3>2, <3>3, BoardAssumption
    <2> QED
      BY <2>2, <2>3
  <1>2. Spec => [][Next]_vars
    BY DEF Spec
  <1> QED
    BY <1>1, <1>2, TypeCorrect, PTL DEF DeadlineWithinASecond

-----------------------------------------------------------------------------
(***************************************************************************)
(* The Board implements WorkOwnership, for every value of the constants:   *)
(* each of its steps is a step of WorkOwnership or leaves phase and        *)
(* holders as they are.                                                    *)
(***************************************************************************)
\* A call under way is about a task that exists; tasks are never deleted.
CallsOnTasks ==
  \A c \in Callers : calls[c].at \in {"lease", "read", "write"} => Exists(calls[c].task)

\* No step deletes a task.
LEMMA TasksStay ==
  ASSUME TypeOK, LeaseInv, [Next]_vars, NEW t \in Tasks, Exists(t)
  PROVE  Exists(t)'
  <1>1. CASE UNCHANGED tasks
    BY <1>1 DEF Exists
  <1>2. CASE Tick \/ Presence \/ UNCHANGED vars
    BY <1>1, <1>2 DEF Tick, Presence, RegisterAgent, DecayPresence, vars
  <1>3. CASE Queue
    <2>1. ASSUME NEW u \in Tasks, NEW a \in Agents \cup {None}, CreateTask(u, a)
          PROVE  Exists(t)'
      BY <2>1 DEF CreateTask, Exists, TypeOK
    <2>2. ASSUME NEW a \in Agents, NEW m \in Machines, NEW u \in Tasks, NEW l \in Leases,
                 Poll(a, m, u, l)
          PROVE  Exists(t)'
      <3>1. PICK only \in BOOLEAN : Claim(a, m, u, l, only)
        BY <2>2 DEF Poll
      <3>2. tasks[t] \in TaskRow
        BY DEF TypeOK
      <3> QED
        BY <3>1, <3>2 DEF Claim, Exists, TypeOK, TaskRow
    <2>3. ASSUME NEW at \in Readings, Sweep(at)
          PROVE  Exists(t)'
      <3>1. tasks[t] \in TaskRow
        BY DEF TypeOK
      <3> QED
        BY <2>3, <3>1 DEF Sweep, Exists, TaskRow
    <2> QED
      BY <1>3, <2>1, <2>2, <2>3 DEF Queue, ExpireStaleLeases
  <1>4. CASE Renewal
    BY <1>1, <1>4 DEF Renewal, RenewLease, StartRenewal, RenewPresence, RenewParticipantLease
  <1>5. CASE Actions
    <2>1. ASSUME NEW c \in Callers, WriteTask(c)
          PROVE  Exists(t)'
      <3>1. PICK k : k = calls[c]
        OBVIOUS
      <3>2. CASE ~Commits(k)
        BY <1>1, <2>1, <3>1, <3>2 DEF WriteTask
      <3>3. CASE Commits(k)
        <4>1. /\ tasks'[k.task].status # "absent"
              /\ \A u \in Tasks \ {k.task} : tasks'[u] = tasks[u]
          BY <2>1, <3>1, <3>3, CommitEffect
        <4> QED
          BY <4>1 DEF Exists
      <3> QED
        BY <3>2, <3>3
    <2> QED
      BY <1>1, <1>5, <2>1 DEF Actions, StartAction, StartParticipantAction, FindLease,
         ReadTask, AbandonCall
  <1>6. CASE \E u \in Tasks, g \in Target : AcknowledgeMessage(u, g)
    BY <1>1, <1>6 DEF AcknowledgeMessage
  <1> QED
    BY <1>2, <1>3, <1>4, <1>5, <1>6 DEF Next

\* A call starts on a task that exists, and keeps it.
LEMMA CallsOnTasksStep ==
  TypeOK /\ LeaseInv /\ CallsOnTasks /\ [Next]_vars => CallsOnTasks'
  <1> SUFFICES ASSUME TypeOK, LeaseInv, CallsOnTasks, [Next]_vars, NEW c \in Callers,
                      calls'[c].at \in {"lease", "read", "write"}
               PROVE  Exists(calls[c].task)'
    BY DEF CallsOnTasks
  <1>1. calls'[c].task \in Tasks
    BY TypeStep DEF TypeOK, Prepared
  <1>2. SUFFICES Exists(calls'[c].task)
    <2> DEFINE t == calls'[c].task
    <2>1. Exists(t) => tasks'[t].status # "absent"
      BY <1>1, TasksStay DEF Exists
    <2> QED
      BY <2>1 DEF Exists
  <1>3. CASE calls'[c] = calls[c]
    BY <1>3 DEF CallsOnTasks
  <1>4. CASE calls'[c] # calls[c]
    <2>1. Renewal \/ Actions
      <3>1. calls' # calls /\ Next
        BY <1>4 DEF vars
      <3> QED
        BY <3>1, OnlyCallsWriteCalls
    <2>2. CASE Renewal
      <3> PICK d \in Callers :
            \/ \E l \in Leases : RenewLease(d, l) \/ StartRenewal(d, l)
            \/ RenewPresence(d)
            \/ RenewParticipantLease(d)
        BY <2>2 DEF Renewal
      <3>1. PICK k : /\ calls' = [calls EXCEPT ![d] = k]
                     /\ k.at \in {"idle", "presence", "renew"}
        <4>1. CASE \E l \in Leases : RenewLease(d, l)
          <5> PICK l \in Leases : RenewLease(d, l)
            BY <4>1
          <5> DEFINE n == [Idle EXCEPT !.at = "presence", !.lease = l]
          <5>1. calls' = [calls EXCEPT ![d] = n]
            BY DEF RenewLease
          <5>2. n.at = "presence"
            BY DEF Idle
          <5> HIDE DEF n
          <5> QED
            BY <5>1, <5>2
        <4>2. CASE \E l \in Leases : StartRenewal(d, l)
          <5> PICK l \in Leases : StartRenewal(d, l)
            BY <4>2
          <5> DEFINE n == [Idle EXCEPT !.at = "renew", !.task = leases[l].task, !.lease = l,
                             !.agent = leases[l].agent, !.machine = leases[l].machine]
          <5>1. calls' = [calls EXCEPT ![d] = n]
            BY DEF StartRenewal
          <5>2. n.at = "renew"
            BY DEF Idle
          <5> HIDE DEF n
          <5> QED
            BY <5>1, <5>2
        <4>3. CASE RenewPresence(d) \/ RenewParticipantLease(d)
          <5>1. calls' = [calls EXCEPT ![d] = Idle]
            BY <4>3 DEF RenewPresence, RenewParticipantLease
          <5>2. Idle.at = "idle"
            BY DEF Idle
          <5> QED
            BY <5>1, <5>2
        <4> QED
          BY <4>1, <4>2, <4>3
      <3>2. calls'[c] = k
        BY <1>4, <3>1 DEF TypeOK
      <3>3. calls'[c].at \in {"idle", "presence", "renew"}
        BY <3>1, <3>2
      <3> QED
        BY <3>3
    <2>3. CASE Actions
      <3> PICK d \in Callers :
            \/ \E op \in AskedOps, t \in Tasks, l \in Leases \cup {None}, g \in Target :
                 StartAction(d, op, t, l, g)
            \/ \E op \in AskedOps \cap ParticipantOps, t \in Tasks, a \in Participants :
                 StartParticipantAction(d, op, t, a)
            \/ FindLease(d)
            \/ ReadTask(d)
            \/ WriteTask(d)
            \/ AbandonCall(d)
        BY <2>3 DEF Actions
      <3>0. Idle.at = "idle"
        BY DEF Idle
      <3>1. ASSUME NEW op, NEW t \in Tasks, NEW l, NEW g, StartAction(d, op, t, l, g)
            PROVE  Exists(calls'[c].task)
        BY <1>4, <3>1 DEF StartAction, TypeOK, Idle
      <3>2. ASSUME NEW op, NEW t \in Tasks, NEW a \in Participants,
                   StartParticipantAction(d, op, t, a)
            PROVE  Exists(calls'[c].task)
        BY <1>4, <3>2 DEF StartParticipantAction, TypeOK, Idle, Exists
      <3>3. ASSUME NEW k, k = calls[d], k.at \in {"lease", "read", "write"},
                   NEW n, calls' = [calls EXCEPT ![d] = n], n.task = k.task
            PROVE  Exists(calls'[c].task)
        BY <1>4, <3>3 DEF CallsOnTasks, TypeOK
      <3>4. CASE calls' = [calls EXCEPT ![d] = Idle]
        BY <1>4, <3>0, <3>4 DEF TypeOK
      <3>5. CASE FindLease(d)
        <4>1. PICK k \in Call : k = calls[d]
          BY DEF TypeOK
        <4>2. ASSUME NEW l, calls' = [calls EXCEPT ![d].at = "read", ![d].lease = l]
              PROVE  Exists(calls'[c].task)
          <5>1. calls' = [calls EXCEPT ![d] = [k EXCEPT !.at = "read", !.lease = l]]
            BY <4>1, <4>2 DEF TypeOK
          <5>2. [k EXCEPT !.at = "read", !.lease = l].task = k.task
            BY DEF Call
          <5>3. k.at = "lease"
            BY <3>5, <4>1 DEF FindLease
          <5> QED
            BY <3>3, <4>1, <5>1, <5>2, <5>3
        <4> QED
          BY <3>4, <3>5, <4>2 DEF FindLease
      <3>6. CASE ReadTask(d)
        <4>1. PICK k \in Call : k = calls[d]
          BY DEF TypeOK
        <4>2. k.at = "read"
          BY <3>6, <4>1 DEF ReadTask
        <4>3. [k EXCEPT !.at = "write"].task = k.task
          BY DEF Call
        <4>4. \/ calls' = [calls EXCEPT ![d] = Idle]
              \/ calls' = [calls EXCEPT ![d] = [k EXCEPT !.at = "write"]]
          BY <3>6, <4>1 DEF ReadTask
        <4>5. CASE calls' = [calls EXCEPT ![d] = [k EXCEPT !.at = "write"]]
          BY <3>3, <4>1, <4>2, <4>3, <4>5
        <4> QED
          BY <3>4, <4>4, <4>5
      <3>7. CASE WriteTask(d) \/ AbandonCall(d)
        BY <3>4, <3>7 DEF WriteTask, AbandonCall
      <3> QED
        BY <3>1, <3>2, <3>5, <3>6, <3>7
    <2> QED
      BY <2>1, <2>2, <2>3
  <1> QED
    BY <1>3, <1>4

\* CallsOnTasks holds of every behaviour.
LEMMA CallsOnTasksCorrect == Spec => []CallsOnTasks
  <1>1. Init => CallsOnTasks
    BY DEF Init, CallsOnTasks, Idle
  <1> QED
    BY <1>1, CallsOnTasksStep, TypeCorrect, LeaseCorrect, PTL DEF Spec

-----------------------------------------------------------------------------
\* What the steps of the Board are to WorkOwnership.
MappedPhase == [t \in Tasks |-> Phase(t)]
MappedHolders == [t \in Tasks |-> Holders(t)]

\* A step that leaves the tasks' status and the leases' status and holders alone
\* leaves phase and holders alone.
LEMMA MappedStutter ==
  ASSUME TypeOK,
         \A t \in Tasks : tasks'[t].status = tasks[t].status,
         \A l \in Leases : /\ leases'[l].status = leases[l].status
                           /\ leases'[l].task = leases[l].task
                           /\ leases'[l].agent = leases[l].agent
  PROVE  UNCHANGED << MappedPhase, MappedHolders >>
  <1>1. \A t \in Tasks : Phase(t)' = Phase(t)
    BY DEF Phase
  <1>2. \A t \in Tasks : ActiveOn(t)' = ActiveOn(t)
    BY DEF ActiveOn, Active
  <1>3. \A t \in Tasks : Holders(t)' = Holders(t)
    BY <1>2 DEF Holders, ActiveOn
  <1> QED
    BY <1>1, <1>3 DEF MappedPhase, MappedHolders

\* How a step of WorkOwnership reads in terms of the Board.
LEMMA MappedStep ==
  ASSUME NEW t \in Tasks,
         \A u \in Tasks \ {t} : Phase(u)' = Phase(u) /\ Holders(u)' = Holders(u)
  PROVE  /\ MappedPhase' = [MappedPhase EXCEPT ![t] = Phase(t)']
         /\ MappedHolders' = [MappedHolders EXCEPT ![t] = Holders(t)']
  BY DEF MappedPhase, MappedHolders

\* A new task enters the pool.
LEMMA MappedCreate ==
  ASSUME TypeOK, NEW t \in Tasks, NEW a \in Agents \cup {None}, CreateTask(t, a)
  PROVE  Ownership!Create(t)
  <1>1. Phase(t) = "absent"
    BY DEF CreateTask, Exists, Phase
  <1>2. tasks'[t].status = "ready" /\ \A u \in Tasks \ {t} : tasks'[u] = tasks[u]
    BY DEF CreateTask, TypeOK
  <1>3. Phase(t)' = "open" /\ \A u \in Tasks \ {t} : Phase(u)' = Phase(u)
    BY <1>2 DEF Phase
  <1>4. \A u \in Tasks : Holders(u)' = Holders(u)
    BY DEF CreateTask, Holders, ActiveOn, Active
  <1>5. MappedPhase' = [MappedPhase EXCEPT ![t] = "open"]
    BY <1>3, <1>4, MappedStep
  <1>6. MappedHolders' = MappedHolders
    BY <1>4 DEF MappedHolders
  <1> QED
    BY <1>1, <1>5, <1>6 DEF Ownership!Create, MappedPhase, MappedHolders

\* A claim takes a task of the pool that nobody holds.
LEMMA MappedClaim ==
  ASSUME TypeOK, NEW a \in Agents, NEW m \in Machines, NEW t \in Tasks, NEW l \in Leases,
         Poll(a, m, t, l)
  PROVE  Ownership!Take(t, a)
  <1>1. PICK only \in BOOLEAN : Claim(a, m, t, l, only)
    BY DEF Poll
  <1>2. tasks[t].status = "ready" /\ ActiveOn(t) = {} /\ ~Active(l)
    BY <1>1 DEF Claim, Offered, Eligible, Active
  <1>3. /\ leases'[l].status = "active" /\ leases'[l].task = t /\ leases'[l].agent = a
        /\ \A x \in Leases \ {l} : leases'[x] = leases[x]
    BY <1>1 DEF Claim, TypeOK
  <1>4. tasks'[t].status = "claimed" /\ \A u \in Tasks \ {t} : tasks'[u] = tasks[u]
    <2>1. tasks[t] \in TaskRow
      BY DEF TypeOK
    <2> QED
      BY <1>1, <2>1 DEF Claim, TypeOK, TaskRow
  <1>5. Phase(t) = "open" /\ Holders(t) = {}
    BY <1>2 DEF Phase, Holders
  <1>6. Phase(t)' = "held" /\ \A u \in Tasks \ {t} : Phase(u)' = Phase(u)
    BY <1>4 DEF Phase
  <1>7. ActiveOn(t)' = {l} /\ \A u \in Tasks \ {t} : ActiveOn(u)' = ActiveOn(u)
    BY <1>2, <1>3 DEF ActiveOn, Active
  <1>8. Holders(t)' = {a}
    BY <1>3, <1>7 DEF Holders
  <1>9. ASSUME NEW u \in Tasks \ {t} PROVE Holders(u)' = Holders(u)
    <2>1. l \notin ActiveOn(u)
      BY <1>2 DEF ActiveOn
    <2>2. \A x \in ActiveOn(u) : leases'[x] = leases[x]
      BY <1>3, <2>1 DEF ActiveOn
    <2> QED
      BY <1>7, <2>2 DEF Holders
  <1>10. /\ MappedPhase' = [MappedPhase EXCEPT ![t] = "held"]
         /\ MappedHolders' = [MappedHolders EXCEPT ![t] = {a}]
    BY <1>6, <1>8, <1>9, MappedStep
  <1> QED
    BY <1>5, <1>10 DEF Ownership!Take, MappedPhase, MappedHolders

\* A sweep returns the tasks of the stale leases to the pool: they are held,
\* and each loses its only lease.
LEMMA MappedSweep ==
  ASSUME TypeOK, LeaseInv, ExpireStaleLeases
  PROVE  \E T \in SUBSET Tasks : Ownership!Reclaim(T)
  <1> PICK at \in Readings : Sweep(at)
    BY DEF ExpireStaleLeases
  <1> DEFINE stale == Stale(at)
             freed == {leases[l].task : l \in stale}
  <1>1. \A l \in stale : l \in Leases /\ Active(l) /\ leases[l].task \in Tasks
    BY ActiveIsIssued DEF Stale
  <1>2. freed \in SUBSET Tasks
    BY <1>1
  <1>3. \A l \in Leases : /\ Active(l)' <=> Active(l) /\ l \notin stale
                          /\ leases'[l].task = leases[l].task
                          /\ leases'[l].agent = leases[l].agent
    <2> SUFFICES ASSUME NEW l \in Leases
                 PROVE  /\ Active(l)' <=> Active(l) /\ l \notin stale
                        /\ leases'[l].task = leases[l].task
                        /\ leases'[l].agent = leases[l].agent
      OBVIOUS
    <2>1. leases[l] \in LeaseRow
      BY DEF TypeOK
    <2>2. leases'[l] = IF l \in stale THEN [leases[l] EXCEPT !.status = "expired"]
                                      ELSE leases[l]
      BY DEF Sweep, Stale
    <2> QED
      BY <2>1, <2>2 DEF Active, LeaseRow
  <1>4. \A t \in Tasks : IF t \in freed THEN tasks'[t].status = "ready"
                                        ELSE tasks'[t] = tasks[t]
    <2> SUFFICES ASSUME NEW t \in Tasks
                 PROVE  IF t \in freed THEN tasks'[t].status = "ready"
                                       ELSE tasks'[t] = tasks[t]
      OBVIOUS
    <2>1. tasks[t] \in TaskRow
      BY DEF TypeOK
    <2>2. tasks'[t] = IF t \in freed
                      THEN [tasks[t] EXCEPT !.status = "ready", !.assigned = None]
                      ELSE tasks[t]
      BY DEF Sweep, Stale
    <2> QED
      BY <2>1, <2>2 DEF TaskRow
  <1>5. \A t \in freed : tasks[t].status = "claimed"
    <2> SUFFICES ASSUME NEW l \in stale PROVE tasks[leases[l].task].status = "claimed"
      OBVIOUS
    <2>1. l \in ActiveOn(leases[l].task)
      BY <1>1 DEF ActiveOn
    <2> QED
      BY <1>1, <2>1 DEF LeaseInv, ClaimedIffLeased
  <1> HIDE DEF stale
  <1>6. \A t \in freed : ActiveOn(t)' = {}
    BY <1>1, <1>3 DEF LeaseInv, OneActiveLease, ActiveOn
  <1>7. \A t \in Tasks \ freed : ActiveOn(t)' = ActiveOn(t)
    BY <1>1, <1>3 DEF ActiveOn
  <1> HIDE DEF freed
  <1>8. \A t \in Tasks : Phase(t)' = IF t \in freed THEN "open" ELSE Phase(t)
    BY <1>4 DEF Phase
  <1>9. \A t \in Tasks : Holders(t)' = IF t \in freed THEN {} ELSE Holders(t)
    <2>1. \A t \in freed : Holders(t)' = {}
      BY <1>2, <1>6 DEF Holders
    <2>2. \A t \in Tasks \ freed : Holders(t)' = Holders(t)
      BY <1>3, <1>7 DEF Holders, ActiveOn
    <2> QED
      BY <2>1, <2>2
  <1>10. \A t \in freed : MappedPhase[t] = "held"
    BY <1>2, <1>5 DEF MappedPhase, Phase
  <1>11. /\ MappedPhase' = [t \in Tasks |-> IF t \in freed THEN "open" ELSE MappedPhase[t]]
         /\ MappedHolders' = [t \in Tasks |-> IF t \in freed THEN {} ELSE MappedHolders[t]]
    BY <1>8, <1>9 DEF MappedPhase, MappedHolders
  <1>12. Ownership!Reclaim(freed)
    BY <1>10, <1>11 DEF Ownership!Reclaim, MappedPhase, MappedHolders
  <1> QED
    BY <1>2, <1>12

\* A committed transition settles one task that exists.
LEMMA MappedWrite ==
  ASSUME TypeOK, LeaseInv, CallsOnTasks, NEW c \in Callers, WriteTask(c),
         NEW k, k = calls[c], Commits(k)
  PROVE  k.task \in Tasks /\ Ownership!Settle(k.task)
  <1>1. /\ k.task \in Tasks
        /\ ActiveOn(k.task)' = {}
        /\ \A l \in Leases : /\ Active(l)' <=> (Active(l) /\ leases[l].task # k.task)
                             /\ leases'[l].task = leases[l].task
                             /\ leases'[l].agent = leases[l].agent
        /\ \A t \in Tasks \ {k.task} : tasks'[t] = tasks[t]
        /\ tasks'[k.task].status \notin {"claimed", "absent"}
    BY CommitEffect
  <1>2. Phase(k.task) # "absent"
    BY DEF CallsOnTasks, WriteTask, Exists, Phase
  <1>3. Phase(k.task)' \in {"open", "closed"}
    BY <1>1 DEF Phase
  <1>4. \A t \in Tasks \ {k.task} : Phase(t)' = Phase(t)
    BY <1>1 DEF Phase
  <1>5. \A t \in Tasks \ {k.task} : ActiveOn(t)' = ActiveOn(t)
    BY <1>1 DEF ActiveOn
  <1>6. \A t \in Tasks \ {k.task} : Holders(t)' = Holders(t)
    BY <1>1, <1>5 DEF Holders, ActiveOn
  <1>7. Holders(k.task)' = {}
    BY <1>1 DEF Holders
  <1>8. /\ MappedPhase' = [MappedPhase EXCEPT ![k.task] = Phase(k.task)']
        /\ MappedHolders' = [MappedHolders EXCEPT ![k.task] = {}]
    BY <1>1, <1>4, <1>6, <1>7, MappedStep
  <1> QED
    BY <1>1, <1>2, <1>3, <1>8 DEF Ownership!Settle, MappedPhase, MappedHolders

\* Every step of the Board is a step of WorkOwnership or a stutter.
LEMMA OwnershipStep ==
  TypeOK /\ LeaseInv /\ CallsOnTasks /\ [Next]_vars => [Ownership!Next]_(Ownership!vars)
  <1> SUFFICES ASSUME TypeOK, LeaseInv, CallsOnTasks, [Next]_vars
               PROVE  [Ownership!Next]_(Ownership!vars)
    OBVIOUS
  <1>1. ASSUME UNCHANGED << MappedPhase, MappedHolders >>
        PROVE  [Ownership!Next]_(Ownership!vars)
    BY <1>1 DEF Ownership!vars, MappedPhase, MappedHolders
  <1>2. ASSUME UNCHANGED << tasks, leases >>
        PROVE  [Ownership!Next]_(Ownership!vars)
    BY <1>1, <1>2, MappedStutter
  <1>3. CASE Tick \/ Presence \/ UNCHANGED vars
    BY <1>2, <1>3 DEF Tick, Presence, RegisterAgent, DecayPresence, vars
  <1>4. CASE Queue
    BY <1>4, MappedCreate, MappedClaim, MappedSweep DEF Queue, Ownership!Next
  <1>5. CASE Renewal
    <2>1. UNCHANGED tasks /\ \A l \in Leases : /\ leases'[l].status = leases[l].status
                                               /\ leases'[l].task = leases[l].task
                                               /\ leases'[l].agent = leases[l].agent
      BY <1>5, RenewalFrame
    <2> QED
      BY <1>1, <2>1, MappedStutter
  <1>6. CASE Actions
    <2>1. ASSUME NEW c \in Callers, WriteTask(c)
          PROVE  [Ownership!Next]_(Ownership!vars)
      <3>1. PICK k : k = calls[c]
        OBVIOUS
      <3>2. CASE ~Commits(k)
        BY <1>2, <2>1, <3>1, <3>2 DEF WriteTask
      <3>3. CASE Commits(k)
        BY <2>1, <3>1, <3>3, MappedWrite DEF Ownership!Next
      <3> QED
        BY <3>2, <3>3
    <2> QED
      BY <1>2, <1>6, <2>1 DEF Actions, StartAction, StartParticipantAction, FindLease,
         ReadTask, AbandonCall
  <1>7. CASE \E t \in Tasks, g \in Target : AcknowledgeMessage(t, g)
    BY <1>2, <1>7 DEF AcknowledgeMessage
  <1> QED
    BY <1>3, <1>4, <1>5, <1>6, <1>7 DEF Next

\* The Board implements the ownership of work: nobody else is given a task while
\* an agent holds it, and it passes from one agent to the next only through the
\* pool.
THEOREM OwnershipCorrect == Spec => OwnershipSpec
  <1>1. Init => Ownership!Init
    <2> SUFFICES ASSUME Init PROVE Ownership!Init
      OBVIOUS
    <2>1. \A t \in Tasks : Phase(t) = "absent"
      BY DEF Init, Phase, NoTask
    <2>2. \A t \in Tasks : Holders(t) = {}
      BY DEF Init, Holders, ActiveOn, Active, NoLease
    <2> QED
      BY <2>1, <2>2 DEF Ownership!Init
  <1> QED
    BY <1>1, OwnershipStep, TypeCorrect, LeaseCorrect, CallsOnTasksCorrect, PTL
       DEF Spec, OwnershipSpec, Ownership!Spec
=============================================================================
