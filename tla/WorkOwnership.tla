--------------------------- MODULE WorkOwnership ---------------------------
(***************************************************************************)
(* What the Board promises about work: a piece of work is in the open      *)
(* pool, in one worker's hands, or closed; nobody else is given it while a *)
(* worker has it, and it passes from one worker to the next only through   *)
(* the pool.                                                               *)
(***************************************************************************)
CONSTANTS Work, Workers

VARIABLES
  phase,     \* "absent", "open", "held" or "closed"
  holders    \* the workers that have it

vars == << phase, holders >>

Init ==
  /\ phase = [t \in Work |-> "absent"]
  /\ holders = [t \in Work |-> {}]

Create(t) ==
  /\ phase[t] = "absent"
  /\ phase' = [phase EXCEPT ![t] = "open"]
  /\ UNCHANGED holders

Take(t, w) ==
  /\ phase[t] = "open"
  /\ holders[t] = {}
  /\ phase' = [phase EXCEPT ![t] = "held"]
  /\ holders' = [holders EXCEPT ![t] = {w}]

\* One piece of work is settled, by its holder or by somebody above it, or a
\* closed one is decided again.
Settle(t) ==
  /\ phase[t] # "absent"
  /\ \E p \in {"open", "closed"} : phase' = [phase EXCEPT ![t] = p]
  /\ holders' = [holders EXCEPT ![t] = {}]

\* Held work whose holders fell silent returns to the pool, several at once.
Reclaim(T) ==
  /\ \A t \in T : phase[t] = "held"
  /\ phase' = [t \in Work |-> IF t \in T THEN "open" ELSE phase[t]]
  /\ holders' = [t \in Work |-> IF t \in T THEN {} ELSE holders[t]]

Next ==
  \/ \E t \in Work : Create(t) \/ Settle(t)
  \/ \E t \in Work, w \in Workers : Take(t, w)
  \/ \E T \in SUBSET Work : Reclaim(T)

Spec == Init /\ [][Next]_vars
=============================================================================
