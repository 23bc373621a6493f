---------------------------- MODULE MCTaskBoard ----------------------------
(***************************************************************************)
(* Instances of TaskBoard for TLC.  One participant (p) and one legacy     *)
(* agent (w) compete for the tasks; an operator is any legacy call that    *)
(* names no lease.                                                         *)
(***************************************************************************)
EXTENDS TaskBoard, TLC

CONSTANTS p, w, h1, h2, t1, t2

HomeAtH1 == p :> h1
RunsAll == Agents \X Machines \X Tasks
SameRank == [t \in Tasks |-> 0]
FirstIsUrgent == t1 :> 0 @@ t2 :> 1

AllOps == Ops

\* Bound: agents are not marked offline.
NoDecay == \A a \in Agents : agents[a] # "offline"

Interchangeable == Permutations(Leases) \cup Permutations(Callers)
                     \cup Permutations(TargetTypes) \cup Permutations(TargetIds)
=============================================================================
