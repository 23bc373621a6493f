------------------------- MODULE SupervisedDispatch -------------------------
(***************************************************************************)
(* One supervised worker on Linux and the kill of its process tree.  The   *)
(* worker starts as leader of its own session with a fresh marker in its   *)
(* environment; its descendants fork, leave the group, drop the marker,    *)
(* exit and give their process ids back while the supervisor polls, and    *)
(* while it kills.  Every read of the process table, and every signal, is  *)
(* a step of its own.                                                      *)
(***************************************************************************)
EXTENDS Naturals, FiniteSetsExt

CONSTANTS
    Pids, Root,    \* process ids (numbers), and the one the worker is given
    Init1,         \* the parent of an orphan
    Free,          \* a process id nobody has
    MaxBirths,     \* bound: processes that ever start
    MaxPasses      \* _MAX_FREEZE_PASSES

VARIABLES
    proc,     \* the process table
    births,   \* the kernel's clock of process starts
    known,    \* _known: process id -> start time and depth
    stale,    \* _stale: process ids that changed hands
    phase,    \* where the supervisor is
    todo,     \* process ids the current round has still to signal
    before,   \* previous_pids
    passes,   \* freeze passes made
    reused    \* whether a marked process took, during the kill, an id that the
              \* supervisor remembers for one that is gone; not in the code

vars == <<proc, births, known, stale, phase, todo, before, passes, reused>>

Process(parent, group, marked, tree, born) ==
    [parent |-> parent, group |-> group, marked |-> marked, tree |-> tree,
     born |-> born, run |-> "runs"]

Init ==
    /\ proc = [p \in Pids |-> IF p = Root THEN Process(Init1, Root, TRUE, TRUE, 0)
                              ELSE Free]
    /\ births = 0
    /\ known = [p \in {} |-> Free] /\ stale = {}
    /\ phase = "poll" /\ todo = {} /\ before = {} /\ passes = 0
    /\ reused = FALSE

ProcessRecord == [parent : Pids \cup {Init1}, group : Pids, marked : BOOLEAN, tree : BOOLEAN,
                  born : Nat, run : {"runs", "stopped", "zombie"}]

\* What the constants are; the theorems assume it.
Assumption ==
    /\ Root \in Pids /\ Init1 \notin Pids
    /\ MaxPasses \in Nat
    /\ Free \notin ProcessRecord

Alive == {p \in Pids : proc[p] # Free}
Children(p) == {q \in Alive : proc[q].parent = p}

(***************************************************************************)
(* The processes.                                                          *)
(***************************************************************************)
\* The next process may get any free id; those the supervisor has never heard
\* of are alike, so the lowest of them stands for them all.
Unheard == {q \in Pids : proc[q] = Free} \ (DOMAIN known \cup stale \cup before)
CanStart(q) ==
    /\ births < MaxBirths /\ proc[q] = Free
    /\ q \in Unheard => q = Min(Unheard)

\* A child keeps its parent's group and marker, or starts a session of its
\* own, or is executed with another environment (a nested launch has a marker
\* of its own, which is another one).
Fork(p, q, ownGroup, keepsMarker) ==
    /\ p \in Alive /\ proc[p].run = "runs" /\ proc[p].tree /\ CanStart(q)
    /\ births' = births + 1
    /\ proc' = [proc EXCEPT ![q] =
           Process(p, IF ownGroup THEN q ELSE proc[p].group,
                   proc[p].marked /\ keepsMarker, TRUE, births')]
    /\ reused' = (reused \/ (phase # "poll" /\ q \in DOMAIN known /\ proc'[q].marked))
    /\ UNCHANGED <<known, stale, phase, todo, before, passes>>

\* A process of somebody else takes a free id.
Appear(q) ==
    /\ CanStart(q)
    /\ births' = births + 1
    /\ proc' = [proc EXCEPT ![q] = Process(Init1, q, FALSE, FALSE, births')]
    /\ UNCHANGED <<known, stale, phase, todo, before, passes, reused>>

\* The processes of S end: their children go to init, their ids are free, and
\* the worker stays a zombie until it is waited for.
Ended(S) ==
    [p \in Pids |->
        IF p \in S THEN IF p = Root THEN [proc[p] EXCEPT !.run = "zombie"] ELSE Free
        ELSE IF p \in Alive /\ proc[p].parent \in S
             THEN [proc[p] EXCEPT !.parent = Init1] ELSE proc[p]]

Exit(p) ==
    /\ p \in Alive /\ proc[p].run = "runs" /\ proc[p].tree
    /\ proc' = Ended({p})
    /\ UNCHANGED <<births, known, stale, phase, todo, before, passes, reused>>

(***************************************************************************)
(* What the supervisor sees.                                               *)
(***************************************************************************)
\* The recursive children of the worker, while it is the same process: the
\* least set that holds the children of the worker and of its own members.
Closed(S) == \A p \in S \cup {Root} : Children(p) \subseteq S

Descendants ==
    IF Root \in Alive
    THEN {p \in Alive : \A S \in SUBSET Alive : Closed(S) => p \in S}
    ELSE {}

Depth(p) ==
    LET depth[q \in Descendants \cup {Root}] ==
            IF q = Root THEN 0 ELSE 1 + depth[proc[q].parent]
    IN depth[p]

Marked == {p \in Alive \ {Root} : proc[p].marked}

\* refresh: an identity that is gone or changed hands is forgotten and its id
\* is stale; ancestry alone does not make a stale id known again, the marker
\* does.
Refresh(byMarker) ==
    LET same == {p \in DOMAIN known : p \in Alive /\ proc[p].born = known[p].born}
        gone == stale \cup (DOMAIN known \ same)
        marked == IF byMarker THEN Marked ELSE {}
        related == Descendants \ gone
        depths(p) == (IF p \in same THEN {known[p].depth} ELSE {})
                     \cup (IF p \in related THEN {Depth(p)} ELSE {})
                     \cup (IF p \in marked THEN {1} ELSE {})
    IN /\ known' = [p \in same \cup related \cup marked |->
                       [born |-> proc[p].born, depth |-> Min(depths(p))]]
       /\ stale' = gone \ marked

\* The process a remembered identity still stands for: a pidfd, opened between
\* two checks of the start time, cannot reach the next owner of the id.
Reached(p) == {q \in {p} : q \in Alive /\ proc[q].born = known[q].born}

Stopped(S) == [p \in Pids |->
    IF p \in S /\ proc[p].run = "runs" THEN [proc[p] EXCEPT !.run = "stopped"]
    ELSE proc[p]]

(***************************************************************************)
(* The supervisor's loop and the kill.                                     *)
(***************************************************************************)
\* A tick of run_supervised that lets the worker go on, or finds it gone: the
\* worker is reaped and whatever it left behind is left alone.
Poll ==
    /\ phase = "poll"
    /\ Refresh(FALSE)
    /\ IF proc[Root].run = "zombie"
       THEN phase' = "exited" /\ proc' = [proc EXCEPT ![Root] = Free]
       ELSE UNCHANGED <<phase, proc>>
    /\ UNCHANGED <<births, todo, before, passes, reused>>

\* The watchdog's verdict is to kill; terminate() looks once before anything.
Expire ==
    /\ phase = "poll" /\ phase' = "stop_root"
    /\ Refresh(TRUE)
    /\ UNCHANGED <<proc, births, todo, before, passes, reused>>

StopRoot ==
    /\ phase = "stop_root" /\ phase' = "look"
    /\ proc' = Stopped({Root})
    /\ UNCHANGED <<births, known, stale, todo, before, passes, reused>>

\* A freeze pass: look again, then stop everything known.
Look ==
    /\ phase = "look" /\ phase' = "freeze"
    /\ Refresh(TRUE)
    /\ todo' = DOMAIN known' /\ passes' = passes + 1
    /\ UNCHANGED <<proc, births, before, reused>>

\* The deepest of the round is signalled first.
Deepest(p) == p \in todo /\ \A q \in todo : known[q].depth <= known[p].depth

Freeze(p) ==
    /\ phase = "freeze" /\ Deepest(p)
    /\ proc' = Stopped(Reached(p)) /\ todo' = todo \ {p}
    /\ UNCHANGED <<births, known, stale, phase, before, passes, reused>>

\* Bug: one freeze pass is taken for enough.
FrozenAtOnce == TRUE

\* Nobody new since the pass before, all of whom were stopped then.  It is ids
\* that are compared: a new process under the id of one that is gone is taken
\* for it, and what it forks is not looked for again.
Frozen == DOMAIN known = before

\* The end of a pass: another one, or the last look before the kill.
EndPass ==
    /\ phase = "freeze" /\ todo = {}
    /\ phase' = IF Frozen \/ passes = MaxPasses THEN "last_look" ELSE "look"
    /\ before' = DOMAIN known
    /\ UNCHANGED <<proc, births, known, stale, todo, passes, reused>>

LastLook ==
    /\ phase = "last_look" /\ phase' = "kill"
    /\ Refresh(TRUE)
    /\ todo' = DOMAIN known'
    /\ UNCHANGED <<proc, births, before, passes, reused>>

Kill(p) ==
    /\ phase = "kill" /\ Deepest(p)
    /\ proc' = Ended(Reached(p)) /\ todo' = todo \ {p}
    /\ UNCHANGED <<births, known, stale, phase, before, passes, reused>>

\* The worker itself, then whatever is left of its group.
KillGroup ==
    /\ phase = "kill" /\ todo = {}
    /\ phase' = "wait"
    /\ proc' = Ended({Root} \cup {p \in Alive : proc[p].group = Root})
    /\ UNCHANGED <<births, known, stale, todo, before, passes, reused>>

\* A read of the process table fails inside terminate(): only the group and
\* the worker are killed.
FallBack ==
    /\ phase \in {"poll", "stop_root", "look", "last_look"}
    /\ phase = "poll" => Root \in Alive
    /\ phase' = "fallback"
    /\ UNCHANGED <<proc, births, known, stale, todo, before, passes, reused>>

FallbackKill ==
    /\ phase = "fallback" /\ phase' = "wait_fallback"
    /\ proc' = Ended({Root} \cup {p \in Alive : proc[p].group = Root})
    /\ UNCHANGED <<births, known, stale, todo, before, passes, reused>>

\* The killed worker is reaped within one poll interval, or the wait gives up
\* and its exception leaves run_supervised.
Wait ==
    /\ phase \in {"wait", "wait_fallback"}
    /\ \/ phase' = "killed" /\ proc' = [proc EXCEPT ![Root] = Free]
       \/ phase' = "raised" /\ UNCHANGED proc
    /\ UNCHANGED <<births, known, stale, todo, before, passes, reused>>

Supervise ==
    \/ Poll \/ Expire \/ StopRoot \/ Look \/ EndPass \/ LastLook
    \/ KillGroup \/ FallBack \/ FallbackKill \/ Wait
    \/ \E p \in todo : Freeze(p)
    \/ \E p \in todo : Kill(p)

Next ==
    \/ Supervise
    \/ /\ phase \notin {"exited", "wait", "wait_fallback", "killed", "raised"}
       /\ \/ \E p, q \in Pids, ownGroup, keepsMarker \in BOOLEAN :
                Fork(p, q, ownGroup, keepsMarker)
          \/ \E q \in Pids : Appear(q)
          \/ \E p \in Pids : Exit(p)

Spec == Init /\ [][Next]_vars

(***************************************************************************)
(* Properties.                                                             *)
(***************************************************************************)
\* The kill is exact.  No step stops or ends a process of somebody else,
\* whatever ids changed hands (strangers never end by themselves here); and
\* when the kill is over, nothing that carries the worker's marker is alive,
\* wherever it moved and whenever it was forked, unless the process table
\* could not be read, or a process that it remembered exited and one of its
\* tree took the id before the next look (staffing/run.py:2232-2233 "once every
\* known generation is stopped, no member can create another generation").
OnlyTheWorkersTree ==
    /\ \A p \in Alive : ~proc[p].tree => proc'[p] = proc[p]
    /\ phase # "wait" /\ phase' = "wait" /\ passes < MaxPasses /\ ~reused =>
          \A p \in Pids \ {Root} : proc'[p] # Free => ~proc'[p].marked

KillIsExact == [][OnlyTheWorkersTree]_vars
=============================================================================
