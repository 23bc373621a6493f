-------------------------- MODULE ActiveStateCache --------------------------
(***************************************************************************)
(* The quick shared state artifact: one cache in each process of the Board *)
(* (the server, and every run of the command line on the same files), the  *)
(* refresh generations that fill it, the collectors they start and the     *)
(* file that outlives them.                                                *)
(*                                                                         *)
(* A section under the cache's mutex is one step.  An artifact is known by *)
(* the version of the Board's rows it was collected from.                  *)
(***************************************************************************)
EXTENDS Naturals

CONSTANTS
  Boards,          \* processes, each with one cache
  Callers,         \* bound: reads and refreshes in flight
  Generations,     \* bound: refresh generations at a time
  MaxVersion,      \* bound: changes of the Board's rows
  None,            \* no artifact, no generation
  Broken           \* an error in place of a result, a file that does not validate

Versions == 0..MaxVersion

\* What a collector hands over: a version of the rows, and whether the
\* generation's deadline had passed by then (a history of the race, which the
\* code never looks at).
Artifact == [version : Versions, late : BOOLEAN]

ASSUME CacheAssumption ==
  /\ MaxVersion \in Nat
  /\ None \notin Generations \cup Boards \cup Nat \cup Artifact
  /\ Broken \notin Artifact \cup {None}

VARIABLES
  source,          \* version of the rows a collection reads
  disk,            \* the file: an artifact, None or Broken
  cache,           \* the cache of each process
  gens,            \* refresh generations: the goroutine that waits and its collector
  callers          \* callers of Read and Refresh

vars == << source, disk, cache, gens, callers >>

\* A definition whose comment starts with "Bug:" is the one after it with a
\* plausible mistake in it; nothing uses it.  Checking with it in the other's
\* place shows that a property notices the mistake.

-----------------------------------------------------------------------------
Row == [current : Artifact \cup {None}, failed : BOOLEAN, persistFailed : BOOLEAN,
        inflight : Generations \cup {None}, collecting : BOOLEAN, loaded : BOOLEAN]

\* Where the waiting goroutine of a generation is, and where its collector is:
\* "returned" is after the result was sent and before the flag is cleared.
Phases == {"unused", "waiting", "persist", "publish", "ended"}
CollectorPhases == {"unused", "running", "returned", "gone"}
Generation == [board : Boards \cup {None}, at : Phases, collector : CollectorPhases,
               seen : Versions \cup {None}, sent : Artifact \cup {None, Broken},
               expired : BOOLEAN, artifact : Artifact \cup {None}, persistFailed : BOOLEAN]

\* "begin": about to begin or join a refresh and wait for it; "poke": the same
\* without waiting, after an expired read; "waiting": for a generation, or for
\* None when the refresh was refused.
Points == {"idle", "begin", "poke", "waiting"}
Answers == {"none", "read", "collected", "failed", "unavailable"}
Caller == [at : Points, board : Boards \cup {None}, gen : Generations \cup {None},
           answer : Answers]

Cold == [current |-> None, failed |-> FALSE, persistFailed |-> FALSE,
         inflight |-> None, collecting |-> FALSE, loaded |-> FALSE]
Unused == [board |-> None, at |-> "unused", collector |-> "unused", seen |-> None,
           sent |-> None, expired |-> FALSE, artifact |-> None, persistFailed |-> FALSE]
Idle == [at |-> "idle", board |-> None, gen |-> None, answer |-> "none"]

TypeOK ==
  /\ source \in Versions
  /\ disk \in Artifact \cup {None, Broken}
  /\ cache \in [Boards -> Row]
  /\ gens \in [Generations -> Generation]
  /\ callers \in [Callers -> Caller]
  /\ \A g \in Generations :
       gens[g].board = None => gens[g].at = "unused" /\ gens[g].collector = "unused"
  /\ \A c \in Callers : callers[c].at # "idle" => callers[c].board # None

Init ==
  /\ source = 0
  /\ disk = None
  /\ cache = [b \in Boards |-> Cold]
  /\ gens = [g \in Generations |-> Unused]
  /\ callers = [c \in Callers |-> Idle]

-----------------------------------------------------------------------------
\* The Board's rows change.
Change ==
  /\ source < MaxVersion
  /\ source' = source + 1
  /\ UNCHANGED << disk, cache, gens, callers >>

\* The file is replaced by something that does not validate.
Damage ==
  /\ disk \notin {None, Broken}
  /\ disk' = Broken
  /\ UNCHANGED << source, cache, gens, callers >>

\* ensureLoadedLocked: the row after the file was looked at, once in the life of
\* a process.
Loaded(row) ==
  IF row.loaded THEN row
  ELSE [row EXCEPT !.loaded = TRUE,
                   !.current = IF disk = Broken THEN None ELSE disk,
                   !.persistFailed = (disk = Broken)]

\* Read, under the lock.  Whether the artifact has expired is left open.
Read(c, b) ==
  LET row == Loaded(cache[b])
  IN /\ callers[c].at = "idle"
     /\ cache' = [cache EXCEPT ![b] = row]
     /\ \/ /\ row.current # None
           /\ \E at \in {"idle", "poke"} :
                callers' = [callers EXCEPT ![c] =
                  [at |-> at, board |-> IF at = "poke" THEN b ELSE None,
                   gen |-> None, answer |-> "read"]]
        \/ /\ row.current = None
           /\ callers' = [callers EXCEPT ![c] = [Idle EXCEPT !.at = "begin", !.board = b]]
     /\ UNCHANGED << source, disk, gens >>

\* A call of Refresh: nothing happens before beginRefresh takes the lock.
Refresh(c, b) ==
  /\ callers[c].at = "idle"
  /\ callers' = [callers EXCEPT ![c] = [Idle EXCEPT !.at = "begin", !.board = b]]
  /\ UNCHANGED << source, disk, cache, gens >>

\* The caller goes on with generation g, or with a refusal.
Joins(c, g) ==
  callers' = [callers EXCEPT ![c] =
    IF callers[c].at = "poke" THEN [Idle EXCEPT !.answer = "read"]
    ELSE [callers[c] EXCEPT !.at = "waiting", !.gen = g]]

\* A generation nobody refers to any more is garbage and may stand for the next.
Free(g) ==
  /\ gens[g].at \in {"unused", "ended"}
  /\ gens[g].collector \in {"unused", "gone"}
  /\ \A c \in Callers : callers[c].gen # g

Started(b) ==
  [Unused EXCEPT !.board = b, !.at = "waiting", !.collector = "running"]

\* Bug: Refresh collects before it looks at the file.
RowAtRefreshUnread(b) == cache[b]

\* beginRefresh first adopts what the file holds.
RowAtRefresh(b) == Loaded(cache[b])

\* Bug: a collector that does not return is forgotten.
RefusedNever(row) == FALSE

\* A collector of an earlier generation has not returned yet.
Refused(row) == row.collecting

\* Bug: overlapping refreshes each collect.
JoinableNever(row) == FALSE

Joinable(row) == row.inflight # None

\* beginRefresh: join the generation in flight, be refused, or start one.
BeginRefresh(c) ==
  LET b == callers[c].board
      row == RowAtRefresh(b)
  IN /\ callers[c].at \in {"begin", "poke"}
     /\ \/ /\ Joinable(row)
           /\ cache' = [cache EXCEPT ![b] = row]
           /\ Joins(c, row.inflight)
           /\ UNCHANGED gens
        \/ /\ ~Joinable(row)
           /\ Refused(row)
           /\ cache' = [cache EXCEPT ![b] = [row EXCEPT !.failed = TRUE]]
           /\ Joins(c, None)
           /\ UNCHANGED gens
        \/ /\ ~Joinable(row)
           /\ ~Refused(row)
           /\ \E g \in Generations :
                /\ Free(g)
                /\ gens' = [gens EXCEPT ![g] = Started(b)]
                /\ cache' = [cache EXCEPT ![b] =
                     [row EXCEPT !.collecting = TRUE, !.inflight = g]]
                /\ Joins(c, g)
     /\ UNCHANGED << source, disk >>

-----------------------------------------------------------------------------
\* The collector reads the rows.
Collect(g) ==
  /\ gens[g].collector = "running"
  /\ gens[g].seen = None
  /\ gens' = [gens EXCEPT ![g].seen = source]
  /\ UNCHANGED << source, disk, cache, callers >>

\* It returns what it read, or an error, at any time: a collector may ignore its
\* context.  The send never blocks.
Return(g) ==
  /\ gens[g].collector = "running"
  /\ \/ gens' = [gens EXCEPT ![g].collector = "returned", ![g].sent = Broken]
     \/ /\ gens[g].seen # None
        /\ gens' = [gens EXCEPT
             ![g].collector = "returned",
             ![g].sent = [version |-> gens[g].seen, late |-> gens[g].expired]]
  /\ UNCHANGED << source, disk, cache, callers >>

\* After the send it takes the lock to clear the flag.
Clear(g) ==
  /\ gens[g].collector = "returned"
  /\ gens' = [gens EXCEPT ![g].collector = "gone"]
  /\ cache' = [cache EXCEPT ![gens[g].board].collecting = FALSE]
  /\ UNCHANGED << source, disk, callers >>

\* The generation's context expires.
Expire(g) ==
  /\ gens[g].at = "waiting"
  /\ ~gens[g].expired
  /\ gens' = [gens EXCEPT ![g].expired = TRUE]
  /\ UNCHANGED << source, disk, cache, callers >>

\* Bug: a result that is there is published.
AcceptableWhenever(g) == gens[g].sent \notin {None, Broken}

\* runRefresh asks its context after it received: the select may pick a result
\* that came after the deadline.
Acceptable(g) == gens[g].sent \notin {None, Broken} /\ ~gens[g].expired

\* runRefresh, the result.  Building the artifact may fail.
Receive(g) ==
  /\ gens[g].at = "waiting"
  /\ gens[g].sent # None
  /\ \/ /\ Acceptable(g)
        /\ gens' = [gens EXCEPT ![g].at = "persist", ![g].artifact = gens[g].sent,
                                ![g].sent = None]
     \/ gens' = [gens EXCEPT ![g].at = "publish", ![g].sent = None]
  /\ UNCHANGED << source, disk, cache, callers >>

\* Bug: the wait ends only when the collector returns.
TimedOutWithResult(g) == gens[g].expired /\ gens[g].sent # None

TimedOut(g) == gens[g].expired

\* runRefresh, the deadline.
Timeout(g) ==
  /\ gens[g].at = "waiting"
  /\ TimedOut(g)
  /\ gens' = [gens EXCEPT ![g].at = "publish"]
  /\ UNCHANGED << source, disk, cache, callers >>

\* Bug: the temporary file is removed and never renamed.
PersistedNever(g) == disk

\* The file after the rename.
Persisted(g) == gens[g].artifact

\* finishRefresh before the lock: the file is renamed into place, or not.
Persist(g) ==
  /\ gens[g].at = "persist"
  /\ \/ /\ disk' = Persisted(g)
        /\ gens' = [gens EXCEPT ![g].at = "publish"]
     \/ /\ gens' = [gens EXCEPT ![g].at = "publish", ![g].persistFailed = TRUE]
        /\ UNCHANGED disk
  /\ UNCHANGED << source, cache, callers >>

\* finishRefresh under the lock, and the close of done.  A failure keeps the
\* artifact.
Publish(g) ==
  LET a == gens[g].artifact
      b == gens[g].board
      row == cache[b]
  IN /\ gens[g].at = "publish"
     /\ cache' = [cache EXCEPT ![b] =
          IF a = None THEN [row EXCEPT !.failed = TRUE, !.inflight = None]
          ELSE [row EXCEPT !.current = a, !.failed = FALSE,
                           !.persistFailed = gens[g].persistFailed,
                           !.loaded = TRUE, !.inflight = None]]
     /\ gens' = [gens EXCEPT ![g].at = "ended"]
     /\ UNCHANGED << source, disk, callers >>

\* Bug: the waiters go on as soon as the result is there.
OverWithResult(g) == g # None => gens[g].at \in {"persist", "publish", "ended"}

\* The generation a caller waits for is over; a refusal is over at once.
Over(g) == g # None => gens[g].at = "ended"
Succeeded(g) == g # None /\ gens[g].artifact # None

\* Refresh after its wait: what is published now, or an error without it.
Answer(c) ==
  LET k == callers[c]
      row == cache[k.board]
  IN /\ k.at = "waiting"
     /\ Over(k.gen)
     /\ callers' = [callers EXCEPT ![c] =
          [Idle EXCEPT !.answer = IF row.current = None THEN "unavailable"
                                  ELSE IF Succeeded(k.gen) THEN "collected"
                                  ELSE "failed"]]
     /\ UNCHANGED << source, disk, cache, gens >>

\* The caller's context ends; the generation goes on for the others.
Abandon(c) ==
  /\ callers[c].at = "waiting"
  /\ callers' = [callers EXCEPT ![c] = Idle]
  /\ UNCHANGED << source, disk, cache, gens >>

\* A process ends, with its goroutines and callers; another starts in its place.
\* Only the file is left.
Crash(b) ==
  /\ cache[b] # Cold
  /\ cache' = [cache EXCEPT ![b] = Cold]
  /\ gens' = [g \in Generations |->
       IF gens[g].board = b THEN Unused ELSE gens[g]]
  /\ callers' = [c \in Callers |-> IF callers[c].board = b THEN Idle ELSE callers[c]]
  /\ UNCHANGED << source, disk >>

-----------------------------------------------------------------------------
Calls ==
  \E c \in Callers :
    \/ \E b \in Boards : Read(c, b) \/ Refresh(c, b)
    \/ BeginRefresh(c)
    \/ Answer(c)
    \/ Abandon(c)

Goroutines ==
  \E g \in Generations :
    \/ Collect(g) \/ Return(g) \/ Clear(g)
    \/ Expire(g) \/ Receive(g) \/ Timeout(g) \/ Persist(g) \/ Publish(g)

Next ==
  \/ Change
  \/ Damage
  \/ Calls
  \/ Goroutines
  \/ \E b \in Boards : Crash(b)

Spec == Init /\ [][Next]_vars

\* The runtime schedules the waiting goroutine and its timer, the disk answers,
\* and a caller that can go on does.  Collectors owe nothing.
Fairness ==
  /\ \A g \in Generations :
       /\ WF_vars(Expire(g))
       /\ WF_vars(Receive(g) \/ Timeout(g))
       /\ WF_vars(Persist(g))
       /\ WF_vars(Publish(g))
  /\ \A c \in Callers : WF_vars(Answer(c))

FairSpec == Spec /\ Fairness
-----------------------------------------------------------------------------
\* The waiting goroutine of a generation runs, and its collector has not
\* finished.
InFlight(g) == gens[g].at \in {"waiting", "persist", "publish"}
Outstanding(g) == gens[g].collector \in {"running", "returned"}

\* A process never has two collectors, however often refreshes are asked for and
\* however long a collector ignores its deadline.
OneCollector ==
  \A g, h \in Generations :
    Outstanding(g) /\ Outstanding(h) /\ gens[g].board = gens[h].board => g = h

\* A result that arrives after its generation's deadline is never published and
\* never reaches the file, whichever case of the select runs.
LateResultsDiscarded ==
  /\ \A b \in Boards : cache[b].current # None => ~cache[b].current.late
  /\ disk \in Artifact => ~disk.late

\* What a process shows never goes back to an earlier state of the Board while
\* it lives: no generation publishes over a later one, and the file is not
\* adopted over what was published.
PublishedInOrder ==
  [][ \A b \in Boards :
        cache[b].current # None /\ cache'[b].current # None
        => cache[b].current.version <= cache'[b].current.version ]_vars

\* A caller that is told "collected" is shown what the generation it waited for
\* collected, or something later: done is closed after the publication.
CollectedIsShown ==
  [][ \A c \in Callers :
        callers[c].at = "waiting" /\ callers'[c].answer = "collected"
        => cache[callers[c].board].current.version
             >= gens[callers[c].gen].artifact.version ]_vars

\* While a single process uses the file, the artifact it shows is also on disk,
\* or a later one is, unless the process says that it could not write it (or
\* somebody damaged the file): a restart then goes on from there.
ShownIsKept ==
  \A b \in Boards :
    cache[b].current # None /\ ~cache[b].persistFailed /\ disk # Broken
    => disk # None /\ disk.version >= cache[b].current.version

\* While a single process uses the file, nobody is told that there is no state
\* when the file holds one, unless it is just about to be published: the file is
\* adopted before any collection can fail.
UnavailableMeansNothingKept ==
  [][ \A c \in Callers :
        callers[c].at = "waiting" /\ callers'[c].answer = "unavailable"
        => \/ disk \in {None, Broken}
           \/ \E g \in Generations :
                gens[g].at = "publish" /\ gens[g].artifact = disk ]_vars

\* Every wait ends, also when the collector never returns.
WaitsEnd ==
  \A c \in Callers : callers[c].at = "waiting" ~> callers[c].at # "waiting"

\* "a refresh refused because a previous non-cooperative collector has not yet
\* returned" (errOutstandingCollection).
RefusedOnlyWhileCollecting ==
  [][ \A c \in Callers :
        callers[c].at = "begin" /\ callers'[c].at = "waiting" /\ callers'[c].gen = None
        => \E g \in Generations :
             gens[g].board = callers[c].board /\ gens[g].collector = "running" ]_vars
=============================================================================
