------------------------- MODULE ActiveStateProofs -------------------------
(***************************************************************************)
(* Proofs about ActiveStateCache for every number of processes, callers    *)
(* and generations.                                                        *)
(***************************************************************************)
EXTENDS ActiveStateCache, TLAPS

\* The cold start is well typed.
LEMMA InitTypeOK == Init => TypeOK
  BY CacheAssumption
  DEF Init, TypeOK, Versions, Artifact, Cold, Row, Unused, Generation, Phases,
      CollectorPhases, Idle, Caller, Points, Answers

\* Adopting the file gives a row of the cache.
LEMMA LoadedIsRow ==
  ASSUME TypeOK, NEW b \in Boards
  PROVE  Loaded(cache[b]) \in Row
  BY DEF TypeOK, Loaded, Row

\* Writing one caller, with the process it is about.
LEMMA TypeCaller ==
  ASSUME TypeOK, NEW c \in Callers, NEW k \in Caller, k.at # "idle" => k.board # None,
         callers' = [callers EXCEPT ![c] = k]
  PROVE  /\ callers' \in [Callers -> Caller]
         /\ \A x \in Callers : callers'[x].at # "idle" => callers'[x].board # None
  BY DEF TypeOK

\* A section of a caller keeps the state well typed.
LEMMA TypeCalls == TypeOK /\ Calls => TypeOK'
  <1> SUFFICES ASSUME TypeOK, NEW c \in Callers,
                      \/ \E b \in Boards : Read(c, b) \/ Refresh(c, b)
                      \/ BeginRefresh(c)
                      \/ Answer(c)
                      \/ Abandon(c)
               PROVE  TypeOK'
    BY DEF Calls
  <1>1. ASSUME NEW b \in Boards, Read(c, b) PROVE TypeOK'
    <2>1. cache' = [cache EXCEPT ![b] = Loaded(cache[b])] /\ cache' \in [Boards -> Row]
      BY <1>1, LoadedIsRow DEF Read, TypeOK
    <2>2. /\ callers' \in [Callers -> Caller]
          /\ \A x \in Callers : callers'[x].at # "idle" => callers'[x].board # None
      <3>1. PICK k : /\ k \in Caller /\ (k.at # "idle" => k.board # None)
                     /\ callers' = [callers EXCEPT ![c] = k]
        <4>1. \A at \in {"idle", "poke"} :
                [at |-> at, board |-> IF at = "poke" THEN b ELSE None,
                 gen |-> None, answer |-> "read"] \in Caller
          BY DEF Caller, Points, Answers
        <4>2. [Idle EXCEPT !.at = "begin", !.board = b] \in Caller
          BY DEF Idle, Caller, Points, Answers
        <4> QED
          BY <1>1, <4>1, <4>2, CacheAssumption DEF Read, Idle
      <3> QED
        BY <3>1, TypeCaller
    <2> QED
      BY <1>1, <2>1, <2>2 DEF Read, TypeOK
  <1>2. ASSUME NEW b \in Boards, Refresh(c, b) PROVE TypeOK'
    BY <1>2, CacheAssumption DEF Refresh, TypeOK, Idle, Caller, Points, Answers
  <1>3. ASSUME BeginRefresh(c) PROVE TypeOK'
    <2> DEFINE b == callers[c].board
               row == Loaded(cache[b])
    <2>1. b \in Boards
      BY <1>3 DEF BeginRefresh, TypeOK, Caller
    <2>2. row \in Row
      BY <2>1, LoadedIsRow
    <2>3. ASSUME NEW g \in Generations \cup {None}, Joins(c, g)
          PROVE  /\ callers' \in [Callers -> Caller]
                 /\ \A x \in Callers : callers'[x].at # "idle" => callers'[x].board # None
      <3>1. callers[c] \in Caller /\ b # None
        BY <2>1, CacheAssumption DEF TypeOK
      <3>2. CASE callers[c].at = "poke"
        <4>1. [Idle EXCEPT !.answer = "read"] \in Caller
          BY DEF Idle, Caller, Points, Answers
        <4> QED
          BY <2>3, <3>2, <4>1, TypeCaller DEF Joins, Idle
      <3>3. CASE callers[c].at # "poke"
        <4>1. [callers[c] EXCEPT !.at = "waiting", !.gen = g] \in Caller
          BY <3>1 DEF Caller, Points
        <4>2. [callers[c] EXCEPT !.at = "waiting", !.gen = g].board # None
          BY <3>1 DEF Caller
        <4> QED
          BY <2>3, <3>3, <4>1, <4>2, TypeCaller DEF Joins
      <3> QED
        BY <3>2, <3>3
    <2>4. Started(b) \in Generation
      BY <2>1 DEF Started, Unused, Generation, Phases, CollectorPhases
    <2>5. CASE /\ Joinable(row) /\ Joins(c, row.inflight)
               /\ cache' = [cache EXCEPT ![b] = row] /\ UNCHANGED gens
      <3>1. row.inflight \in Generations
        BY <2>2, <2>5 DEF Row, Joinable
      <3> QED
        BY <1>3, <2>1, <2>2, <2>3, <2>5, <3>1 DEF BeginRefresh, TypeOK
    <2>6. CASE /\ Joins(c, None)
               /\ cache' = [cache EXCEPT ![b] = [row EXCEPT !.failed = TRUE]]
               /\ UNCHANGED gens
      <3>1. [row EXCEPT !.failed = TRUE] \in Row
        BY <2>2 DEF Row
      <3> QED
        BY <1>3, <2>1, <2>3, <2>6, <3>1 DEF BeginRefresh, TypeOK
    <2>7. ASSUME NEW g \in Generations, Joins(c, g),
                 gens' = [gens EXCEPT ![g] = Started(b)],
                 cache' = [cache EXCEPT ![b] = [row EXCEPT !.collecting = TRUE, !.inflight = g]]
          PROVE  TypeOK'
      <3>1. [row EXCEPT !.collecting = TRUE, !.inflight = g] \in Row
        BY <2>2 DEF Row
      <3>2. Started(b).board # None
        BY <2>1, CacheAssumption DEF Started, Unused
      <3> QED
        BY <1>3, <2>1, <2>3, <2>4, <2>7, <3>1, <3>2 DEF BeginRefresh, TypeOK
    <2> QED
      BY <1>3, <2>5, <2>6, <2>7 DEF BeginRefresh, RowAtRefresh
  <1>4. ASSUME Answer(c) PROVE TypeOK'
    <2> DEFINE x == IF cache[callers[c].board].current = None THEN "unavailable"
                    ELSE IF Succeeded(callers[c].gen) THEN "collected"
                    ELSE "failed"
    <2>1. x \in Answers /\ callers' = [callers EXCEPT ![c] = [Idle EXCEPT !.answer = x]]
      BY <1>4 DEF Answer, Answers
    <2> HIDE DEF x
    <2>2. [Idle EXCEPT !.answer = x] \in Caller
      BY <2>1 DEF Idle, Caller, Points
    <2> QED
      BY <1>4, <2>1, <2>2, TypeCaller DEF Answer, TypeOK, Idle
  <1>5. ASSUME Abandon(c) PROVE TypeOK'
    BY <1>5, CacheAssumption DEF Abandon, TypeOK, Idle, Caller, Points, Answers
  <1> QED
    BY <1>1, <1>2, <1>3, <1>4, <1>5

\* So does a step of a generation.
LEMMA TypeGoroutines == TypeOK /\ Goroutines => TypeOK'
  <1> SUFFICES ASSUME TypeOK, NEW g \in Generations,
                      \/ Collect(g) \/ Return(g) \/ Clear(g) \/ Expire(g)
                      \/ Receive(g) \/ Timeout(g) \/ Persist(g) \/ Publish(g)
               PROVE  TypeOK'
    BY DEF Goroutines
  <1> USE CacheAssumption DEF TypeOK, Generation, Phases, CollectorPhases
  <1>1. CASE Collect(g)
    BY <1>1 DEF Collect
  <1>2. CASE Return(g)
    BY <1>2 DEF Return, Artifact
  <1>3. CASE Clear(g)
    <2>1. gens[g].board \in Boards
      BY <1>3 DEF Clear
    <2>2. [gens[g] EXCEPT !.collector = "gone"] \in Generation
      OBVIOUS
    <2>3. cache[gens[g].board] \in Row
      BY <2>1
    <2>4. \A r \in Row : [r EXCEPT !.collecting = FALSE] \in Row
      BY DEF Row
    <2> QED
      BY <1>3, <2>1, <2>2, <2>3, <2>4 DEF Clear
  <1>4. CASE Expire(g)
    <2>1. [gens[g] EXCEPT !.expired = TRUE] \in Generation
      OBVIOUS
    <2> QED
      BY <1>4, <2>1 DEF Expire
  <1>5. CASE Receive(g)
    BY <1>5 DEF Receive, Acceptable
  <1>6. CASE Timeout(g)
    BY <1>6 DEF Timeout
  <1>7. CASE Persist(g)
    BY <1>7 DEF Persist, Persisted
  <1>8. CASE Publish(g)
    <2>1. gens[g].board \in Boards /\ gens[g].artifact \in Artifact \cup {None}
      BY <1>8 DEF Publish
    <2>2. [gens[g] EXCEPT !.at = "ended"] \in Generation
      OBVIOUS
    <2>3. PICK row \in Row : cache' = [cache EXCEPT ![gens[g].board] = row]
      <3> DEFINE r == cache[gens[g].board]
                 a == gens[g].artifact
                 kept == [r EXCEPT !.failed = TRUE, !.inflight = None]
                 new == [r EXCEPT !.current = a, !.failed = FALSE,
                                  !.persistFailed = gens[g].persistFailed,
                                  !.loaded = TRUE, !.inflight = None]
      <3>1. r \in Row /\ gens[g].persistFailed \in BOOLEAN
        BY <2>1
      <3>2. kept \in Row /\ new \in Row
        BY <2>1, <3>1 DEF Row
      <3>3. cache' = [cache EXCEPT ![gens[g].board] = kept]
              \/ cache' = [cache EXCEPT ![gens[g].board] = new]
        BY <1>8 DEF Publish
      <3> QED
        BY <3>2, <3>3
    <2> QED
      BY <1>8, <2>1, <2>2, <2>3 DEF Publish
  <1> QED
    BY <1>1, <1>2, <1>3, <1>4, <1>5, <1>6, <1>7, <1>8

\* Every step keeps the state well typed.
LEMMA TypeStep == TypeOK /\ [Next]_vars => TypeOK'
  <1> SUFFICES ASSUME TypeOK, [Next]_vars PROVE TypeOK'
    OBVIOUS
  <1>1. CASE Change
    BY <1>1, CacheAssumption DEF Change, TypeOK, Versions
  <1>2. CASE Damage
    BY <1>2 DEF Damage, TypeOK
  <1>3. CASE \E b \in Boards : Crash(b)
    BY <1>3, CacheAssumption
    DEF Crash, TypeOK, Cold, Row, Unused, Generation, Phases, CollectorPhases, Idle, Caller,
        Points, Answers
  <1>4. CASE UNCHANGED vars
    BY <1>4 DEF vars, TypeOK
  <1> QED
    BY <1>1, <1>2, <1>3, <1>4, TypeCalls, TypeGoroutines DEF Next

\* Every reachable state is well typed, for every value of the constants.
THEOREM TypeCorrect == Spec => []TypeOK
  BY InitTypeOK, TypeStep, PTL DEF Spec
-----------------------------------------------------------------------------
\* One generation at a time: the cache points to the generation in flight and
\* back, no collection starts before the file was looked at, and the flag covers
\* the collector that has not returned.
SingleFlight ==
  /\ \A g \in Generations :
       InFlight(g) => cache[gens[g].board].inflight = g /\ cache[gens[g].board].loaded
  /\ \A b \in Boards :
       cache[b].inflight # None
       => InFlight(cache[b].inflight) /\ gens[cache[b].inflight].board = b
  /\ \A g \in Generations : Outstanding(g) => cache[gens[g].board].collecting
  /\ \A b \in Boards : ~cache[b].loaded => cache[b].current = None
  /\ OneCollector

\* What generation g has in hand was collected at version v or later.
From(g, v) ==
  /\ gens[g].seen # None => v <= gens[g].seen
  /\ gens[g].sent \in Artifact => v <= gens[g].sent.version
  /\ gens[g].artifact # None => v <= gens[g].artifact.version

\* An artifact is of the past and made in time.
Sound(a) == a.version <= source /\ ~a.late

\* Collections are of the past, in the order of their generations, and nothing
\* late gets further than the channel.
InOrder ==
  /\ disk \in Artifact => Sound(disk)
  /\ \A b \in Boards : cache[b].current # None => Sound(cache[b].current)
  /\ \A g \in Generations :
       /\ gens[g].seen # None => gens[g].seen <= source
       /\ gens[g].sent \in Artifact =>
            gens[g].sent.version <= source /\ (gens[g].sent.late => gens[g].expired)
       /\ gens[g].artifact # None => Sound(gens[g].artifact)
       /\ InFlight(g) /\ cache[gens[g].board].current # None
          => From(g, cache[gens[g].board].current.version)

\* What generation g collected is shown by process b, or something later is.
Shown(g, b) ==
  gens[g].at = "ended" /\ gens[g].artifact # None
  => cache[b].current # None /\ gens[g].artifact.version <= cache[b].current.version

\* The generation a caller waits for is of its process, and what it published is
\* shown, or something later is.
Waiters ==
  \A c \in Callers :
    /\ callers[c].at \in {"begin", "waiting"} => callers[c].answer = "none"
    /\ callers[c].at = "waiting" /\ callers[c].gen # None
       => /\ gens[callers[c].gen].at # "unused"
          /\ gens[callers[c].gen].board = callers[c].board
          /\ Shown(callers[c].gen, callers[c].board)

\* What adopting the file changes: the artifact of a row that never looked at it.
LEMMA LoadedRow ==
  ASSUME TypeOK, NEW b \in Boards, NEW row, row = Loaded(cache[b])
  PROVE  /\ row \in Row
         /\ row.loaded
         /\ row.inflight = cache[b].inflight
         /\ row.collecting = cache[b].collecting
         /\ cache[b].loaded => row.current = cache[b].current
         /\ ~cache[b].loaded => row.current = None \/ (row.current = disk /\ disk \in Artifact)
  <1>1. row \in Row
    BY LoadedIsRow
  <1>2. CASE cache[b].loaded
    BY <1>1, <1>2 DEF Loaded
  <1>3. CASE ~cache[b].loaded
    <2>1. cache[b] \in Row /\ disk \in Artifact \cup {None, Broken}
      BY DEF TypeOK
    <2>2. row = [cache[b] EXCEPT !.loaded = TRUE,
                                 !.current = IF disk = Broken THEN None ELSE disk,
                                 !.persistFailed = (disk = Broken)]
      BY <1>3 DEF Loaded
    <2>3. /\ row.loaded /\ row.inflight = cache[b].inflight
          /\ row.collecting = cache[b].collecting
          /\ row.current = IF disk = Broken THEN None ELSE disk
      BY <2>1, <2>2 DEF Row
    <2>4. row.current = None \/ (row.current = disk /\ disk \in Artifact)
      <3>1. CASE disk = Broken
        BY <2>3, <3>1
      <3>2. CASE disk # Broken
        BY <2>1, <2>3, <3>2
      <3> QED
        BY <3>1, <3>2
    <2> QED
      BY <1>1, <1>3, <2>3, <2>4
  <1> QED
    BY <1>2, <1>3

\* A step that leaves the caches alone and ends no goroutine.
LEMMA FlightFrame ==
  ASSUME TypeOK, SingleFlight, cache' = cache,
         \A g \in Generations :
           /\ gens'[g].board = gens[g].board
           /\ (InFlight(g)' <=> InFlight(g))
           /\ (Outstanding(g)' => Outstanding(g))
  PROVE  SingleFlight'
  <1>1. \A b \in Boards : cache[b].inflight # None => cache[b].inflight \in Generations
    BY DEF TypeOK, Row
  <1>2. \A g \in Generations : InFlight(g)' =>
          cache'[gens'[g].board].inflight = g /\ cache'[gens'[g].board].loaded
    BY DEF SingleFlight
  <1>3. (\A b \in Boards : cache[b].inflight # None
           => InFlight(cache[b].inflight) /\ gens[cache[b].inflight].board = b)'
    <2> SUFFICES ASSUME NEW b \in Boards, cache[b].inflight # None
                 PROVE  (InFlight(cache[b].inflight) /\ gens[cache[b].inflight].board = b)'
      OBVIOUS
    <2>1. PICK g \in Generations : g = cache[b].inflight /\ InFlight(g) /\ gens[g].board = b
      BY <1>1 DEF SingleFlight
    <2> QED
      BY <2>1 DEF InFlight
  <1>4. /\ \A g \in Generations : Outstanding(g)' => cache'[gens'[g].board].collecting
        /\ \A b \in Boards : ~cache'[b].loaded => cache'[b].current = None
        /\ OneCollector'
    BY DEF SingleFlight, OneCollector
  <1> QED
    BY <1>2, <1>3, <1>4 DEF SingleFlight

\* Reading looks at the file and keeps the pointers.
LEMMA FlightRead ==
  ASSUME TypeOK, SingleFlight, NEW b \in Boards, gens' = gens,
         NEW row \in Row, cache' = [cache EXCEPT ![b] = row],
         row.inflight = cache[b].inflight, row.collecting = cache[b].collecting, row.loaded
  PROVE  SingleFlight'
  <1>1. \A g \in Generations : (InFlight(g)' <=> InFlight(g)) /\ (Outstanding(g)' <=> Outstanding(g))
    BY DEF InFlight, Outstanding
  <1>2. /\ cache'[b] = row
        /\ \A x \in Boards : x # b => cache'[x] = cache[x]
    BY DEF TypeOK
  <1>3. \A g \in Generations : InFlight(g) \/ Outstanding(g) => gens[g].board \in Boards
    BY DEF TypeOK, Generation, InFlight, Outstanding
  <1>4. \A x \in Boards : cache[x].inflight # None => cache[x].inflight \in Generations
    BY DEF TypeOK, Row
  <1> QED
    BY <1>1, <1>2, <1>3, <1>4 DEF SingleFlight, OneCollector
\* What a refresh by caller c does when it finds the row of process b: it joins,
\* is refused or starts a generation.
Begun(c, b, row) ==
  \/ /\ row.inflight \in Generations
     /\ cache' = [cache EXCEPT ![b] = row]
     /\ gens' = gens
     /\ Joins(c, row.inflight)
  \/ /\ row.inflight = None
     /\ cache' = [cache EXCEPT ![b] = [row EXCEPT !.failed = TRUE]]
     /\ gens' = gens
     /\ Joins(c, None)
  \/ /\ row.inflight = None
     /\ ~row.collecting
     /\ \E g \in Generations :
          /\ Free(g)
          /\ gens' = [gens EXCEPT ![g] = Started(b)]
          /\ cache' = [cache EXCEPT ![b] = [row EXCEPT !.collecting = TRUE, !.inflight = g]]
          /\ Joins(c, g)

\* A refresh is one of the three.
LEMMA RefreshEffect ==
  ASSUME TypeOK, NEW c \in Callers, BeginRefresh(c)
  PROVE  /\ callers[c].board \in Boards
         /\ Begun(c, callers[c].board, Loaded(cache[callers[c].board]))
  <1>1. callers[c].board \in Boards
    BY DEF BeginRefresh, TypeOK, Caller
  <1>2. Loaded(cache[callers[c].board]) \in Row
    BY <1>1, LoadedIsRow
  <1>3. Loaded(cache[callers[c].board]).inflight \in Generations \cup {None}
    BY <1>2 DEF Row
  <1> QED
    BY <1>1, <1>2, <1>3 DEF BeginRefresh, RowAtRefresh, Joinable, Refused, Begun

\* A new generation starts only where none is in flight and no collector is left.
LEMMA FlightStart ==
  ASSUME TypeOK, SingleFlight, NEW b \in Boards, NEW row \in Row, NEW g \in Generations,
         row.loaded, row.inflight = None, cache[b].inflight = None,
         ~cache[b].collecting, Free(g),
         gens' = [gens EXCEPT ![g] = Started(b)],
         cache' = [cache EXCEPT ![b] = [row EXCEPT !.collecting = TRUE, !.inflight = g]]
  PROVE  SingleFlight'
  <1>1. /\ cache'[b].inflight = g /\ cache'[b].collecting /\ cache'[b].loaded
        /\ \A x \in Boards : x # b => cache'[x] = cache[x]
    BY DEF TypeOK, Row
  <1>2. /\ gens'[g].board = b /\ InFlight(g)' /\ Outstanding(g)'
        /\ \A h \in Generations : h # g =>
             /\ gens'[h].board = gens[h].board
             /\ (InFlight(h)' <=> InFlight(h))
             /\ (Outstanding(h)' <=> Outstanding(h))
    BY DEF TypeOK, InFlight, Outstanding, Started, Unused
  <1>3. ~InFlight(g) /\ ~Outstanding(g)
    BY DEF Free, InFlight, Outstanding
  <1>4. \A h \in Generations : InFlight(h) \/ Outstanding(h) =>
          gens[h].board \in Boards /\ gens[h].board # b
    BY CacheAssumption DEF TypeOK, Generation, InFlight, Outstanding, SingleFlight
  <1>5. \A h \in Generations : InFlight(h)' =>
          cache'[gens'[h].board].inflight = h /\ cache'[gens'[h].board].loaded
    BY <1>1, <1>2, <1>4 DEF SingleFlight
  <1>6. (\A x \in Boards : cache[x].inflight # None
           => InFlight(cache[x].inflight) /\ gens[cache[x].inflight].board = x)'
    <2> SUFFICES ASSUME NEW x \in Boards, cache'[x].inflight # None
                 PROVE  (InFlight(cache[x].inflight) /\ gens[cache[x].inflight].board = x)'
      OBVIOUS
    <2>1. CASE x = b
      BY <1>1, <1>2, <2>1 DEF InFlight
    <2>2. CASE x # b
      <3>1. PICK h \in Generations : h = cache[x].inflight /\ InFlight(h) /\ gens[h].board = x
        BY <1>1, <2>2 DEF SingleFlight, TypeOK, Row
      <3>2. h # g
        BY <1>3, <3>1
      <3> QED
        BY <1>1, <1>2, <2>2, <3>1, <3>2 DEF InFlight
    <2> QED
      BY <2>1, <2>2
  <1>7. /\ \A h \in Generations : Outstanding(h)' => cache'[gens'[h].board].collecting
        /\ OneCollector'
    BY <1>1, <1>2, <1>4 DEF SingleFlight, OneCollector
  <1>8. \A x \in Boards : ~cache'[x].loaded => cache'[x].current = None
    BY <1>1 DEF SingleFlight
  <1> QED
    BY <1>5, <1>6, <1>7, <1>8 DEF SingleFlight

\* Clearing the flag: no other collector of the process is outstanding.
LEMMA FlightClear ==
  ASSUME TypeOK, SingleFlight, NEW g \in Generations, Clear(g)
  PROVE  SingleFlight'
  <1> DEFINE b == gens[g].board
  <1>1. b \in Boards
    BY DEF TypeOK, Generation, Clear
  <1>2. /\ \A x \in Boards : /\ cache'[x].inflight = cache[x].inflight
                             /\ cache'[x].loaded = cache[x].loaded
                             /\ cache'[x].current = cache[x].current
                             /\ (x # b => cache'[x].collecting = cache[x].collecting)
    BY <1>1 DEF TypeOK, Row, Clear
  <1>3. \A h \in Generations :
          /\ gens'[h].board = gens[h].board
          /\ (InFlight(h)' <=> InFlight(h))
          /\ (Outstanding(h)' => Outstanding(h) /\ h # g)
    BY DEF TypeOK, Generation, Clear, InFlight, Outstanding
  <1>4. Outstanding(g)
    BY DEF Clear, Outstanding
  <1>5. \A h \in Generations : InFlight(h) \/ Outstanding(h) => gens[h].board \in Boards
    BY DEF TypeOK, Generation, InFlight, Outstanding
  <1>6. \A h \in Generations : Outstanding(h)' => gens[h].board # b
    BY <1>3, <1>4 DEF SingleFlight, OneCollector
  <1>7. (\A x \in Boards : cache[x].inflight # None
           => InFlight(cache[x].inflight) /\ gens[cache[x].inflight].board = x)'
    <2> SUFFICES ASSUME NEW x \in Boards, cache'[x].inflight # None
                 PROVE  (InFlight(cache[x].inflight) /\ gens[cache[x].inflight].board = x)'
      OBVIOUS
    <2>1. PICK h \in Generations : h = cache[x].inflight /\ InFlight(h) /\ gens[h].board = x
      BY <1>2 DEF SingleFlight, TypeOK, Row
    <2> QED
      BY <1>2, <1>3, <2>1 DEF InFlight
  <1>8. /\ \A h \in Generations : InFlight(h)' =>
             cache'[gens'[h].board].inflight = h /\ cache'[gens'[h].board].loaded
        /\ \A h \in Generations : Outstanding(h)' => cache'[gens'[h].board].collecting
        /\ \A x \in Boards : ~cache'[x].loaded => cache'[x].current = None
        /\ OneCollector'
    BY <1>2, <1>3, <1>5, <1>6 DEF SingleFlight, OneCollector
  <1> QED
    BY <1>7, <1>8 DEF SingleFlight
\* Publishing ends the generation the cache points to.
LEMMA FlightPublish ==
  ASSUME TypeOK, SingleFlight, NEW g \in Generations, Publish(g)
  PROVE  SingleFlight'
  <1> DEFINE b == gens[g].board
  <1>1. b \in Boards /\ InFlight(g)
    BY DEF TypeOK, Generation, Publish, InFlight
  <1>2. /\ cache[b].inflight = g /\ cache[b].loaded
        /\ cache'[b].inflight = None /\ cache'[b].loaded
        /\ cache'[b].collecting = cache[b].collecting
        /\ \A x \in Boards : x # b => cache'[x] = cache[x]
    BY <1>1 DEF TypeOK, Row, Publish, SingleFlight
  <1>3. \A h \in Generations :
          /\ gens'[h].board = gens[h].board
          /\ (InFlight(h)' <=> InFlight(h) /\ h # g)
          /\ (Outstanding(h)' <=> Outstanding(h))
    BY DEF TypeOK, Generation, Publish, InFlight, Outstanding
  <1>4. \A h \in Generations : InFlight(h) \/ Outstanding(h) => gens[h].board \in Boards
    BY DEF TypeOK, Generation, InFlight, Outstanding
  <1>5. \A h \in Generations : InFlight(h)' => gens[h].board # b
    BY <1>2, <1>3 DEF SingleFlight
  <1>6. (\A x \in Boards : cache[x].inflight # None
           => InFlight(cache[x].inflight) /\ gens[cache[x].inflight].board = x)'
    <2> SUFFICES ASSUME NEW x \in Boards, cache'[x].inflight # None
                 PROVE  (InFlight(cache[x].inflight) /\ gens[cache[x].inflight].board = x)'
      OBVIOUS
    <2>1. x # b /\ cache'[x] = cache[x]
      BY <1>2
    <2>2. PICK h \in Generations : h = cache[x].inflight /\ InFlight(h) /\ gens[h].board = x
      BY <2>1 DEF SingleFlight, TypeOK, Row
    <2> QED
      BY <1>3, <2>1, <2>2 DEF InFlight
  <1>7. /\ \A h \in Generations : InFlight(h)' =>
             cache'[gens'[h].board].inflight = h /\ cache'[gens'[h].board].loaded
        /\ \A h \in Generations : Outstanding(h)' => cache'[gens'[h].board].collecting
        /\ \A x \in Boards : ~cache'[x].loaded => cache'[x].current = None
        /\ OneCollector'
    BY <1>2, <1>3, <1>4, <1>5 DEF SingleFlight, OneCollector
  <1> QED
    BY <1>6, <1>7 DEF SingleFlight

\* A crash takes the cache and its generations together.
LEMMA FlightCrash ==
  ASSUME TypeOK, SingleFlight, NEW b \in Boards, Crash(b)
  PROVE  SingleFlight'
  <1>1. /\ cache'[b].inflight = None /\ cache'[b].current = None
        /\ \A x \in Boards : x # b => cache'[x] = cache[x]
    BY DEF TypeOK, Crash, Cold
  <1>2. \A h \in Generations :
          /\ (gens[h].board = b => ~InFlight(h)' /\ ~Outstanding(h)')
          /\ (gens[h].board # b => /\ gens'[h] = gens[h]
                                  /\ (InFlight(h)' <=> InFlight(h))
                                  /\ (Outstanding(h)' <=> Outstanding(h)))
    BY DEF Crash, InFlight, Outstanding, Unused
  <1>3. \A h \in Generations : InFlight(h) \/ Outstanding(h) => gens[h].board \in Boards
    BY DEF TypeOK, Generation, InFlight, Outstanding
  <1>4. (\A x \in Boards : cache[x].inflight # None
           => InFlight(cache[x].inflight) /\ gens[cache[x].inflight].board = x)'
    <2> SUFFICES ASSUME NEW x \in Boards, cache'[x].inflight # None
                 PROVE  (InFlight(cache[x].inflight) /\ gens[cache[x].inflight].board = x)'
      OBVIOUS
    <2>1. x # b /\ cache'[x] = cache[x]
      BY <1>1
    <2>2. PICK h \in Generations : h = cache[x].inflight /\ InFlight(h) /\ gens[h].board = x
      BY <2>1 DEF SingleFlight, TypeOK, Row
    <2> QED
      BY <1>2, <2>1, <2>2 DEF InFlight
  <1>5. /\ \A h \in Generations : InFlight(h)' =>
             cache'[gens'[h].board].inflight = h /\ cache'[gens'[h].board].loaded
        /\ \A h \in Generations : Outstanding(h)' => cache'[gens'[h].board].collecting
        /\ \A x \in Boards : ~cache'[x].loaded => cache'[x].current = None
        /\ OneCollector'
    BY <1>1, <1>2, <1>3 DEF SingleFlight, OneCollector
  <1> QED
    BY <1>4, <1>5 DEF SingleFlight

\* A caller's section: a read, or the start or the end of a refresh.
LEMMA FlightCalls ==
  ASSUME TypeOK, SingleFlight, Calls
  PROVE  SingleFlight'
  <1>1. PICK c \in Callers : \/ \E b \in Boards : Read(c, b) \/ Refresh(c, b)
                           \/ BeginRefresh(c)
                           \/ Answer(c)
                           \/ Abandon(c)
    BY DEF Calls
  <1>2. ASSUME NEW b \in Boards, Read(c, b) PROVE SingleFlight'
    <2> DEFINE row == Loaded(cache[b])
    <2>1. /\ row \in Row /\ row.loaded /\ row.inflight = cache[b].inflight
          /\ row.collecting = cache[b].collecting
      BY LoadedRow
    <2>2. cache' = [cache EXCEPT ![b] = row] /\ gens' = gens
      BY <1>2 DEF Read
    <2> HIDE DEF row
    <2> QED
      BY <2>1, <2>2, FlightRead
  <1>3. ASSUME UNCHANGED << cache, gens >> PROVE SingleFlight'
    BY <1>3 DEF SingleFlight, OneCollector, InFlight, Outstanding
  <1>4. ASSUME BeginRefresh(c) PROVE SingleFlight'
    <2>1. PICK b \in Boards : Begun(c, b, Loaded(cache[b]))
      BY <1>4, RefreshEffect
    <2>2. PICK row : row = Loaded(cache[b])
      OBVIOUS
    <2>3. /\ row \in Row /\ row.loaded /\ row.inflight = cache[b].inflight
          /\ row.collecting = cache[b].collecting
      BY <2>2, LoadedRow
    <2>4. CASE gens' = gens /\ cache' = [cache EXCEPT ![b] = row]
      BY <2>3, <2>4, FlightRead
    <2>5. CASE gens' = gens /\ cache' = [cache EXCEPT ![b] = [row EXCEPT !.failed = TRUE]]
      <3>1. PICK refused : refused = [row EXCEPT !.failed = TRUE]
        OBVIOUS
      <3>2. /\ refused \in Row /\ refused.loaded /\ refused.inflight = cache[b].inflight
            /\ refused.collecting = cache[b].collecting
        BY <2>3, <3>1 DEF Row
      <3> QED
        BY <2>5, <3>1, <3>2, FlightRead
    <2>6. ASSUME NEW g \in Generations, row.inflight = None, ~row.collecting, Free(g),
                 gens' = [gens EXCEPT ![g] = Started(b)],
                 cache' = [cache EXCEPT ![b] = [row EXCEPT !.collecting = TRUE, !.inflight = g]]
          PROVE  SingleFlight'
      BY <2>3, <2>6, FlightStart
    <2> QED
      BY <2>1, <2>2, <2>4, <2>5, <2>6 DEF Begun
  <1> QED
    BY <1>1, <1>2, <1>3, <1>4 DEF Refresh, Answer, Abandon

\* Every step keeps the pointers, the flag and the generations in step.
LEMMA FlightStep == TypeOK /\ SingleFlight /\ [Next]_vars => SingleFlight'
  <1> SUFFICES ASSUME TypeOK, SingleFlight, [Next]_vars PROVE SingleFlight'
    OBVIOUS
  <1>1. ASSUME UNCHANGED << cache, gens >> PROVE SingleFlight'
    BY <1>1 DEF SingleFlight, OneCollector, InFlight, Outstanding
  <1>2. ASSUME Goroutines PROVE SingleFlight'
    <2>1. PICK g \in Generations : \/ Collect(g) \/ Return(g) \/ Clear(g) \/ Expire(g)
                                  \/ Receive(g) \/ Timeout(g) \/ Persist(g) \/ Publish(g)
      BY <1>2 DEF Goroutines
    <2>2. CASE Collect(g) \/ Return(g) \/ Expire(g) \/ Receive(g) \/ Timeout(g) \/ Persist(g)
      <3>1. /\ cache' = cache
            /\ \A h \in Generations :
                 /\ gens'[h].board = gens[h].board
                 /\ (InFlight(h)' <=> InFlight(h))
                 /\ (Outstanding(h)' => Outstanding(h))
        BY <2>2
        DEF TypeOK, Generation, InFlight, Outstanding, Collect, Return, Expire, Receive,
            Timeout, Persist
      <3> QED
        BY <3>1, FlightFrame
    <2> QED
      BY <2>1, <2>2, FlightClear, FlightPublish
  <1> QED
    BY <1>1, <1>2, FlightCalls, FlightCrash DEF Next, Change, Damage, vars

\* A process never has two collectors, however many callers refresh and however
\* long a collector ignores its deadline.
THEOREM OneCollectorCorrect == Spec => []OneCollector
  <1>1. Init => SingleFlight
    BY DEF Init, SingleFlight, OneCollector, InFlight, Outstanding, Cold, Unused
  <1>2. SingleFlight => OneCollector
    BY DEF SingleFlight
  <1> QED
    BY <1>1, <1>2, InitTypeOK, TypeStep, FlightStep, PTL DEF Spec
-----------------------------------------------------------------------------
\* What a caller's step does to what is shown: nothing, or the first look at the
\* file.
LEMMA CallsCurrents ==
  ASSUME TypeOK, Calls, NEW x \in Boards
  PROVE  \/ cache'[x].current = cache[x].current
         \/ /\ ~cache[x].loaded
            /\ (cache'[x].current = None \/ (cache'[x].current = disk /\ disk \in Artifact))
  <1> DEFINE Goal == \/ cache'[x].current = cache[x].current
                     \/ /\ ~cache[x].loaded
                        /\ (cache'[x].current = None
                             \/ (cache'[x].current = disk /\ disk \in Artifact))
  <1>1. PICK c \in Callers : \/ \E b \in Boards : Read(c, b) \/ Refresh(c, b)
                           \/ BeginRefresh(c)
                           \/ Answer(c)
                           \/ Abandon(c)
    BY DEF Calls
  <1>2. ASSUME NEW b \in Boards, NEW row, row = Loaded(cache[b]),
               NEW new, new.current = row.current, cache' = [cache EXCEPT ![b] = new]
        PROVE  Goal
    <2>1. /\ cache[b].loaded => row.current = cache[b].current
          /\ ~cache[b].loaded => row.current = None \/ (row.current = disk /\ disk \in Artifact)
      BY <1>2, LoadedRow
    <2>2. CASE x = b
      <3>1. cache'[x] = new
        BY <1>2, <2>2 DEF TypeOK
      <3> QED
        BY <1>2, <2>1, <2>2, <3>1
    <2>3. CASE x # b
      BY <1>2, <2>3 DEF TypeOK
    <2> QED
      BY <2>2, <2>3
  <1>3. ASSUME NEW b \in Boards, Read(c, b) PROVE Goal
    BY <1>2, <1>3 DEF Read
  <1>4. ASSUME BeginRefresh(c) PROVE Goal
    <2>1. PICK b \in Boards : Begun(c, b, Loaded(cache[b]))
      BY <1>4, RefreshEffect
    <2>2. PICK row \in Row : row = Loaded(cache[b])
      BY LoadedIsRow
    <2>3. /\ [row EXCEPT !.failed = TRUE].current = row.current
          /\ \A g : [row EXCEPT !.collecting = TRUE, !.inflight = g].current = row.current
      BY DEF Row
    <2>4. \E new : new.current = row.current /\ cache' = [cache EXCEPT ![b] = new]
      BY <2>1, <2>2, <2>3 DEF Begun
    <2> QED
      BY <1>2, <2>2, <2>4
  <1>5. ASSUME UNCHANGED cache PROVE Goal
    BY <1>5
  <1> QED
    BY <1>1, <1>3, <1>4, <1>5 DEF Refresh, Answer, Abandon

\* And to the generations: it may start one that nobody refers to.
LEMMA CallsGenerations ==
  ASSUME TypeOK, Calls, NEW g \in Generations
  PROVE  \/ gens'[g] = gens[g]
         \/ Free(g) /\ \E b \in Boards : gens'[g] = Started(b)
  <1>1. CASE UNCHANGED gens
    BY <1>1
  <1>2. ASSUME NEW c \in Callers, BeginRefresh(c)
        PROVE  \/ gens'[g] = gens[g]
               \/ Free(g) /\ \E b \in Boards : gens'[g] = Started(b)
    <2>1. PICK b \in Boards : Begun(c, b, Loaded(cache[b]))
      BY <1>2, RefreshEffect
    <2> QED
      BY <2>1 DEF Begun, TypeOK
  <1> QED
    BY <1>1, <1>2 DEF Calls, Read, Refresh, Answer, Abandon

\* Calls keep the order of the collections.
LEMMA OrderCalls ==
  ASSUME TypeOK, SingleFlight, InOrder, Calls
  PROVE  InOrder'
  <1>1. source' = source /\ disk' = disk
    BY DEF Calls, Read, Refresh, BeginRefresh, Answer, Abandon
  <1>2. \A x \in Boards : cache'[x].current # None => Sound(cache'[x].current)
    BY CallsCurrents DEF InOrder
  <1>3. ASSUME NEW g \in Generations
        PROVE  (/\ gens[g].seen # None => gens[g].seen <= source
                /\ gens[g].sent \in Artifact =>
                     gens[g].sent.version <= source /\ (gens[g].sent.late => gens[g].expired)
                /\ gens[g].artifact # None => Sound(gens[g].artifact)
                /\ InFlight(g) /\ cache[gens[g].board].current # None
                   => From(g, cache[gens[g].board].current.version))'
    <2>1. CASE gens'[g] = gens[g]
      <3>1. InFlight(g) => gens[g].board \in Boards /\ cache[gens[g].board].loaded
        BY DEF SingleFlight, TypeOK, Generation, InFlight
      <3>2. InFlight(g) => cache'[gens[g].board].current = cache[gens[g].board].current
        BY <3>1, CallsCurrents
      <3> QED
        BY <1>1, <2>1, <3>2 DEF InOrder, InFlight, From, Sound
    <2>2. CASE \E b \in Boards : gens'[g] = Started(b)
      BY <2>2, CacheAssumption DEF Started, Unused, From
    <2> QED
      BY <2>1, <2>2, CallsGenerations
  <1> QED
    BY <1>1, <1>2, <1>3 DEF InOrder, Sound

\* A step of a goroutine that publishes nothing keeps it when it keeps every
\* generation in order.
LEMMA OrderFrame ==
  ASSUME TypeOK, InOrder, source' = source, cache' = cache,
         disk' \in Artifact => Sound(disk'),
         NEW g \in Generations, \A h \in Generations : h # g => gens'[h] = gens[h],
         gens'[g].board = gens[g].board,
         (InFlight(g)' => InFlight(g)),
         gens'[g].seen # None => gens'[g].seen <= source,
         gens'[g].sent \in Artifact =>
           gens'[g].sent.version <= source /\ (gens'[g].sent.late => gens'[g].expired),
         gens'[g].artifact # None => Sound(gens'[g].artifact),
         \A v \in Versions : v <= source /\ From(g, v) => From(g, v)'
  PROVE  InOrder'
  <1>1. (\A h \in Generations :
           /\ gens[h].seen # None => gens[h].seen <= source
           /\ gens[h].sent \in Artifact =>
                gens[h].sent.version <= source /\ (gens[h].sent.late => gens[h].expired)
           /\ gens[h].artifact # None => Sound(gens[h].artifact)
           /\ InFlight(h) /\ cache[gens[h].board].current # None
              => From(h, cache[gens[h].board].current.version))'
    <2> TAKE h \in Generations
    <2>1. CASE h # g
      BY <2>1 DEF InOrder, InFlight, From, Sound
    <2>2. CASE h = g
      <3> DEFINE a == cache[gens[g].board].current
      <3>1. InFlight(g) => gens[g].board \in Boards
        BY DEF TypeOK, Generation, InFlight
      <3>2. InFlight(g) /\ a # None => a.version \in Versions /\ a.version <= source
        BY <3>1 DEF TypeOK, Row, InOrder, Sound, Artifact
      <3>3. InFlight(g)' /\ a # None => From(g, a.version)'
        BY <3>2 DEF InOrder, From
      <3> QED
        BY <2>2, <3>3 DEF Sound, From
    <2> QED
      BY <2>1, <2>2
  <1>2. (disk \in Artifact => Sound(disk))'
    BY DEF Sound
  <1>3. (\A b \in Boards : cache[b].current # None => Sound(cache[b].current))'
    BY DEF InOrder, Sound
  <1> QED
    BY <1>1, <1>2, <1>3 DEF InOrder

\* Publishing shows an artifact that is not older than what was shown.
LEMMA PublishEffect ==
  ASSUME TypeOK, SingleFlight, InOrder, NEW g \in Generations, Publish(g)
  PROVE  /\ gens[g].board \in Boards
         /\ InFlight(g)
         /\ \A b \in Boards : b # gens[g].board => cache'[b] = cache[b]
         /\ \A h \in Generations : h # g => gens'[h] = gens[h]
         /\ gens'[g] = [gens[g] EXCEPT !.at = "ended"]
         /\ gens[g].artifact = None =>
              cache'[gens[g].board].current = cache[gens[g].board].current
         /\ gens[g].artifact # None =>
              /\ cache'[gens[g].board].current = gens[g].artifact
              /\ Sound(gens[g].artifact)
              /\ cache[gens[g].board].current # None
                 => cache[gens[g].board].current.version <= gens[g].artifact.version
  <1>1. gens[g].board \in Boards /\ InFlight(g)
    BY DEF TypeOK, Generation, Publish, InFlight
  <1>2. /\ \A b \in Boards : b # gens[g].board => cache'[b] = cache[b]
        /\ \A h \in Generations : h # g => gens'[h] = gens[h]
        /\ gens'[g] = [gens[g] EXCEPT !.at = "ended"]
    BY <1>1 DEF TypeOK, Publish
  <1>3. /\ gens[g].artifact = None =>
             cache'[gens[g].board].current = cache[gens[g].board].current
        /\ gens[g].artifact # None => cache'[gens[g].board].current = gens[g].artifact
    BY <1>1 DEF TypeOK, Row, Publish
  <1> QED
    BY <1>1, <1>2, <1>3 DEF InOrder, From

\* Goroutines keep the order of the collections.
LEMMA OrderGoroutines ==
  ASSUME TypeOK, SingleFlight, InOrder, Goroutines
  PROVE  InOrder'
  <1>1. PICK g \in Generations : \/ Collect(g) \/ Return(g) \/ Clear(g) \/ Expire(g)
                                \/ Receive(g) \/ Timeout(g) \/ Persist(g) \/ Publish(g)
    BY DEF Goroutines
  <1>2. gens[g] \in Generation /\ source \in Versions
    BY DEF TypeOK
  <1>3. /\ gens[g].seen # None => gens[g].seen <= source
        /\ gens[g].sent \in Artifact =>
             gens[g].sent.version <= source /\ (gens[g].sent.late => gens[g].expired)
        /\ gens[g].artifact # None => Sound(gens[g].artifact)
        /\ disk \in Artifact => Sound(disk)
    BY DEF InOrder
  <1> USE CacheAssumption DEF Generation, Phases, CollectorPhases
  <1>4. CASE Collect(g)
    <2>1. /\ gens'[g] = [gens[g] EXCEPT !.seen = source]
          /\ \A h \in Generations : h # g => gens'[h] = gens[h]
      BY <1>4 DEF Collect, TypeOK
    <2>2. /\ gens'[g].seen = source /\ gens'[g].sent = gens[g].sent
          /\ gens'[g].artifact = gens[g].artifact /\ gens'[g].expired = gens[g].expired
          /\ gens'[g].board = gens[g].board /\ gens'[g].at = gens[g].at
      BY <1>2, <2>1
    <2>3. \A v \in Versions : v <= source /\ From(g, v) => From(g, v)'
      BY <2>2 DEF From
    <2>4. source <= source
      BY <1>2 DEF Versions
    <2> QED
      BY <1>3, <1>4, <2>1, <2>2, <2>3, <2>4, OrderFrame DEF Collect, InFlight, Sound
  <1>5. CASE Return(g)
    <2>1. PICK a : /\ a = Broken \/ (gens[g].seen # None /\
                        a = [version |-> gens[g].seen, late |-> gens[g].expired])
                   /\ gens'[g] = [gens[g] EXCEPT !.collector = "returned", !.sent = a]
                   /\ \A h \in Generations : h # g => gens'[h] = gens[h]
      <3>1. CASE gens' = [gens EXCEPT ![g].collector = "returned", ![g].sent = Broken]
        BY <3>1 DEF TypeOK
      <3>2. CASE /\ gens[g].seen # None
                 /\ gens' = [gens EXCEPT
                      ![g].collector = "returned",
                      ![g].sent = [version |-> gens[g].seen, late |-> gens[g].expired]]
        BY <3>2 DEF TypeOK
      <3> QED
        BY <1>5, <3>1, <3>2 DEF Return
    <2>2. a \in Artifact => /\ gens[g].seen # None
                            /\ a.version = gens[g].seen /\ a.late = gens[g].expired
      BY <2>1
    <2>3. /\ gens'[g].sent = a /\ gens'[g].seen = gens[g].seen
          /\ gens'[g].artifact = gens[g].artifact /\ gens'[g].expired = gens[g].expired
          /\ gens'[g].board = gens[g].board /\ gens'[g].at = gens[g].at
      BY <1>2, <2>1
    <2>4. \A v \in Versions : v <= source /\ From(g, v) => From(g, v)'
      BY <2>2, <2>3 DEF From
    <2> QED
      BY <1>3, <1>5, <2>1, <2>2, <2>3, <2>4, OrderFrame DEF Return, InFlight, Sound
  <1>6. CASE Expire(g)
    <2>1. /\ gens'[g] = [gens[g] EXCEPT !.expired = TRUE]
          /\ \A h \in Generations : h # g => gens'[h] = gens[h]
      BY <1>6 DEF Expire, TypeOK
    <2>2. \A v \in Versions : v <= source /\ From(g, v) => From(g, v)'
      BY <1>2, <2>1 DEF From
    <2> QED
      BY <1>2, <1>3, <1>6, <2>1, <2>2, OrderFrame DEF Expire, InFlight, Sound
  <1>7. CASE Receive(g)
    <2>1. PICK a : /\ a = gens[g].artifact \/ (Acceptable(g) /\ a = gens[g].sent)
                   /\ gens'[g].artifact = a /\ gens'[g].sent = None
                   /\ gens'[g].seen = gens[g].seen /\ gens'[g].board = gens[g].board
                   /\ \A h \in Generations : h # g => gens'[h] = gens[h]
      BY <1>2, <1>7 DEF Receive, TypeOK
    <2>2. Acceptable(g) => gens[g].sent \in Artifact /\ ~gens[g].sent.late
      BY <1>2, <1>3 DEF Acceptable, Artifact
    <2>3. \A v \in Versions : v <= source /\ From(g, v) => From(g, v)'
      BY <2>1, <2>2 DEF From, Artifact
    <2>4. InFlight(g)
      BY <1>7 DEF Receive, InFlight
    <2>5. a # None => Sound(a)
      BY <1>3, <2>1, <2>2 DEF Sound
    <2> QED
      BY <1>3, <1>7, <2>1, <2>3, <2>4, <2>5, OrderFrame DEF Receive, Sound, Artifact
  <1>8. CASE Timeout(g)
    <2>1. /\ gens'[g] = [gens[g] EXCEPT !.at = "publish"]
          /\ \A h \in Generations : h # g => gens'[h] = gens[h]
      BY <1>8 DEF Timeout, TypeOK
    <2>2. \A v \in Versions : v <= source /\ From(g, v) => From(g, v)'
      BY <1>2, <2>1 DEF From
    <2> QED
      BY <1>2, <1>3, <1>8, <2>1, <2>2, OrderFrame DEF Timeout, InFlight, Sound
  <1>9. CASE Persist(g)
    <2>1. /\ gens'[g].artifact = gens[g].artifact /\ gens'[g].sent = gens[g].sent
          /\ gens'[g].seen = gens[g].seen /\ gens'[g].board = gens[g].board
          /\ gens'[g].expired = gens[g].expired
          /\ \A h \in Generations : h # g => gens'[h] = gens[h]
      BY <1>2, <1>9 DEF Persist, TypeOK
    <2>2. \A v \in Versions : v <= source /\ From(g, v) => From(g, v)'
      BY <2>1 DEF From
    <2>3. disk' \in Artifact => Sound(disk')
      BY <1>3, <1>9 DEF Persist, Persisted, Sound, Artifact
    <2>4. InFlight(g)
      BY <1>9 DEF Persist, InFlight
    <2> QED
      BY <1>3, <1>9, <2>1, <2>2, <2>3, <2>4, OrderFrame DEF Persist, Sound
  <1>10. CASE Clear(g)
    <2>1. \A b \in Boards : cache'[b].current = cache[b].current
      BY <1>10 DEF Clear, TypeOK, Row
    <2>2. \A h \in Generations :
            /\ gens'[h].artifact = gens[h].artifact /\ gens'[h].sent = gens[h].sent
            /\ gens'[h].seen = gens[h].seen /\ gens'[h].board = gens[h].board
            /\ gens'[h].expired = gens[h].expired /\ gens'[h].at = gens[h].at
      BY <1>10 DEF Clear, TypeOK
    <2>3. \A h \in Generations : InFlight(h) => gens[h].board \in Boards
      BY DEF TypeOK, InFlight
    <2>4. source' = source /\ disk' = disk
      BY <1>10 DEF Clear
    <2> QED
      BY <2>1, <2>2, <2>3, <2>4 DEF InOrder, From, Sound, InFlight
  <1>11. CASE Publish(g)
    <2>1. source' = source /\ disk' = disk
      BY <1>11 DEF Publish
    <2>2. \A b \in Boards : cache'[b].current # None => Sound(cache'[b].current)
      BY <1>11, PublishEffect DEF InOrder
    <2>3. \A h \in Generations :
            /\ gens'[h].artifact = gens[h].artifact /\ gens'[h].sent = gens[h].sent
            /\ gens'[h].seen = gens[h].seen /\ gens'[h].board = gens[h].board
            /\ gens'[h].expired = gens[h].expired
            /\ (InFlight(h)' => InFlight(h) /\ h # g)
      <3> TAKE h \in Generations
      <3>1. CASE h = g
        <4>1. gens'[g] = [gens[g] EXCEPT !.at = "ended"]
          BY <1>11, PublishEffect
        <4>2. ~InFlight(g)'
          BY <1>2, <4>1 DEF InFlight
        <4> QED
          BY <1>2, <3>1, <4>1, <4>2
      <3>2. CASE h # g
        BY <1>11, <3>2, PublishEffect DEF InFlight
      <3> QED
        BY <3>1, <3>2
    <2>4. \A h \in Generations : InFlight(h)' =>
            cache'[gens[h].board].current = cache[gens[h].board].current
      <3> TAKE h \in Generations
      <3> HAVE InFlight(h)'
      <3>1. InFlight(h) /\ h # g /\ InFlight(g)
        BY <1>11, <2>3, PublishEffect
      <3>2. gens[h].board \in Boards
        BY <3>1 DEF TypeOK, InFlight
      <3>3. gens[h].board # gens[g].board
        BY <3>1 DEF SingleFlight
      <3> QED
        BY <1>11, <3>2, <3>3, PublishEffect
    <2> QED
      BY <2>1, <2>2, <2>3, <2>4 DEF InOrder, From, Sound
  <1> QED
    BY <1>1, <1>4, <1>5, <1>6, <1>7, <1>8, <1>9, <1>10, <1>11

\* Every step keeps the order of the collections.
LEMMA OrderStep == TypeOK /\ SingleFlight /\ InOrder /\ [Next]_vars => InOrder'
  <1> SUFFICES ASSUME TypeOK, SingleFlight, InOrder, [Next]_vars PROVE InOrder'
    OBVIOUS
  <1>1. CASE Change
    <2>1. /\ source \in Nat /\ source' = source + 1
          /\ disk' = disk /\ cache' = cache /\ gens' = gens
      BY <1>1 DEF Change, TypeOK, Versions
    <2>2. \A a \in Artifact : Sound(a) => Sound(a)'
      BY <2>1 DEF Sound, Artifact, Versions
    <2>3. \A b \in Boards : cache[b].current \in Artifact \cup {None}
      BY DEF TypeOK, Row
    <2>4. \A g \in Generations :
            /\ gens[g].seen # None => gens[g].seen \in Nat
            /\ gens[g].sent \in Artifact => gens[g].sent.version \in Nat
            /\ gens[g].artifact \in Artifact \cup {None}
      BY DEF TypeOK, Generation, Artifact, Versions
    <2>5. \A n \in Nat : n <= source => n <= source'
      BY <2>1
    <2>6. \A g \in Generations : InFlight(g)' <=> InFlight(g)
      BY <2>1 DEF InFlight
    <2> QED
      BY <2>1, <2>2, <2>3, <2>4, <2>5, <2>6 DEF InOrder, From
  <1>2. CASE Damage
    BY <1>2, CacheAssumption DEF Damage, InOrder, Sound, From, InFlight
  <1>3. ASSUME NEW b \in Boards, Crash(b) PROVE InOrder'
    <2>1. /\ source' = source /\ disk' = disk
          /\ cache'[b].current = None
          /\ \A x \in Boards : x # b => cache'[x] = cache[x]
      BY <1>3 DEF Crash, TypeOK, Cold
    <2>2. \A g \in Generations : gens'[g] = gens[g] \/ gens'[g] = Unused
      BY <1>3 DEF Crash
    <2>3. \A g \in Generations : InFlight(g) => gens[g].board \in Boards
      BY DEF TypeOK, Generation, InFlight
    <2>4. ASSUME NEW g \in Generations
          PROVE  (/\ gens[g].seen # None => gens[g].seen <= source
                  /\ gens[g].sent \in Artifact =>
                       gens[g].sent.version <= source /\ (gens[g].sent.late => gens[g].expired)
                  /\ gens[g].artifact # None => Sound(gens[g].artifact)
                  /\ InFlight(g) /\ cache[gens[g].board].current # None
                     => From(g, cache[gens[g].board].current.version))'
      <3>1. CASE gens'[g] = gens[g]
        BY <2>1, <2>3, <3>1 DEF InOrder, InFlight, From, Sound
      <3>2. CASE gens'[g] = Unused
        BY <2>1, <3>2, CacheAssumption DEF Unused, InFlight
      <3> QED
        BY <2>2, <3>1, <3>2
    <2> QED
      BY <2>1, <2>4 DEF InOrder, Sound
  <1>4. CASE UNCHANGED vars
    BY <1>4 DEF vars, InOrder, Sound, From, InFlight
  <1> QED
    BY <1>1, <1>2, <1>3, <1>4, OrderCalls, OrderGoroutines DEF Next

\* It holds at the start.
LEMMA OrderInit == Init => SingleFlight /\ InOrder
  BY CacheAssumption
  DEF Init, SingleFlight, OneCollector, InFlight, Outstanding, Cold, Unused, InOrder, From

\* A result that came after the deadline of its generation is never shown and
\* never kept, whatever the select of the waiting goroutine picks.
THEOREM LateResultsCorrect == Spec => []LateResultsDiscarded
  <1>1. InOrder => LateResultsDiscarded
    BY DEF InOrder, Sound, LateResultsDiscarded
  <1> QED
    BY <1>1, OrderInit, InitTypeOK, TypeStep, FlightStep, OrderStep, PTL DEF Spec

\* No step takes what a process shows back to an earlier version.
LEMMA ShownStep ==
  ASSUME TypeOK, SingleFlight, InOrder, [Next]_vars, NEW b \in Boards,
         cache[b].current # None, cache'[b].current # None
  PROVE  cache[b].current.version <= cache'[b].current.version
  <1>1. cache[b].loaded /\ cache[b].current \in Artifact
    BY DEF SingleFlight, TypeOK, Row
  <1>2. cache[b].current.version \in Nat
    BY <1>1 DEF Artifact, Versions
  <1>3. ASSUME cache'[b].current = cache[b].current
        PROVE  cache[b].current.version <= cache'[b].current.version
    BY <1>2, <1>3
  <1>4. CASE Calls
    BY <1>1, <1>3, <1>4, CallsCurrents
  <1>5. ASSUME NEW g \in Generations, Publish(g)
        PROVE  cache[b].current.version <= cache'[b].current.version
    BY <1>3, <1>5, PublishEffect
  <1>6. ASSUME NEW g \in Generations, Clear(g)
        PROVE  cache[b].current.version <= cache'[b].current.version
    <2>1. cache'[b].current = cache[b].current
      BY <1>6 DEF Clear, TypeOK, Row
    <2> QED
      BY <1>3, <2>1
  <1>7. ASSUME NEW x \in Boards, Crash(x)
        PROVE  cache[b].current.version <= cache'[b].current.version
    <2>1. x # b
      BY <1>7 DEF Crash, TypeOK, Cold
    <2>2. cache'[b].current = cache[b].current
      BY <1>7, <2>1 DEF Crash, TypeOK
    <2> QED
      BY <1>3, <2>2
  <1>8. CASE UNCHANGED cache
    BY <1>3, <1>8
  <1> QED
    BY <1>4, <1>5, <1>6, <1>7, <1>8
    DEF Next, Goroutines, Change, Damage, Collect, Return, Expire, Receive, Timeout, Persist,
        vars

\* What a process shows never goes back to an earlier state of the Board.
THEOREM PublishedInOrderCorrect == Spec => PublishedInOrder
  <1>1. TypeOK /\ SingleFlight /\ InOrder /\ [Next]_vars =>
          [ \A b \in Boards :
              cache[b].current # None /\ cache'[b].current # None
              => cache[b].current.version <= cache'[b].current.version ]_vars
    BY ShownStep
  <1> QED
    BY <1>1, OrderInit, InitTypeOK, TypeStep, FlightStep, OrderStep, PTL
    DEF Spec, PublishedInOrder
-----------------------------------------------------------------------------
\* A caller's section shows what was shown, for a generation it does not start.
LEMMA ShownCalls ==
  ASSUME TypeOK, SingleFlight, Calls, NEW g \in Generations, NEW b \in Boards,
         gens'[g] = gens[g], Shown(g, b)
  PROVE  Shown(g, b)'
  <1>1. cache[b].current # None => cache'[b].current = cache[b].current
    BY CallsCurrents DEF SingleFlight
  <1> QED
    BY <1>1 DEF Shown

\* So does a step of a goroutine, and the generation stays what it is.
LEMMA ShownGoroutines ==
  ASSUME TypeOK, SingleFlight, InOrder, Goroutines,
         NEW g \in Generations, gens[g].at # "unused", NEW b \in Boards,
         b = gens[g].board, Shown(g, b)
  PROVE  gens'[g].at # "unused" /\ gens'[g].board = b /\ Shown(g, b)'
  <1>1. PICK h \in Generations : \/ Collect(h) \/ Return(h) \/ Clear(h) \/ Expire(h)
                                \/ Receive(h) \/ Timeout(h) \/ Persist(h) \/ Publish(h)
    BY DEF Goroutines
  <1>2. CASE Publish(h)
    <2>1. g # h => gens'[g] = gens[g]
      BY <1>2, PublishEffect
    <2>2. g = h => /\ gens'[g].at = "ended" /\ gens'[g].board = gens[g].board
                   /\ gens'[g].artifact = gens[g].artifact
      <3>1. gens'[h] = [gens[h] EXCEPT !.at = "ended"] /\ gens[h] \in Generation
        BY <1>2, PublishEffect DEF TypeOK
      <3> QED
        BY <3>1 DEF Generation
    <2>3. g = h => Shown(g, b)'
      <3>1. SUFFICES ASSUME g = h, gens[g].artifact # None PROVE Shown(g, b)'
        BY <2>2 DEF Shown
      <3>2. cache'[b].current = gens[g].artifact
        BY <1>2, <3>1, PublishEffect
      <3>3. gens[g].artifact.version \in Nat
        BY <3>1 DEF TypeOK, Generation, Artifact, Versions
      <3> QED
        BY <2>2, <3>1, <3>2, <3>3 DEF Shown
    <2>4. g # h => Shown(g, b)'
      <3>1. SUFFICES ASSUME g # h, gens[g].at = "ended", gens[g].artifact # None
                     PROVE  Shown(g, b)'
        BY <2>1 DEF Shown
      <3>2. cache[b].current # None /\ gens[g].artifact.version <= cache[b].current.version
        BY <3>1 DEF Shown
      <3>3. /\ cache[b].current.version \in Nat /\ gens[g].artifact.version \in Nat
            /\ gens[h].artifact # None => gens[h].artifact.version \in Nat
        BY <3>1, <3>2 DEF TypeOK, Row, Generation, Artifact, Versions
      <3>4. \/ cache'[b].current = cache[b].current
            \/ /\ gens[h].artifact # None /\ cache'[b].current = gens[h].artifact
               /\ cache[b].current.version <= gens[h].artifact.version
        BY <1>2, <3>2, PublishEffect
      <3> QED
        BY <2>1, <3>1, <3>2, <3>3, <3>4 DEF Shown
    <2> QED
      BY <2>1, <2>2, <2>3, <2>4
  <1>3. CASE ~Publish(h)
    <2>1. cache'[b].current = cache[b].current
      BY <1>1, <1>3
      DEF TypeOK, Row, Generation, Collect, Return, Clear, Expire, Receive, Timeout, Persist
    <2>2. /\ gens'[g].at # "unused" /\ gens'[g].board = gens[g].board
          /\ gens'[g].at = "ended" => gens[g].at = "ended"
                                      /\ gens'[g].artifact = gens[g].artifact
      BY <1>1, <1>3
      DEF TypeOK, Generation, Collect, Return, Clear, Expire, Receive, Timeout, Persist
    <2> QED
      BY <2>1, <2>2 DEF Shown
  <1> QED
    BY <1>2, <1>3

\* A caller's section keeps what the waiting callers rely on.
LEMMA WaitersCalls ==
  ASSUME TypeOK, SingleFlight, Waiters, Calls
  PROVE  Waiters'
  <1>1. PICK c \in Callers : \/ \E b \in Boards : Read(c, b) \/ Refresh(c, b)
                           \/ BeginRefresh(c)
                           \/ Answer(c)
                           \/ Abandon(c)
    BY DEF Calls
  <1> DEFINE Fine(x) ==
        /\ callers[x].at \in {"begin", "waiting"} => callers[x].answer = "none"
        /\ callers[x].at = "waiting" /\ callers[x].gen # None
           => /\ gens[callers[x].gen].at # "unused"
              /\ gens[callers[x].gen].board = callers[x].board
              /\ Shown(callers[x].gen, callers[x].board)
  <1>2. ASSUME NEW x \in Callers, callers'[x] = callers[x] PROVE Fine(x)'
    <2>1. SUFFICES ASSUME callers[x].at = "waiting", callers[x].gen # None
                   PROVE  (/\ gens[callers[x].gen].at # "unused"
                           /\ gens[callers[x].gen].board = callers[x].board
                           /\ Shown(callers[x].gen, callers[x].board))'
      BY <1>2 DEF Waiters
    <2>2. PICK g \in Generations : g = callers[x].gen
      BY <2>1 DEF TypeOK, Caller
    <2>3. PICK b \in Boards : b = callers[x].board
      BY <2>1 DEF TypeOK, Caller
    <2>4. gens'[g] = gens[g]
      BY <2>2, CallsGenerations DEF Free
    <2>5. gens[g].at # "unused" /\ gens[g].board = b /\ Shown(g, b)
      BY <2>1, <2>2, <2>3 DEF Waiters
    <2>6. Shown(g, b)'
      BY <2>4, <2>5, ShownCalls
    <2> QED
      BY <1>2, <2>2, <2>3, <2>4, <2>5, <2>6 DEF Shown
  <1>3. ASSUME NEW b \in Boards, Read(c, b) PROVE Fine(c)'
    <2>1. \/ \E at \in {"idle", "poke"} : callers'[c] =
                [at |-> at, board |-> IF at = "poke" THEN b ELSE None,
                 gen |-> None, answer |-> "read"]
          \/ callers'[c] = [Idle EXCEPT !.at = "begin", !.board = b]
      BY <1>3 DEF Read, TypeOK
    <2>2. ASSUME callers'[c] = [Idle EXCEPT !.at = "begin", !.board = b] PROVE Fine(c)'
      BY <2>2 DEF Idle
    <2>3. ASSUME NEW at \in {"idle", "poke"}, callers'[c].at = at PROVE Fine(c)'
      BY <2>3
    <2> QED
      BY <2>1, <2>2, <2>3
  <1>4. ASSUME NEW b \in Boards, Refresh(c, b) PROVE Fine(c)'
    BY <1>4 DEF Refresh, TypeOK, Idle
  <1>5. ASSUME Answer(c) \/ Abandon(c) PROVE Fine(c)'
    <2>1. \E x : callers'[c] = [Idle EXCEPT !.answer = x] \/ callers'[c] = Idle
      BY <1>5 DEF Answer, Abandon, TypeOK
    <2>2. callers'[c].at = "idle"
      BY <2>1 DEF Idle
    <2> QED
      BY <2>2
  <1>6. ASSUME BeginRefresh(c) PROVE Fine(c)'
    <2>1. PICK b \in Boards : b = callers[c].board /\ Begun(c, b, Loaded(cache[b]))
      BY <1>6, RefreshEffect
    <2>2. PICK row : /\ row = Loaded(cache[b]) /\ row.inflight = cache[b].inflight
      BY LoadedRow
    <2>3. ASSUME NEW g, Joins(c, g),
                 g # None => g \in Generations /\ gens'[g].at \notin {"unused", "ended"}
                             /\ gens'[g].board = b
          PROVE  Fine(c)'
      <3>1. CASE callers[c].at = "poke"
        BY <2>3, <3>1 DEF Joins, TypeOK, Idle
      <3>2. CASE callers[c].at # "poke"
        <4>1. callers'[c] = [callers[c] EXCEPT !.at = "waiting", !.gen = g]
          BY <2>3, <3>2 DEF Joins, TypeOK
        <4>2. callers[c].at = "begin" /\ callers[c] \in Caller
          BY <1>6, <3>2 DEF BeginRefresh, TypeOK
        <4>3. callers'[c].gen = g /\ callers'[c].board = b /\ callers'[c].answer = "none"
          BY <2>1, <4>1, <4>2 DEF Caller, Waiters
        <4> QED
          BY <2>3, <4>3 DEF Shown
      <3> QED
        BY <3>1, <3>2
    <2>4. CASE row.inflight \in Generations /\ gens' = gens /\ Joins(c, row.inflight)
      <3>1. PICK g \in Generations : g = row.inflight
        BY <2>4
      <3>2. g # None /\ InFlight(g) /\ gens[g].board = b
        BY <2>2, <3>1, CacheAssumption DEF SingleFlight
      <3> QED
        BY <2>3, <2>4, <3>1, <3>2 DEF InFlight
    <2>5. CASE Joins(c, None)
      BY <2>3, <2>5
    <2>6. ASSUME NEW g \in Generations, gens' = [gens EXCEPT ![g] = Started(b)], Joins(c, g)
          PROVE  Fine(c)'
      BY <2>3, <2>6 DEF Started, Unused, TypeOK
    <2> QED
      BY <2>1, <2>2, <2>4, <2>5, <2>6 DEF Begun
  <1>7. \A x \in Callers : x # c => callers'[x] = callers[x]
    BY <1>1 DEF Read, Refresh, BeginRefresh, Joins, Answer, Abandon, TypeOK
  <1>8. \A x \in Callers : Fine(x)'
    <2>1. Fine(c)'
      BY <1>1, <1>3, <1>4, <1>5, <1>6
    <2>2. ASSUME NEW x \in Callers, x # c PROVE Fine(x)'
      BY <1>2, <1>7, <2>2
    <2> HIDE DEF Fine
    <2>3. TAKE x \in Callers
    <2>4. CASE x = c
      BY <2>1, <2>4
    <2>5. CASE x # c
      BY <2>2, <2>5
    <2> QED
      BY <2>4, <2>5
  <1> QED
    BY <1>8 DEF Waiters

\* Goroutines leave the callers alone.
LEMMA WaitersGoroutines ==
  ASSUME TypeOK, SingleFlight, InOrder, Waiters, Goroutines
  PROVE  Waiters'
  <1>1. callers' = callers
    BY DEF Goroutines, Collect, Return, Clear, Expire, Receive, Timeout, Persist, Publish
  <1>2. SUFFICES ASSUME NEW c \in Callers, callers[c].at = "waiting", callers[c].gen # None
                 PROVE  (/\ gens[callers[c].gen].at # "unused"
                         /\ gens[callers[c].gen].board = callers[c].board
                         /\ Shown(callers[c].gen, callers[c].board))'
    BY <1>1 DEF Waiters
  <1>3. PICK g \in Generations, b \in Boards : g = callers[c].gen /\ b = callers[c].board
    BY <1>2 DEF TypeOK, Caller
  <1>4. gens[g].at # "unused" /\ gens[g].board = b /\ Shown(g, b)
    BY <1>2, <1>3 DEF Waiters
  <1>5. gens'[g].at # "unused" /\ gens'[g].board = b /\ Shown(g, b)'
    BY <1>4, ShownGoroutines
  <1> QED
    BY <1>1, <1>3, <1>5 DEF Shown

\* A crash takes the callers with their generations.
LEMMA WaitersCrash ==
  ASSUME TypeOK, Waiters, NEW b \in Boards, Crash(b)
  PROVE  Waiters'
  <1> SUFFICES ASSUME NEW c \in Callers, callers'[c].at \in {"begin", "waiting"}
               PROVE  /\ callers'[c].answer = "none"
                      /\ callers'[c].at = "waiting" /\ callers'[c].gen # None
                         => (/\ gens[callers[c].gen].at # "unused"
                             /\ gens[callers[c].gen].board = callers[c].board
                             /\ Shown(callers[c].gen, callers[c].board))'
    BY DEF Waiters
  <1>1. callers[c].board # b /\ callers'[c] = callers[c]
    BY DEF Crash, Idle
  <1>2. SUFFICES ASSUME callers[c].at = "waiting", callers[c].gen # None
                 PROVE  (/\ gens[callers[c].gen].at # "unused"
                         /\ gens[callers[c].gen].board = callers[c].board
                         /\ Shown(callers[c].gen, callers[c].board))'
    BY <1>1 DEF Waiters
  <1>3. PICK g \in Generations, x \in Boards : g = callers[c].gen /\ x = callers[c].board
    BY <1>2 DEF TypeOK, Caller
  <1>4. gens[g].at # "unused" /\ gens[g].board = x /\ Shown(g, x)
    BY <1>2, <1>3 DEF Waiters
  <1>5. gens'[g] = gens[g] /\ cache'[x] = cache[x]
    BY <1>1, <1>3, <1>4 DEF Crash, TypeOK
  <1> QED
    BY <1>1, <1>3, <1>4, <1>5 DEF Shown

\* Every step keeps what the waiting callers rely on.
LEMMA WaitersStep == TypeOK /\ SingleFlight /\ InOrder /\ Waiters /\ [Next]_vars => Waiters'
  <1>1. Waiters /\ UNCHANGED << cache, gens, callers >> => Waiters'
    BY DEF Waiters, Shown
  <1> QED
    BY <1>1, WaitersCalls, WaitersGoroutines, WaitersCrash DEF Next, Change, Damage, vars

\* Only its own section takes a caller away from its wait with an answer.
LEMMA OnlyAnswers ==
  ASSUME TypeOK, Waiters, [Next]_vars, NEW c \in Callers,
         callers[c].at = "waiting", callers'[c].answer # "none"
  PROVE  Answer(c)
  <1>1. callers'[c] # callers[c]
    BY DEF Waiters
  <1>2. CASE \E b \in Boards : Crash(b)
    BY <1>1, <1>2 DEF Crash, Idle
  <1>3. CASE Calls
    <2>1. PICK x \in Callers : \/ \E b \in Boards : Read(x, b) \/ Refresh(x, b)
                             \/ BeginRefresh(x)
                             \/ Answer(x)
                             \/ Abandon(x)
      BY <1>3 DEF Calls
    <2>2. x = c
      BY <1>1, <2>1 DEF Read, Refresh, BeginRefresh, Joins, Answer, Abandon, TypeOK
    <2>3. ~Abandon(c)
      BY DEF Abandon, TypeOK, Idle
    <2> QED
      BY <2>1, <2>2, <2>3 DEF Read, Refresh, BeginRefresh
  <1> QED
    BY <1>1, <1>2, <1>3
    DEF Next, Change, Damage, Goroutines, Collect, Return, Clear, Expire, Receive, Timeout,
        Persist, Publish, vars

\* A caller that is told "collected" is shown what it waited for.
LEMMA CollectedStep ==
  ASSUME TypeOK, Waiters, [Next]_vars, NEW c \in Callers,
         callers[c].at = "waiting", callers'[c].answer = "collected"
  PROVE  cache[callers[c].board].current.version >= gens[callers[c].gen].artifact.version
  <1>1. Answer(c)
    BY OnlyAnswers
  <1>2. cache[callers[c].board].current # None /\ Succeeded(callers[c].gen)
    <2> DEFINE shown == cache[callers[c].board].current # None
               done == Succeeded(callers[c].gen)
               x == IF ~shown THEN "unavailable" ELSE IF done THEN "collected" ELSE "failed"
    <2>1. callers'[c] = [Idle EXCEPT !.answer = x]
      BY <1>1 DEF Answer, TypeOK
    <2>2. (~shown => x = "unavailable") /\ (shown /\ ~done => x = "failed")
      OBVIOUS
    <2> HIDE DEF x
    <2>3. x = "collected"
      BY <2>1 DEF Idle
    <2> QED
      BY <2>2, <2>3
  <1>3. callers[c].gen # None /\ gens[callers[c].gen].at = "ended"
        /\ gens[callers[c].gen].artifact # None
    BY <1>1, <1>2 DEF Answer, Over, Succeeded
  <1>4. gens[callers[c].gen].artifact.version <= cache[callers[c].board].current.version
    BY <1>3 DEF Waiters, Shown
  <1>5. /\ gens[callers[c].gen].artifact.version \in Nat
        /\ cache[callers[c].board].current.version \in Nat
    BY <1>2, <1>3 DEF TypeOK, Caller, Row, Generation, Artifact, Versions
  <1> QED
    BY <1>4, <1>5

\* So the answer "collected" is true: done is closed after the publication, and
\* nothing older is published before the caller looks.
THEOREM CollectedIsShownCorrect == Spec => CollectedIsShown
  <1>1. Init => Waiters
    BY DEF Init, Waiters, Idle
  <1>2. TypeOK /\ Waiters /\ [Next]_vars =>
          [ \A c \in Callers :
              callers[c].at = "waiting" /\ callers'[c].answer = "collected"
              => cache[callers[c].board].current.version
                   >= gens[callers[c].gen].artifact.version ]_vars
    BY CollectedStep
  <1> QED
    BY <1>1, <1>2, OrderInit, InitTypeOK, TypeStep, FlightStep, OrderStep, WaitersStep, PTL
    DEF Spec, CollectedIsShown
-----------------------------------------------------------------------------
\* What a process and the file say of each other when the file is that process's
\* own: what it shows is kept, what it is about to show is kept already, and
\* when it shows nothing although it looked, what the file holds is about to be
\* shown.
Kept(b) ==
  /\ cache[b].current # None /\ ~cache[b].persistFailed /\ disk # Broken
     => disk # None /\ disk.version >= cache[b].current.version
  /\ \A g \in Generations :
       /\ gens[g].at = "waiting" => gens[g].artifact = None
       /\ gens[g].at = "persist" => gens[g].artifact # None
       /\ /\ gens[g].at = "publish" /\ gens[g].artifact # None
          /\ ~gens[g].persistFailed /\ disk # Broken
          => disk # None /\ disk.version >= gens[g].artifact.version
  /\ cache[b].loaded /\ cache[b].current = None
     => \/ disk \in {None, Broken}
        \/ \E g \in Generations : gens[g].at = "publish" /\ gens[g].artifact = disk

\* Who waits has looked at the file, in the process that is the only one.
Looked(b) == \A c \in Callers : callers[c].at = "waiting" => callers[c].board = b /\ cache[b].loaded

\* A section of a caller keeps the file, and shows at most what it finds there.
LEMMA CallsRows ==
  ASSUME TypeOK, Calls, NEW b \in Boards
  PROVE  \/ /\ cache'[b].current = cache[b].current
            /\ cache'[b].persistFailed = cache[b].persistFailed
            /\ cache'[b].loaded = cache[b].loaded
         \/ /\ cache'[b].current = Loaded(cache[b]).current
            /\ cache'[b].persistFailed = Loaded(cache[b]).persistFailed
            /\ cache'[b].loaded = Loaded(cache[b]).loaded
  <1>1. PICK c \in Callers : \/ \E x \in Boards : Read(c, x) \/ Refresh(c, x)
                           \/ BeginRefresh(c)
                           \/ Answer(c)
                           \/ Abandon(c)
    BY DEF Calls
  <1>2. CASE UNCHANGED cache
    BY <1>2
  <1>3. ASSUME NEW x \in Boards, Read(c, x)
        PROVE  cache'[b] = cache[b] \/ cache'[b] = Loaded(cache[b])
    BY <1>3 DEF Read, TypeOK
  <1>4. ASSUME BeginRefresh(c)
        PROVE  \/ cache'[b] = cache[b]
               \/ /\ cache'[b].current = Loaded(cache[b]).current
                  /\ cache'[b].persistFailed = Loaded(cache[b]).persistFailed
                  /\ cache'[b].loaded = Loaded(cache[b]).loaded
    <2>1. PICK x \in Boards : Begun(c, x, Loaded(cache[x]))
      BY <1>4, RefreshEffect
    <2>2. CASE x # b
      BY <2>1, <2>2 DEF Begun, TypeOK
    <2>3. CASE x = b
      <3>1. PICK row \in Row : row = Loaded(cache[b])
        BY LoadedIsRow
      <3>2. \/ cache'[b] = row \/ cache'[b] = [row EXCEPT !.failed = TRUE]
            \/ \E g \in Generations : cache'[b] = [row EXCEPT !.collecting = TRUE, !.inflight = g]
        BY <2>1, <2>3, <3>1 DEF Begun, TypeOK
      <3>3. /\ cache'[b].current = row.current /\ cache'[b].persistFailed = row.persistFailed
            /\ cache'[b].loaded = row.loaded
        BY <3>2 DEF Row
      <3> QED BY <3>1, <3>3
    <2> QED BY <2>2, <2>3
  <1> QED
    BY <1>1, <1>2, <1>3, <1>4 DEF Refresh, Answer, Abandon

\* Sections of callers leave the file and what the generations are about to show.
LEMMA KeptCalls ==
  ASSUME TypeOK, NEW b \in Boards, Kept(b), Calls
  PROVE  Kept(b)'
  <1>1. disk' = disk
    BY DEF Calls, Read, Refresh, BeginRefresh, Answer, Abandon
  <1>2. \A g \in Generations :
          \/ gens'[g] = gens[g]
          \/ /\ gens[g].at # "publish" /\ gens'[g].at = "waiting"
             /\ gens'[g].artifact = None
    <2> TAKE g \in Generations
    <2>1. CASE Free(g) /\ \E x \in Boards : gens'[g] = Started(x)
      BY <2>1 DEF Free, Started, Unused
    <2> QED BY <2>1, CallsGenerations
  <1>3. cache[b] \in Row /\ disk \in Artifact \cup {None, Broken}
    BY DEF TypeOK
  <1>4. \A a \in Artifact : a.version >= a.version
    BY DEF Artifact, Versions
  <1> DEFINE row == Loaded(cache[b])
  <1>5. /\ row.current # None /\ ~row.persistFailed /\ disk # Broken
           => disk # None /\ disk.version >= row.current.version
        /\ row.loaded /\ row.current = None
           => \/ disk \in {None, Broken}
              \/ \E g \in Generations : gens[g].at = "publish" /\ gens[g].artifact = disk
    <2>1. CASE cache[b].loaded
      BY <2>1 DEF Loaded, Kept
    <2>2. CASE ~cache[b].loaded
      <3>1. row.current = IF disk = Broken THEN None ELSE disk
        BY <1>3, <2>2 DEF Loaded, Row
      <3> HIDE DEF row
      <3>2. row.current # None => row.current = disk /\ disk \in Artifact
        BY <1>3, <3>1
      <3>3. row.current = None => disk \in {None, Broken}
        BY <3>1
      <3> QED BY <1>4, <3>2, <3>3
    <2> QED BY <2>1, <2>2
  <1>6. /\ cache'[b].current # None /\ ~cache'[b].persistFailed /\ disk # Broken
           => disk # None /\ disk.version >= cache'[b].current.version
        /\ cache'[b].loaded /\ cache'[b].current = None
           => \/ disk \in {None, Broken}
              \/ \E g \in Generations : gens[g].at = "publish" /\ gens[g].artifact = disk
    <2> HIDE DEF row
    <2>1. CASE /\ cache'[b].current = cache[b].current
               /\ cache'[b].persistFailed = cache[b].persistFailed
               /\ cache'[b].loaded = cache[b].loaded
      BY <2>1 DEF Kept
    <2>2. CASE /\ cache'[b].current = row.current
               /\ cache'[b].persistFailed = row.persistFailed
               /\ cache'[b].loaded = row.loaded
      BY <1>5, <2>2
    <2> QED BY <2>1, <2>2, CallsRows DEF row
  <1>7. \A g \in Generations :
          /\ gens'[g].at = "waiting" => gens'[g].artifact = None
          /\ gens'[g].at = "persist" => gens'[g].artifact # None
          /\ /\ gens'[g].at = "publish" /\ gens'[g].artifact # None
             /\ ~gens'[g].persistFailed /\ disk # Broken
             => disk # None /\ disk.version >= gens'[g].artifact.version
    BY <1>2 DEF Kept
  <1>8. \A g \in Generations : gens[g].at = "publish" => gens'[g] = gens[g]
    BY <1>2
  <1> QED BY <1>1, <1>6, <1>7, <1>8 DEF Kept

\* A file that was damaged, rows that changed, and a goroutine that has nothing to
\* show yet.
LEMMA KeptFrame ==
  ASSUME TypeOK, NEW b \in Boards, Kept(b), disk' \in {disk, Broken},
         cache'[b].current = cache[b].current, cache'[b].loaded = cache[b].loaded,
         cache'[b].persistFailed = cache[b].persistFailed,
         \A g \in Generations :
           \/ /\ gens'[g].at = gens[g].at /\ gens'[g].artifact = gens[g].artifact
              /\ gens'[g].persistFailed = gens[g].persistFailed
           \/ /\ gens[g].at = "waiting" /\ gens'[g].at \in {"persist", "publish"}
              /\ gens'[g].at = "persist" <=> gens'[g].artifact # None
  PROVE  Kept(b)'
  <1>1. \A g \in Generations :
          /\ gens'[g].at = "waiting" => gens'[g].artifact = None
          /\ gens'[g].at = "persist" => gens'[g].artifact # None
          /\ /\ gens'[g].at = "publish" /\ gens'[g].artifact # None
             /\ ~gens'[g].persistFailed /\ disk' # Broken
             => disk' # None /\ disk'.version >= gens'[g].artifact.version
    BY DEF Kept
  <1>2. /\ cache'[b].current # None /\ ~cache'[b].persistFailed /\ disk' # Broken
           => disk' # None /\ disk'.version >= cache'[b].current.version
    BY DEF Kept
  <1>3. \A g \in Generations :
          gens[g].at = "publish" => gens'[g].at = "publish" /\ gens'[g].artifact = gens[g].artifact
    OBVIOUS
  <1>4. cache'[b].loaded /\ cache'[b].current = None
        => \/ disk' \in {None, Broken}
           \/ \E g \in Generations : gens'[g].at = "publish" /\ gens'[g].artifact = disk'
    BY <1>3 DEF Kept
  <1> QED BY <1>1, <1>2, <1>4 DEF Kept

\* The rename: nothing else is about to be shown, and what is shown is older.
LEMMA KeptPersist ==
  ASSUME TypeOK, SingleFlight, InOrder, NEW b \in Boards, Boards = {b}, Kept(b),
         NEW g \in Generations, Persist(g)
  PROVE  Kept(b)'
  <1>1. gens[g] \in Generation /\ gens[g].board = b /\ InFlight(g) /\ cache[b] \in Row
    BY DEF Persist, InFlight, TypeOK, Generation
  <1>2. \A h \in Generations : h # g => ~InFlight(h)
    <2> TAKE h \in Generations
    <2>1. InFlight(h) => gens[h].board = b
      BY DEF InFlight, TypeOK, Generation
    <2> QED BY <1>1, <2>1 DEF SingleFlight
  <1>3. gens[g].artifact \in Artifact
    BY <1>1 DEF Kept, Persist, Generation
  <1>4. cache[b].current # None =>
          gens[g].artifact.version >= cache[b].current.version
    <2>1. cache[b].current # None => cache[b].current.version <= gens[g].artifact.version
      BY <1>1, <1>3, CacheAssumption DEF InOrder, From
    <2>2. cache[b].current # None => cache[b].current.version \in Nat
      BY <1>1 DEF Row, Artifact, Versions
    <2>3. gens[g].artifact.version \in Nat
      BY <1>3 DEF Artifact, Versions
    <2> QED BY <2>1, <2>2, <2>3
  <1>5. gens[g].artifact.version >= gens[g].artifact.version
    BY <1>3 DEF Artifact, Versions
  <1>6. /\ gens'[g].at = "publish" /\ gens'[g].artifact = gens[g].artifact
        /\ cache' = cache
        /\ \A h \in Generations : h # g => gens'[h] = gens[h]
        /\ \/ disk' = gens[g].artifact
           \/ disk' = disk /\ gens'[g].persistFailed
    BY <1>1 DEF Persist, Persisted, TypeOK, Generation
  <1>7. \A h \in Generations : h # g => gens[h].at \notin {"waiting", "persist", "publish"}
    BY <1>2 DEF InFlight
  <1>8. \A h \in Generations :
          /\ gens'[h].at = "waiting" => gens'[h].artifact = None
          /\ gens'[h].at = "persist" => gens'[h].artifact # None
          /\ /\ gens'[h].at = "publish" /\ gens'[h].artifact # None
             /\ ~gens'[h].persistFailed /\ disk' # Broken
             => disk' # None /\ disk'.version >= gens'[h].artifact.version
    <2> TAKE h \in Generations
    <2>1. CASE h # g
      BY <1>6, <1>7, <2>1
    <2>2. CASE h = g
      BY <1>3, <1>5, <1>6, <2>2, CacheAssumption
    <2> QED BY <2>1, <2>2
  <1>9. CASE disk' = gens[g].artifact
    BY <1>3, <1>4, <1>6, <1>8, <1>9, CacheAssumption DEF Kept
  <1>10. CASE disk' = disk
    <2>1. \A h \in Generations : gens[h].at # "publish"
      BY <1>7 DEF Persist
    <2> QED BY <1>6, <1>8, <1>10, <2>1 DEF Kept
  <1> QED BY <1>6, <1>9, <1>10

\* The publication: it was kept before.
LEMMA KeptPublish ==
  ASSUME TypeOK, SingleFlight, InOrder, NEW b \in Boards, Boards = {b}, Kept(b),
         NEW g \in Generations, Publish(g)
  PROVE  Kept(b)'
  <1>1. gens[g] \in Generation /\ gens[g].board = b /\ cache[b] \in Row /\ gens[g].at = "publish"
    BY DEF Publish, TypeOK, Generation
  <1>2. /\ disk' = disk
        /\ gens'[g].at = "ended"
        /\ \A h \in Generations : h # g => gens'[h] = gens[h]
    <2>1. disk' = disk
      BY DEF Publish
    <2>2. /\ gens'[g] = [gens[g] EXCEPT !.at = "ended"]
          /\ \A h \in Generations : h # g => gens'[h] = gens[h]
      BY PublishEffect
    <2> QED BY <1>1, <2>1, <2>2 DEF Generation
  <1>3. \A h \in Generations :
          /\ gens'[h].at = "waiting" => gens'[h].artifact = None
          /\ gens'[h].at = "persist" => gens'[h].artifact # None
          /\ /\ gens'[h].at = "publish" /\ gens'[h].artifact # None
             /\ ~gens'[h].persistFailed /\ disk # Broken
             => disk # None /\ disk.version >= gens'[h].artifact.version
    BY <1>2 DEF Kept
  <1>4. CASE gens[g].artifact = None
    <2>1. /\ cache'[b].current = cache[b].current /\ cache'[b].loaded = cache[b].loaded
          /\ cache'[b].persistFailed = cache[b].persistFailed
      BY <1>1, <1>4 DEF Publish, TypeOK, Row
    <2>2. cache[b].loaded /\ cache[b].current = None
          => \/ disk \in {None, Broken}
             \/ \E h \in Generations : gens'[h].at = "publish" /\ gens'[h].artifact = disk
      <3> SUFFICES ASSUME cache[b].loaded, cache[b].current = None, disk \notin {None, Broken}
                   PROVE  \E h \in Generations : gens'[h].at = "publish" /\ gens'[h].artifact = disk
        OBVIOUS
      <3>1. PICK h \in Generations : gens[h].at = "publish" /\ gens[h].artifact = disk
        BY DEF Kept
      <3>2. h # g
        BY <1>4, <3>1
      <3> QED BY <1>2, <3>1, <3>2
    <2> QED BY <1>2, <1>3, <2>1, <2>2 DEF Kept
  <1>5. CASE gens[g].artifact # None
    <2>1. /\ cache'[b].current = gens[g].artifact
          /\ cache'[b].persistFailed = gens[g].persistFailed
      BY <1>1, <1>5 DEF Publish, TypeOK, Row
    <2>2. /\ cache'[b].current # None /\ ~cache'[b].persistFailed /\ disk # Broken
             => disk # None /\ disk.version >= cache'[b].current.version
      BY <1>1, <1>5, <2>1 DEF Kept
    <2> QED BY <1>2, <1>3, <1>5, <2>1, <2>2 DEF Kept
  <1> QED BY <1>4, <1>5

\* Every step of the only process keeps it.
LEMMA KeptStep ==
  ASSUME TypeOK, SingleFlight, InOrder, NEW b \in Boards, Boards = {b}, Kept(b), [Next]_vars
  PROVE  Kept(b)'
  <1>1. cache[b] \in Row /\ (\A g \in Generations : gens[g] \in Generation)
    BY DEF TypeOK
  <1>2. CASE Change \/ Damage \/ UNCHANGED vars
    BY <1>2, KeptFrame DEF Change, Damage, vars
  <1>3. ASSUME NEW g \in Generations, Collect(g) \/ Expire(g) \/ Return(g) \/ Clear(g)
        PROVE  Kept(b)'
    <2>1. \A h \in Generations :
            /\ gens'[h].at = gens[h].at /\ gens'[h].artifact = gens[h].artifact
            /\ gens'[h].persistFailed = gens[h].persistFailed
      BY <1>1, <1>3 DEF Collect, Expire, Return, Clear, TypeOK, Generation
    <2>2. /\ cache'[b].current = cache[b].current /\ cache'[b].loaded = cache[b].loaded
          /\ cache'[b].persistFailed = cache[b].persistFailed
      BY <1>1, <1>3 DEF Collect, Expire, Return, Clear, TypeOK, Row
    <2>3. disk' = disk
      BY <1>3 DEF Collect, Expire, Return, Clear
    <2> QED BY <2>1, <2>2, <2>3, KeptFrame
  <1>4. ASSUME NEW g \in Generations, Receive(g) \/ Timeout(g)
        PROVE  Kept(b)'
    <2>1. UNCHANGED << disk, cache >> /\ gens[g].at = "waiting" /\ gens[g].artifact = None
      BY <1>4 DEF Receive, Timeout, Kept
    <2>2. \A h \in Generations : h # g => gens'[h] = gens[h]
      BY <1>4 DEF Receive, Timeout, TypeOK
    <2>3. /\ gens'[g].at \in {"persist", "publish"}
          /\ gens'[g].at = "persist" <=> gens'[g].artifact # None
      BY <1>1, <1>4, <2>1 DEF Receive, Timeout, Acceptable, TypeOK, Generation
    <2> QED BY <2>1, <2>2, <2>3, KeptFrame
  <1>5. ASSUME NEW x \in Boards, Crash(x) PROVE Kept(b)'
    <2>1. x = b
      OBVIOUS
    <2>2. cache'[b] = Cold /\ disk' = disk
      BY <1>5, <2>1 DEF Crash, TypeOK
    <2>3. \A g \in Generations :
            gens'[g] = Unused \/ (gens'[g] = gens[g] /\ gens[g].at = "unused")
      BY <1>1, <1>5, <2>1 DEF Crash, Generation, TypeOK
    <2>4. \A g \in Generations : gens'[g].at = "unused"
      BY <2>3 DEF Unused
    <2>5. ~Cold.loaded /\ Cold.current = None
      BY DEF Cold
    <2> QED BY <2>2, <2>4, <2>5 DEF Kept
  <1>6. ASSUME NEW g \in Generations, Persist(g) \/ Publish(g) PROVE Kept(b)'
    BY <1>6, KeptPersist, KeptPublish
  <1>7. CASE Calls
    BY <1>7, KeptCalls
  <1> QED BY <1>2, <1>3, <1>4, <1>5, <1>6, <1>7 DEF Next, Goroutines

\* A restart of the only process goes on from what it last showed, unless it said
\* that it could not write the file, or the file was damaged (finishRefresh
\* renames before it publishes; one process means that Boards has one member).
THEOREM ShownIsKeptCorrect ==
  ASSUME NEW b, Boards = {b}
  PROVE  Spec => []ShownIsKept
  <1>1. Init => Kept(b)
    BY DEF Init, Kept, Cold, Unused
  <1>2. Kept(b) => ShownIsKept
    BY DEF Kept, ShownIsKept
  <1>3. TypeOK /\ SingleFlight /\ InOrder /\ Kept(b) /\ [Next]_vars => Kept(b)'
    BY KeptStep
  <1> QED
    BY <1>1, <1>2, <1>3, OrderInit, InitTypeOK, TypeStep, FlightStep, OrderStep, PTL DEF Spec

\* Who waits has looked at the file.
LEMMA LookedStep ==
  ASSUME TypeOK, NEW b \in Boards, Boards = {b}, Looked(b), [Next]_vars
  PROVE  Looked(b)'
  <1>1. \A c \in Callers : callers[c] \in Caller
    BY DEF TypeOK
  <1>2. \A x \in Boards : cache[x] \in Row
    BY DEF TypeOK
  <1>3. CASE Change \/ Damage \/ UNCHANGED vars
    BY <1>3 DEF Change, Damage, vars, Looked
  <1>4. CASE Goroutines
    <2>1. callers' = callers
      BY <1>4 DEF Goroutines, Collect, Return, Clear, Expire, Receive, Timeout, Persist, Publish
    <2>2. cache[b].loaded => cache'[b].loaded
      <3>1. PICK g \in Generations : \/ Collect(g) \/ Return(g) \/ Clear(g) \/ Expire(g)
                                    \/ Receive(g) \/ Timeout(g) \/ Persist(g) \/ Publish(g)
        BY <1>4 DEF Goroutines
      <3>2. CASE UNCHANGED cache
        BY <3>2
      <3>3. CASE Clear(g)
        BY <1>2, <3>3 DEF Clear, TypeOK, Row
      <3>4. CASE Publish(g)
        <4>1. gens[g].board = b
          BY <3>4 DEF Publish, TypeOK, Generation
        <4>2. PICK row \in Row : row = cache[b]
          BY <1>2
        <4>3. \/ cache'[b] = [row EXCEPT !.failed = TRUE, !.inflight = None]
              \/ cache'[b].loaded
          BY <3>4, <4>1, <4>2 DEF Publish, TypeOK, Row
        <4> QED BY <4>2, <4>3 DEF Row
      <3> QED
        BY <3>1, <3>2, <3>3, <3>4 DEF Collect, Return, Expire, Receive, Timeout, Persist
    <2> QED BY <2>1, <2>2 DEF Looked
  <1>5. ASSUME NEW x \in Boards, Crash(x) PROVE Looked(b)'
    <2>1. \A c \in Callers : callers'[c] = Idle \/ (callers'[c] = callers[c] /\ callers[c].board # b)
      BY <1>5 DEF Crash
    <2>2. \A c \in Callers : callers'[c].at # "waiting"
      <3> TAKE c \in Callers
      <3>1. callers[c].at # "idle" => callers[c].board = b
        BY <1>1 DEF TypeOK, Caller
      <3> QED BY <2>1, <3>1 DEF Idle
    <2> QED BY <2>2 DEF Looked
  <1>6. CASE Calls
    <2>1. PICK c \in Callers : \/ \E x \in Boards : Read(c, x) \/ Refresh(c, x)
                             \/ BeginRefresh(c)
                             \/ Answer(c)
                             \/ Abandon(c)
      BY <1>6 DEF Calls
    <2>2. cache[b].loaded => cache'[b].loaded
      BY <1>6, CallsRows, LoadedRow
    <2>3. CASE \E x \in Boards : Read(c, x) \/ Refresh(c, x)
      <3>1. \A k \in Callers : callers'[k].at = "waiting" => callers'[k] = callers[k]
        <4>1. PICK x \in Boards : Read(c, x) \/ Refresh(c, x)
          BY <2>3
        <4>2. \E k : k.at # "waiting" /\ callers' = [callers EXCEPT ![c] = k]
          <5>1. CASE Refresh(c, x)
            BY <5>1 DEF Refresh, Idle
          <5>2. CASE Read(c, x)
            BY <5>2 DEF Read, Idle
          <5> QED BY <4>1, <5>1, <5>2
        <4> QED BY <4>2 DEF TypeOK
      <3> QED BY <2>2, <3>1 DEF Looked
    <2>4. CASE Answer(c) \/ Abandon(c)
      <3>1. \A k \in Callers : callers'[k].at = "waiting" => callers'[k] = callers[k]
        BY <2>4 DEF Answer, Abandon, TypeOK, Idle
      <3> QED BY <2>2, <3>1 DEF Looked
    <2>5. CASE BeginRefresh(c)
      <3>1. callers[c].board = b /\ Begun(c, b, Loaded(cache[b]))
        BY <2>5, RefreshEffect
      <3>2. PICK row \in Row : row = Loaded(cache[b]) /\ row.loaded
        BY LoadedRow
      <3>3. \/ cache'[b] = row \/ cache'[b] = [row EXCEPT !.failed = TRUE]
            \/ \E g \in Generations : cache'[b] = [row EXCEPT !.collecting = TRUE, !.inflight = g]
        BY <3>1, <3>2 DEF Begun, TypeOK
      <3>6. cache'[b].loaded
        BY <3>2, <3>3 DEF Row
      <3>4. \E g : Joins(c, g)
        BY <3>1 DEF Begun
      <3>5. /\ \A k \in Callers : k # c => callers'[k] = callers[k]
            /\ callers'[c].board = b \/ callers'[c].at = "idle"
        BY <1>1, <3>1, <3>4 DEF Joins, Idle, Caller, TypeOK
      <3> QED BY <3>5, <3>6 DEF Looked
    <2> QED BY <2>1, <2>3, <2>4, <2>5
  <1> QED BY <1>3, <1>4, <1>5, <1>6 DEF Next

\* The only process never says that there is no state when the file holds one that
\* nobody is about to show: ensureLoadedLocked comes before any collection, and an
\* answer after it (Refresh, finishRefresh).
THEOREM NothingKeptCorrect ==
  ASSUME NEW b, Boards = {b}
  PROVE  Spec => UnavailableMeansNothingKept
  <1>1. Init => Kept(b) /\ Looked(b) /\ Waiters
    BY DEF Init, Kept, Cold, Unused, Looked, Waiters, Idle
  <1>2. TypeOK /\ SingleFlight /\ InOrder /\ Kept(b) /\ [Next]_vars => Kept(b)'
    BY KeptStep
  <1>3. TypeOK /\ Looked(b) /\ [Next]_vars => Looked(b)'
    BY LookedStep
  <1>4. TypeOK /\ Waiters /\ Kept(b) /\ Looked(b) /\ [Next]_vars =>
          [ \A c \in Callers :
              callers[c].at = "waiting" /\ callers'[c].answer = "unavailable"
              => \/ disk \in {None, Broken}
                 \/ \E g \in Generations :
                      gens[g].at = "publish" /\ gens[g].artifact = disk ]_vars
    <2> SUFFICES ASSUME TypeOK, Waiters, Kept(b), Looked(b), [Next]_vars, NEW c \in Callers,
                        callers[c].at = "waiting", callers'[c].answer = "unavailable"
                 PROVE  \/ disk \in {None, Broken}
                        \/ \E g \in Generations :
                             gens[g].at = "publish" /\ gens[g].artifact = disk
      OBVIOUS
    <2>1. Answer(c)
      BY OnlyAnswers
    <2>2. callers[c].board = b /\ cache[b].loaded
      BY DEF Looked
    <2>3. cache[b].current = None
      <3> DEFINE shown == cache[b].current # None
                 done == Succeeded(callers[c].gen)
                 x == IF ~shown THEN "unavailable" ELSE IF done THEN "collected" ELSE "failed"
      <3>1. callers'[c] = [Idle EXCEPT !.answer = x]
        BY <2>1, <2>2 DEF Answer, TypeOK
      <3>2. shown => x \in {"collected", "failed"}
        OBVIOUS
      <3> HIDE DEF x
      <3>3. x = "unavailable"
        BY <3>1 DEF Idle
      <3> QED BY <3>2, <3>3
    <2> QED BY <2>2, <2>3 DEF Kept
  <1> QED
    BY <1>1, <1>2, <1>3, <1>4, OrderInit, InitTypeOK, TypeStep, FlightStep, OrderStep,
       WaitersStep, PTL
    DEF Spec, UnavailableMeansNothingKept
=============================================================================
