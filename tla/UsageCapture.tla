---------------------------- MODULE UsageCapture ----------------------------
(***************************************************************************)
(* What the router believes a finished worker consumed, and what it bills. *)
(* A harness runs a session of turns, each of one model with its tokens,   *)
(* and writes receipts that are true but may leave fields out, be          *)
(* repeated, be followed by another, or arrive unreadable.  The router     *)
(* reads the captured text once, with the harness's own parser, and prices *)
(* the result at the route's dated rates.                                  *)
(*                                                                         *)
(* A bill is kept as the quantities priced at each rate, so two bills are  *)
(* equal only if they price the same tokens.                               *)
(***************************************************************************)
EXTENDS Integers, Sequences, FiniteSetsExt

CONSTANTS
    Consumptions,  \* the token records a turn may have
    Models, Route, \* the models that exist and the one the route prices
    Fields,        \* the sets of fields a receipt may carry
    MaxTurns, MaxLines,
    Open,          \* the bill of a worker that is not over
    Unknown        \* a counter that is null, a usage or a cost unavailable

VARIABLES
    harness,  \* the harness of the route
    turns,    \* what the session really consumed
    lines,    \* the captured output
    usage,    \* what the parser made of it
    bill      \* Open, then the priced quantities or Unknown

vars == <<harness, turns, lines, usage, bill>>

Parts == {"input", "cached", "write", "output", "reasoning"}

\* What the constants are; the theorems assume it.
Assumption ==
    /\ Consumptions \subseteq [Parts -> Nat]
    /\ Unknown \notin Int /\ \A known \in SUBSET Models : known # Unknown

Harnesses == {"codex", "claude", "pi", "omp", "opencode", "agy"}
Stepwise == {"pi", "omp", "opencode"}            \* one receipt for each turn
TotalIncludesCache == {"pi", "omp", "claude"}

Init ==
    /\ harness \in Harnesses
    /\ turns = <<>> /\ lines = <<>>
    /\ usage = Unknown /\ bill = Open

Sum(part, K) == MapThenSumSet(LAMBDA k : turns[k].tokens[part], K)
All == DOMAIN turns
Used == {turns[k].model : k \in All}

(***************************************************************************)
(* The harness.  A codex receipt counts cached tokens within its input and *)
(* has no cache writes; only opencode counts reasoning apart from output.  *)
(* Only the Claude, Pi and OMP receipts say which models a session used; a *)
(* Pi or OMP session is taken to start on the model it was launched with.  *)
(***************************************************************************)
Line(kind, K, has, rows, event, slip) ==
    [kind |-> kind, turns |-> K, has |-> has, rows |-> rows,
     event |-> event, slip |-> slip]

CanEmit == bill = Open /\ Len(lines) < MaxLines
Terminal == {i \in DOMAIN lines : lines[i].kind # "step"}

\* A turn is consumed; the harnesses with a receipt for each turn write it.
Turn(model, tokens, has, slip) ==
    /\ CanEmit /\ Len(turns) < MaxTurns /\ Terminal = {}
    /\ harness \in {"pi", "omp"} /\ turns = <<>> => model = Route
    /\ harness \notin {"claude", "pi", "omp"} => model = Route
    /\ harness = "codex" => tokens.write = 0
    /\ harness # "opencode" => tokens.reasoning = 0
    /\ slip = 0 \/ (harness \in {"pi", "omp"} /\ "total" \in has)
    /\ turns' = Append(turns, [model |-> model, tokens |-> tokens])
    /\ lines' = IF harness \in Stepwise
                THEN Append(lines, Line("step", {Len(turns) + 1}, has, Unknown,
                                        FALSE, slip))
                ELSE lines
    /\ UNCHANGED <<harness, usage, bill>>

\* The terminal receipt; a Claude one may have a row for each model, and its
\* total besides.  "failed" is the harness's own report of a failed turn.
Receipt(kind, has, byModel, event, slip) ==
    /\ CanEmit /\ harness \notin Stepwise
    /\ harness = "claude" /\ ~byModel => Used = {Route}
    /\ harness # "claude" => ~byModel /\ ~event
    /\ slip = 0 \/ event \/ "total" \in has
    /\ lines' = Append(lines, Line(kind, All, has,
                                   IF byModel THEN Used ELSE Unknown, event, slip))
    /\ UNCHANGED <<harness, turns, usage, bill>>

\* Pi and OMP write a message again, under the id it had.
Repeat(i) ==
    /\ CanEmit /\ harness \in {"pi", "omp"} /\ lines[i].kind = "step"
    /\ lines' = Append(lines, lines[i])
    /\ UNCHANGED <<harness, turns, usage, bill>>

\* A line is cut short or mixed with other output.
Garble(i) ==
    /\ bill = Open /\ lines[i].kind \notin {"garbled"}
    /\ lines' = [lines EXCEPT ![i].kind = "garbled"]
    /\ UNCHANGED <<harness, turns, usage, bill>>

(***************************************************************************)
(* The parsers.  A refusal (contradiction, malformed stream) is caught by  *)
(* the dispatcher and recorded as unavailable usage.                       *)
(***************************************************************************)
Of(kinds) == {i \in DOMAIN lines : lines[i].kind \in kinds}
Reported(line, field, value) == IF field \in line.has THEN value ELSE Unknown
Usage(input, output, cached, write, reasoning, total) ==
    [input |-> input, output |-> output, cached |-> cached, write |-> write,
     reasoning |-> reasoning, total |-> total]

\* codex: every line must parse, one receipt, no failure event.
CodexUsage ==
    LET line == lines[CHOOSE i \in Of({"receipt"}) : TRUE]
        input == Sum("input", All) + Sum("cached", All)
        output == Sum("output", All)
    IN IF \/ Of({"garbled", "failed"}) # {} \/ Cardinality(Of({"receipt"})) # 1
          \/ "io" \notin line.has
          \/ "total" \in line.has /\ line.slip # 0
       THEN Unknown
       ELSE Usage(input, output, Reported(line, "cached", Sum("cached", All)),
                  Unknown, Unknown, input + output)

\* claude: every line must parse, and the last result is the session's summary.
LastResult ==
    IF Of({"garbled"}) # {} \/ Of({"receipt", "failed"}) = {} THEN Unknown
    ELSE lines[Max(Of({"receipt", "failed"}))]

\* The tokens a mapping of a Claude result reports for the turns K.
KnownComponents(line, K) ==
    Sum("input", K) + Sum("output", K)
    + (IF "cached" \in line.has THEN Sum("cached", K) ELSE 0)
    + (IF "write" \in line.has THEN Sum("write", K) ELSE 0)

\* What it states as their total, here or as the total of the event.
Stated(line, K) ==
    Sum("input", K) + Sum("output", K) + Sum("cached", K) + Sum("write", K) - line.slip

\* Its total is exact when stated or computable, else only bounded below.
Row(line, K) ==
    LET known == KnownComponents(line, K)
        complete == {"cached", "write"} \subseteq line.has
    IN [refused |-> "total" \in line.has
                    /\ IF complete THEN Stated(line, K) # known ELSE Stated(line, K) < known,
        exact |-> IF "total" \in line.has THEN Stated(line, K)
                  ELSE IF complete THEN known ELSE Unknown,
        least |-> IF "total" \in line.has THEN Stated(line, K) ELSE known]

\* The rows of the models, each summed once.
ModelRows(line) ==
    LET row == [m \in line.rows |-> Row(line, {k \in All : turns[k].model = m})]
        exact == \A m \in line.rows : row[m].exact # Unknown
    IN [refused |-> \E m \in line.rows : row[m].refused,
        exact |-> IF exact THEN MapThenSumSet(LAMBDA m : row[m].exact, line.rows) ELSE Unknown,
        least |-> MapThenSumSet(LAMBDA m : row[m].least, line.rows)]

\* The usage of the whole session, of a result without rows.
SessionRow(line) == Row(line, All)

\* The total of the event can contradict the rows and stand in for them.
ClaudeUsage ==
    LET line == LastResult
        sum == IF line.rows = Unknown THEN SessionRow(line) ELSE ModelRows(line)
        event == Stated(line, All)
    IN IF \/ line = Unknown
          \/ "io" \notin line.has \/ line.rows = {}
          \/ sum.refused
          \/ line.event /\ IF sum.exact # Unknown THEN event # sum.exact ELSE event < sum.least
       THEN Unknown
       ELSE Usage(Sum("input", All), Sum("output", All),
                  Reported(line, "cached", Sum("cached", All)), Unknown, Unknown,
                  IF sum.exact = Unknown /\ line.event THEN event ELSE sum.exact)

\* The models of a result that can be read.
AggregateModels ==
    IF harness # "claude" \/ LastResult = Unknown THEN Unknown ELSE LastResult.rows

\* pi, omp and opencode: unreadable lines are skipped.
Steps == {lines[i] : i \in Of({"step"})}

\* pi and omp: a repeated message is counted once; every message must report all
\* four components, and they agree on the model.
Counted == UNION {line.turns : line \in Steps}
MessageUsage ==
    IF \/ Counted = {}
       \/ \E line \in Steps : ~({"io", "cached", "write"} \subseteq line.has)
       \/ \E line \in Steps : "total" \in line.has /\ line.slip # 0
       \/ Cardinality({turns[k].model : k \in Counted}) > 1
    THEN Unknown
    ELSE Usage(Sum("input", Counted), Sum("output", Counted), Sum("cached", Counted),
               Unknown, Unknown,
               Sum("input", Counted) + Sum("output", Counted)
               + Sum("cached", Counted) + Sum("write", Counted))

\* omp, a fork of pi with a parser of its own.
OmpUsage == MessageUsage

\* opencode: a counter that any step leaves out is null for the session.
Every(field, part) ==
    IF \A line \in Steps : field \in line.has THEN Sum(part, Counted) ELSE Unknown

StepUsage ==
    IF Counted = {} \/ \E line \in Steps : "io" \notin line.has
    THEN Unknown
    ELSE Usage(Sum("input", Counted), Sum("output", Counted),
               Every("cached", "cached"), Every("write", "write"),
               Every("reasoning", "reasoning"),
               IF Every("reasoning", "reasoning") = Unknown THEN Unknown
               ELSE Sum("input", Counted) + Sum("output", Counted)
                    + Sum("reasoning", Counted))

\* agy: the receipts among the readable lines; a failed one counts only if it
\* carries tokens.
TokensEvident(line) == "io" \in line.has /\ Sum("input", All) + Sum("output", All) > 0

Candidates ==
    {i \in Of({"receipt", "failed"}) : lines[i].kind = "failed" => TokensEvident(lines[i])}

\* Its total is input and output.
ReceiptUsage(line) ==
    IF "io" \notin line.has \/ ("total" \in line.has /\ line.slip # 0) THEN Unknown
    ELSE Usage(Sum("input", All), Sum("output", All),
               Reported(line, "cached", Sum("cached", All)),
               Reported(line, "write", Sum("write", All)), Unknown,
               Sum("input", All) + Sum("output", All))

\* More than one candidate is refused, were they alike.
AgyUsage ==
    IF Cardinality(Candidates) # 1 THEN Unknown
    ELSE ReceiptUsage(lines[CHOOSE i \in Candidates : TRUE])

UsageForHarness ==
    CASE harness = "codex" -> CodexUsage
      [] harness = "claude" -> ClaudeUsage
      [] harness = "pi" -> MessageUsage
      [] harness = "omp" -> OmpUsage
      [] harness = "opencode" -> StepUsage
      [] harness = "agy" -> AgyUsage

(***************************************************************************)
(* The cost: unavailable unless the usage accounts for everything the      *)
(* route's rates would have to price.                                      *)
(***************************************************************************)
\* Bug: a known total is taken for a complete one.
TotalKnown(u) == harness \in TotalIncludesCache => u.total # Unknown

\* The receipts whose total counts the cache leave no remainder.
TotalAccounted(u) ==
    harness \in TotalIncludesCache =>
        /\ u.total # Unknown
        /\ u.total = u.input + u.output + (IF u.cached = Unknown THEN 0 ELSE u.cached)

\* The harnesses that bill the cache apart report it, and wrote none.
CacheAccounted(u, price) ==
    /\ harness \in {"codex", "agy", "opencode"} => u.cached # Unknown
    /\ harness \in {"agy", "opencode"} => u.write = 0
    /\ harness = "opencode" => u.reasoning # Unknown
    /\ u.cached = Unknown \/ u.cached = 0 \/ price = "cache"

\* The dated prices found for the route: "none", "tokens", or "cache" too.
AttemptCost(u, models, price) ==
    IF \/ u = Unknown \/ price = "none"
       \/ models # Unknown /\ models # {Route}
       \/ ~CacheAccounted(u, price) \/ ~TotalAccounted(u)
    THEN Unknown
    ELSE LET cached == IF u.cached = Unknown THEN 0 ELSE u.cached
         IN [input |-> IF harness = "codex" THEN u.input - cached ELSE u.input,
             cached |-> cached, write |-> 0,
             output |-> u.output + (IF harness = "opencode" THEN u.reasoning ELSE 0)]

\* The worker is over: its output is read once and the attempt is priced.
Settle(price) ==
    /\ bill = Open
    /\ usage' = UsageForHarness
    /\ bill' = AttemptCost(UsageForHarness, AggregateModels, price)
    /\ UNCHANGED <<harness, turns, lines>>

Next ==
    \/ \E model \in Models, tokens \in Consumptions, has \in Fields, slip \in {0, 1} :
          Turn(model, tokens, has, slip)
    \/ \E kind \in {"receipt", "failed"}, has \in Fields, byModel, event \in BOOLEAN,
          slip \in {0, 1} : Receipt(kind, has, byModel, event, slip)
    \/ \E i \in DOMAIN lines : Repeat(i)
    \/ \E i \in DOMAIN lines : Garble(i)
    \/ \E price \in {"none", "tokens", "cache"} : Settle(price)

Spec == Init /\ [][Next]_vars

(***************************************************************************)
(* Properties.                                                             *)
(***************************************************************************)
Truth == [input |-> Sum("input", All), cached |-> Sum("cached", All),
          write |-> Sum("write", All),
          output |-> Sum("output", All) + Sum("reasoning", All)]

\* The receipts can be believed: their totals are right, or the parts they are
\* totals of are all there to contradict them.
Believable ==
    \A i \in DOMAIN lines :
        lines[i].slip = 0 \/ {"cached", "write", "total"} \subseteq lines[i].has

\* An attempt that is billed is billed for exactly the tokens its session used:
\* no cache write, other model's tokens or unreported part is left out, and
\* nothing is counted twice.  A lost line makes the bill unavailable for the
\* harnesses with one summary; for the others it is assumed away
\* (staffing/run.py:1347-1571 "rather than billing a subset of the receipt").
BilledInFull ==
    /\ bill \notin {Open, Unknown}
    /\ harness \in Stepwise => Of({"garbled"}) = {}
    /\ Believable
    => bill = Truth
=============================================================================
