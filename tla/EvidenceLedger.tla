---------------------------- MODULE EvidenceLedger ----------------------------
(***************************************************************************)
(* The attempt ledger as evidence (router, staffing/): what the importers   *)
(* add to it (import_evidence.py), each in one transaction under the lock of *)
(* the ledger, and what its four readers make of it: the rollup            *)
(* (rollup.py), the join for an expected cost (evidence.py), the ladders   *)
(* (ladder_derivation.py) and the monthly report (evidence_report.py).     *)
(*                                                                         *)
(* A line is a record; `by' tells the row of the source it was imported    *)
(* from.  A class is a sequence of components, a date is a tick.           *)
(***************************************************************************)
EXTENDS Integers, Sequences, FiniteSets, FiniteSetsExt, SequencesExt

CONSTANTS Importers,
          Rows,      \* importer -> sequence of the rows of its source
          Accounts,  \* what the usage.json of an attempt may say
          Runs,      \* lines that runs of the router may append
          Legacy,    \* lines imported before the repair of the payload
          MonthLength,
          Least,     \* MINIMUM_SAMPLE_SIZE
          Viable,    \* pass rate of a route worth recommending, in tenths
          None

VARIABLES ledger,    \* lines
          torn,      \* a short write left a line that nobody can read
          lock,      \* holder of <ledger>.lock
          pc, at,    \* importer -> where it stands, and the row it is at
          known,     \* importer -> the lines it knows
          receipts,  \* the usage.json files of the attempts of Agent-Orch
          counted    \* lines the deriver rolled up, None when it is idle

vars == << ledger, torn, lock, pc, at, known, receipts, counted >>

-----------------------------------------------------------------------------
(***************************************************************************)
(* Importing.                                                              *)
(***************************************************************************)

Plain(run) == << "benchmark", run >>
Correction(run) == << "benchmark:v6", run >>

LineOf(lines, id) == { l \in lines : l.id = id }

\* Bug: what was appended in this transaction is not remembered.
Forgetful(lines, line) == lines

Remembered(lines, line) == lines \cup {line}

\* The run of the benchmark a line describes.  The payload of the old shape has
\* none; there the id tells it.
SourceRun(l) ==
  CASE l.shape = "v6" -> l.run
    [] l.shape = "legacy" /\ l.id[1] = "benchmark" -> l.id[2]
    [] OTHER -> None

\* The id a row of the benchmark is written under, None if it is there already.
\* A line of the old shape is not rewritten: a correction is appended.
BenchmarkId(lines, run) ==
  IF LineOf(lines, Plain(run)) = {} THEN Plain(run)
  ELSE IF (\E l \in LineOf(lines, Plain(run)) : l.shape = "legacy" /\ SourceRun(l) = run)
          /\ LineOf(lines, Correction(run)) = {} THEN Correction(run)
  ELSE None

\* What skips a row of the CSV: a run the sidecar does not list, no usage that
\* its provider reported, and fields at odds with the sidecar or malformed.
Listed(row) == row.sidecar # "absent"
UsageReported(row) == row.usage \in {"known", "partial"}
Agrees(row) == row.sidecar = "agrees"
Wellformed(row) == row.date # None /\ row.accepted \in {"accepted", "not_accepted", "unverified"}

Importable(row) == Listed(row) /\ UsageReported(row) /\ Agrees(row) /\ Wellformed(row)

\* _build_record: nothing is a verified success, no route and no cost is known.
BenchmarkLine(row, id, by) ==
  [kind |-> "benchmark", id |-> id, shape |-> "v6", run |-> row.run, class |-> row.class,
   date |-> row.date, route |-> None, instance |-> None, passed |-> FALSE,
   list |-> FALSE, marginal |-> None, by |-> by]

\* What the receipt of an attempt says, "missing" if there is none.
Account(run) ==
  IF \E r \in receipts : r.run = run THEN (CHOOSE r \in receipts : r.run = run).account
  ELSE "missing"

\* A measured receipt has to tell its counters and its cost.
ReceiptOK(run) == Account(run) # "broken"

\* What skips an attempt of Agent-Orch: a run out of the thirty days, and an
\* attempt that names no route.
RouteNamed(row) == row.routed
Recent(row) == row.recent

\* _agent_orch_attempt_record.  A list cost is known if it was measured only.
AttemptLine(row, by) ==
  [kind |-> "agent_orch", id |-> << "sha256", row.run >>, shape |-> "raw", run |-> None,
   class |-> None, date |-> row.date, route |-> None, instance |-> None,
   passed |-> row.exit = 0 /\ row.validated, list |-> Account(row.run) = "measured",
   marginal |-> None, by |-> by]

\* A row that comes to a line, the first of its source for its run.
FirstOfRun(p, i) ==
  LET settles(j) == /\ Rows[p][j].source = "benchmark" /\ Importable(Rows[p][j])
                    /\ Rows[p][j].run = Rows[p][i].run
  IN  settles(i) /\ \A j \in 1..i - 1 : ~settles(j)

Month(date) == date \div MonthLength

IsClass(class) == class = None \/ class \in Seq(Range(class))

\* What the constants are; the theorems assume it.  The lines that are there
\* before are of the old shape, and no two lines of one source share an id.
\* An amount is in the smallest unit there is; what has no route has no price.
Assumption ==
  /\ None \notin Importers \cup Nat \cup (Nat \X Nat) /\ MonthLength \in Nat \ {0}
  /\ \A p \in Importers :
       /\ Rows[p] \in Seq(Range(Rows[p]))
       /\ \A i \in DOMAIN Rows[p] :
            /\ Rows[p][i].date \in Nat \cup {None}
            /\ Rows[p][i].source = "benchmark" => IsClass(Rows[p][i].class)
            /\ Rows[p][i].source # "benchmark" /\ Recent(Rows[p][i]) => Rows[p][i].date # None
            /\ Rows[p][i].source = "benchmark" =>
                 LET run == Rows[p][i].run
                 IN  /\ None \notin {run, Plain(run), Correction(run)}
                     /\ \A id \in {Plain(run), Correction(run)} :
                          BenchmarkLine(Rows[p][i], id, << p, i >>) # None
  /\ IsFiniteSet(Legacy)
  /\ \A l \in Legacy : l.shape = "legacy" /\ l.id = Plain(l.id[2])
  /\ \A l \in Runs : l.shape = "raw" /\ l.id[1] = "run"
  /\ \A l \in Legacy \cup Runs :
       /\ l.date \in Nat /\ IsClass(l.class) /\ l.marginal \in Nat \cup {None}
       /\ l.route \in Nat \/ (l.route = None /\ (l.passed => l.marginal = None))
  /\ \A l, o \in Legacy \cup Runs : l.id = o.id => l = o
  \* The old lines were made of the same runs, so a correction has their month.
  /\ \A l \in Legacy, p \in Importers : \A i \in DOMAIN Rows[p] :
       FirstOfRun(p, i) /\ Rows[p][i].run = l.id[2] => Month(Rows[p][i].date) = Month(l.date)

\* The line that importer p writes for its i-th row, None if it skips the row.
\* Whether a row of the CSV is there already is looked up before it is read.
BenchmarkRow(p, i) ==
  LET row == Rows[p][i]
      id == BenchmarkId(known[p], row.run)
  IN  IF id = None \/ ~Importable(row) THEN None ELSE BenchmarkLine(row, id, << p, i >>)

AttemptRow(p, i) ==
  LET row == Rows[p][i]
  IN  IF \/ ~Recent(row) \/ ~RouteNamed(row) \/ ~ReceiptOK(row.run)
         \/ LineOf(known[p], << "sha256", row.run >>) # {}
      THEN None ELSE AttemptLine(row, << p, i >>)

NewLine(p, i) ==
  IF Rows[p][i].source = "benchmark" THEN BenchmarkRow(p, i) ELSE AttemptRow(p, i)

\* Nothing is imported: the sidecar is malformed or the CSV is not the one it
\* pins, or there are no runs of Agent-Orch where they should be.
RefuseSource(p) ==
  /\ pc[p] = "ready"
  /\ pc' = [pc EXCEPT ![p] = "failed"]
  /\ UNCHANGED << ledger, torn, lock, at, known, receipts, counted >>

\* The transaction begins: the ledger is read under the lock, and fails closed.
Begin(p) ==
  /\ pc[p] = "ready"
  /\ lock = None
  /\ IF torn
     THEN /\ pc' = [pc EXCEPT ![p] = "failed"]
          /\ UNCHANGED << lock, at, known >>
     ELSE /\ pc' = [pc EXCEPT ![p] = "importing"]
          /\ lock' = p
          /\ at' = [at EXCEPT ![p] = 1]
          /\ known' = [known EXCEPT ![p] = ledger]
  /\ UNCHANGED << ledger, torn, receipts, counted >>

\* The lock was not free for LOCK_TIMEOUT_SECONDS.
LockTimeout(p) ==
  /\ pc[p] = "ready"
  /\ lock # None
  /\ pc' = [pc EXCEPT ![p] = "failed"]
  /\ UNCHANGED << ledger, torn, lock, at, known, receipts, counted >>

ImportRow(p) ==
  /\ pc[p] = "importing"
  /\ at[p] <= Len(Rows[p])
  /\ at' = [at EXCEPT ![p] = @ + 1]
  /\ LET line == NewLine(p, at[p])
     IN  IF line = None THEN UNCHANGED << ledger, known >>
         ELSE /\ ledger' = ledger \cup {line}
              /\ known' = [known EXCEPT ![p] = Remembered(@, line)]
  /\ UNCHANGED << torn, lock, pc, receipts, counted >>

\* The end of the transaction, and of all it knew.
Leave(p, end) ==
  /\ pc' = [pc EXCEPT ![p] = end]
  /\ lock' = None
  /\ at' = [at EXCEPT ![p] = 1]
  /\ known' = [known EXCEPT ![p] = {}]

\* The transaction ends without the rest of the rows: the line was not written
\* whole (ShortWriteError), or the process died and the kernel freed the lock.
Abort(p) ==
  /\ pc[p] = "importing"
  /\ torn' \in {torn, at[p] <= Len(Rows[p]) /\ NewLine(p, at[p]) # None}
  /\ torn => torn'
  /\ Leave(p, "failed")
  /\ UNCHANGED << ledger, receipts, counted >>

Finish(p) ==
  /\ pc[p] = "importing"
  /\ at[p] > Len(Rows[p])
  /\ Leave(p, "done")
  /\ UNCHANGED << ledger, torn, receipts, counted >>

\* append_attempt of a run of the router, alone under the lock.  Lines that
\* differ in their id alone are alike: they come in the order of their ids.
AppendRun(line) ==
  /\ lock = None
  /\ \A o \in Runs \ ledger : [o EXCEPT !.id = line.id] = line => line.id[2] <= o.id[2]
  /\ ledger' = ledger \cup {line}
  /\ UNCHANGED << torn, lock, pc, at, known, receipts, counted >>

\* External: Agent-Orch writes the usage.json of an attempt.
WriteReceipt(run) ==
  /\ Account(run) = "missing"
  /\ \E account \in Accounts : receipts' = receipts \cup {[run |-> run, account |-> account]}
  /\ UNCHANGED << ledger, torn, lock, pc, at, known, counted >>

-----------------------------------------------------------------------------
(***************************************************************************)
(* Reading: the lines that count, and the groups they make.                *)
(***************************************************************************)

\* _benchmark_preference_key, without the ties that ids resolve.
Rank(l) ==
  IF l.shape = "legacy" THEN 3
  ELSE IF l.id = Correction(SourceRun(l)) THEN 0
  ELSE IF l.id[1] = "benchmark:v6" THEN 1
  ELSE 2

\* _without_superseded_benchmark_lines: one line for each run of the benchmark,
\* in whatever order they were written.
Effective(lines) ==
  LET runs == { l \in lines : SourceRun(l) # None }
  IN  (lines \ runs) \cup
        { l \in runs : \A o \in runs : SourceRun(o) = SourceRun(l) => Rank(l) <= Rank(o) }

Passes(lines) == { l \in lines : l.passed }

\* Groups of build_rollup, and the members of one.
Keys(lines) == { << l.route, l.class >> : l \in Effective(lines) }

Group(lines, key) == { l \in Effective(lines) : << l.route, l.class >> = key }

\* join_evidence: the members that share the most of the class, and how much.
\* The whole class, then what is left of it at a coarser level.
Widths(class) == {Len(class)} \cup { w \in 2..4 : w < Len(class) }

\* The level of the whole class asks for no more components than it has.
Matching(lines, route, class, width) ==
  { l \in Effective(lines) :
      /\ l.route = route
      /\ l.class # None
      /\ Len(l.class) >= width
      /\ IF width = Len(class) THEN l.class = class
         ELSE SubSeq(l.class, 1, width) = SubSeq(class, 1, width) }

Join(lines, route, class) ==
  LET joining == { w \in Widths(class) : Matching(lines, route, class, w) # {} }
  IN  IF joining = {} THEN [width |-> 0, members |-> {}]
      ELSE [width |-> Max(joining), members |-> Matching(lines, route, class, Max(joining))]

-----------------------------------------------------------------------------
(***************************************************************************)
(* Ladders.  A mean cost is a pair << sum, count >>, None if nothing is     *)
(* priced; the ledger is read for the groups, then again for the costs.    *)
(***************************************************************************)

TotalMarginal(lines) == SumFunction([l \in lines |-> l.marginal])

MeanMarginal(lines) ==
  LET priced == { l \in Passes(lines) : l.marginal # None }
  IN  IF priced = {} THEN None ELSE << TotalMarginal(priced), Cardinality(priced) >>

Less(a, b) == a[1] * b[2] < b[1] * a[2]

\* _sort_key of _derive_class_ladder: priced rungs first, then the cheaper, the
\* one that passes more often, and the route id.
Cheaper(r, s) ==
  r.cost # None /\ (s.cost = None \/ Less(r.cost, s.cost))

Before(r, s) ==
  \/ Cheaper(r, s)
  \/ /\ ~Cheaper(s, r)
     /\ \/ r.pass * s.n > s.pass * r.n
        \/ r.pass * s.n = s.pass * r.n /\ r.route < s.route

\* No two rungs are of one route, so the order leaves nothing open.
Sorted(rungs) ==
  CHOOSE s \in [1..Cardinality(rungs) -> rungs] :
    \A i, j \in DOMAIN s : i < j => Before(s[i], s[j])

Rungs(lines, costs, class) ==
  LET keys == { k \in Keys(lines) :
                  /\ k[2] = class /\ k[1] # None
                  /\ Cardinality(Group(lines, k)) >= Least
                  /\ Passes(Group(lines, k)) # {} }
  IN  Sorted({ [route |-> k[1], n |-> Cardinality(Group(lines, k)),
                pass |-> Cardinality(Passes(Group(lines, k))),
                cost |-> MeanMarginal(Group(costs, k))] : k \in keys })

DeriveReads ==
  /\ counted = None
  /\ ~torn
  /\ counted' = ledger
  /\ UNCHANGED << ledger, torn, lock, pc, at, known, receipts >>

\* The ladders of all classes that were counted.
Derived ==
  [class \in { k[2] : k \in Keys(counted) } \ {None} |-> Rungs(counted, ledger, class)]

\* They are written to a file that nothing of the router reads.
DeriveEnds ==
  /\ counted # None
  /\ counted' = None
  /\ UNCHANGED << ledger, torn, lock, pc, at, known, receipts >>

-----------------------------------------------------------------------------
(***************************************************************************)
(* The report of a month.                                                  *)
(***************************************************************************)

\* Bug: the first moment of the next month belongs to this one.
InMonthOrNext(date, month) == month * MonthLength <= date /\ date <= (month + 1) * MonthLength

InMonth(date, month) == month * MonthLength <= date /\ date < (month + 1) * MonthLength

\* Filtered by month first; superseded lines are then left out.
OfMonth(lines, month) == Effective({ l \in lines : InMonth(l.date, month) })

\* build_evidence_report: a row for each route, class and instance.
ReportRows(lines, month) ==
  { << l.route, l.class, l.instance >> : l \in OfMonth(lines, month) }

RowMembers(lines, month, row) ==
  { l \in OfMonth(lines, month) : << l.route, l.class, l.instance >> = row }

\* _compute_cost: unavailable as soon as one success is not priced.
RowCost(members) ==
  IF \E l \in Passes(members) : ~l.list \/ l.marginal = None THEN None
  ELSE IF Passes(members) = {} THEN None
  ELSE << TotalMarginal(Passes(members)), Cardinality(Passes(members)) >>

\* Bug: the instances of a route weigh the same.
Unweighted(costs) ==
  << MapThenSumSet(LAMBDA c : c.cost[1] * (ProductSet({ d.cost[2] : d \in costs })
                                            \div c.cost[2]), costs),
     ProductSet({ d.cost[2] : d \in costs }) * Cardinality(costs) >>

\* _combine_route_costs, of rows that all have a cost: weighted by successes.
Combined(costs) ==
  << SumFunction([c \in costs |-> c.cost[1]]), SumFunction([c \in costs |-> c.cost[2]]) >>

RouteMembers(lines, month, route, class) ==
  { l \in OfMonth(lines, month) : l.route = route /\ l.class = class }

\* Rows without successes have no part in the cost of the route.
RouteCost(lines, month, route, class) ==
  LET rows == { r \in ReportRows(lines, month) :
                  /\ r[1] = route /\ r[2] = class
                  /\ Passes(RowMembers(lines, month, r)) # {} }
      cost(r) == RowCost(RowMembers(lines, month, r))
  IN  IF rows = {} \/ (\E r \in rows : cost(r) = None) THEN None
      ELSE Combined({ [instance |-> r[3], cost |-> cost(r)] : r \in rows })

\* Routes the report compares for a class.
Compared(lines, month, class) ==
  { route \in { l.route : l \in OfMonth(lines, month) } :
      LET members == RouteMembers(lines, month, route, class)
      IN  /\ Cardinality(members) >= Least
          /\ 10 * Cardinality(Passes(members)) >= Viable * Cardinality(members)
          /\ RouteCost(lines, month, route, class) # None }

\* _route_changes: the cheapest, unless the first of them is as cheap.
Recommended(lines, month, class) ==
  LET routes == Compared(lines, month, class)
      cost(r) == RouteCost(lines, month, r, class)
      cheapest == CHOOSE r \in routes : \A o \in routes :
                    ~Less(cost(o), cost(r)) /\ (Less(cost(r), cost(o)) \/ r <= o)
  IN  IF Cardinality(routes) < 2 \/ ~Less(cost(cheapest), cost(Min(routes))) THEN None
      ELSE cheapest

-----------------------------------------------------------------------------
Init ==
  /\ ledger = Legacy
  /\ torn = FALSE
  /\ lock = None
  /\ pc = [p \in Importers |-> "ready"]
  /\ at = [p \in Importers |-> 1]
  /\ known = [p \in Importers |-> {}]
  /\ receipts = {}
  /\ counted = None

Attempts ==
  { row.run : row \in { r \in UNION { Range(Rows[p]) : p \in Importers } : r.source # "benchmark" } }

Next ==
  \/ \E p \in Importers : RefuseSource(p) \/ Begin(p) \/ LockTimeout(p) \/ ImportRow(p) \/ Abort(p) \/ Finish(p)
  \/ \E line \in Runs : AppendRun(line)
  \/ \E run \in Attempts : WriteReceipt(run)
  \/ DeriveReads
  \/ DeriveEnds

Spec == Init /\ [][Next]_vars

-----------------------------------------------------------------------------
(***************************************************************************)
(* Properties.                                                             *)
(***************************************************************************)

\* Importers that race, die half-way and are run again never write an attempt
\* twice; and once an import has ended, every run of its source counts by a
\* line of the repaired shape, whatever was there before and whatever another
\* importer wrote meanwhile (writer_transaction, import_benchmark_evidence).
SettledByImport ==
  /\ \A l, o \in ledger : l.id = o.id => l = o
  /\ \A p \in Importers : pc[p] = "done" =>
       \A i \in 1..Len(Rows[p]) :
         Rows[p][i].source = "benchmark" /\ Importable(Rows[p][i]) =>
           \A l \in Effective(ledger) :
             SourceRun(l) = Rows[p][i].run => l.shape = "v6"

\* The readers, each with its own code to leave superseded lines out and to
\* group the rest, count the same attempts of a route in a class: the rollup,
\* the reports of all months together, and the join, which settles for a wider
\* class only when the route has nothing in this one and then takes whole groups.
\* What a transaction has written so far is judged as it would leave it (Abort).
ReadersCountAlike ==
  lock = None /\ counted = None =>
  LET months == { Month(l.date) : l \in ledger }
      group == [key \in Keys(ledger) |-> Group(ledger, key)]
      reported == [m \in months |-> [r \in ReportRows(ledger, m) |->
                                       Cardinality(RowMembers(ledger, m, r))]]
      total(key, m) ==
        SumFunctionOnSet(reported[m], { r \in DOMAIN reported[m] : << r[1], r[2] >> = key })
  IN  \A key \in DOMAIN group :
        /\ SumFunction([m \in months |-> total(key, m)]) = Cardinality(group[key])
        /\ \A route \in { other[1] : other \in DOMAIN group } :
             key[2] # None =>
               LET joined == Join(ledger, route, key[2])
               IN  IF << route, key[2] >> \in DOMAIN group
                   THEN joined = [width |-> Len(key[2]), members |-> group[<< route, key[2] >>]]
                   ELSE \A other \in DOMAIN group :
                          group[other] \cap joined.members \in {{}, group[other]}

\* A route the report recommends is not dearer in the ladder, which averages
\* costs its own way and reads the ledger twice, than a rung before it that the
\* report compared it with (_route_changes, derive_ladders).
RungAgreed ==
    DeriveEnds /\ ~torn =>
    \A class \in DOMAIN Derived :
      \A month \in { Month(l.date) : l \in ledger } :
        LET rungs == Derived[class]
            best == Recommended(ledger, month, class)
        IN  (\A l \in ledger : l.class = class /\ l.route # None => InMonth(l.date, month)) =>
              \A i, j \in 1..Len(rungs) :
                /\ i < j
                /\ rungs[j].route = best
                /\ rungs[i].route \in Compared(ledger, month, class)
                => ~Less(rungs[j].cost, rungs[i].cost)
                   /\ ~Less(RouteCost(ledger, month, best, class),
                            RouteCost(ledger, month, rungs[i].route, class))

CheapestAgreed == [][RungAgreed]_vars
=============================================================================
