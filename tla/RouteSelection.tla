---------------------------- MODULE RouteSelection ----------------------------
(***************************************************************************)
(* How the router picks a route for a piece of work: the quota snapshot it *)
(* reads (availability.py), the eligibility of every route of the catalog   *)
(* (staffing/eligibility.py), the block `staff' advises (staffing/staff.py, *)
(* ladder.py) and the route `run' launches (staffing/run.py, select_route). *)
(*                                                                         *)
(* Routes are numbered in the order of the catalog, which is taken to be    *)
(* the order of their ids.  Percentages and prices are integers.  ai-subs,  *)
(* which writes the snapshot, and the runs that prove a route are external. *)
(***************************************************************************)
EXTENDS Integers, Sequences, FiniteSets, SequencesExt

CONSTANTS Route,        \* number -> route record; a model is a sequence of tokens
          Channel,      \* channel -> channel record
          Terms,        \* dated terms: records of a channel and a first tick
          Never,        \* policy: models, or models with an effort, never automatic
          Scoped,       \* policy: models and the roles they are denied
          Snapshot,     \* pinned price list: model -> row; a row has the price of a
                        \* token, None if unpriced, and of a cached one
          Rates,        \* rate table: rows of a model, perhaps of one channel's
          Crews,        \* saved crews: their routes, or a computed placeholder
          Entries,      \* sequences of entries a snapshot may list
          Stamps,       \* timestamps a snapshot may carry
          Multiplier,   \* badge -> percent of the list price
          SameFamilyReview, \* policy: a reviewer may be of the author's family
          MaxAge, Skew, None,
          Requests,     \* who asks: role, author's route and supervisor's route
          Provable,     \* bound: routes whose runs may prove them
          MaxNow        \* bound: last tick

VARIABLES now,
          snapshot,   \* the file ai-subs last wrote
          proven,     \* routes the ledger proves (proof_status_by_route)
          answer      \* what was answered last, with what it was computed from:
                      \* a block of `staff auto', an event of `staff bind', a
                      \* quote, or the route `run' launches; None once taken

vars == << now, snapshot, proven, answer >>

Routes == DOMAIN Route

Amounts == Nat \cup {None}

\* What the constants are; the theorems assume it.
Assumption ==
  /\ Routes \subseteq Nat
  /\ MaxAge \in Nat /\ Skew \in Nat /\ Stamps \subseteq Int \cup {None}
  /\ Multiplier \in [DOMAIN Multiplier -> Nat] /\ "NO DATA" \in DOMAIN Multiplier
  /\ \A list \in Entries :
       /\ list \in Seq(Range(list))
       /\ \A n \in DOMAIN list :
            list[n].pct \in Amounts /\ list[n].status \in DOMAIN Multiplier
  /\ \A model \in DOMAIN Snapshot : Snapshot[model].price \in Amounts
  /\ \A row \in Rates : row.price \in Amounts

When(condition, reason) == IF condition THEN {reason} ELSE {}

-----------------------------------------------------------------------------
(***************************************************************************)
(* availability.py                                                         *)
(***************************************************************************)

Ages(s, t) == { t - stamp : stamp \in {s.observed, s.written} \ {None} }

\* Bug: a fresh write launders an old observation.
FreshestAge(s, t) ==
  Ages(s, t) = {} \/ (\A a \in Ages(s, t) : a > MaxAge) \/ \E a \in Ages(s, t) : a < -Skew

\* parse_availability: the oldest timestamp counts, and none may lie ahead.
Stale(s, t) ==
  Ages(s, t) = {} \/ \E a \in Ages(s, t) : a > MaxAge \/ a < -Skew

\* is_routable_bucket and is_wellformed_quota, and no failure of the provider.
Measured(e) ==
  /\ Cardinality(e.channels) = 1
  /\ e.pct # None
  /\ e.status \notin {"UNAVAILABLE", "NO DATA"}

Health(e) ==
  CASE ~Measured(e) -> "unknown"
    [] Measured(e) /\ e.pct = 0 -> "exhausted"
    [] Measured(e) /\ e.pct \in 1..9 -> "likely_exhausted"
    [] Measured(e) /\ e.pct >= 10 /\ (e.pct < 25 \/ e.status = "HOT") -> "degraded"
    [] OTHER -> "healthy"

Severity(h) ==
  CASE h = "healthy" -> 0 [] h = "unknown" -> 1 [] h = "degraded" -> 2
    [] h = "likely_exhausted" -> 3 [] h = "exhausted" -> 4

\* The places of the entries that constrain a channel, and one instance of it.
\* An entry that could mean several channels constrains each of them.
OnChannel(s, c) == { n \in DOMAIN s.entries : c \in s.entries[n].channels }

Instance(e, c) == IF e.instance = None THEN c ELSE e.instance

OnInstance(s, c, i) == { n \in OnChannel(s, c) : Instance(s.entries[n], c) = i }

\* _reduce_channel_wide: the first of the worst, and the least that remains.  A
\* sub-limit of one model family has no part in it.
Worst(entries, wide) ==
  CHOOSE n \in wide :
    \A m \in wide :
      \/ Severity(Health(entries[n])) > Severity(Health(entries[m]))
      \/ Severity(Health(entries[n])) = Severity(Health(entries[m])) /\ n <= m

Headroom(entries, places, stale) ==
  LET wide == { n \in places : entries[n].scope = None }
      measured == { entries[n].pct : n \in { m \in wide : Measured(entries[m]) } }
      silent == wide = {} \/ stale
  IN  [health |-> IF silent THEN "unknown" ELSE Health(entries[Worst(entries, wide)]),
       least |-> IF measured = {} THEN None
                 ELSE CHOOSE p \in measured : \A o \in measured : p <= o,
       limiting |-> IF silent THEN None ELSE entries[Worst(entries, wide)],
       hours |-> { entries[n].hours : n \in places } \ {None}]

-----------------------------------------------------------------------------
(***************************************************************************)
(* eligibility.py.  s is a snapshot read at t.                             *)
(***************************************************************************)

Vetoed == {"exhausted", "likely_exhausted", "unknown"}

Waived(hours) == hours # None /\ 0 <= hours /\ hours < 2

HoursToReset(headroom) ==
  IF headroom.limiting # None THEN headroom.limiting.hours
  ELSE IF headroom.hours = {} THEN None
  ELSE CHOOSE h \in headroom.hours : \A o \in headroom.hours : h <= o

\* An instance without entries inherits those the channel has as a whole.
InstanceHeadroom(s, t, c, i) ==
  Headroom(s.entries, IF OnInstance(s, c, i) # {} THEN OnInstance(s, c, i)
                      ELSE OnInstance(s, c, c), Stale(s, t))

InstanceVetoes(s, t, c, i) ==
  LET h == InstanceHeadroom(s, t, c, i)
  IN  When(h.health \in Vetoed, "headroom")
        \cup When(/\ h.least # None /\ h.least <= Channel[c].reserve
                  /\ ~Waived(HoursToReset(h)), "reserve")

\* Enabled instances, the implicit one where none is declared.
Instances(c) == IF Channel[c].declared THEN Channel[c].enabled ELSE {c}

ClearInstances(s, t, c) == { i \in Instances(c) : InstanceVetoes(s, t, c, i) = {} }

\* _model_scoped_vetoes: a sub-limit binds the routes of its family only.
SubLimited(s, r) ==
  \E n \in OnChannel(s, Route[r].channel) :
    LET e == s.entries[n]
    IN  /\ e.scope # None
        /\ IsPrefix(e.scope, Route[r].model)
        /\ \/ Health(e) \in Vetoed
           \/ /\ Measured(e) /\ e.pct <= Channel[Route[r].channel].reserve
              /\ ~Waived(e.hours)

QuotaReasons(s, t, r) ==
  LET c == Route[r].channel
  IN  (IF ClearInstances(s, t, c) # {} THEN {}
       ELSE IF Instances(c) = {} THEN {"no instance"}
       ELSE UNION { InstanceVetoes(s, t, c, i) : i \in Instances(c) })
        \cup When(SubLimited(s, r), "sub-limit")

\* The vendor of a model stands for its family.
Family(r) == Head(Route[r].model)

\* The author has to be a route of the catalog.
Known(author) == author = None \/ author \in Routes

\* An author's own route never reviews or judges; its family judges never, and
\* reviews where the policy says so.
Independent(r, role, author) ==
  author # None /\ role \in {"review", "judge"} =>
    /\ r # author
    /\ Family(r) = Family(author) => role = "review" /\ SameFamilyReview

NeverAutomatic(r) ==
  \E rule \in Never :
    rule.model = Route[r].model /\ (rule.effort = None \/ rule.effort = Route[r].effort)

RoleScoped(r, role) ==
  \E rule \in Scoped : rule.model = Route[r].model /\ role \in rule.denied

\* A channel has terms at t if it has a latest entry by then; two of one date
\* are ambiguous, and none is picked.
Dated(c, t) ==
  LET begun == { e \in Terms : e.channel = c /\ e.from <= t }
  IN  begun # {} /\ \A e, o \in begun : e.from = o.from => e = o

\* The row of the pinned list for a model it lists, even an unpriced one; else
\* that of the rate table, by the model alone or qualified by the channel.
RatesOf(r) ==
  LET rows(c) == { x \in Rates : x.model = Route[r].model /\ x.channel = c }
  IN  IF rows(None) # {} THEN rows(None) ELSE rows(Route[r].channel)

PriceRow(r) ==
  IF Route[r].model \in DOMAIN Snapshot THEN Snapshot[Route[r].model]
  ELSE IF RatesOf(r) = {} THEN [price |-> None, cached |-> None]
  ELSE CHOOSE x \in RatesOf(r) : TRUE

Replacement(r) == PriceRow(r).price

\* evaluate_eligibility: everything that excludes route r.
Reasons(s, t, r, role, author) ==
  LET route == Route[r]
  IN  When(~route.active, "status")
        \cup When(/\ Channel[route.channel].locks # {}
                  /\ route.harness \notin Channel[route.channel].locks, "harness")
        \cup When(NeverAutomatic(r), "never_automatic")
        \cup When(RoleScoped(r, role), "role_scoped")
        \cup (IF Channel[route.channel].kind = "subscription"
              THEN QuotaReasons(s, t, r) ELSE {})
        \cup When(~Dated(route.channel, t), "terms")
        \cup When(~Independent(r, role, author), "independence")
        \cup When(Replacement(r) = None, "pricing")

EligibleRoutes(s, t, role, author) ==
  { r \in Routes : Reasons(s, t, r, role, author) = {} }

\* What the badge of its channel makes of the price of a route.
Discount(s, t, r) ==
  LET limiting ==
        Headroom(s.entries, OnChannel(s, Route[r].channel), Stale(s, t)).limiting
  IN  Multiplier[IF limiting = None THEN "NO DATA" ELSE limiting.status]

Marginal(s, t, r) == Replacement(r) * Discount(s, t, r)

Cheapest(s, t, routes) ==
  CHOOSE r \in routes :
    \A o \in routes :
      \/ Marginal(s, t, r) < Marginal(s, t, o)
      \/ Marginal(s, t, r) = Marginal(s, t, o) /\ r <= o

-----------------------------------------------------------------------------
(***************************************************************************)
(* staff auto.  The overhead of a supervisor is never attributable, so no   *)
(* expected cost is ever available and the ladder is ordered by tier, proof *)
(* and price (calculate_ladder).                                            *)
(***************************************************************************)

Tier(r) ==
  CASE Channel[Route[r].channel].kind = "subscription" -> 0
    [] Channel[Route[r].channel].kind = "metered" -> 1
    [] OTHER -> 2

Proven(routes) == routes \cap proven

\* The first rung of the ladder.
Start(s, t, routes) ==
  LET first == { r \in routes : \A o \in routes : Tier(r) <= Tier(o) }
  IN  Cheapest(s, t, IF Proven(first) # {} THEN Proven(first) ELSE first)

\* _select_auto_route: the first rung, unless only others are proven.
Worker(s, t, routes) ==
  IF routes = {} THEN None
  ELSE IF Start(s, t, routes) \in proven \/ Proven(routes) = {} THEN Start(s, t, routes)
  ELSE Cheapest(s, t, Proven(routes))

\* Bug: a reviewer is compared with the author only.
AuthorOnly(s, t, author, worker) ==
  EligibleRoutes(s, t, "review", IF author # None THEN author ELSE worker)

\* _select_review_route: independent of the author, and of the worker too.
Reviewers(s, t, author, worker) ==
  EligibleRoutes(s, t, "review", IF author # None THEN author ELSE worker)
    \cap (IF worker # None THEN EligibleRoutes(s, t, "review", worker) ELSE Routes)

Reviewer(s, t, author, worker) ==
  LET able == Reviewers(s, t, author, worker)
  IN  IF able = {} THEN None
      ELSE Cheapest(s, t, IF Proven(able) # {} THEN Proven(able) ELSE able)

\* The block of a request: the reviewer is chosen for the worker that was.
Block(s, t, role, author) ==
  LET able == EligibleRoutes(s, t, role, author)
      worker == Worker(s, t, able)
  IN  [to |-> "auto", author |-> author, worker |-> worker,
       reviewer |-> Reviewer(s, t, author, worker), able |-> able]

StaffAuto(role, author) ==
  /\ answer = None
  /\ Known(author)
  /\ answer' = Block(snapshot, now, role, author)
  /\ UNCHANGED << now, snapshot, proven >>

\* _staff_crew: a saved crew as it was saved, if the catalog still has all of
\* its routes; what they have left is not asked.
StaffCrew(crew) ==
  /\ answer = None
  /\ ~crew.computed
  /\ crew.routes \subseteq Routes
  /\ answer' = [to |-> "crew", routes |-> crew.routes]
  /\ UNCHANGED << now, snapshot, proven >>

\* _staff_bind: an event, and no dispatch.  A route that is not chosen
\* automatically, or is kept in reserve, is bound by Lee only.
StaffBind(r, role, lee) ==
  /\ answer = None
  /\ Reasons(snapshot, now, r, role, None) \cap {"never_automatic", "reserve"} # {} => lee
  /\ answer' = [to |-> "bind", route |-> r, stale |-> Stale(snapshot, now)]
  /\ UNCHANGED << now, snapshot, proven >>

\* compute_price: a quote for one token of each kind, in hundredths.  Tokens
\* read from a cache are quoted only where the row prices them.
Quote(r, cached) ==
  LET amount == Replacement(r) + IF cached THEN PriceRow(r).cached ELSE 0
  IN  /\ answer = None
      /\ Dated(Route[r].channel, now)
      /\ Replacement(r) # None
      /\ cached => PriceRow(r).cached # None
      /\ answer' = [to |-> "price", route |-> r, list |-> amount * 100,
                    marginal |-> amount * Discount(snapshot, now, r)]
      /\ UNCHANGED << now, snapshot, proven >>

-----------------------------------------------------------------------------
(***************************************************************************)
(* run.                                                                    *)
(***************************************************************************)

\* _resolve_supervisor_route: whoever attests to a run is held to everything
\* but the policies on workers.
Attests(s, t, supervisor, role, author) ==
  supervisor # None =>
    Reasons(s, t, supervisor, role, author)
      \subseteq {"role_scoped", "independence", "never_automatic"}

\* The clear instance with the most left comes first; ties fall either way.
FirstInstances(s, t, c) ==
  LET left(i) == LET l == InstanceHeadroom(s, t, c, i).least
                 IN  IF l = None THEN -1 ELSE l
  IN  { i \in ClearInstances(s, t, c) :
          \A j \in ClearInstances(s, t, c) : left(j) <= left(i) }

\* _resolve_channel_instance.
ResolvedInstances(s, t, r, pinned) ==
  LET c == Route[r].channel
      clear == IF Channel[c].kind = "subscription" THEN ClearInstances(s, t, c) ELSE {}
  IN  IF pinned # None THEN {pinned} \cap clear
      ELSE IF clear = {} THEN {None} ELSE FirstInstances(s, t, c)

\* The route that was named, if it is eligible; else the first by price.
Chosen(s, t, named, role, author) ==
  LET able == EligibleRoutes(s, t, role, author)
  IN  IF named # None THEN {named} \cap able
      ELSE IF able = {} THEN {} ELSE {Cheapest(s, t, able)}

\* select_route: nothing of an earlier block is believed, all is computed again.
Select(named, pinned, role, author, supervisor) ==
  /\ answer = None
  /\ Known(author)
  /\ Attests(snapshot, now, supervisor, role, author)
  /\ \E r \in Chosen(snapshot, now, named, role, author) :
       \E i \in ResolvedInstances(snapshot, now, r, pinned) :
         answer' = [to |-> "run", route |-> r, instance |-> i]
  /\ UNCHANGED << now, snapshot, proven >>

-----------------------------------------------------------------------------
Init ==
  /\ now = 0
  /\ snapshot = [observed |-> None, written |-> None, entries |-> << >>]
  /\ proven = {}
  /\ answer = None

Tick ==
  /\ answer = None
  /\ now < MaxNow
  /\ now' = now + 1
  /\ UNCHANGED << snapshot, proven, answer >>

\* External: ai-subs writes what it observed, by its own clock.
Refresh ==
  /\ answer = None
  /\ \E observed, written \in Stamps, entries \in Entries :
       snapshot' = [observed |-> observed, written |-> written, entries |-> entries]
  /\ UNCHANGED << now, proven, answer >>

\* External: a run of r succeeds, or its usage is measured.
Prove(r) ==
  /\ answer = None
  /\ proven' = proven \cup {r}
  /\ UNCHANGED << now, snapshot, answer >>

\* External: whoever asked takes the answer; an answer changes nothing that the
\* next one is computed from.
Take ==
  /\ answer # None
  /\ answer' = None
  /\ UNCHANGED << now, snapshot, proven >>

\* staff: what a mode does not take is refused.  A route is bound for a role
\* and nobody's work.
Staff ==
  \/ \E q \in Requests : StaffAuto(q.role, q.author)
  \/ \E crew \in Crews : StaffCrew(crew)
  \/ \E r \in Routes, q \in Requests, lee \in BOOLEAN :
       q.author = None /\ StaffBind(r, q.role, lee)

Next ==
  \/ Take
  \/ Tick
  \/ Refresh
  \/ \E r \in Provable : Prove(r)
  \/ Staff
  \/ \E r \in Routes, cached \in BOOLEAN : Quote(r, cached)
  \/ \E named \in Routes \cup {None}, q \in Requests,
        pinned \in UNION { Instances(c) : c \in DOMAIN Channel } \cup {None} :
       Select(named, pinned, q.role, q.author, q.supervisor)

Spec == Init /\ [][Next]_vars

-----------------------------------------------------------------------------
(***************************************************************************)
(* Properties.                                                             *)
(***************************************************************************)

\* A route of a subscription is launched on the word of a snapshot that is
\* neither old nor ahead by any of its timestamps, that measured the quota of
\* the chosen account, and that found none of its windows, and no sub-limit of
\* the route's model, nearly spent (parse_availability, evaluate_eligibility).
LaunchesOnHeadroom ==
  /\ answer # None
  /\ answer.to = "run"
  /\ Channel[Route[answer.route].channel].kind = "subscription"
  =>
    LET c == Route[answer.route].channel
        stamps == {snapshot.observed, snapshot.written} \ {None}
        entries == Range(snapshot.entries)
        own == { e \in entries : c \in e.channels /\ Instance(e, c) = answer.instance }
        word == IF own # {} THEN own
                ELSE { e \in entries : c \in e.channels /\ Instance(e, c) = c }
        limits == { e \in entries : /\ c \in e.channels /\ e.scope # None
                                    /\ IsPrefix(e.scope, Route[answer.route].model) }
    IN  /\ stamps # {}
        /\ stamps \subseteq now - MaxAge..now + Skew
        /\ \E e \in word : e.scope = None /\ Measured(e)
        /\ \A e \in word : e.scope = None /\ Measured(e) => e.pct >= 10
        /\ \A e \in limits : Measured(e) /\ e.pct >= 10

\* A block never pairs a worker with a reviewer who is the worker or the author
\* or, unless the policy allows it, of the family of either; and it never starts
\* on an unproven route where a proven one would do (_staff_auto).
StaffedFairly ==
  answer # None /\ answer.to = "auto" =>
    /\ answer.able # {} => /\ answer.worker \in answer.able
                           /\ Proven(answer.able) # {} => answer.worker \in proven
    /\ answer.reviewer # None =>
         \A other \in {answer.worker, answer.author} \ {None} :
           /\ answer.reviewer # other
           /\ Family(answer.reviewer) = Family(other) => SameFamilyReview
=============================================================================
