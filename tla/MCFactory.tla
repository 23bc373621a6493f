----------------------------- MODULE MCFactory ------------------------------
(***************************************************************************)
(* Small values for the constants of Factory.                              *)
(***************************************************************************)
EXTENDS Factory, TLC

CONSTANTS ro, de,                             \* path components
          git, push,                          \* command tokens
          vault, edit, publish,               \* a place and two action classes
          packer, author, reviewer,           \* employees of the pipeline
          c1, c2, k1, k2,                     \* run contexts and providers
          clerk, builder, d1, d2, o1, o2,     \* registry: employees, digests, operators
          sub, met, i1, i2, fa, fb,           \* channels, instances, families
          imp, orch, impl, tests, db, small, py, go, b1, b3,
          mo, mp                              \* models

-----------------------------------------------------------------------------
\* Grants of one root spelled two ways, of a root inside it, and of everything;
\* commands with the wildcard in either place.
ContractRoots == { << >>, << ro >>, << Up, ro, Same >>, << ro, de >> }
ContractCarvings == { {}, {<< de, Up, Same, Star >>} }
ContractForms == { << git >>, << Star >>, << git, Star >>, << Star, push >> }
AskedPaths == UNION { [1..n -> {ro, de, Up}] : n \in 1..2 }
AskedArgvs == UNION { [1..n -> {git, push}] : n \in 1..2 }

-----------------------------------------------------------------------------
Scope == [work |-> clerk, kind |-> "assignment", reads |-> {StatusId}, writes |-> {vault},
          allowed |-> {edit}, approvals |-> {edit}, prohibited |-> {publish}]

GrantScopes == { Scope, [Scope EXCEPT !.kind = "standing", !.writes = {}],
                 [Scope EXCEPT !.allowed = {edit, publish}] }
AssignmentBans == { {edit}, {publish} }

-----------------------------------------------------------------------------
\* An author degrades on a weak pack; a reviewer wants a draft of another
\* provider and passes a weak pack on with a flag.  Domain logic always says 5:
\* the wire lifts it to 6, the author's floor, and a degraded 3 is below the
\* reviewer's.
Input(name, required, deficient, absent, floor, independent) ==
  [name |-> name, type |-> name, required |-> required, onDeficient |-> deficient,
   onAbsent |-> absent, floor |-> floor, independent |-> independent, version |-> None]

PipelineProduces == packer :> "pack" @@ author :> "draft" @@ reviewer :> "review"
PipelineDeclared ==
  packer :> {}
    @@ author :> { Input("pack", TRUE, "degrade", "refuse_and_escalate", 6, FALSE) }
    @@ reviewer :> { Input("draft", TRUE, "refuse_and_escalate", "proceed_and_flag", 4, TRUE),
                     [Input("pack", FALSE, "proceed_and_flag", "degrade", 0, FALSE)
                        EXCEPT !.version = "pack"] }
ContextProvider == c1 :> k1 @@ c2 :> k2

-----------------------------------------------------------------------------
RegistryMode == clerk :> "commissioning" @@ builder :> "live"
MissionLogs == { << << "commissioning", "pilot" >>, << "pilot", "scheduled" >> >>,
                 << << "pilot", "draft" >> >> }

-----------------------------------------------------------------------------
\* Two routes of one subscription with two instances, two of a metered channel.
RouteOf(channel, model, effort) ==
  [channel |-> channel, model |-> model, effort |-> effort, active |-> TRUE,
   harness |-> IF channel = sub THEN "cli" ELSE "api"]

\* What a snapshot says: nothing, or one or two buckets of the channel, an
\* instance or a model, with headroom on either side of the reserve.
Entry(instance, scope, percent, status, hours) ==
  [channels |-> {sub}, instance |-> instance, scope |-> scope, pct |-> percent,
   status |-> status, hours |-> hours]

Quotas == { Entry(None, None, 60, "COLD", 9), Entry(i1, None, 60, "HOT", 1),
            Entry(i1, None, 12, "COLD", 9), Entry(i2, None, 5, "COLD", 1),
            Entry(i1, << fa >>, 0, "COLD", 9), Entry(i2, None, 60, "UNAVAILABLE", None),
            [Entry(None, None, None, "COLD", None) EXCEPT !.channels = {sub, met}] }

Request(role, work, supervisor) == [role |-> role, author |-> work, supervisor |-> supervisor]

CatalogRoute == << RouteOf(sub, << fa, 1 >>, "high"), RouteOf(sub, << fb, 1 >>, "low"),
                  RouteOf(met, << fa, 2 >>, "low"), RouteOf(met, << fb, 1 >>, "high") >>
CatalogChannel ==
  sub :> [kind |-> "subscription", declared |-> TRUE, enabled |-> {i1, i2},
          reserve |-> 15, locks |-> {"cli"}]
    @@ met :> [kind |-> "metered", declared |-> FALSE, enabled |-> {},
               reserve |-> 0, locks |-> {}]
ChannelTerms == { [channel |-> sub, from |-> 0], [channel |-> met, from |-> 1] }
NeverRules == { [model |-> << fb, 1 >>, effort |-> "high"] }
ScopedRules == { [model |-> << fa, 2 >>, denied |-> {"review"}] }
PinnedPrices == << fa, 1 >> :> [price |-> 2, cached |-> 1]
                @@ << fa, 2 >> :> [price |-> 1, cached |-> None]
RateTable == { [model |-> << fb, 1 >>, channel |-> sub, price |-> 3, cached |-> 1],
               [model |-> << fb, 1 >>, channel |-> met, price |-> 4, cached |-> None] }
SavedCrews == { [computed |-> FALSE, routes |-> {1, 2, 3}], [computed |-> TRUE, routes |-> {}],
                [computed |-> FALSE, routes |-> {2, 5}] }
SnapshotEntries == { << >> } \cup { << e >> : e \in Quotas }
                   \cup { << Entry(i1, None, 60, "HOT", 1), e >> : e \in Quotas }
SnapshotStamps == {None, 0, 2}
Badges == "COLD" :> 50 @@ "HOT" :> 100 @@ "NO DATA" :> 100 @@ "UNAVAILABLE" :> 100
StaffRequests == { Request("impl", None, None), Request("judge", 1, 2),
                   Request("review", 3, 4), Request("impl", 2, None) }

-----------------------------------------------------------------------------
\* One run imported twice with two dates, an attempt of Agent-Orch, two lines of
\* an old import, and two routes whose cheaper one depends on how runs are
\* averaged over instances.
Class == << impl, tests, db, small, py >>

Benchmark(run, date) ==
  [source |-> "benchmark", run |-> run, sidecar |-> "agrees", usage |-> "known",
   accepted |-> "accepted", date |-> date, class |-> Class]

Line(kind, date) ==
  [kind |-> kind, id |-> None, shape |-> "raw", run |-> None, class |-> Class,
   date |-> date, route |-> None, instance |-> None, passed |-> FALSE, list |-> FALSE,
   marginal |-> None, by |-> None]

OldLine(run, class) ==
  [Line("benchmark", 0) EXCEPT !.id = << "benchmark", run >>, !.class = class,
                               !.shape = "legacy"]

RunLine(n, route, instance, marginal) ==
  [Line("router", 2) EXCEPT !.id = << "run", n >>, !.route = route, !.instance = instance,
                            !.passed = TRUE, !.list = TRUE, !.marginal = marginal]

SourceRows ==
  imp :> << Benchmark(b1, 0), [Benchmark(b3, 0) EXCEPT !.sidecar = "disagrees"],
            Benchmark(b1, 2) >>
    @@ orch :> << [source |-> "agent_orch", run |-> b1, date |-> 3, recent |-> TRUE,
                   routed |-> TRUE, exit |-> 0, validated |-> TRUE] >>
OldLines == { OldLine(b1, Class), OldLine(b3, << impl, tests, db, small, go >>) }
RunLines == { RunLine(1, 2, i1, 8), RunLine(2, 2, i1, 8), RunLine(3, 2, i2, 0),
              RunLine(4, 1, i1, 5), RunLine(5, 1, i1, 5) }

-----------------------------------------------------------------------------
Spent(cached, write, reasoning) ==
  [input |-> 1, cached |-> cached, write |-> write, output |-> 1, reasoning |-> reasoning]

SpentTokens == { Spent(1, 0, 0), Spent(0, 1, 1) }
ReceiptFields == { {"io", "total"}, {"io", "cached"}, {"io", "cached", "write", "reasoning"},
                   {"cached"} }

-----------------------------------------------------------------------------
\* Events of up to three objects; below the second only strings that could
\* count.  Some come with a line that says the worker is done.
Nodes == [kind : {"generated", "answer", "completed", "blocking", "plain"},
          key : {"content", "message", "other"}]

EventPaths == { << a >> : a \in Nodes } \cup { << a, b >> : a, b \in Nodes }
  \cup { << a, b, [kind |-> k, key |-> "content"] >> :
            a, b \in Nodes, k \in {"generated", "plain"} }

Done == << "event", << [kind |-> "completed", key |-> "other"] >> >>

WorkerOutputs ==
  { {}, {<< "prose" >>}, {<< "strings" >>}, {<< "strings" >>, Done} }
    \cup { {<< "event", p >>} : p \in EventPaths }
    \cup { {<< "event", << a >> >>, Done} : a \in Nodes }
=============================================================================
