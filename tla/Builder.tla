------------------------------- MODULE Builder -------------------------------
(***************************************************************************)
(* From the calls on StreamAudioBuilder (src/builder.rs) to a router: the  *)
(* user adds sources and sinks in any order; start validates what was      *)
(* added and RoutingTable::new (src/pipeline/routing.rs) sorts the sinks   *)
(* into tables, one route after the other.  What the sinks and devices do  *)
(* next is module Pipeline, which takes the routes as constants and reads  *)
(* them as module Routing says.                                            *)
(***************************************************************************)
EXTENDS Naturals, Sequences, FiniteSets

CONSTANTS
  Ids,         \* the source ids that a user writes
  MaxSources,  \* bound: calls of add_source
  MaxSinks     \* bound: calls of add_sink, add_sink_from and add_sink_merged

VARIABLES
  sources,    \* the ids of the sources added, in order
  routes,     \* sink_routes; a sink is named by its place
  stage,      \* where the builder or its start is
  error,      \* the StreamAudioError that start returned
  next,       \* the route RoutingTable::new looks at
  broadcast,  \* broadcast_sinks
  direct,     \* direct_routes
  merge,      \* merge_map
  expected    \* expected_sources of the merger; empty when there is none

tables == <<broadcast, direct, merge>>
vars   == <<sources, routes, stage, error, next, tables, expected>>

SourceIds == {sources[i] : i \in DOMAIN sources}

\* The routes as modules Routing and Pipeline read them.
R == INSTANCE Routing WITH Sources <- SourceIds, Sinks <- DOMAIN routes, Route <- routes

Empty == [key \in {} |-> <<>>]

Init ==
  /\ sources = <<>> /\ routes = <<>> /\ stage = "building" /\ error = "none"
  /\ next = 1 /\ broadcast = <<>> /\ direct = Empty /\ merge = Empty /\ expected = {}

-----------------------------------------------------------------------------
AddSource(id) ==
  /\ stage = "building" /\ Len(sources) < MaxSources
  /\ sources' = Append(sources, id)
  /\ UNCHANGED <<routes, stage, error, next, tables, expected>>

\* add_sink, add_sink_from and add_sink_merged differ in the route; the id need
\* not have been added, now or later, and a merged sink may name none.
AddSink(route) ==
  /\ stage = "building" /\ Len(routes) < MaxSinks
  /\ routes' = Append(routes, route)
  /\ UNCHANGED <<sources, stage, error, next, tables, expected>>

Fail(why) ==
  /\ stage' = "failed" /\ error' = why
  /\ UNCHANGED <<sources, routes, next, tables, expected>>

\* A plausible bug: every source is compared with itself too.
RepeatedSelf == {i \in DOMAIN sources : \E j \in 1 .. i : sources[j] = sources[i]}

Repeated == {i \in DOMAIN sources : \E j \in 1 .. i - 1 : sources[j] = sources[i]}

\* start, up to the end of validate: the first fault found is returned.
Start ==
  /\ stage = "building"
  /\ \/ sources = <<>> /\ Fail("NoSourcesConfigured")
     \/ sources # <<>> /\ routes = <<>> /\ Fail("NoSinksConfigured")
     \/ sources # <<>> /\ routes # <<>> /\ Repeated # {} /\ Fail("DuplicateSourceId")
     \/ /\ sources # <<>> /\ routes # <<>> /\ Repeated = {}
        /\ stage' = "routing"
        /\ UNCHANGED <<sources, routes, error, next, tables, expected>>

-----------------------------------------------------------------------------
\* entry(key).or_default().push(k)
Push(map, key, k) ==
  [x \in DOMAIN map \cup {key} |->
     IF x # key THEN map[x] ELSE IF x \in DOMAIN map THEN Append(map[x], k) ELSE <<k>>]

\* A plausible bug: one unknown source in a merged route is enough to accept it.
KnownInPart(route) == route.sources = {} \/ route.sources \cap SourceIds # {}

Known(route) == route.sources \subseteq SourceIds

\* A source that was never added is rejected by the first route that names it.
UnknownSource ==
  /\ stage = "routing" /\ next \in DOMAIN routes /\ ~Known(routes[next])
  /\ Fail("UnknownSourceInRoute")

\* A plausible bug: a sink of one source is entered with the broadcast sinks too.
SortSinkTwice ==
  LET route == routes[next]
  IN  /\ stage = "routing" /\ next \in DOMAIN routes /\ Known(route)
      /\ broadcast' = IF route.kind # "merged" THEN Append(broadcast, next) ELSE broadcast
      /\ direct' = IF route.kind = "single"
                     THEN Push(direct, CHOOSE id \in route.sources : TRUE, next) ELSE direct
      /\ merge' = IF route.kind = "merged" THEN Push(merge, route.sources, next) ELSE merge
      /\ next' = next + 1
      /\ UNCHANGED <<sources, routes, stage, error, expected>>

\* A plausible bug: the index is advanced twice.
SortSinkSkips ==
  LET route == routes[next]
  IN  /\ stage = "routing" /\ next \in DOMAIN routes /\ Known(route)
      /\ broadcast' = IF route.kind = "broadcast" THEN Append(broadcast, next) ELSE broadcast
      /\ direct' = IF route.kind = "single"
                     THEN Push(direct, CHOOSE id \in route.sources : TRUE, next) ELSE direct
      /\ merge' = IF route.kind = "merged" THEN Push(merge, route.sources, next) ELSE merge
      /\ next' = next + 2
      /\ UNCHANGED <<sources, routes, stage, error, expected>>

\* One turn of the loop of RoutingTable::new.
SortSink ==
  LET route == routes[next]
  IN  /\ stage = "routing" /\ next \in DOMAIN routes /\ Known(route)
      /\ broadcast' = IF route.kind = "broadcast" THEN Append(broadcast, next) ELSE broadcast
      /\ direct' = IF route.kind = "single"
                     THEN Push(direct, CHOOSE id \in route.sources : TRUE, next) ELSE direct
      /\ merge' = IF route.kind = "merged" THEN Push(merge, route.sources, next) ELSE merge
      /\ next' = next + 1
      /\ UNCHANGED <<sources, routes, stage, error, expected>>

\* Router::with_routing: the merger exists when there are merge groups, and it
\* expects all sources of the session.
MakeRouter ==
  /\ stage = "routing" /\ next \notin DOMAIN routes
  /\ expected' = IF DOMAIN merge = {} THEN {} ELSE SourceIds
  /\ stage' = "ready"
  /\ UNCHANGED <<sources, routes, error, next, tables>>

Next ==
  \/ \E id \in Ids : AddSource(id) \/ AddSink(R!Single(id))
  \/ AddSink(R!Broadcast) \/ \E S \in SUBSET Ids : AddSink(R!Merged(S))
  \/ Start \/ UnknownSource \/ SortSink \/ MakeRouter

Spec == Init /\ [][Next]_vars

-----------------------------------------------------------------------------
Members(list) == {list[i] : i \in DOMAIN list}
Ascending(list) == \A i, j \in DOMAIN list : i < j => list[i] < list[j]

\* The state has the shape of the code's data.
TypeOK ==
  /\ sources \in Seq(Ids) /\ stage \in {"building", "routing", "ready", "failed"}
  /\ routes \in Seq([kind : {"broadcast", "single", "merged"}, sources : SUBSET Ids])
  /\ error \in {"none", "NoSourcesConfigured", "NoSinksConfigured", "DuplicateSourceId",
                "UnknownSourceInRoute"}
  /\ next \in 1 .. Len(routes) + 1 /\ broadcast \in Seq(Nat)
  /\ DOMAIN direct \subseteq Ids /\ \A id \in DOMAIN direct : direct[id] \in Seq(Nat)
  /\ DOMAIN merge \subseteq SUBSET Ids /\ \A S \in DOMAIN merge : merge[S] \in Seq(Nat)
  /\ expected \subseteq Ids

\* A configuration that start accepts is one that the router and the merger are
\* made for, in whatever order it was put together: there are sources and sinks,
\* no source was added twice, every route names sources that exist, and there is
\* a merger, for all the sources, exactly when a sink needs it.
AcceptedIsSound ==
  stage = "ready" =>
    /\ R!ValidSession /\ R!ValidRoutes
    /\ Cardinality(SourceIds) = Len(sources)
    /\ expected = IF R!HasMergeRoutes THEN SourceIds ELSE {}

\* start does not refuse a configuration without a fault, and the error it returns
\* is true of the configuration.
RefusedForAFault ==
  stage = "failed" =>
    CASE error = "NoSourcesConfigured"  -> sources = <<>>
      [] error = "NoSinksConfigured"    -> routes = <<>>
      [] error = "DuplicateSourceId"    -> Cardinality(SourceIds) < Len(sources)
      [] error = "UnknownSourceInRoute" -> ~R!ValidRoutes

\* The tables built route by route send each chunk to the sinks that its source's
\* routes say, each sink once and in the order in which they were added.
TablesFollowRoutes ==
  stage = "ready" =>
    /\ Members(broadcast) = R!BroadcastSinks /\ Ascending(broadcast)
    /\ \A id \in SourceIds :
         LET list == IF id \in DOMAIN direct THEN direct[id] ELSE <<>>
         IN  Members(list) = R!DirectSinks(id) /\ Ascending(list)
    /\ {Members(merge[S]) : S \in DOMAIN merge} = R!MergeGroups
    /\ \A S \in DOMAIN merge : Ascending(merge[S])
=============================================================================
