------------------------------- MODULE Routing -------------------------------
(***************************************************************************)
(* Which sinks get which audio (src/pipeline/routing.rs).  Each sink has a *)
(* route; RoutingTable::new sorts the sinks into the broadcast ones, the   *)
(* direct ones of each source, and the merge groups, one for each distinct *)
(* set of sources that merged sinks name.                                  *)
(***************************************************************************)
EXTENDS FiniteSets

CONSTANTS
  Sources,  \* source_ids
  Sinks,    \* indices of the sinks
  Route     \* SinkRoute of each sink

\* The routes of add_sink, add_sink_from and add_sink_merged.
Broadcast == [kind |-> "broadcast", sources |-> {}]
Single(s) == [kind |-> "single", sources |-> {s}]
Merged(S) == [kind |-> "merged", sources |-> S]

Routes == {Broadcast} \cup {Single(s) : s \in Sources} \cup {Merged(S) : S \in SUBSET Sources}

\* A route that names an unknown source is rejected by RoutingTable::new.
ValidRoutes == Route \in [Sinks -> Routes]

\* A session without sources or sinks is rejected by StreamAudioBuilder::validate,
\* and so is a source named twice: Sources is a set.
ValidSession == Sources # {} /\ IsFiniteSet(Sinks) /\ Sinks # {}

OfKind(kind) == {k \in Sinks : Route[k].kind = kind}

BroadcastSinks == OfKind("broadcast")
DirectSinks(s) == {k \in OfKind("single") : s \in Route[k].sources}
MergedSinks    == OfKind("merged")

\* merge_map: the sinks of each set of sources.
MergeGroups ==
  {{k \in MergedSinks : Route[k].sources = S} : S \in {Route[k].sources : k \in MergedSinks}}

HasMergeRoutes == MergeGroups # {}

\* SinkRoute::wants_source, for the sinks that take chunks one by one.
WantsEach(k, s) ==
  Route[k].kind = "broadcast" \/ (Route[k].kind = "single" /\ s \in Route[k].sources)
=============================================================================
