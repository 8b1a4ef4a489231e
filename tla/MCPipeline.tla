----------------------------- MODULE MCPipeline -----------------------------
(***************************************************************************)
(* Small instances of Pipeline for TLC: the sinks and their routes.        *)
(***************************************************************************)
EXTENDS Pipeline

CONSTANTS s1, s2,                     \* sources
          all, also, one, both, only  \* sinks

\* Two broadcast sinks, a sink of s1 alone, a merged one of both sources, and a
\* merged one that names s1 only: the records of Broadcast, Single(s1),
\* Merged({s1, s2}) and Merged({s1}).
Catalogue ==
  [k \in {all, also, one, both, only} |->
     [kind    |-> CASE k \in {all, also} -> "broadcast"
                    [] k = one           -> "single"
                    [] OTHER             -> "merged",
      sources |-> CASE k \in {all, also}  -> {}
                    [] k \in {one, only}  -> {s1}
                    [] OTHER             -> {s1, s2}]]

SameTime  == [s \in Sources |-> 1]
OneEach   == [s \in Sources |-> 1]
TwoAndOne == [s \in Sources |-> IF s = s1 THEN 2 ELSE 1]

RouteAll   == [k \in {all} |-> Catalogue[k]]
RouteMixed == [k \in {all, also, one, both} |-> Catalogue[k]]
RouteLive  == [k \in {also, both} |-> Catalogue[k]]
RouteBoth  == [k \in {both} |-> Catalogue[k]]
RouteOnly  == [k \in {only} |-> Catalogue[k]]
=============================================================================
