---------------------------- MODULE Builder_proofs ----------------------------
(***************************************************************************)
(* Proofs about Builder, for any ids and any number of sources and sinks.  *)
(* The inductive invariant IInv says, beside the types, what the tables    *)
(* hold half-way through the loop of RoutingTable::new: the sinks before   *)
(* next, each in the list of its route and in ascending order, and all of  *)
(* them with sources that are known.                                       *)
(***************************************************************************)
EXTENDS Builder, TLAPS, FiniteSetTheorems, SequenceTheorems

\* The routes that the three ways to add a sink give.
AnyRoute == {R!Broadcast} \cup {R!Single(id) : id \in Ids} \cup {R!Merged(S) : S \in SUBSET Ids}

\* A list of sink indices that holds exactly those in K, in order.
Listed(list, K) == list \in Seq(Nat) /\ Members(list) = K /\ Ascending(list)

\* The sinks already sorted, with a kind of route, and with the sources S in it.
Sorted(kind)     == {k \in 1 .. next - 1 : routes[k].kind = kind}
SortedFor(kind, S) == {k \in Sorted(kind) : routes[k].sources = S}

BroadcastListed == Listed(broadcast, Sorted("broadcast"))

DirectListed ==
  /\ DOMAIN direct \subseteq Ids
  /\ \A id \in Ids :
       /\ id \in DOMAIN direct <=> SortedFor("single", {id}) # {}
       /\ id \in DOMAIN direct => Listed(direct[id], SortedFor("single", {id}))

MergeListed ==
  /\ DOMAIN merge \subseteq SUBSET Ids
  /\ \A S \in SUBSET Ids :
       /\ S \in DOMAIN merge <=> SortedFor("merged", S) # {}
       /\ S \in DOMAIN merge => Listed(merge[S], SortedFor("merged", S))

Shape ==
  /\ sources \in Seq(Ids) /\ routes \in Seq(AnyRoute)
  /\ stage \in {"building", "routing", "ready", "failed"}
  /\ error \in {"none", "NoSourcesConfigured", "NoSinksConfigured", "DuplicateSourceId",
                "UnknownSourceInRoute"}
  /\ next \in 1 .. Len(routes) + 1
  /\ expected \subseteq Ids

\* What each stage may rely on.
Validated ==
  /\ stage = "building" => next = 1
  /\ stage \in {"routing", "ready"} => sources # <<>> /\ routes # <<>> /\ Repeated = {}
  /\ stage \in {"routing", "ready"} => \A k \in 1 .. next - 1 : Known(routes[k])
  /\ stage = "ready" =>
       /\ next = Len(routes) + 1
       /\ expected = IF DOMAIN merge = {} THEN {} ELSE SourceIds

IInv == Shape /\ Validated /\ BroadcastListed /\ DirectListed /\ MergeListed /\ RefusedForAFault

-----------------------------------------------------------------------------
\* A sink pushed to a list of earlier ones comes last.
LEMMA AppendListed ==
  ASSUME NEW list, NEW K, Listed(list, K), NEW k \in Nat, \A m \in K : m < k
  PROVE  Listed(Append(list, k), K \cup {k})
<1> DEFINE longer == Append(list, k)
<1>1. /\ longer \in Seq(Nat) /\ DOMAIN longer = 1 .. Len(list) + 1
      /\ DOMAIN list = 1 .. Len(list) /\ Len(list) \in Nat
      /\ \A i \in DOMAIN list : longer[i] = list[i]
      /\ longer[Len(list) + 1] = k
  BY DEF Listed
<1>2. Members(longer) = Members(list) \cup {k}
  <2>1. ASSUME NEW i \in DOMAIN longer  PROVE longer[i] \in Members(list) \cup {k}
    BY <1>1 DEF Members
  <2>2. ASSUME NEW i \in DOMAIN list  PROVE list[i] \in Members(longer)
    BY <1>1 DEF Members
  <2>3. k \in Members(longer)
    BY <1>1 DEF Members
  <2> QED  BY <2>1, <2>2, <2>3 DEF Members
<1>3. ASSUME NEW i \in DOMAIN longer, NEW j \in DOMAIN longer, i < j
      PROVE  longer[i] < longer[j]
  <2>1. i \in DOMAIN list
    BY <1>1, <1>3
  <2>2. CASE j \in DOMAIN list
    BY <1>1, <1>3, <2>1, <2>2 DEF Listed, Ascending
  <2>3. CASE j = Len(list) + 1
    <3>1. list[i] \in K
      BY <2>1 DEF Listed, Members
    <3> QED  BY <1>1, <2>1, <2>3, <3>1
  <2> QED  BY <1>1, <2>2, <2>3
<1> QED  BY <1>1, <1>2, <1>3 DEF Listed, Ascending

\* What entry(key).or_default().push(k) changes, and what it leaves.
LEMMA PushListed ==
  ASSUME NEW map, NEW key, NEW K, NEW k \in Nat, \A m \in K : m < k,
         key \in DOMAIN map <=> K # {},
         key \in DOMAIN map => Listed(map[key], K)
  PROVE  /\ DOMAIN Push(map, key, k) = DOMAIN map \cup {key}
         /\ \A x \in DOMAIN map : x # key => Push(map, key, k)[x] = map[x]
         /\ Listed(Push(map, key, k)[key], K \cup {k})
<1>1. CASE key \in DOMAIN map
  BY <1>1, AppendListed DEF Push
<1>2. CASE key \notin DOMAIN map
  <2>1. Listed(<<k>>, {k})
    BY DEF Listed, Members, Ascending
  <2> QED  BY <1>2, <2>1 DEF Push
<1> QED  BY <1>1, <1>2

\* The comparison of each source with those before it finds every repetition.
LEMMA Repetitions ==
  ASSUME sources \in Seq(Ids)
  PROVE  /\ Repeated = {} => Cardinality(SourceIds) = Len(sources)
         /\ Repeated # {} => Cardinality(SourceIds) < Len(sources)
<1> DEFINE n == Len(sources)
<1>1. n \in Nat /\ DOMAIN sources = 1 .. n
  OBVIOUS
<1>2. IsFiniteSet(1 .. n) /\ Cardinality(1 .. n) = n
  BY <1>1, FS_Interval
<1>3. sources \in Surjection(1 .. n, SourceIds)
  BY <1>1 DEF Surjection, SourceIds
<1>4. /\ IsFiniteSet(SourceIds) /\ Cardinality(SourceIds) <= n
      /\ Cardinality(SourceIds) = n <=> sources \in Injection(1 .. n, SourceIds)
  BY <1>2, <1>3, FS_Surjection
<1>5. Cardinality(SourceIds) \in Nat
  BY <1>4, FS_CardinalityType
<1>6. Repeated = {} <=> sources \in Injection(1 .. n, SourceIds)
  <2>1. ASSUME Repeated = {}, NEW i \in 1 .. n, NEW j \in 1 .. n, sources[i] = sources[j]
        PROVE  i = j
    <3>1. ~ (i < j)
      BY <1>1, <2>1 DEF Repeated
    <3>2. ~ (j < i)
      BY <1>1, <2>1 DEF Repeated
    <3> QED  BY <1>1, <3>1, <3>2
  <2>2. ASSUME sources \in Injection(1 .. n, SourceIds), NEW i \in Repeated
        PROVE  FALSE
    <3>1. PICK j \in 1 .. i - 1 : sources[j] = sources[i]
      BY <2>2 DEF Repeated
    <3>2. i \in 1 .. n /\ j \in 1 .. n /\ i # j
      BY <1>1, <2>2, <3>1 DEF Repeated
    <3> QED  BY <2>2, <3>1, <3>2 DEF Injection, IsInjective
  <2>3. Repeated = {} => sources \in Injection(1 .. n, SourceIds)
    BY <1>3, <2>1 DEF Injection, IsInjective, Surjection
  <2> QED  BY <2>2, <2>3
<1> QED  BY <1>1, <1>4, <1>5, <1>6

-----------------------------------------------------------------------------
\* A fresh builder has no routes and empty tables.
LEMMA InitInv == Init => IInv
<1> SUFFICES ASSUME Init PROVE IInv
  OBVIOUS
<1>1. 1 .. next - 1 = {}
  BY DEF Init
<1>2. Shape /\ Validated /\ RefusedForAFault
  BY <1>1 DEF Init, Shape, Validated, RefusedForAFault
<1>3. BroadcastListed
  BY <1>1 DEF Init, BroadcastListed, Listed, Members, Ascending, Sorted
<1>4. DirectListed /\ MergeListed
  BY <1>1 DEF Init, Empty, DirectListed, MergeListed, SortedFor, Sorted
<1> QED  BY <1>2, <1>3, <1>4 DEF IInv

\* The lists depend on the tables and on the routes before next only.
LEMMA ListsKept ==
  ASSUME BroadcastListed, DirectListed, MergeListed, UNCHANGED <<tables, next>>,
         \A k \in 1 .. next - 1 : routes'[k] = routes[k]
  PROVE  BroadcastListed' /\ DirectListed' /\ MergeListed'
<1>1. \A kind : Sorted(kind)' = Sorted(kind)
  BY DEF Sorted
<1>2. \A kind, S : SortedFor(kind, S)' = SortedFor(kind, S)
  BY DEF SortedFor, Sorted
<1>3. BroadcastListed'
  BY <1>1 DEF BroadcastListed, tables
<1>4. DirectListed'
  BY <1>2 DEF DirectListed, tables
<1>5. MergeListed'
  BY <1>2 DEF MergeListed, tables
<1> QED  BY <1>3, <1>4, <1>5

\* add_source, add_sink and the others come before any table is filled.
LEMMA AddSourceInv ==
  ASSUME IInv, NEW id \in Ids, AddSource(id)
  PROVE  IInv'
<1>1. Shape'
  BY DEF IInv, Shape, AddSource, tables
<1>2. Validated' /\ RefusedForAFault'
  BY DEF IInv, Validated, RefusedForAFault, AddSource, tables
<1>3. BroadcastListed' /\ DirectListed' /\ MergeListed'
  BY ListsKept DEF IInv, AddSource
<1> QED  BY <1>1, <1>2, <1>3 DEF IInv

\* A sink added is not among those already sorted.
LEMMA AddSinkInv ==
  ASSUME IInv, NEW route \in AnyRoute, AddSink(route)
  PROVE  IInv'
<1>1. Shape'
  BY DEF IInv, Shape, AddSink, tables
<1>2. Validated' /\ RefusedForAFault'
  BY DEF IInv, Validated, RefusedForAFault, AddSink, tables
<1>3. 1 .. next - 1 = {}
  BY DEF IInv, Validated, AddSink
<1>4. BroadcastListed' /\ DirectListed' /\ MergeListed'
  BY <1>3, ListsKept DEF IInv, AddSink
<1> QED  BY <1>1, <1>2, <1>4 DEF IInv

\* A route that names a source never added makes the routes invalid.
LEMMA UnknownInvalid ==
  ASSUME NEW k \in DOMAIN routes, ~Known(routes[k])
  PROVE  ~R!ValidRoutes
<1> SUFFICES ASSUME R!ValidRoutes PROVE Known(routes[k])
  OBVIOUS
<1>1. routes[k] \in R!Routes
  BY DEF R!ValidRoutes
<1> QED  BY <1>1 DEF R!Routes, R!Broadcast, R!Single, R!Merged, Known

\* validate: what it refuses has the fault, what it accepts has none of the three.
LEMMA StartInv ==
  ASSUME IInv, Start
  PROVE  IInv'
<1>1. Shape' /\ Validated'
  <2>1. Shape'
    BY DEF IInv, Shape, Start, Fail, tables
  <2>2. Validated'
    BY DEF IInv, Validated, Shape, Start, Fail, tables, Repeated, SourceIds
  <2> QED  BY <2>1, <2>2
<1>2. RefusedForAFault'
  <2>1. sources' = sources /\ routes' = routes /\ sources \in Seq(Ids)
    BY DEF IInv, Shape, Start, Fail
  <2>2. SourceIds' = SourceIds
    BY <2>1 DEF SourceIds
  <2>3. CASE Fail("NoSourcesConfigured") /\ sources = <<>>
    BY <2>1, <2>3 DEF Fail, RefusedForAFault
  <2>4. CASE Fail("NoSinksConfigured") /\ routes = <<>>
    BY <2>1, <2>4 DEF Fail, RefusedForAFault
  <2>5. CASE Fail("DuplicateSourceId") /\ Repeated # {}
    <3>1. Cardinality(SourceIds) < Len(sources)
      BY <2>1, <2>5, Repetitions
    <3> QED  BY <2>1, <2>2, <2>5, <3>1 DEF Fail, RefusedForAFault
  <2>6. CASE stage' = "routing"
    BY <2>6 DEF RefusedForAFault
  <2> QED  BY <2>3, <2>4, <2>5, <2>6 DEF Start
<1>3. BroadcastListed' /\ DirectListed' /\ MergeListed'
  BY ListsKept DEF IInv, Start, Fail
<1> QED  BY <1>1, <1>2, <1>3 DEF IInv

\* RoutingTable::new refuses only invalid routes, whatever it has sorted before.
LEMMA UnknownSourceInv ==
  ASSUME IInv, UnknownSource
  PROVE  IInv'
<1>1. Shape' /\ Validated'
  BY DEF IInv, Shape, Validated, UnknownSource, Fail, tables
<1>2. RefusedForAFault'
  <2>1. ~R!ValidRoutes
    BY UnknownInvalid DEF UnknownSource
  <2>2. (R!ValidRoutes)' = R!ValidRoutes
    BY DEF UnknownSource, Fail, R!ValidRoutes, R!Routes, R!Broadcast, R!Single, R!Merged, SourceIds
  <2>3. stage' = "failed" /\ error' = "UnknownSourceInRoute"
    BY DEF UnknownSource, Fail
  <2> QED  BY <2>1, <2>2, <2>3 DEF RefusedForAFault
<1>3. BroadcastListed' /\ DirectListed' /\ MergeListed'
  BY ListsKept DEF IInv, UnknownSource, Fail
<1> QED  BY <1>1, <1>2, <1>3 DEF IInv

-----------------------------------------------------------------------------
\* One turn of the loop: the sink next joins those of its kind and sources.
LEMMA SortStep ==
  ASSUME IInv, SortSink
  PROVE  /\ next \in Nat /\ next' = next + 1 /\ routes' = routes
         /\ routes[next] \in AnyRoute /\ Known(routes[next])
<1>1. next \in Nat /\ next' = next + 1 /\ routes' = routes
  BY DEF IInv, Shape, SortSink
<1>2. routes[next] \in AnyRoute /\ Known(routes[next])
  BY DEF IInv, Shape, SortSink
<1> QED  BY <1>1, <1>2

\* The sink goes with those of its kind and leaves the other kinds alone.
LEMMA SortedStep ==
  ASSUME IInv, SortSink, NEW kind
  PROVE  /\ \A m \in Sorted(kind) : m \in Nat /\ m < next
         /\ routes[next].kind = kind => Sorted(kind)' = Sorted(kind) \cup {next}
         /\ routes[next].kind # kind => Sorted(kind)' = Sorted(kind)
<1>1. next \in Nat /\ next >= 1 /\ next' = next + 1 /\ routes' = routes
  BY DEF IInv, Shape, SortSink
<1>2. 1 .. next' - 1 = (1 .. next - 1) \cup {next}
  BY <1>1
<1> QED  BY <1>1, <1>2 DEF Sorted

\* The same for one kind and one set of sources.
LEMMA SortedForStep ==
  ASSUME IInv, SortSink, NEW kind, NEW S
  PROVE  /\ \A m \in SortedFor(kind, S) : m \in Nat /\ m < next
         /\ routes[next].kind = kind /\ routes[next].sources = S
              => SortedFor(kind, S)' = SortedFor(kind, S) \cup {next}
         /\ routes[next].kind # kind \/ routes[next].sources # S
              => SortedFor(kind, S)' = SortedFor(kind, S)
<1>1. routes' = routes
  BY SortStep
<1> QED  BY <1>1, SortedStep DEF SortedFor

\* The list that gets the sink, and no other, changes.
LEMMA SortSinkInv ==
  ASSUME IInv, SortSink
  PROVE  IInv'
<1> DEFINE route == routes[next]
<1>1. Shape' /\ RefusedForAFault'
  BY DEF IInv, Shape, SortSink, RefusedForAFault
<1>2. Validated'
  <2>1. stage' = "routing" /\ sources' = sources /\ routes' = routes
    BY DEF SortSink
  <2>2. Repeated' = Repeated /\ SourceIds' = SourceIds
    BY <2>1 DEF Repeated, SourceIds
  <2>3. sources # <<>> /\ routes # <<>> /\ Repeated = {}
    BY DEF IInv, Validated, SortSink
  <2>4. ASSUME NEW k \in 1 .. next' - 1  PROVE Known(routes[k])
    BY <2>4, SortStep DEF IInv, Validated, SortSink
  <2> QED  BY <2>1, <2>2, <2>3, <2>4 DEF Validated, Known
<1>3. BroadcastListed'
  <2>1. CASE route.kind = "broadcast"
    <3>1. broadcast' = Append(broadcast, next)
      BY <2>1 DEF SortSink
    <3>2. Sorted("broadcast")' = Sorted("broadcast") \cup {next}
      BY <2>1, SortedStep
    <3>3. next \in Nat /\ \A m \in Sorted("broadcast") : m < next
      BY SortStep, SortedStep
    <3> QED  BY <3>1, <3>2, <3>3, AppendListed DEF IInv, BroadcastListed
  <2>2. CASE route.kind # "broadcast"
    <3>1. broadcast' = broadcast /\ Sorted("broadcast")' = Sorted("broadcast")
      BY <2>2, SortedStep DEF SortSink
    <3> QED  BY <3>1 DEF IInv, BroadcastListed
  <2> QED  BY <2>1, <2>2
<1>4. DirectListed'
  <2>1. CASE route.kind = "single"
    <3>1. PICK key \in Ids : route.sources = {key}
      BY <2>1, SortStep DEF AnyRoute, R!Broadcast, R!Single, R!Merged
    <3>2. direct' = Push(direct, key, next)
      BY <2>1, <3>1 DEF SortSink
    <3> DEFINE K == SortedFor("single", {key})
    <3>3. next \in Nat /\ \A m \in K : m < next
      BY SortStep, SortedForStep
    <3>4. /\ DOMAIN direct' = DOMAIN direct \cup {key}
          /\ \A x \in DOMAIN direct : x # key => direct'[x] = direct[x]
          /\ Listed(direct'[key], K \cup {next})
      <4>1. key \in DOMAIN direct <=> K # {}
        BY DEF IInv, DirectListed
      <4>2. key \in DOMAIN direct => Listed(direct[key], K)
        BY DEF IInv, DirectListed
      <4> HIDE DEF K
      <4>3. /\ DOMAIN Push(direct, key, next) = DOMAIN direct \cup {key}
            /\ \A x \in DOMAIN direct : x # key => Push(direct, key, next)[x] = direct[x]
            /\ Listed(Push(direct, key, next)[key], K \cup {next})
        BY <3>3, <4>1, <4>2, PushListed, Zenon
      <4> QED  BY <3>2, <4>3
    <3>5. SortedFor("single", {key})' = K \cup {next}
      BY <2>1, <3>1, SortedForStep
    <3>6. ASSUME NEW id \in Ids, id # key
          PROVE  SortedFor("single", {id})' = SortedFor("single", {id})
      <4>1. route.sources # {id}
        BY <3>1, <3>6
      <4> QED  BY <4>1, SortedForStep
    <3>7. ASSUME NEW id \in Ids
          PROVE  /\ id \in DOMAIN direct' <=> SortedFor("single", {id})' # {}
                 /\ id \in DOMAIN direct' => Listed(direct'[id], SortedFor("single", {id})')
      <4>1. CASE id = key
        BY <3>4, <3>5, <4>1
      <4>2. CASE id # key
        <5>1. SortedFor("single", {id})' = SortedFor("single", {id})
          BY <3>6, <4>2
        <5> QED  BY <3>4, <4>2, <5>1 DEF IInv, DirectListed
      <4> QED  BY <4>1, <4>2
    <3> QED  BY <3>1, <3>4, <3>7 DEF IInv, DirectListed
  <2>2. CASE route.kind # "single"
    <3>1. direct' = direct
      BY <2>2 DEF SortSink
    <3>2. \A S : SortedFor("single", S)' = SortedFor("single", S)
      BY <2>2, SortedForStep
    <3> QED  BY <3>1, <3>2 DEF IInv, DirectListed
  <2> QED  BY <2>1, <2>2
<1>5. MergeListed'
  <2>1. CASE route.kind = "merged"
    <3>1. PICK key \in SUBSET Ids : route.sources = key
      BY <2>1, SortStep DEF AnyRoute, R!Broadcast, R!Single, R!Merged
    <3>2. merge' = Push(merge, key, next)
      BY <2>1, <3>1 DEF SortSink
    <3> DEFINE K == SortedFor("merged", key)
    <3>3. next \in Nat /\ \A m \in K : m < next
      BY SortStep, SortedForStep
    <3>4. /\ DOMAIN merge' = DOMAIN merge \cup {key}
          /\ \A x \in DOMAIN merge : x # key => merge'[x] = merge[x]
          /\ Listed(merge'[key], K \cup {next})
      <4>1. key \in DOMAIN merge <=> K # {}
        BY DEF IInv, MergeListed
      <4>2. key \in DOMAIN merge => Listed(merge[key], K)
        BY DEF IInv, MergeListed
      <4> HIDE DEF K
      <4>3. /\ DOMAIN Push(merge, key, next) = DOMAIN merge \cup {key}
            /\ \A x \in DOMAIN merge : x # key => Push(merge, key, next)[x] = merge[x]
            /\ Listed(Push(merge, key, next)[key], K \cup {next})
        BY <3>3, <4>1, <4>2, PushListed, Zenon
      <4> QED  BY <3>2, <4>3
    <3>5. SortedFor("merged", key)' = K \cup {next}
      BY <2>1, <3>1, SortedForStep
    <3>6. ASSUME NEW S \in SUBSET Ids
          PROVE  /\ S \in DOMAIN merge' <=> SortedFor("merged", S)' # {}
                 /\ S \in DOMAIN merge' => Listed(merge'[S], SortedFor("merged", S)')
      <4>1. CASE S = key
        BY <3>4, <3>5, <4>1
      <4>2. CASE S # key
        <5>1. SortedFor("merged", S)' = SortedFor("merged", S)
          BY <3>1, <4>2, SortedForStep
        <5> QED  BY <3>4, <4>2, <5>1 DEF IInv, MergeListed
      <4> QED  BY <4>1, <4>2
    <3> QED  BY <3>1, <3>4, <3>6 DEF IInv, MergeListed
  <2>2. CASE route.kind # "merged"
    <3>1. merge' = merge
      BY <2>2 DEF SortSink
    <3>2. \A S : SortedFor("merged", S)' = SortedFor("merged", S)
      BY <2>2, SortedForStep
    <3> QED  BY <3>1, <3>2 DEF IInv, MergeListed
  <2> QED  BY <2>1, <2>2
<1> QED  BY <1>1, <1>2, <1>3, <1>4, <1>5 DEF IInv

\* with_routing finds every route sorted.
LEMMA MakeRouterInv ==
  ASSUME IInv, MakeRouter
  PROVE  IInv'
<1>1. SourceIds \subseteq Ids
  BY DEF IInv, Shape, SourceIds
<1>2. Shape' /\ RefusedForAFault'
  BY <1>1 DEF IInv, Shape, MakeRouter, tables, RefusedForAFault
<1>3. next = Len(routes) + 1
  BY DEF IInv, Shape, MakeRouter
<1>4. Validated'
  BY <1>3 DEF IInv, Validated, MakeRouter, tables, Repeated, Known, SourceIds
<1>5. BroadcastListed' /\ DirectListed' /\ MergeListed'
  BY ListsKept DEF IInv, MakeRouter
<1> QED  BY <1>2, <1>4, <1>5 DEF IInv

\* The invariant is inductive.
LEMMA NextInv == IInv /\ [Next]_vars => IInv'
<1> SUFFICES ASSUME IInv, [Next]_vars PROVE IInv'
  OBVIOUS
<1>1. CASE \E id \in Ids : AddSource(id)
  BY <1>1, AddSourceInv
<1>2. CASE \E route \in AnyRoute : AddSink(route)
  BY <1>2, AddSinkInv
<1>3. CASE UNCHANGED vars
  <2>1. UNCHANGED <<sources, routes, stage, error, next, tables, expected>>
    BY <1>3 DEF vars
  <2>2. Shape' /\ Validated'
    BY <2>1 DEF IInv, Shape, Validated, tables, Repeated, Known, SourceIds
  <2>3. RefusedForAFault'
    BY <2>1 DEF IInv, RefusedForAFault, SourceIds,
                R!ValidRoutes, R!Routes, R!Broadcast, R!Single, R!Merged
  <2>4. BroadcastListed' /\ DirectListed' /\ MergeListed'
    BY <2>1, ListsKept DEF IInv
  <2> QED  BY <2>2, <2>3, <2>4 DEF IInv
<1> QED
  BY <1>1, <1>2, <1>3, StartInv, UnknownSourceInv, SortSinkInv, MakeRouterInv DEF Next, AnyRoute

\* The invariant holds in every state of every configuration.
THEOREM Invariant == Spec => []IInv
  BY InitInv, NextInv, PTL DEF Spec

-----------------------------------------------------------------------------
\* The builder's lists and RoutingTable's maps always have the shape of the code's
\* data, for any ids and however many calls.
THEOREM TypeCorrect == Spec => []TypeOK
<1>1. IInv => TypeOK
  <2> SUFFICES ASSUME IInv PROVE TypeOK
    OBVIOUS
  <2>1. AnyRoute \subseteq [kind : {"broadcast", "single", "merged"}, sources : SUBSET Ids]
    BY DEF AnyRoute, R!Broadcast, R!Single, R!Merged
  <2>2. routes \in Seq([kind : {"broadcast", "single", "merged"}, sources : SUBSET Ids])
    <3> DEFINE T == [kind : {"broadcast", "single", "merged"}, sources : SUBSET Ids]
    <3>1. routes \in Seq(AnyRoute) /\ AnyRoute \subseteq T
      BY <2>1 DEF IInv, Shape
    <3> HIDE DEF T, AnyRoute
    <3>2. routes \in [1 .. Len(routes) -> T] /\ Len(routes) \in Nat
      BY <3>1
    <3>3. routes \in Seq(T)
      BY <3>2, SeqDef
    <3> QED  BY <3>3 DEF T
  <2>3. /\ broadcast \in Seq(Nat)
        /\ DOMAIN direct \subseteq Ids /\ \A id \in DOMAIN direct : direct[id] \in Seq(Nat)
        /\ DOMAIN merge \subseteq SUBSET Ids /\ \A S \in DOMAIN merge : merge[S] \in Seq(Nat)
    BY DEF IInv, BroadcastListed, DirectListed, MergeListed, Listed
  <2> QED  BY <2>2, <2>3 DEF IInv, Shape, TypeOK
<1> QED  BY <1>1, Invariant, PTL

\* What validate and RoutingTable::new accept, the router and the merger are made
\* for: sources and sinks exist, no source was added twice, every route names
\* known sources, and the merger, when there is one, expects all of them.
THEOREM Accepted == Spec => []AcceptedIsSound
<1>1. IInv => AcceptedIsSound
  <2> SUFFICES ASSUME IInv, stage = "ready"
               PROVE  /\ R!ValidSession /\ R!ValidRoutes
                      /\ Cardinality(SourceIds) = Len(sources)
                      /\ expected = IF R!HasMergeRoutes THEN SourceIds ELSE {}
    BY DEF AcceptedIsSound
  <2>1. /\ sources \in Seq(Ids) /\ sources # <<>> /\ Repeated = {}
        /\ routes \in Seq(AnyRoute) /\ routes # <<>> /\ next = Len(routes) + 1
        /\ \A k \in DOMAIN routes : Known(routes[k])
        /\ expected = IF DOMAIN merge = {} THEN {} ELSE SourceIds
    BY DEF IInv, Shape, Validated
  <2>2. DOMAIN routes = 1 .. Len(routes) /\ Len(routes) \in Nat
    BY <2>1
  <2>3. R!ValidSession
    <3>1. SourceIds # {}
      BY <2>1 DEF SourceIds
    <3>2. IsFiniteSet(DOMAIN routes)
      BY <2>2, FS_Interval
    <3>3. DOMAIN routes # {}
      BY <2>1, <2>2
    <3> QED  BY <3>1, <3>2, <3>3 DEF R!ValidSession, R!IsFiniteSet, IsFiniteSet
  <2>4. R!ValidRoutes
    <3>1. ASSUME NEW k \in DOMAIN routes  PROVE routes[k] \in R!Routes
      <4>1. routes[k] \in AnyRoute /\ routes[k].sources \subseteq SourceIds
        BY <2>1 DEF Known
      <4> QED  BY <4>1 DEF AnyRoute, R!Routes, R!Broadcast, R!Single, R!Merged
    <3>2. routes = [k \in DOMAIN routes |-> routes[k]]
      BY <2>1
    <3> QED  BY <3>1, <3>2 DEF R!ValidRoutes
  <2>5. DOMAIN merge # {} <=> R!HasMergeRoutes
    <3>1. Sorted("merged") = R!MergedSinks
      BY <2>1, <2>2 DEF Sorted, R!MergedSinks, R!OfKind
    <3>2. R!HasMergeRoutes <=> R!MergedSinks # {}
      <4>1. ASSUME NEW k \in R!MergedSinks
            PROVE  {j \in R!MergedSinks : routes[j].sources = routes[k].sources} \in R!MergeGroups
        BY DEF R!MergeGroups
      <4>2. ASSUME NEW G \in R!MergeGroups  PROVE R!MergedSinks # {}
        BY DEF R!MergeGroups
      <4> QED  BY <4>1, <4>2 DEF R!HasMergeRoutes
    <3>3. ASSUME NEW k \in Sorted("merged")
          PROVE  routes[k].sources \in DOMAIN merge
      <4>1. routes[k].sources \in SUBSET Ids
        BY <2>1, <2>2 DEF Sorted, AnyRoute, R!Broadcast, R!Single, R!Merged
      <4>2. k \in SortedFor("merged", routes[k].sources)
        BY DEF SortedFor
      <4> QED  BY <4>1, <4>2 DEF IInv, MergeListed
    <3>4. ASSUME NEW S \in DOMAIN merge  PROVE Sorted("merged") # {}
      BY DEF IInv, MergeListed, SortedFor
    <3> QED  BY <3>1, <3>2, <3>3, <3>4
  <2> QED  BY <2>1, <2>3, <2>4, <2>5, Repetitions
<1> QED  BY <1>1, Invariant, PTL

\* start refuses a configuration only for the fault that its error names.
THEOREM Refused == Spec => []RefusedForAFault
<1>1. IInv => RefusedForAFault
  BY DEF IInv
<1> QED  BY <1>1, Invariant, PTL

\* The tables that RoutingTable::new builds in one pass are those of the routes:
\* each sink is entered once, where its route says, in the order of the add calls.
THEOREM TablesCorrect == Spec => []TablesFollowRoutes
<1>1. IInv => TablesFollowRoutes
  <2> SUFFICES ASSUME IInv, stage = "ready"
               PROVE  /\ Members(broadcast) = R!BroadcastSinks /\ Ascending(broadcast)
                      /\ \A id \in SourceIds :
                           LET list == IF id \in DOMAIN direct THEN direct[id] ELSE <<>>
                           IN  Members(list) = R!DirectSinks(id) /\ Ascending(list)
                      /\ {Members(merge[S]) : S \in DOMAIN merge} = R!MergeGroups
                      /\ \A S \in DOMAIN merge : Ascending(merge[S])
    BY DEF TablesFollowRoutes
  <2>1. routes \in Seq(AnyRoute) /\ next = Len(routes) + 1 /\ SourceIds \subseteq Ids
    BY DEF IInv, Shape, Validated, SourceIds
  <2>2. 1 .. next - 1 = DOMAIN routes
    BY <2>1
  <2>3. \A kind : Sorted(kind) = R!OfKind(kind)
    BY <2>2 DEF Sorted, R!OfKind
  <2>4. Members(broadcast) = R!BroadcastSinks /\ Ascending(broadcast)
    BY <2>3 DEF IInv, BroadcastListed, Listed, R!BroadcastSinks
  <2>5. ASSUME NEW id \in SourceIds
        PROVE  LET list == IF id \in DOMAIN direct THEN direct[id] ELSE <<>>
               IN  Members(list) = R!DirectSinks(id) /\ Ascending(list)
    <3>1. SortedFor("single", {id}) = R!DirectSinks(id)
      <4>1. ASSUME NEW k \in Sorted("single")
            PROVE  routes[k].sources = {id} <=> id \in routes[k].sources
        <5>1. routes[k] \in AnyRoute /\ routes[k].kind = "single"
          BY <2>1, <2>2 DEF Sorted
        <5> QED  BY <5>1 DEF AnyRoute, R!Broadcast, R!Single, R!Merged
      <4> QED  BY <2>3, <4>1 DEF SortedFor, R!DirectSinks
    <3>2. CASE id \in DOMAIN direct
      BY <2>1, <3>1, <3>2 DEF IInv, DirectListed, Listed
    <3>3. CASE id \notin DOMAIN direct
      BY <2>1, <3>1, <3>3 DEF IInv, DirectListed, Members, Ascending
    <3> QED  BY <3>2, <3>3
  <2>6. ASSUME NEW S \in DOMAIN merge
        PROVE  /\ Members(merge[S]) = SortedFor("merged", S) /\ Ascending(merge[S])
               /\ SortedFor("merged", S) # {}
    BY DEF IInv, MergeListed, Listed
  <2>7. DOMAIN merge = {routes[k].sources : k \in R!MergedSinks}
    <3>1. ASSUME NEW S \in DOMAIN merge  PROVE \E k \in R!MergedSinks : routes[k].sources = S
      BY <2>3, <2>6 DEF SortedFor, R!MergedSinks
    <3>2. ASSUME NEW k \in R!MergedSinks  PROVE routes[k].sources \in DOMAIN merge
      <4>1. k \in Sorted("merged")
        BY <2>3 DEF R!MergedSinks
      <4>2. routes[k].sources \in SUBSET Ids
        BY <2>1, <2>2, <4>1 DEF Sorted, AnyRoute, R!Broadcast, R!Single, R!Merged
      <4>3. k \in SortedFor("merged", routes[k].sources)
        BY <4>1 DEF SortedFor
      <4> QED  BY <4>2, <4>3 DEF IInv, MergeListed
    <3> QED  BY <3>1, <3>2
  <2>8. ASSUME NEW S
        PROVE  SortedFor("merged", S) = {k \in R!MergedSinks : routes[k].sources = S}
    BY <2>3 DEF SortedFor, R!MergedSinks
  <2>9. {Members(merge[S]) : S \in DOMAIN merge} = R!MergeGroups
    <3> DEFINE Group(S) == {k \in R!MergedSinks : routes[k].sources = S}
    <3>1. \A S \in DOMAIN merge : Members(merge[S]) = Group(S)
      BY <2>6, <2>8
    <3>2. R!MergeGroups = {Group(S) : S \in DOMAIN merge}
      BY <2>7 DEF R!MergeGroups
    <3> HIDE DEF Group
    <3> QED  BY <3>1, <3>2
  <2> QED  BY <2>4, <2>5, <2>6, <2>9
<1> QED  BY <1>1, Invariant, PTL
=============================================================================
