---------------------------- MODULE Pipeline_proofs ----------------------------
(***************************************************************************)
(* Proofs about Pipeline, for every set of sources, sinks, routes,         *)
(* capacities and durations: its types, the channel, and how a session     *)
(* starts and stops.                                                       *)
(***************************************************************************)
EXTENDS Pipeline, MergeWindows_proofs, SequenceTheorems

\* SetToSeq visits each element of a finite set once.
LEMMA ListOf ==
  ASSUME NEW S, IsFiniteSet(S)
  PROVE  /\ SetToSeq(S) \in Seq(S)
         /\ \A i, j \in DOMAIN SetToSeq(S) : SetToSeq(S)[i] = SetToSeq(S)[j] => i = j
         /\ \A x \in S : \E i \in DOMAIN SetToSeq(S) : SetToSeq(S)[i] = x
<1> DEFINE n == Cardinality(S)
           q == SetToSeq(S)
<1>1. n \in Nat
  BY FS_CardinalityType
<1>2. \E f \in [1 .. n -> S] : IsInjective(f)
  <2>1. PICK f \in Bijection(1 .. n, S) : TRUE
    BY FS_CardinalityType DEF ExistsBijection
  <2> QED  BY <2>1 DEF Bijection, Injection, IsInjective
<1>3. q \in [1 .. n -> S] /\ IsInjective(q)
  BY <1>2 DEF SetToSeq
<1> HIDE DEF q
<1>4. q \in Injection(1 .. n, S)
  BY <1>3 DEF Injection
<1>5. Cardinality(1 .. n) = n
  BY <1>1, FS_Interval
<1>6. q \in Surjection(1 .. n, S)
  BY <1>4, <1>5, FS_Injection
<1>7. q \in Seq(S)
  BY <1>1, <1>3
<1> QED  BY <1>3, <1>6, <1>7 DEF IsInjective, Surjection, q

\* A non-empty finite set of naturals has a greatest element.
LEMMA Greatest ==
  ASSUME NEW S \in SUBSET Nat, IsFiniteSet(S), S # {}
  PROVE  \E m \in S : \A v \in S : v <= m
<1> DEFINE Above(v) == {u \in S : v < u}
           counts == {Cardinality(Above(v)) : v \in S}
<1>1. \A v \in S : IsFiniteSet(Above(v)) /\ Cardinality(Above(v)) \in Nat
  BY FS_Subset, FS_CardinalityType
<1>2. counts \in SUBSET Nat /\ counts # {}
  BY <1>1
<1>3. PICK c \in counts : \A d \in counts : c <= d
  BY <1>2, Least
<1>4. PICK m \in S : c = Cardinality(Above(m))
  OBVIOUS
<1>5. ASSUME NEW v \in S, m < v  PROVE FALSE
  <2>1. Above(v) \in SUBSET Above(m) /\ v \in Above(m) /\ v \notin Above(v)
    <3>1. \A u \in S : v < u => m < u
      BY <1>5
    <3>2. ~(v < v)
      OBVIOUS
    <3> QED  BY <1>5, <3>1, <3>2, Zenon
  <2>2. Cardinality(Above(v)) # Cardinality(Above(m)) /\ Cardinality(Above(v)) <= Cardinality(Above(m))
    BY <1>1, <2>1, FS_Subset
  <2>3. Cardinality(Above(m)) <= Cardinality(Above(v))
    BY <1>3, <1>4
  <2> HIDE DEF Above
  <2> QED  BY <1>1, <2>2, <2>3
<1>6. \A v \in S : v <= m
  BY <1>5
<1> QED  BY <1>6

\* No device captures more than MaxCaptured chunks.
LEMMA SupplyBound ==
  MaxCaptured \in Nat /\ \A s \in Sources : Supply[s] \in Nat /\ Supply[s] <= MaxCaptured
<1> DEFINE S == {Supply[s] : s \in Sources}
<1>1. S \in SUBSET Nat /\ S # {} /\ \A s \in Sources : Supply[s] \in S
  BY PipelineAssumption, MergeAssumption
<1>2. IsFiniteSet(S)
  <2>1. [s \in Sources |-> Supply[s]] \in Surjection(Sources, S)
    BY DEF Surjection
  <2> QED  BY <2>1, MergeAssumption, FS_Surjection
<1> HIDE DEF S
<1>3. \E m \in S : \A v \in S : m >= v
  BY <1>1, <1>2, Greatest
<1>4. Max(S) \in S /\ \A v \in S : Max(S) >= v
  BY <1>3 DEF Max
<1> QED  BY <1>1, <1>4 DEF MaxCaptured, S

-----------------------------------------------------------------------------
\* The parts of TypeOK: the session, the bridges with the channel, the router.
TypeSession ==
  /\ running \in BOOLEAN /\ timedOut \in BOOLEAN /\ cmd \in BOOLEAN
  /\ session \in {"starting", "failed", "live", "stopping", "joining", "returned", "dropped", "gone"}
  /\ toJoin \in Seq(Sources) /\ toOpen \in Seq(Sources) /\ toStart \in Seq(Sinks)
  /\ streams \subseteq Sources

TypeBridge ==
  /\ captured \in [Sources -> 0 .. MaxCaptured] /\ read \in [Sources -> 0 .. MaxCaptured]
  /\ hand \in [Sources -> 0 .. MaxCaptured] /\ taken \in [Sources -> 0 .. MaxCaptured]
  /\ bridge \in [Sources -> {"none", "check", "poll", "send", "drain", "flush", "done"}]
  /\ chan \in Seq(ChunkItems) /\ Len(chan) <= ChannelCapacity

TypeRouter ==
  /\ router \in {"none", "select", "draining", "stopping", "exited"} /\ toStop \in Seq(Sinks)
  /\ work \in Seq(RouterSteps)
  /\ IsTable(pending, ChunkMaps(MaxCaptured)) /\ merged \in Seq(MergedItems)
  /\ written \in [Sinks -> Seq(Items)] /\ gaveUp \subseteq Sinks \X Items
  /\ attempts \in [Sinks -> 0 .. RetryAttempts] /\ stops \in [Sinks -> Nat]
  /\ inbox \in [ChannelSinks -> 0 .. InboxCapacity] /\ reading \subseteq ChannelSinks

\* The type invariant by the three owners of state.
LEMMA TypeParts == TypeOK <=> TypeSession /\ TypeBridge /\ TypeRouter
  BY DEF TypeOK, TypeSession, TypeBridge, TypeRouter

\* The sources still to open have no bridge yet, and none is listed twice.
Unopened ==
  /\ toOpen \in Seq(Sources)
  /\ \A i \in DOMAIN toOpen : bridge[toOpen[i]] = "none"
  /\ \A i, j \in DOMAIN toOpen : toOpen[i] = toOpen[j] => i = j

\* What a bridge holds in its hands, by where it is.
Counts ==
  \A s \in Sources :
    /\ captured[s] <= Supply[s] /\ read[s] <= captured[s]
    /\ hand[s] <= read[s] /\ taken[s] <= read[s] - hand[s]
    /\ bridge[s] = "send" => hand[s] = 1
    /\ bridge[s] = "flush" => hand[s] > 0
    /\ bridge[s] \notin {"send", "flush"} => hand[s] = 0

\* The invariant about the channel.
ChannelInv == TypeOK /\ Unopened /\ Counts /\ ChannelLossless

\* The variables of ChannelLossless and Counts.
channelVars == <<captured, read, hand, bridge, taken, chan>>

\* The steps that change neither them nor whether the router has left.
LEMMA ChannelSteps ==
  ASSUME TypeRouter, Next
  PROVE  \/ \E s \in Sources : Capture(s) \/ Bridge(s)
         \/ OpenSource \/ RouterReceive \/ RouterExit
         \/ UNCHANGED <<channelVars, toOpen>> /\ (router' = "exited" <=> router = "exited")
<1> DEFINE Same == UNCHANGED <<channelVars, toOpen>> /\ (router' = "exited" <=> router = "exited")
<1> USE DEF channelVars, vars, routerVars, mergerVars, sinkVars, inboxVars, bridgeVars, sessionVars, startVars
<1>1. ASSUME NEW k \in Sinks, WriteOk(k) \/ WriteFails(k)  PROVE Same
  BY <1>1 DEF WriteOk, WriteFails
<1>2. ASSUME NEW k \in ChannelSinks, Receive(k) \/ DropReceiver(k)  PROVE Same
  BY <1>2 DEF Receive, DropReceiver
<1>3. ASSUME StartSink \/ SpawnRouter \/ OpenFails  PROVE Same
  BY <1>3 DEF StartSink, SpawnRouter, OpenFails
<1>4. ASSUME RouterTick \/ RouterStop \/ RouterFeed \/ RouterDrained \/ StopSink \/ Tick  PROVE Same
  BY <1>4 DEF RouterTick, RouterStop, RouterFeed, RouterDrained, StopSink, Tick
<1>5. ASSUME Session  PROVE Same
  BY <1>5 DEF Session, StopBegin, StopSend, JoinCapture, JoinRouter, CancelStop, DropSession, DropStreams
<1> HIDE DEF Same
<1> QED  BY <1>1, <1>2, <1>3, <1>4, <1>5 DEF Next, Start, RouterStep, Same

-----------------------------------------------------------------------------
\* The first and the later elements of a sequence.
LEMMA HeadTail ==
  ASSUME NEW S, NEW q \in Seq(S), q # <<>>
  PROVE  /\ Head(q) \in S /\ Head(q) = q[1] /\ 1 \in DOMAIN q
         /\ Tail(q) \in Seq(S) /\ Len(Tail(q)) = Len(q) - 1
         /\ DOMAIN q = 1 .. Len(q) /\ Len(q) \in Nat
         /\ DOMAIN Tail(q) = 1 .. Len(q) - 1
         /\ \A i \in DOMAIN Tail(q) : i + 1 \in DOMAIN q /\ Tail(q)[i] = q[i + 1]
<1>1. Len(q) \in Nat /\ DOMAIN q = 1 .. Len(q) /\ Len(q) # 0
  OBVIOUS
<1>2. /\ Head(q) \in S /\ Head(q) = q[1] /\ Tail(q) \in Seq(S) /\ Len(Tail(q)) = Len(q) - 1
      /\ \A i \in 1 .. Len(Tail(q)) : Tail(q)[i] = q[i + 1]
  BY HeadTailProperties
<1> QED  BY <1>1, <1>2

\* The session's own variables keep their types.
LEMMA SessionType ==
  ASSUME TypeSession, [Next]_vars
  PROVE  TypeSession'
<1> USE DEF TypeSession, vars, sessionVars, startVars
<1>1. SetToSeq(Sources) \in Seq(Sources)
  BY ListOf, MergeAssumption
<1>2. ASSUME StartSink \/ SpawnRouter \/ OpenFails  PROVE TypeSession'
  BY <1>2, HeadTail DEF StartSink, SpawnRouter, OpenFails
<1>3. ASSUME OpenSource  PROVE TypeSession'
  BY <1>3, HeadTail DEF OpenSource
<1>4. ASSUME Session  PROVE TypeSession'
  BY <1>1, <1>4, HeadTail DEF Session, StopBegin, StopSend, JoinCapture, JoinRouter, CancelStop, DropSession, DropStreams
<1>5. ASSUME NEW s \in Sources, Capture(s) \/ Bridge(s)  PROVE TypeSession'
  BY <1>5 DEF Capture, Bridge, BridgeCheck, BridgePoll, BridgeDrain, BridgeSend, BridgeSendFails
<1>6. ASSUME NEW k \in Sinks, WriteOk(k) \/ WriteFails(k)  PROVE TypeSession'
  BY <1>6 DEF WriteOk, WriteFails
<1>7. ASSUME NEW k \in ChannelSinks, Receive(k) \/ DropReceiver(k)  PROVE TypeSession'
  BY <1>7 DEF Receive, DropReceiver
<1>8. ASSUME RouterStep \/ Tick  PROVE TypeSession'
  BY <1>8 DEF RouterStep, RouterReceive, RouterTick, RouterStop, RouterFeed, RouterDrained, StopSink, RouterExit, Tick
<1>9. CASE UNCHANGED vars
  BY <1>9
<1> HIDE DEF TypeSession
<1> QED  BY <1>2, <1>3, <1>4, <1>5, <1>6, <1>7, <1>8, <1>9 DEF Next, Start

-----------------------------------------------------------------------------
\* Rows of n places, counted through from 1: place i is in a row and a column, ...
LEMMA RowColumn ==
  ASSUME NEW n \in Nat, NEW R \in Nat, NEW i \in 1 .. R * n
  PROVE  /\ ((i - 1) \div n) + 1 \in 1 .. R /\ ((i - 1) % n) + 1 \in 1 .. n
         /\ i = ((i - 1) \div n) * n + ((i - 1) % n) + 1
<1>1. R * n \in Nat /\ i - 1 \in Nat /\ i - 1 < R * n
  OBVIOUS
<1>2. n > 0
  <2>1. n = 0 => R * n = 0
    OBVIOUS
  <2> QED  BY <1>1, <2>1
<1> DEFINE x == i - 1
           p == x \div n
           c == x % n
<1>3. x \in Nat /\ x < R * n
  BY <1>1
<1> HIDE DEF x
<1>4. p \in Nat /\ c \in 0 .. n - 1 /\ x = n * p + c
  BY <1>2, <1>3
<1> HIDE DEF p, c
<1>5. p * n <= x /\ p * n = n * p
  BY <1>3, <1>4
<1>6. p < R
  <2> SUFFICES ASSUME R <= p PROVE FALSE
    BY <1>4
  <2>1. R * n <= p * n
    BY <1>4
  <2>2. p * n \in Nat
    BY <1>4
  <2> QED  BY <1>1, <1>3, <1>5, <2>1, <2>2
<1> QED  BY <1>3, <1>4, <1>5, <1>6 DEF x, p, c

\* ... and is the place of that row and column.
AtPlace(z, r, q, n, R) ==
  z \in 1 .. R * n /\ ((z - 1) \div n) + 1 = r /\ ((z - 1) % n) + 1 = q

\* Place q of row r, in a list of rows of n places.
LEMMA PlaceOf ==
  ASSUME NEW n \in Nat, NEW R \in Nat, NEW r \in 1 .. R, NEW q \in 1 .. n,
         NEW z, z = (r - 1) * n + q
  PROVE  AtPlace(z, r, q, n, R)
<1> DEFINE a == r - 1
           c == q - 1
           x == a * n + c
<1>1. a \in Nat /\ c \in 0 .. n - 1 /\ a + 1 <= R /\ n > 0
  OBVIOUS
<1> HIDE DEF a, c
<1>2. a * n \in Nat /\ (a + 1) * n = a * n + n
  BY <1>1
<1>3. (a + 1) * n <= R * n
  BY <1>1
<1>4. x \in Nat /\ x < R * n /\ R * n \in Nat
  BY <1>1, <1>2, <1>3
<1>5. x \div n = a /\ x % n = c
  BY <1>1, <1>2
<1>6. z = x + 1
  BY <1>1, <1>2 DEF a, c
<1> HIDE DEF x
<1>7. z - 1 = x
  BY <1>4, <1>6
<1>8. r = a + 1 /\ q = c + 1
  BY DEF a, c
<1>9. z \in 1 .. R * n
  BY <1>4, <1>6
<1> QED  BY <1>5, <1>7, <1>8, <1>9 DEF AtPlace

\* The merge groups, in the order in which they are written: each merged sink is
\* in exactly one, and no group is empty.
Groups == SetToSeq(MergeGroups)

\* merge_groups as a list: each merged sink is in exactly one group.
LEMMA GroupList ==
  /\ Groups \in Seq((SUBSET MergedSinks) \ {{}})
  /\ \A k \in MergedSinks : \E g \in DOMAIN Groups : k \in Groups[g]
  /\ \A g, h \in DOMAIN Groups : \A k \in Groups[g] : k \in Groups[h] => g = h
<1>1. IsFiniteSet(Sinks) /\ MergedSinks \in SUBSET Sinks
  BY PipelineAssumption DEF ValidSession, MergedSinks, OfKind
<1> DEFINE Group(S) == {k \in MergedSinks : Route[k].sources = S}
           Named == {Route[k].sources : k \in MergedSinks}
<1>0. MergeGroups = {Group(S) : S \in Named}
  BY DEF MergeGroups
<1>a. /\ \A S : Group(S) \in SUBSET MergedSinks
      /\ \A S \in Named : Group(S) # {}
      /\ \A k \in MergedSinks : \A S : k \in Group(S) <=> Route[k].sources = S
      /\ \A k \in MergedSinks : Route[k].sources \in Named
  OBVIOUS
<1> HIDE DEF Group, Named
<1>2. MergeGroups \in SUBSET ((SUBSET MergedSinks) \ {{}})
  <2>1. ASSUME NEW G \in MergeGroups  PROVE G \in (SUBSET MergedSinks) \ {{}}
    <3>1. PICK S \in Named : G = Group(S)
      BY <1>0
    <3>2. Group(S) \in SUBSET MergedSinks /\ Group(S) # {}
      BY <1>a, Zenon
    <3> QED  BY <3>1, <3>2
  <2> QED  BY <2>1
<1>3. IsFiniteSet(MergeGroups)
  <2>1. IsFiniteSet(SUBSET Sinks)
    BY <1>1, FS_SUBSET
  <2>2. MergeGroups \in SUBSET (SUBSET Sinks)
    <3>1. \A G \in MergeGroups : G \in SUBSET Sinks
      BY <1>1, <1>2
    <3> QED  BY <3>1
  <2> QED  BY <2>1, <2>2, FS_Subset
<1>4. /\ Groups \in Seq(MergeGroups)
      /\ \A i, j \in DOMAIN Groups : Groups[i] = Groups[j] => i = j
      /\ \A x \in MergeGroups : \E i \in DOMAIN Groups : Groups[i] = x
  BY <1>3, ListOf DEF Groups
<1>5. ASSUME NEW k \in MergedSinks
      PROVE  \E G \in MergeGroups : k \in G
  BY <1>0, <1>a
<1>6. ASSUME NEW G \in MergeGroups, NEW H \in MergeGroups, NEW k \in G, k \in H
      PROVE  G = H
  BY <1>0, <1>a, <1>6
<1>7. \A g \in DOMAIN Groups : Groups[g] \in MergeGroups
  BY <1>4
<1>8. Groups \in Seq((SUBSET MergedSinks) \ {{}})
  BY <1>2, <1>4, SeqMonotonic, Zenon
<1> QED  BY <1>4, <1>5, <1>6, <1>7, <1>8

\* write_merged_chunk writes every result to every group, the groups of a result
\* one after the other.
LEMMA ResultWrites ==
  ASSUME NEW results \in Seq(MergedItems)
  PROVE  LET n == Len(Groups)
             w == WriteResults(results)
         IN  /\ n \in Nat /\ w \in Seq(RouterSteps) /\ DOMAIN w = 1 .. Len(results) * n
             /\ \A i \in DOMAIN w :
                  /\ ((i - 1) \div n) + 1 \in DOMAIN results /\ ((i - 1) % n) + 1 \in DOMAIN Groups
                  /\ w[i].op = "write"
                  /\ w[i].item = results[((i - 1) \div n) + 1]
                  /\ w[i].sinks = Groups[((i - 1) % n) + 1]
<1> DEFINE n == Len(Groups)
           w == WriteResults(results)
           R == Len(results)
<1>1. /\ n \in Nat /\ DOMAIN Groups = 1 .. n /\ R \in Nat /\ DOMAIN results = 1 .. R
      /\ R * n \in Nat
  BY GroupList
<1>2. w = [i \in 1 .. R * n |-> WriteTo(results[((i - 1) \div n) + 1], Groups[((i - 1) % n) + 1])]
  BY DEF WriteResults, Groups
<1> HIDE DEF w, n, R
<1>3. ASSUME NEW i \in 1 .. R * n
      PROVE  /\ ((i - 1) \div n) + 1 \in DOMAIN results /\ ((i - 1) % n) + 1 \in DOMAIN Groups
             /\ w[i].op = "write"
             /\ w[i].item = results[((i - 1) \div n) + 1]
             /\ w[i].sinks = Groups[((i - 1) % n) + 1]
             /\ w[i] \in RouterSteps
  <2> DEFINE r == ((i - 1) \div n) + 1
             g == ((i - 1) % n) + 1
  <2>1. r \in DOMAIN results /\ g \in DOMAIN Groups
    BY <1>1, RowColumn
  <2>2. results[r] \in MergedItems /\ Groups[g] \in (SUBSET MergedSinks) \ {{}}
    BY <2>1, GroupList
  <2>3. w[i] = [op |-> "write", item |-> results[r], sinks |-> Groups[g]]
    BY <1>2 DEF WriteTo
  <2> HIDE DEF r, g
  <2>4. w[i] \in RouterSteps
    <3>1. MergedSinks \subseteq Sinks
      BY DEF MergedSinks, OfKind
    <3> QED  BY <2>2, <2>3, <3>1 DEF RouterSteps, Items
  <2> QED  BY <2>1, <2>3, <2>4 DEF r, g
<1>4. DOMAIN w = 1 .. R * n /\ w \in Seq(RouterSteps)
  <2>1. w \in [1 .. R * n -> RouterSteps]
    BY <1>2, <1>3
  <2> QED  BY <1>1, <2>1
<1> QED  BY <1>1, <1>3, <1>4 DEF w, n, R

-----------------------------------------------------------------------------
\* The steps for one chunk, and what is left of them, have their types.
LEMMA WritesType ==
  ASSUME NEW item \in Items, NEW sinks \in SUBSET Sinks
  PROVE  WritesOf(item, sinks) \in Seq(RouterSteps)
<1>1. ASSUME sinks # {}  PROVE WriteTo(item, sinks) \in RouterSteps
  BY <1>1 DEF WriteTo, RouterSteps
<1>2. CASE sinks = {}
  BY <1>2 DEF WritesOf
<1>3. CASE sinks # {}
  <2> HIDE DEF RouterSteps
  <2> QED  BY <1>1, <1>3 DEF WritesOf
<1> QED  BY <1>2, <1>3

\* The router's list of work for a chunk has its type.
LEMMA RouteChunkType ==
  ASSUME NEW s \in Sources, NEW k \in 0 .. MaxCaptured - 1
  PROVE  RouteChunk(s, k) \in Seq(RouterSteps)
<1>1. Chunk(s, k) \in Items
  BY DEF Chunk, Items, ChunkItems
<1>2. BroadcastSinks \in SUBSET Sinks /\ DirectSinks(s) \in SUBSET Sinks
  BY DEF BroadcastSinks, DirectSinks, OfKind
<1>3. /\ WritesOf(Chunk(s, k), BroadcastSinks) \in Seq(RouterSteps)
      /\ WritesOf(Chunk(s, k), DirectSinks(s)) \in Seq(RouterSteps)
  BY <1>1, <1>2, WritesType
<1>4. FeedOf(s, k) \in Seq(RouterSteps)
  <2>1. Feed(s, k) \in RouterSteps
    BY DEF Feed, RouterSteps
  <2> QED  BY <2>1 DEF FeedOf
<1> QED  BY <1>3, <1>4 DEF RouteChunk

\* The router's variables keep their types in a step that is not its own ...
LEMMA RouterIdle ==
  ASSUME TypeRouter, TypeSession, Next
  PROVE  \/ TypeRouter' \/ RouterStep
         \/ \E k \in Sinks : WriteOk(k) \/ WriteFails(k)
<1> USE DEF TypeRouter, vars, routerVars, mergerVars, sinkVars, inboxVars
<1>1. ASSUME NEW k \in ChannelSinks, Receive(k) \/ DropReceiver(k)  PROVE TypeRouter'
  <2>1. inbox' \in [ChannelSinks -> 0 .. InboxCapacity] /\ reading' \subseteq ChannelSinks
    <3>1. InboxCapacity \in Nat /\ inbox \in [ChannelSinks -> 0 .. InboxCapacity]
      BY PipelineAssumption
    <3>2. CASE Receive(k)
      BY <3>1, <3>2 DEF Receive
    <3>3. CASE DropReceiver(k)
      BY <3>1, <3>3 DEF DropReceiver
    <3> QED  BY <1>1, <3>2, <3>3
  <2> QED  BY <1>1, <2>1 DEF Receive, DropReceiver
<1>2. ASSUME Start  PROVE TypeRouter'
  BY <1>2 DEF Start, StartSink, SpawnRouter, OpenSource, OpenFails
<1>3. ASSUME Tick  PROVE TypeRouter'
  BY <1>3, AgedTable DEF Tick
<1>4. ASSUME NEW s \in Sources, Capture(s) \/ Bridge(s)  PROVE TypeRouter'
  BY <1>4 DEF Capture, Bridge, BridgeCheck, BridgePoll, BridgeDrain, BridgeSend, BridgeSendFails
<1>5. ASSUME Session  PROVE TypeRouter'
  BY <1>5 DEF Session, StopBegin, StopSend, JoinCapture, JoinRouter, CancelStop, DropSession, DropStreams
<1> HIDE DEF TypeRouter
<1> QED  BY <1>1, <1>2, <1>3, <1>4, <1>5 DEF Next

\* ... in a step of the router between two writes ...
LEMMA RouterStepType ==
  ASSUME TypeRouter, TypeBridge, RouterStep
  PROVE  TypeRouter'
<1> USE DEF routerVars, mergerVars, sinkVars, inboxVars
<1>1. ASSUME RouterReceive  PROVE TypeRouter'
  <2>1. Head(chan) \in ChunkItems
    BY <1>1, HeadTail DEF RouterReceive, TypeBridge
  <2>2. work' = RouteChunk(Head(chan).source, Head(chan).seq)
    BY <1>1 DEF RouterReceive
  <2>3. work' \in Seq(RouterSteps)
    BY <2>1, <2>2, RouteChunkType DEF ChunkItems
  <2> QED  BY <1>1, <2>3 DEF RouterReceive, TypeRouter
<1>2. ASSUME RouterTick \/ RouterStop  PROVE TypeRouter'
  <2>1. PICK o \in CheckTimeoutsOutcomes(pending) :
          pending' = o.table /\ merged' = merged \o o.results /\ work' = WriteResults(o.results)
    BY <1>2 DEF RouterTick, RouterStop, CheckMergeTimeouts
  <2>2. IsTable(o.table, ChunkMaps(MaxCaptured)) /\ o.results \in Seq(MergedItems)
    <3>1. IsTable(pending, ChunkMaps(MaxCaptured))
      BY DEF TypeRouter
    <3> QED  BY <3>1, CheckTimeoutsType, Zenon DEF MergedItems
  <2>3. work' \in Seq(RouterSteps)
    BY <2>1, <2>2, ResultWrites
  <2>4. IsTable(pending', ChunkMaps(MaxCaptured)) /\ merged' \in Seq(MergedItems)
    BY <2>1, <2>2 DEF TypeRouter
  <2> QED  BY <1>2, <2>3, <2>4 DEF RouterTick, RouterStop, TypeRouter
<1>3. ASSUME RouterFeed  PROVE TypeRouter'
  <2> DEFINE f == Head(work)
  <2>1. PICK o \in AddChunkOutcomes(pending, f.source, f.seq) :
          /\ pending' = o.table /\ merged' = merged \o o.results
          /\ work' = WriteResults(o.results) \o Tail(work)
    BY <1>3 DEF RouterFeed
  <2>2. f \in RouterSteps /\ f.op = "feed" /\ Tail(work) \in Seq(RouterSteps)
    BY <1>3, HeadTail DEF RouterFeed, TypeRouter
  <2>3. f.source \in Sources /\ f.seq \in 0 .. MaxCaptured - 1
    BY <2>2 DEF RouterSteps
  <2> HIDE DEF f
  <2>4. IsTable(o.table, ChunkMaps(MaxCaptured)) /\ o.results \in Seq(MergedItems)
    <3>1. IsTable(pending, ChunkMaps(MaxCaptured)) /\ MaxCaptured \in Nat
      BY SupplyBound DEF TypeRouter
    <3> QED  BY <2>3, <3>1, AddChunkType, Zenon DEF MergedItems
  <2>5. work' \in Seq(RouterSteps)
    <3>1. WriteResults(o.results) \in Seq(RouterSteps)
      BY <2>4, ResultWrites
    <3> QED  BY <2>1, <2>2, <3>1
  <2>6. IsTable(pending', ChunkMaps(MaxCaptured)) /\ merged' \in Seq(MergedItems)
    BY <2>1, <2>4 DEF TypeRouter
  <2> QED  BY <1>3, <2>5, <2>6 DEF RouterFeed, TypeRouter
<1>4. ASSUME RouterDrained \/ StopSink \/ RouterExit  PROVE TypeRouter'
  <2>1. SetToSeq(Sinks) \in Seq(Sinks)
    BY ListOf, PipelineAssumption DEF ValidSession
  <2>2. CASE RouterDrained
    BY <2>1, <2>2 DEF RouterDrained, TypeRouter
  <2>3. CASE StopSink
    <3>1. toStop' \in Seq(Sinks) /\ Head(toStop) \in Sinks
      BY <2>3, HeadTail DEF StopSink, TypeRouter
    <3>2. stops' \in [Sinks -> Nat]
      BY <2>3, <3>1 DEF StopSink, TypeRouter
    <3> QED  BY <2>3, <3>1, <3>2 DEF StopSink, TypeRouter
  <2>4. CASE RouterExit
    BY <2>4 DEF RouterExit, TypeRouter
  <2> QED  BY <1>4, <2>2, <2>3, <2>4
<1> QED  BY <1>1, <1>2, <1>3, <1>4 DEF RouterStep

\* ... and when a write ends.
LEMMA WriteType ==
  ASSUME TypeRouter, NEW k \in Sinks, WriteOk(k) \/ WriteFails(k)
  PROVE  TypeRouter'
<1> DEFINE b == Head(work)
<1>1. /\ b \in RouterSteps /\ b.op = "write" /\ k \in b.sinks /\ Tail(work) \in Seq(RouterSteps)
  BY HeadTail DEF WriteOk, WriteFails, Writing, TypeRouter
<1>2. b.item \in Items /\ b.sinks \in SUBSET Sinks
  BY <1>1 DEF RouterSteps
<1> HIDE DEF b
<1>3. WritesOf(b.item, b.sinks \ {k}) \o Tail(work) \in Seq(RouterSteps)
  <2>1. WritesOf(b.item, b.sinks \ {k}) \in Seq(RouterSteps)
    BY <1>2, WritesType
  <2> QED  BY <1>1, <2>1
<1>4. ASSUME Returned(k)
      PROVE  work' \in Seq(RouterSteps) /\ attempts' \in [Sinks -> 0 .. RetryAttempts]
  BY <1>3, <1>4, PipelineAssumption DEF Returned, TypeRouter, b
<1> USE DEF mergerVars, inboxVars
<1>5. ASSUME WriteOk(k)  PROVE TypeRouter'
  <2>1. inbox' \in [ChannelSinks -> 0 .. InboxCapacity]
    BY <1>5, PipelineAssumption DEF WriteOk, HasRoom, TypeRouter
  <2>2. written' \in [Sinks -> Seq(Items)]
    BY <1>2, <1>5 DEF WriteOk, TypeRouter, b
  <2> QED  BY <1>4, <1>5, <2>1, <2>2 DEF WriteOk, TypeRouter
<1>6. ASSUME WriteFails(k)  PROVE TypeRouter'
  <2>1. CASE attempts[k] + 1 >= RetryAttempts
    <3>1. gaveUp' \subseteq Sinks \X Items
      BY <1>2, <1>6, <2>1 DEF WriteFails, TypeRouter, b
    <3> QED  BY <1>4, <1>6, <2>1, <3>1 DEF WriteFails, TypeRouter
  <2>2. CASE ~(attempts[k] + 1 >= RetryAttempts)
    <3>1. attempts' \in [Sinks -> 0 .. RetryAttempts]
      <4>1. RetryAttempts \in Nat /\ attempts \in [Sinks -> 0 .. RetryAttempts]
        BY PipelineAssumption DEF TypeRouter
      <4>2. attempts' = [attempts EXCEPT ![k] = @ + 1]
        BY <1>6, <2>2 DEF WriteFails
      <4>3. attempts[k] + 1 \in 0 .. RetryAttempts
        BY <2>2, <4>1
      <4> QED  BY <4>1, <4>2, <4>3
    <3> QED  BY <1>6, <2>2, <3>1 DEF WriteFails, TypeRouter
  <2> QED  BY <2>1, <2>2
<1> QED  BY <1>5, <1>6

-----------------------------------------------------------------------------
\* How many chunks of s its bridge has sent, and what ChannelLossless says of s.
Sent(s) == read[s] - hand[s]

Lossless(s) ==
  /\ \A n \in taken[s] .. Sent(s) - 1 : \E i \in DOMAIN chan : chan[i] = Chunk(s, n)
  /\ \A i \in DOMAIN chan : chan[i].source = s => chan[i].seq \in taken[s] .. Sent(s) - 1
  /\ \A i, j \in DOMAIN chan :
       i < j /\ chan[i].source = s /\ chan[j].source = s => chan[i].seq < chan[j].seq

\* ChannelLossless, source by source.
LEMMA LosslessParts == ChannelLossless <=> (router # "exited" => \A s \in Sources : Lossless(s))
  BY DEF ChannelLossless, Lossless, Sent

\* The numbers of one source are natural numbers up to its supply.
LEMMA CountTypes ==
  ASSUME TypeBridge, Counts, NEW s \in Sources
  PROVE  /\ captured[s] \in Nat /\ read[s] \in Nat /\ hand[s] \in Nat /\ taken[s] \in Nat
         /\ captured[s] <= Supply[s] /\ Supply[s] \in Nat /\ Supply[s] <= MaxCaptured /\ MaxCaptured \in Nat
         /\ read[s] <= captured[s] /\ hand[s] <= read[s] /\ taken[s] <= Sent(s) /\ Sent(s) \in Nat
  BY SupplyBound DEF TypeBridge, Counts, Sent

\* The parts of ChannelInv that a step of a bridge or a device can disturb.
BridgeParts == TypeBridge /\ Unopened /\ Counts /\ ChannelLossless

\* What is sent and taken, and the channel, are all that ChannelLossless is about.
LEMMA LosslessKept ==
  ASSUME ChannelLossless, UNCHANGED <<chan, taken>>, router' = router,
         \A s \in Sources : Sent(s)' = Sent(s)
  PROVE  ChannelLossless'
<1>1. \A s \in Sources : Lossless(s) => Lossless(s)'
  BY DEF Lossless
<1> QED  BY <1>1, LosslessParts DEF ChannelLossless, Lossless, Sent

\* A captured chunk is one more that the bridge has not read.
LEMMA CaptureKeeps ==
  ASSUME BridgeParts, NEW s \in Sources, Capture(s)
  PROVE  BridgeParts'
<1> USE DEF BridgeParts
<1>1. /\ captured[s] < Supply[s] /\ captured' = [captured EXCEPT ![s] = @ + 1]
      /\ UNCHANGED <<read, hand, bridge, chan, taken, toOpen, router>>
  BY DEF Capture, vars, sessionVars, startVars, bridgeVars, routerVars
<1>2. captured' \in [Sources -> 0 .. MaxCaptured]
  BY <1>1, CountTypes DEF TypeBridge
<1>3. Counts'
  BY <1>1, CountTypes DEF Counts, TypeBridge
<1>4. ChannelLossless'
  BY <1>1, LosslessKept DEF Sent
<1> QED  BY <1>1, <1>2, <1>3, <1>4 DEF TypeBridge, Unopened

\* Taking chunks out of the ring sends nothing.
LEMMA BridgeKeeps ==
  ASSUME BridgeParts, NEW s \in Sources, BridgeCheck(s) \/ BridgePoll(s) \/ BridgeDrain(s)
  PROVE  BridgeParts'
<1> USE DEF BridgeParts
<1>1. UNCHANGED <<captured, chan, taken, toOpen, router>>
  BY DEF BridgeCheck, BridgePoll, BridgeDrain, sessionVars, startVars, routerVars
<1>2. hand[s] = 0 /\ bridge[s] # "none"
  BY DEF BridgeCheck, BridgePoll, BridgeDrain, Counts
<1>3. PICK r \in 0 .. captured[s], b \in {"check", "poll", "send", "drain", "flush", "done"} :
        /\ read[s] <= r
        /\ read' = [read EXCEPT ![s] = r] /\ hand' = [hand EXCEPT ![s] = r - read[s]]
        /\ bridge' = [bridge EXCEPT ![s] = b]
        /\ b = "send" => r - read[s] = 1
        /\ b = "flush" => r - read[s] > 0
        /\ b \notin {"send", "flush"} => r - read[s] = 0
  <2> DEFINE G(r, b) ==
        /\ read[s] <= r
        /\ read' = [read EXCEPT ![s] = r] /\ hand' = [hand EXCEPT ![s] = r - read[s]]
        /\ bridge' = [bridge EXCEPT ![s] = b]
        /\ b = "send" => r - read[s] = 1
        /\ b = "flush" => r - read[s] > 0
        /\ b \notin {"send", "flush"} => r - read[s] = 0
  <2>0. /\ read[s] \in 0 .. captured[s] /\ captured[s] \in Nat /\ read[s] \in Nat
        /\ read[s] - read[s] = 0
    BY CountTypes
  <2>a. read = [read EXCEPT ![s] = read[s]] /\ hand = [hand EXCEPT ![s] = 0]
    BY <1>2 DEF TypeBridge
  <2>1. CASE BridgeCheck(s)
    <3>1. G(read[s], IF running THEN "poll" ELSE "drain")
      BY <2>0, <2>a, <2>1 DEF BridgeCheck
    <3> QED  BY <2>0, <3>1
  <2>2. CASE BridgePoll(s)
    <3>1. CASE read[s] < captured[s]
      <4>1. G(read[s] + 1, "send")
        BY <2>0, <2>2, <3>1 DEF BridgePoll
      <4>2. read[s] + 1 \in 0 .. captured[s]
        BY <2>0, <3>1
      <4> HIDE DEF G
      <4> QED  BY <4>1, <4>2 DEF G
    <3>2. CASE ~(read[s] < captured[s])
      <4>1. G(read[s], "check")
        BY <2>0, <2>a, <2>2, <3>2 DEF BridgePoll
      <4> QED  BY <2>0, <4>1
    <3> QED  BY <3>1, <3>2
  <2>3. CASE BridgeDrain(s)
    <3>1. hand'[s] = captured[s] - read[s]
      BY <2>3 DEF BridgeDrain, TypeBridge
    <3>2. G(captured[s], IF hand'[s] = 0 THEN "done" ELSE "flush")
      BY <2>0, <2>3, <3>1 DEF BridgeDrain
    <3>3. captured[s] \in 0 .. captured[s]
      BY <2>0
    <3> HIDE DEF G
    <3>4. \E b \in {"done", "flush"} : G(captured[s], b)
      BY <3>2
    <3> QED  BY <3>3, <3>4 DEF G
  <2> QED  BY <2>1, <2>2, <2>3
<1>4. read' \in [Sources -> 0 .. MaxCaptured] /\ hand' \in [Sources -> 0 .. MaxCaptured]
  <2>1. r \in 0 .. MaxCaptured /\ r - read[s] \in 0 .. MaxCaptured
    BY <1>3, CountTypes
  <2> QED  BY <1>3, <2>1 DEF TypeBridge
<1>5. bridge' \in [Sources -> {"none", "check", "poll", "send", "drain", "flush", "done"}]
  BY <1>3 DEF TypeBridge
<1>6. Sent(s)' = Sent(s)
  <2>1. read'[s] = r /\ hand'[s] = r - read[s]
    BY <1>3 DEF TypeBridge
  <2> QED  BY <1>2, <1>3, <2>1, CountTypes DEF Sent
<1>7. \A t \in Sources \ {s} : read'[t] = read[t] /\ hand'[t] = hand[t] /\ bridge'[t] = bridge[t]
  BY <1>3 DEF TypeBridge
<1>8. Counts'
  <2>1. ASSUME NEW t \in Sources \ {s}
        PROVE  /\ captured'[t] <= Supply[t] /\ read'[t] <= captured'[t]
               /\ hand'[t] <= read'[t] /\ taken'[t] <= read'[t] - hand'[t]
               /\ bridge'[t] = "send" => hand'[t] = 1
               /\ bridge'[t] = "flush" => hand'[t] > 0
               /\ bridge'[t] \notin {"send", "flush"} => hand'[t] = 0
    BY <1>1, <1>7 DEF Counts
  <2>2. /\ read'[s] = r /\ hand'[s] = r - read[s] /\ bridge'[s] = b
        /\ r - read[s] \in Nat /\ r - (r - read[s]) = read[s] /\ r \in Nat
    BY <1>3, CountTypes DEF TypeBridge
  <2>3. /\ captured'[s] <= Supply[s] /\ read'[s] <= captured'[s]
        /\ hand'[s] <= read'[s] /\ taken'[s] <= read'[s] - hand'[s]
        /\ bridge'[s] = "send" => hand'[s] = 1
        /\ bridge'[s] = "flush" => hand'[s] > 0
        /\ bridge'[s] \notin {"send", "flush"} => hand'[s] = 0
    <3>1. /\ captured'[s] = captured[s] /\ captured[s] <= Supply[s] /\ taken'[s] = taken[s]
          /\ taken[s] <= read[s] /\ read[s] \in Nat /\ captured[s] \in Nat
      BY <1>1, <1>2, CountTypes DEF Sent
    <3>2. r \in Nat /\ r <= captured[s] /\ r - read[s] <= r
      BY <1>3, <3>1
    <3>3. /\ b = "send" => r - read[s] = 1
          /\ b = "flush" => r - read[s] > 0
          /\ b \notin {"send", "flush"} => r - read[s] = 0
      BY <1>3
    <3> QED  BY <2>2, <3>1, <3>2, <3>3
  <2> QED  BY <2>1, <2>3 DEF Counts
<1>9. ChannelLossless'
  BY <1>1, <1>6, <1>7, LosslessKept DEF Sent
<1>10. Unopened'
  BY <1>1, <1>2, <1>7 DEF Unopened
<1> QED  BY <1>1, <1>4, <1>5, <1>8, <1>9, <1>10 DEF TypeBridge

\* A chunk that is sent goes to the end of the channel; one that cannot be sent
\* any more concerns nobody, as the router has left.
LEMMA SendKeeps ==
  ASSUME BridgeParts, NEW s \in Sources, BridgeSend(s) \/ BridgeSendFails(s)
  PROVE  BridgeParts'
<1> USE DEF BridgeParts
<1>1. UNCHANGED <<captured, read, taken, toOpen, router>>
  BY DEF BridgeSend, BridgeSendFails, sessionVars, startVars, routerVars
<1>2. PICK b \in {"poll", "done", "flush"} :
        /\ hand' = [hand EXCEPT ![s] = @ - 1] /\ bridge' = [bridge EXCEPT ![s] = b]
        /\ b = "flush" <=> bridge[s] = "flush" /\ hand'[s] # 0
        /\ bridge[s] \in {"send", "flush"}
  BY DEF BridgeSend, BridgeSendFails, TypeBridge
<1>3. /\ hand[s] > 0 /\ hand[s] - 1 \in Nat /\ hand'[s] = hand[s] - 1 /\ bridge'[s] = b
      /\ bridge[s] = "send" => hand'[s] = 0
  BY <1>2, CountTypes DEF Counts, TypeBridge
<1>4. \A t \in Sources \ {s} : hand'[t] = hand[t] /\ bridge'[t] = bridge[t]
  BY <1>2 DEF TypeBridge
<1>5. Counts'
  <2>1. ASSUME NEW t \in Sources \ {s}
        PROVE  /\ captured'[t] <= Supply[t] /\ read'[t] <= captured'[t]
               /\ hand'[t] <= read'[t] /\ taken'[t] <= read'[t] - hand'[t]
               /\ bridge'[t] = "send" => hand'[t] = 1
               /\ bridge'[t] = "flush" => hand'[t] > 0
               /\ bridge'[t] \notin {"send", "flush"} => hand'[t] = 0
    BY <1>1, <1>4 DEF Counts
  <2>2. /\ captured'[s] <= Supply[s] /\ read'[s] <= captured'[s]
        /\ hand'[s] <= read'[s] /\ taken'[s] <= read'[s] - hand'[s]
    BY <1>1, <1>3, CountTypes DEF Sent
  <2>3. /\ bridge'[s] = "send" => hand'[s] = 1
        /\ bridge'[s] = "flush" => hand'[s] > 0
    <3>1. b # "send" /\ (b = "flush" => hand'[s] # 0)
      BY <1>2
    <3>2. hand'[s] \in Nat /\ bridge'[s] = b
      BY <1>3
    <3> QED  BY <3>1, <3>2
  <2>4. bridge'[s] \notin {"send", "flush"} => hand'[s] = 0
    <3>1. b = "flush" <=> bridge[s] = "flush" /\ hand'[s] # 0
      BY <1>2
    <3>2. bridge[s] \in {"send", "flush"}
      BY <1>2
    <3> QED  BY <1>3, <3>1, <3>2
  <2> QED  BY <2>1, <2>2, <2>3, <2>4 DEF Counts
<1>6. Unopened'
  BY <1>1, <1>2, <1>4 DEF Unopened
<1>7. /\ hand' \in [Sources -> 0 .. MaxCaptured]
      /\ bridge' \in [Sources -> {"none", "check", "poll", "send", "drain", "flush", "done"}]
  <2>1. hand[s] - 1 \in 0 .. MaxCaptured
    BY <1>3, CountTypes
  <2> QED  BY <1>2, <2>1 DEF TypeBridge
<1>8. CASE BridgeSendFails(s)
  <2>1. router' = "exited" /\ UNCHANGED chan
    BY <1>1, <1>8 DEF BridgeSendFails
  <2> QED  BY <1>1, <1>5, <1>6, <1>7, <2>1 DEF TypeBridge, ChannelLossless
<1>9. CASE BridgeSend(s)
  <2> DEFINE c == Chunk(s, Sent(s))
  <2>1. chan' = Append(chan, c) /\ Len(chan) < ChannelCapacity /\ router # "exited"
    BY <1>9 DEF BridgeSend, Sent
  <2>2. c \in ChunkItems /\ c.source = s /\ c.seq = Sent(s) /\ Sent(s) \in Nat /\ taken[s] <= Sent(s)
    <3>1. Sent(s) \in 0 .. MaxCaptured - 1
      BY <1>3, CountTypes DEF Sent
    <3> QED  BY <3>1, CountTypes DEF Chunk, ChunkItems
  <2>3. /\ chan \in Seq(ChunkItems) /\ Len(chan) \in Nat /\ DOMAIN chan = 1 .. Len(chan)
        /\ chan' \in Seq(ChunkItems) /\ Len(chan') = Len(chan) + 1 /\ DOMAIN chan' = 1 .. Len(chan) + 1
        /\ \A i \in DOMAIN chan : chan'[i] = chan[i]
        /\ chan'[Len(chan) + 1] = c
    <3> HIDE DEF c
    <3> QED  BY <2>1, <2>2 DEF TypeBridge
  <2>4. Len(chan') <= ChannelCapacity
    BY <2>1, <2>3, PipelineAssumption
  <2>5. Sent(s)' = Sent(s) + 1
    BY <1>1, <1>3, CountTypes DEF Sent
  <2> HIDE DEF c
  <2>6. \A t \in Sources : Lossless(t)
    BY <2>1, LosslessParts
  <2>7. ASSUME NEW t \in Sources \ {s}  PROVE Lossless(t)'
    <3>1. Sent(t)' = Sent(t) /\ taken'[t] = taken[t] /\ c.source # t
      BY <1>1, <1>4, <2>2 DEF Sent
    <3>2. \A i \in DOMAIN chan' : chan'[i].source = t => i \in DOMAIN chan
      BY <2>3, <3>1
    <3>3. DOMAIN chan \subseteq DOMAIN chan'
      BY <2>3
    <3> QED  BY <2>3, <2>6, <3>1, <3>2, <3>3 DEF Lossless
  <2>8. Lossless(s)'
    <3>1. taken'[s] = taken[s] /\ taken[s] \in Nat
      BY <1>1, CountTypes
    <3>2. ASSUME NEW n \in taken[s] .. Sent(s)
          PROVE  \E i \in DOMAIN chan' : chan'[i] = Chunk(s, n)
      <4>1. CASE n = Sent(s)
        BY <2>3, <4>1 DEF c
      <4>2. CASE n # Sent(s)
        <5>1. n \in taken[s] .. Sent(s) - 1
          BY <2>2, <3>1, <4>2
        <5> QED  BY <2>3, <2>6, <5>1 DEF Lossless
      <4> QED  BY <4>1, <4>2
    <3>3. ASSUME NEW i \in DOMAIN chan', chan'[i].source = s
          PROVE  chan'[i].seq \in taken[s] .. Sent(s)
      <4>1. CASE i = Len(chan) + 1
        BY <2>2, <2>3, <3>1, <4>1
      <4>2. CASE i # Len(chan) + 1
        <5>1. i \in DOMAIN chan /\ chan[i].seq \in taken[s] .. Sent(s) - 1
          BY <2>3, <2>6, <3>3, <4>2 DEF Lossless
        <5> QED  BY <2>2, <2>3, <3>1, <5>1
      <4> QED  BY <4>1, <4>2
    <3>4. ASSUME NEW i \in DOMAIN chan', NEW j \in DOMAIN chan', i < j,
                 chan'[i].source = s, chan'[j].source = s
          PROVE  chan'[i].seq < chan'[j].seq
      <4>1. i \in DOMAIN chan /\ chan[i].source = s
        BY <2>3, <3>4
      <4>2. CASE j = Len(chan) + 1
        <5>1. chan[i].seq \in taken[s] .. Sent(s) - 1
          BY <2>6, <4>1 DEF Lossless
        <5> QED  BY <2>2, <2>3, <3>1, <4>1, <4>2, <5>1
      <4>3. CASE j # Len(chan) + 1
        <5>1. j \in DOMAIN chan /\ chan[j].source = s
          BY <2>3, <3>4, <4>3
        <5> QED  BY <2>3, <2>6, <3>4, <4>1, <5>1 DEF Lossless
      <4> QED  BY <4>2, <4>3
    <3>5. taken'[s] .. Sent(s)' - 1 = taken[s] .. Sent(s)
      BY <2>2, <2>5, <3>1
    <3> QED  BY <3>2, <3>3, <3>4, <3>5 DEF Lossless
  <2>9. ChannelLossless'
    <3>1. \A t \in Sources : Lossless(t)'
      BY <2>7, <2>8
    <3> QED  BY <3>1 DEF ChannelLossless, Lossless, Sent
  <2> QED  BY <1>1, <1>5, <1>6, <1>7, <2>3, <2>4, <2>9 DEF TypeBridge
<1> QED  BY <1>8, <1>9

\* The chunk at the head of the channel is the next one of its source.
LEMMA HeadIsNext ==
  ASSUME TypeBridge, Counts, ChannelLossless, router # "exited", chan # <<>>
  PROVE  /\ Head(chan) \in ChunkItems /\ Head(chan).seq = taken[Head(chan).source]
         /\ Head(chan) = Chunk(Head(chan).source, taken[Head(chan).source])
         /\ taken[Head(chan).source] < Sent(Head(chan).source)
<1> DEFINE c == Head(chan)
           s == c.source
<1>1. /\ c \in ChunkItems /\ c = chan[1] /\ 1 \in DOMAIN chan
      /\ DOMAIN chan = 1 .. Len(chan) /\ Len(chan) \in Nat
  BY HeadTail DEF TypeBridge
<1>2. s \in Sources /\ c = Chunk(s, c.seq) /\ c.seq \in Nat
  BY <1>1, SupplyBound DEF ChunkItems, Chunk
<1> HIDE DEF c
<1>3. Lossless(s)
  BY <1>2, LosslessParts
<1>4. taken[s] \in Nat /\ Sent(s) \in Nat /\ taken[s] <= Sent(s)
  BY <1>2, CountTypes
<1>5. c.seq \in taken[s] .. Sent(s) - 1
  BY <1>1, <1>3 DEF Lossless
<1>6. taken[s] \in taken[s] .. Sent(s) - 1
  BY <1>2, <1>4, <1>5
<1>7. PICK i \in DOMAIN chan : chan[i] = Chunk(s, taken[s])
  BY <1>3, <1>6 DEF Lossless
<1>8. chan[i].source = s /\ chan[i].seq = taken[s]
  BY <1>7 DEF Chunk
<1>9. ~(1 < i)
  <2> SUFFICES ASSUME 1 < i PROVE FALSE
    OBVIOUS
  <2>1. c.seq < taken[s]
    BY <1>1, <1>3, <1>8 DEF Lossless
  <2> QED  BY <1>2, <1>4, <1>5, <2>1
<1>10. i = 1
  BY <1>1, <1>9
<1>11. c.seq = taken[s]
  BY <1>1, <1>8, <1>10
<1> QED  BY <1>1, <1>2, <1>4, <1>6, <1>11 DEF c

\* The chunk received is the oldest of its source in the channel.
LEMMA ReceiveKeeps ==
  ASSUME BridgeParts, RouterReceive
  PROVE  BridgeParts'
<1> USE DEF BridgeParts
<1> DEFINE c == Head(chan)
           s == c.source
<1>1. /\ UNCHANGED <<captured, read, hand, bridge, toOpen, router>>
      /\ taken' = [taken EXCEPT ![s] = @ + 1] /\ chan' = Tail(chan)
      /\ router # "exited" /\ chan # <<>>
  BY DEF RouterReceive, sessionVars, startVars, bridgeVars
<1>2. /\ c \in ChunkItems /\ c = Chunk(s, taken[s]) /\ c.seq = taken[s]
      /\ taken[s] < Sent(s) /\ s \in Sources
  BY <1>1, HeadIsNext DEF ChunkItems
<1>3. /\ c = chan[1] /\ 1 \in DOMAIN chan
      /\ DOMAIN chan = 1 .. Len(chan) /\ Len(chan) \in Nat
      /\ chan' \in Seq(ChunkItems) /\ Len(chan') = Len(chan) - 1
      /\ DOMAIN chan' = 1 .. Len(chan) - 1
      /\ \A i \in DOMAIN chan' : i + 1 \in DOMAIN chan /\ chan'[i] = chan[i + 1]
  BY <1>1, HeadTail DEF TypeBridge
<1> HIDE DEF c
<1>4. /\ taken'[s] = taken[s] + 1 /\ taken[s] \in Nat /\ Sent(s) \in Nat
      /\ \A t \in Sources \ {s} : taken'[t] = taken[t]
      /\ \A t \in Sources : Sent(t)' = Sent(t)
  BY <1>1, <1>2, CountTypes DEF TypeBridge, Sent
<1>5. Counts'
  <2>1. \A t \in Sources : taken'[t] <= read'[t] - hand'[t]
    <3>1. taken'[s] <= Sent(s)
      BY <1>2, <1>4
    <3> QED  BY <1>1, <1>4, <3>1 DEF Counts, Sent
  <2> QED  BY <1>1, <2>1 DEF Counts
<1>6. taken' \in [Sources -> 0 .. MaxCaptured]
  <2>1. taken[s] + 1 \in 0 .. MaxCaptured
    <3>1. Sent(s) <= MaxCaptured
      BY <1>2, CountTypes DEF Sent
    <3> QED  BY <1>2, <1>4, <3>1, SupplyBound
  <2> QED  BY <1>1, <2>1 DEF TypeBridge
<1>7. \A t \in Sources : Lossless(t)
  BY <1>1, LosslessParts
<1>8. ASSUME NEW t \in Sources, NEW n \in taken'[t] .. Sent(t) - 1
      PROVE  \E i \in DOMAIN chan' : chan'[i] = Chunk(t, n)
  <2>1. taken[t] \in Nat /\ Sent(t) \in Nat /\ taken[t] <= taken'[t] /\ (t = s => taken[t] < taken'[t])
    BY <1>4, CountTypes
  <2>2. n \in taken[t] .. Sent(t) - 1 /\ (t = s => taken[s] < n)
    BY <1>4, <2>1
  <2>3. PICK i \in DOMAIN chan : chan[i] = Chunk(t, n)
    BY <1>7, <2>2 DEF Lossless
  <2>4. i # 1
    BY <1>2, <1>3, <1>4, <2>2, <2>3 DEF Chunk
  <2>5. i - 1 \in DOMAIN chan' /\ (i - 1) + 1 = i
    BY <1>3, <2>4
  <2> QED  BY <1>3, <2>3, <2>5
<1>9. ASSUME NEW t \in Sources, NEW i \in DOMAIN chan', chan'[i].source = t
      PROVE  chan'[i].seq \in taken'[t] .. Sent(t) - 1
  <2>1. i + 1 \in DOMAIN chan /\ chan[i + 1].source = t /\ 1 < i + 1
    BY <1>3, <1>9
  <2>2. chan[i + 1].seq \in taken[t] .. Sent(t) - 1
    BY <1>7, <2>1 DEF Lossless
  <2>3. t = s => taken[s] < chan[i + 1].seq
    BY <1>2, <1>3, <1>7, <2>1 DEF Lossless
  <2>4. taken[t] \in Nat /\ Sent(t) \in Nat
    BY CountTypes
  <2> QED  BY <1>3, <1>4, <2>2, <2>3, <2>4
<1>10. ASSUME NEW t \in Sources, NEW i \in DOMAIN chan', NEW j \in DOMAIN chan', i < j,
              chan'[i].source = t, chan'[j].source = t
       PROVE  chan'[i].seq < chan'[j].seq
  <2>1. i + 1 \in DOMAIN chan /\ j + 1 \in DOMAIN chan /\ i + 1 < j + 1
    BY <1>3, <1>10
  <2> QED  BY <1>3, <1>7, <1>10, <2>1 DEF Lossless
<1>11. ChannelLossless'
  <2>1. \A t \in Sources : Lossless(t)'
    BY <1>4, <1>8, <1>9, <1>10 DEF Lossless
  <2> QED  BY <2>1 DEF ChannelLossless, Lossless, Sent
<1>12. Len(chan') <= ChannelCapacity
  BY <1>3, PipelineAssumption DEF TypeBridge
<1> QED  BY <1>1, <1>3, <1>5, <1>6, <1>11, <1>12 DEF TypeBridge, Unopened

\* A source that opens has an empty bridge.
LEMMA OpenKeeps ==
  ASSUME BridgeParts, OpenSource
  PROVE  BridgeParts'
<1> USE DEF BridgeParts
<1> DEFINE h == Head(toOpen)
<1>1. /\ UNCHANGED <<captured, read, hand, taken, chan, router>>
      /\ bridge' = [bridge EXCEPT ![h] = "check"]
      /\ toOpen' = Tail(toOpen) /\ toOpen # <<>>
  BY DEF OpenSource, routerVars
<1>2. /\ h \in Sources /\ h = toOpen[1] /\ 1 \in DOMAIN toOpen /\ DOMAIN toOpen = 1 .. Len(toOpen)
      /\ Tail(toOpen) \in Seq(Sources) /\ Len(toOpen) \in Nat
      /\ DOMAIN Tail(toOpen) = 1 .. Len(toOpen) - 1
      /\ \A i \in DOMAIN Tail(toOpen) : i + 1 \in DOMAIN toOpen /\ Tail(toOpen)[i] = toOpen[i + 1]
  BY <1>1, HeadTail DEF Unopened
<1> HIDE DEF h
<1>3. bridge[h] = "none"
  BY <1>2 DEF Unopened
<1>4. Counts'
  <2>1. \A t \in Sources : bridge'[t] = IF t = h THEN "check" ELSE bridge[t]
    BY <1>1 DEF TypeBridge
  <2> QED  BY <1>1, <1>2, <1>3, <2>1 DEF Counts
<1>5. Unopened'
  <2>1. ASSUME NEW i \in DOMAIN toOpen'
        PROVE  bridge'[toOpen'[i]] = "none" /\ i + 1 \in DOMAIN toOpen /\ toOpen'[i] = toOpen[i + 1]
    <3>1. i + 1 \in DOMAIN toOpen /\ toOpen'[i] = toOpen[i + 1] /\ i + 1 # 1
      BY <1>1, <1>2
    <3>2. toOpen[i + 1] # h /\ toOpen[i + 1] \in Sources
      BY <1>2, <3>1 DEF Unopened
    <3> QED  BY <1>1, <3>1, <3>2 DEF Unopened, TypeBridge
  <2>2. ASSUME NEW i \in DOMAIN toOpen', NEW j \in DOMAIN toOpen', toOpen'[i] = toOpen'[j]
        PROVE  i = j
    <3>1. i + 1 = j + 1 /\ i \in Nat /\ j \in Nat
      BY <1>1, <1>2, <2>1, <2>2 DEF Unopened
    <3> QED  BY <3>1
  <2> QED  BY <1>1, <1>2, <2>1, <2>2 DEF Unopened
<1>6. ChannelLossless'
  BY <1>1, LosslessKept DEF Sent
<1> QED  BY <1>1, <1>2, <1>4, <1>5, <1>6 DEF TypeBridge

\* When the router leaves, the channel is gone, and nothing is claimed of it.
LEMMA ExitKeeps ==
  ASSUME BridgeParts, RouterExit
  PROVE  BridgeParts'
<1>1. /\ UNCHANGED <<captured, read, hand, bridge, taken, toOpen>>
      /\ router' = "exited" /\ chan' = <<>>
  BY DEF RouterExit, sessionVars, startVars, bridgeVars
<1>2. <<>> \in Seq(ChunkItems) /\ Len(<<>>) <= ChannelCapacity
  BY PipelineAssumption
<1> QED  BY <1>1, <1>2 DEF BridgeParts, TypeBridge, Unopened, Counts, ChannelLossless

-----------------------------------------------------------------------------
\* The invariant holds at the start ...
LEMMA InitChannel == Init => ChannelInv
<1> SUFFICES ASSUME Init  PROVE ChannelInv
  OBVIOUS
<1> USE DEF Init
<1>1. SetToSeq(Sources) \in Seq(Sources) /\ SetToSeq(Sinks) \in Seq(Sinks)
  BY ListOf, MergeAssumption, PipelineAssumption DEF ValidSession
<1>2. TypeSession
  <2>1. /\ running = TRUE /\ timedOut = FALSE /\ cmd = FALSE /\ session = "starting"
        /\ toJoin = <<>> /\ toOpen = SetToSeq(Sources) /\ toStart = SetToSeq(Sinks) /\ streams = {}
    OBVIOUS
  <2> HIDE DEF Init
  <2>2. <<>> \in Seq(Sources)
    OBVIOUS
  <2>3. running \in BOOLEAN /\ timedOut \in BOOLEAN /\ cmd \in BOOLEAN
    BY <2>1, Zenon
  <2>4. /\ session \in {"starting", "failed", "live", "stopping", "joining", "returned", "dropped", "gone"}
        /\ toJoin \in Seq(Sources) /\ toOpen \in Seq(Sources) /\ toStart \in Seq(Sinks)
        /\ streams \subseteq Sources
    BY <1>1, <2>1, <2>2, SMT
  <2> QED  BY <2>3, <2>4, Zenon DEF TypeSession
<1>3. TypeBridge
  <2>1. captured \in [Sources -> 0 .. MaxCaptured]
    <3>1. 0 \in 0 .. MaxCaptured
      BY SupplyBound
    <3> QED  BY <3>1
  <2>2. chan \in Seq(ChunkItems) /\ Len(chan) = 0 /\ 0 <= ChannelCapacity
    BY PipelineAssumption
  <2> QED  BY <2>1, <2>2 DEF TypeBridge
<1>4. TypeRouter
  <2>1. IsTable(pending, ChunkMaps(MaxCaptured))
    <3>1. DOMAIN pending = {} /\ IsFiniteSet({})
      BY FS_EmptySet
    <3> QED  BY <3>1 DEF IsTable
  <2>2. /\ attempts \in [Sinks -> 0 .. RetryAttempts] /\ stops \in [Sinks -> Nat]
        /\ inbox \in [ChannelSinks -> 0 .. InboxCapacity]
    BY PipelineAssumption
  <2> QED  BY <2>1, <2>2 DEF TypeRouter
<1>5. Unopened
  BY <1>1, ListOf, MergeAssumption DEF Unopened
<1>6. Counts
  BY PipelineAssumption DEF Counts
<1>7. ChannelLossless
  BY DEF ChannelLossless
<1> QED  BY <1>2, <1>3, <1>4, <1>5, <1>6, <1>7, TypeParts DEF ChannelInv

\* ... and every step keeps it.
LEMMA NextChannel == ChannelInv /\ [Next]_vars => ChannelInv'
<1> SUFFICES ASSUME ChannelInv, [Next]_vars  PROVE ChannelInv'
  OBVIOUS
<1>1. TypeSession /\ TypeBridge /\ TypeRouter /\ BridgeParts
  BY TypeParts DEF ChannelInv, BridgeParts
<1>2. TypeSession'
  BY <1>1, SessionType
<1>3. ASSUME UNCHANGED <<channelVars, toOpen>> /\ (router' = "exited" <=> router = "exited")
      PROVE  BridgeParts'
  BY <1>1, <1>3 DEF BridgeParts, channelVars, TypeBridge, Unopened, Counts, ChannelLossless
<1>4. BridgeParts'
  <2>1. CASE Next
    BY <1>1, <1>3, <2>1, ChannelSteps, CaptureKeeps, BridgeKeeps, SendKeeps, ReceiveKeeps, OpenKeeps, ExitKeeps
       DEF Bridge
  <2>2. CASE UNCHANGED vars
    BY <1>3, <2>2 DEF vars, channelVars, sessionVars, startVars, bridgeVars, routerVars
  <2> QED  BY <2>1, <2>2
<1>5. TypeRouter'
  <2>1. CASE Next
    BY <1>1, <2>1, RouterIdle, RouterStepType, WriteType
  <2>2. CASE UNCHANGED vars
    BY <1>1, <2>2 DEF vars, routerVars, mergerVars, sinkVars, inboxVars, TypeRouter
  <2> QED  BY <2>1, <2>2
<1>6. TypeOK' <=> (TypeSession /\ TypeBridge /\ TypeRouter)'
  BY DEF TypeOK, TypeSession, TypeBridge, TypeRouter
<1> QED  BY <1>2, <1>4, <1>5, <1>6 DEF ChannelInv, BridgeParts

\* Each source's chunks are, in order and without a gap, with the router, in the
\* channel, in the bridge's hand or not yet read: ChannelInv is inductive.
THEOREM ChannelInvariant == Spec => []ChannelInv
  BY InitChannel, NextChannel, PTL DEF Spec

\* The session's state has the shape of the code's data, the chunk channel and
\* the users' channels never hold more than their capacity, and no sink is tried
\* more often than sink_retry_attempts says.
THEOREM TypeCorrect == Spec => []TypeOK
<1>1. ChannelInv => TypeOK
  BY DEF ChannelInv
<1> QED  BY <1>1, ChannelInvariant, PTL

\* Whatever the sources do, however they contend for the bounded channel and
\* whenever the session is stopped: until the router leaves, the channel holds
\* exactly the chunks that were sent and not yet received, each source's in order.
THEOREM NothingLostInChannel == Spec => []ChannelLossless
<1>1. ChannelInv => ChannelLossless
  BY DEF ChannelInv
<1> QED  BY <1>1, ChannelInvariant, PTL

-----------------------------------------------------------------------------
\* How a session starts and stops: when sinks may be written to, when they are
\* stopped, and what the return of stop means.


\* A sequence without duplicates, and what is in it.
Distinct(q) == \A i, j \in DOMAIN q : q[i] = q[j] => i = j
Lists(q, x) == \E i \in DOMAIN q : q[i] = x

\* Its tail has no duplicates either and lists all but the head.
LEMMA TailOfDistinct ==
  ASSUME NEW S, NEW q \in Seq(S), q # <<>>, Distinct(q)
  PROVE  Distinct(Tail(q)) /\ \A x : Lists(Tail(q), x) <=> Lists(q, x) /\ x # Head(q)
<1>1. /\ Head(q) = q[1] /\ 1 \in DOMAIN q /\ Len(q) \in Nat
      /\ DOMAIN q = 1 .. Len(q) /\ DOMAIN Tail(q) = 1 .. Len(q) - 1
      /\ \A i \in DOMAIN Tail(q) : i + 1 \in DOMAIN q /\ Tail(q)[i] = q[i + 1]
  BY HeadTail
<1>2. Distinct(Tail(q))
  <2>1. ASSUME NEW i \in DOMAIN Tail(q), NEW j \in DOMAIN Tail(q), Tail(q)[i] = Tail(q)[j]
        PROVE  i = j
    <3>1. i + 1 = j + 1 /\ i \in Nat /\ j \in Nat
      BY <1>1, <2>1 DEF Distinct
    <3> QED  BY <3>1
  <2> QED  BY <2>1 DEF Distinct
<1>3. ASSUME NEW x, Lists(Tail(q), x)  PROVE Lists(q, x) /\ x # Head(q)
  <2>1. PICK i \in DOMAIN Tail(q) : Tail(q)[i] = x
    BY <1>3 DEF Lists
  <2>2. i + 1 \in DOMAIN q /\ q[i + 1] = x /\ i + 1 # 1
    BY <1>1, <2>1
  <2> QED  BY <1>1, <2>2 DEF Lists, Distinct
<1>4. ASSUME NEW x, Lists(q, x), x # Head(q)  PROVE Lists(Tail(q), x)
  <2>1. PICK i \in DOMAIN q : q[i] = x
    BY <1>4 DEF Lists
  <2>2. i - 1 \in DOMAIN Tail(q) /\ (i - 1) + 1 = i
    BY <1>1, <1>4, <2>1
  <2> QED  BY <1>1, <2>1, <2>2 DEF Lists
<1> QED  BY <1>2, <1>3, <1>4

-----------------------------------------------------------------------------
\* The router runs once the sinks are started, and has work only while it routes.
Running ==
  /\ toStart # <<>> => router = "none"
  /\ router \in {"none", "stopping", "exited"} => work = <<>>

\* Which sinks have been stopped.
Stopping ==
  /\ Distinct(toStop)
  /\ router \in {"none", "select", "draining"} => \A k \in Sinks : stops[k] = 0
  /\ router = "stopping" => \A k \in Sinks : stops[k] = IF Lists(toStop, k) THEN 0 ELSE 1
  /\ router = "exited" => \A k \in Sinks : stops[k] = 1

\* What a stop that has not timed out has waited for.
Joining ==
  /\ session = "joining" /\ ~timedOut => \A s \in Sources : bridge[s] = "done" \/ Lists(toJoin, s)
  /\ session = "returned" /\ ~timedOut => router = "exited" /\ \A s \in Sources : bridge[s] = "done"

LifeInv == Running /\ Stopping /\ Joining

\* The inductive invariant holds at the start.
LEMMA InitLife == Init => LifeInv
<1>1. Init => Running /\ Joining
  BY DEF Init, Running, Joining
<1>2. Init => Stopping
  BY DEF Init, Stopping, Distinct
<1> QED  BY <1>1, <1>2 DEF LifeInv

\* Each step keeps: the router runs only once the sinks are started, and it has work
\* only while it routes.
LEMMA NextRunning ==
  ASSUME ChannelInv, LifeInv, [Next]_vars
  PROVE  Running'
<1> USE DEF LifeInv, vars, sessionVars, startVars, routerVars, sinkVars, mergerVars, inboxVars
<1>1. Running
  OBVIOUS
<1>2. ASSUME StartSink \/ SpawnRouter \/ OpenSource \/ OpenFails  PROVE Running'
  BY <1>1, <1>2 DEF Running, StartSink, SpawnRouter, OpenSource, OpenFails
<1>3. ASSUME NEW s \in Sources, Capture(s) \/ Bridge(s)  PROVE Running'
  BY <1>1, <1>3 DEF Running, Capture, Bridge, BridgeCheck, BridgePoll, BridgeDrain, BridgeSend, BridgeSendFails
<1>4. ASSUME NEW k \in Sinks, WriteOk(k) \/ WriteFails(k)  PROVE Running'
  BY <1>1, <1>4 DEF Running, WriteOk, WriteFails, Writing
<1>5. ASSUME NEW k \in ChannelSinks, Receive(k) \/ DropReceiver(k)  PROVE Running'
  BY <1>1, <1>5 DEF Running, Receive, DropReceiver
<1>6. ASSUME RouterReceive \/ RouterTick \/ RouterStop \/ RouterFeed  PROVE Running'
  BY <1>1, <1>6 DEF Running, RouterReceive, RouterTick, RouterStop, RouterFeed
<1>7. ASSUME RouterDrained \/ StopSink \/ RouterExit \/ Tick  PROVE Running'
  BY <1>1, <1>7 DEF Running, RouterDrained, StopSink, RouterExit, Tick
<1>8. ASSUME Session  PROVE Running'
  BY <1>1, <1>8 DEF Running, Session, StopBegin, StopSend, JoinCapture, JoinRouter, CancelStop, DropSession, DropStreams
<1>9. CASE UNCHANGED vars
  BY <1>1, <1>9 DEF Running
<1> HIDE DEF LifeInv
<1> QED  BY <1>2, <1>3, <1>4, <1>5, <1>6, <1>7, <1>8, <1>9 DEF Next, Start, RouterStep

\* Each step keeps which sinks have been stopped, by where the router is.
LEMMA NextStopping ==
  ASSUME ChannelInv, LifeInv, [Next]_vars
  PROVE  Stopping'
<1> USE DEF vars, routerVars, sinkVars, mergerVars, inboxVars
<1>1. Stopping
  BY DEF LifeInv
<1>0. /\ toStop \in Seq(Sinks) /\ stops \in [Sinks -> Nat]
  BY TypeParts DEF ChannelInv, TypeRouter
<1>2. ASSUME StartSink \/ SpawnRouter \/ OpenSource \/ OpenFails  PROVE Stopping'
  BY <1>1, <1>2 DEF Stopping, StartSink, SpawnRouter, OpenSource, OpenFails
<1>3. ASSUME NEW s \in Sources, Capture(s) \/ Bridge(s)  PROVE Stopping'
  BY <1>1, <1>3 DEF Stopping, Capture, Bridge, BridgeCheck, BridgePoll, BridgeDrain, BridgeSend, BridgeSendFails
<1>4. ASSUME NEW k \in Sinks, WriteOk(k) \/ WriteFails(k)  PROVE Stopping'
  BY <1>1, <1>4 DEF Stopping, WriteOk, WriteFails
<1>5. ASSUME NEW k \in ChannelSinks, Receive(k) \/ DropReceiver(k)  PROVE Stopping'
  BY <1>1, <1>5 DEF Stopping, Receive, DropReceiver
<1>6. ASSUME RouterReceive \/ RouterTick \/ RouterStop \/ RouterFeed \/ Tick  PROVE Stopping'
  <2>1. /\ UNCHANGED <<toStop, stops>>
        /\ router' = router \/ (router = "select" /\ router' = "draining")
    BY <1>6 DEF RouterReceive, RouterTick, RouterStop, RouterFeed, Tick
  <2> QED  BY <1>1, <2>1 DEF Stopping
<1>7. ASSUME RouterDrained  PROVE Stopping'
  <2>1. /\ router' = "stopping" /\ toStop' = SetToSeq(Sinks) /\ stops' = stops
        /\ \A k \in Sinks : stops[k] = 0
    BY <1>1, <1>7 DEF RouterDrained, Stopping
  <2>2. Distinct(toStop') /\ \A k \in Sinks : Lists(toStop', k)
    BY <2>1, ListOf, PipelineAssumption DEF ValidSession, Distinct, Lists
  <2> QED  BY <2>1, <2>2 DEF Stopping
<1>8. ASSUME StopSink  PROVE Stopping'
  <2>1. /\ router = "stopping" /\ router' = "stopping" /\ toStop # <<>>
        /\ stops' = [stops EXCEPT ![Head(toStop)] = @ + 1] /\ toStop' = Tail(toStop)
    BY <1>8 DEF StopSink
  <2>2. Head(toStop) \in Sinks /\ Lists(toStop, Head(toStop))
    BY <1>0, <2>1, HeadTail DEF Lists
  <2>3. Distinct(toStop') /\ \A x : Lists(toStop', x) <=> Lists(toStop, x) /\ x # Head(toStop)
    BY <1>0, <1>1, <2>1, TailOfDistinct DEF Stopping
  <2>4. ASSUME NEW k \in Sinks  PROVE stops'[k] = IF Lists(toStop', k) THEN 0 ELSE 1
    <3>1. stops[k] = IF Lists(toStop, k) THEN 0 ELSE 1
      BY <1>1, <2>1 DEF Stopping
    <3> QED  BY <1>0, <2>1, <2>2, <2>3, <3>1
  <2> QED  BY <2>1, <2>3, <2>4 DEF Stopping
<1>9. ASSUME RouterExit  PROVE Stopping'
  <2>1. /\ router = "stopping" /\ router' = "exited" /\ toStop = <<>> /\ toStop' = toStop /\ stops' = stops
    BY <1>9 DEF RouterExit
  <2>2. \A k \in Sinks : ~Lists(toStop, k)
    BY <2>1 DEF Lists
  <2>3. \A k \in Sinks : stops'[k] = 1
    BY <1>1, <2>1, <2>2 DEF Stopping
  <2> QED  BY <1>1, <2>1, <2>3 DEF Stopping
<1>10. ASSUME Session \/ UNCHANGED vars  PROVE Stopping'
  BY <1>1, <1>10 DEF Stopping, Session, StopBegin, StopSend, JoinCapture, JoinRouter, CancelStop, DropSession, DropStreams
<1> QED  BY <1>2, <1>3, <1>4, <1>5, <1>6, <1>7, <1>8, <1>9, <1>10 DEF Next, Start, RouterStep

\* A task that is done does not start again, and the router leaves once.
LEMMA DoneStays ==
  ASSUME ChannelInv, Next, session \notin {"starting", "failed"}
  PROVE  /\ \A s \in Sources : bridge[s] = "done" => bridge'[s] = "done"
         /\ router = "exited" => router' = "exited"
         /\ Session \/ UNCHANGED <<session, toJoin, timedOut>>
<1> USE DEF sessionVars, startVars, bridgeVars, routerVars
<1>0. bridge \in [Sources -> {"none", "check", "poll", "send", "drain", "flush", "done"}]
  BY TypeParts DEF ChannelInv, TypeBridge
<1>1. ASSUME NEW s \in Sources, Bridge(s)
      PROVE  /\ \A t \in Sources : bridge[t] = "done" => bridge'[t] = "done"
             /\ UNCHANGED <<session, toJoin, timedOut, router>>
  <2>1. bridge[s] # "done" /\ \A t \in Sources \ {s} : bridge'[t] = bridge[t]
    BY <1>0, <1>1 DEF Bridge, BridgeCheck, BridgePoll, BridgeDrain, BridgeSend, BridgeSendFails
  <2> QED  BY <1>1, <2>1 DEF Bridge, BridgeCheck, BridgePoll, BridgeDrain, BridgeSend, BridgeSendFails
<1>2. ASSUME NEW s \in Sources, Capture(s)  PROVE UNCHANGED <<bridge, session, toJoin, timedOut, router>>
  BY <1>2 DEF Capture
<1>3. ASSUME NEW k \in Sinks, WriteOk(k) \/ WriteFails(k)
      PROVE  UNCHANGED <<bridge, session, toJoin, timedOut, router>>
  BY <1>3 DEF WriteOk, WriteFails
<1>4. ASSUME NEW k \in ChannelSinks, Receive(k) \/ DropReceiver(k)
      PROVE  UNCHANGED <<bridge, session, toJoin, timedOut, router>>
  BY <1>4 DEF Receive, DropReceiver
<1>5. ASSUME RouterStep \/ Tick
      PROVE  UNCHANGED <<bridge, session, toJoin, timedOut>> /\ (router = "exited" => router' = "exited")
  <2>1. CASE RouterFeed \/ RouterReceive \/ RouterTick \/ RouterStop
    BY <2>1 DEF RouterFeed, RouterReceive, RouterTick, RouterStop
  <2>2. CASE RouterDrained \/ StopSink \/ RouterExit \/ Tick
    BY <2>2 DEF RouterDrained, StopSink, RouterExit, Tick
  <2> QED  BY <1>5, <2>1, <2>2 DEF RouterStep
<1>6. ~Start
  BY DEF Start, StartSink, SpawnRouter, OpenSource, OpenFails
<1>7. ASSUME Session  PROVE UNCHANGED <<bridge, router>>
  BY <1>7 DEF Session, StopBegin, StopSend, JoinCapture, JoinRouter, CancelStop, DropSession, DropStreams
<1> QED  BY <1>1, <1>2, <1>3, <1>4, <1>5, <1>6, <1>7 DEF Next

\* Each step keeps what a stop that has not timed out has waited for.
LEMMA NextJoining ==
  ASSUME ChannelInv, LifeInv, [Next]_vars
  PROVE  Joining'
<1>0. Joining /\ toJoin \in Seq(Sources)
  BY TypeParts DEF LifeInv, ChannelInv, TypeSession
<1> USE DEF sessionVars, startVars, bridgeVars, routerVars
<1>1. CASE UNCHANGED vars
  BY <1>0, <1>1 DEF vars, Joining
<1>2. CASE Next /\ session \in {"starting", "failed"}
  <2>1. session' \in {"starting", "failed", "live"}
    <3>1. CASE Start
      BY <1>2, <3>1 DEF Start, StartSink, SpawnRouter, OpenSource, OpenFails
    <3>2. ASSUME NEW s \in Sources, Capture(s) \/ Bridge(s)  PROVE session' = session
      BY <3>2 DEF Capture, Bridge, BridgeCheck, BridgePoll, BridgeDrain, BridgeSend, BridgeSendFails
    <3>3. ASSUME NEW k \in Sinks, WriteOk(k) \/ WriteFails(k)  PROVE session' = session
      BY <3>3 DEF WriteOk, WriteFails
    <3>4. ASSUME NEW k \in ChannelSinks, Receive(k) \/ DropReceiver(k)  PROVE session' = session
      BY <3>4 DEF Receive, DropReceiver
    <3>5. ASSUME RouterStep \/ Tick  PROVE session' = session
      BY <3>5 DEF RouterStep, RouterReceive, RouterTick, RouterStop, RouterFeed, RouterDrained, StopSink, RouterExit, Tick
    <3>6. ~Session
      BY <1>2 DEF Session, StopBegin, StopSend, JoinCapture, JoinRouter, CancelStop, DropSession, DropStreams
    <3> QED  BY <1>2, <3>1, <3>2, <3>3, <3>4, <3>5, <3>6 DEF Next
  <2> QED  BY <2>1 DEF Joining
<1>3. CASE Next /\ session \notin {"starting", "failed"}
  <2>1. /\ \A s \in Sources : bridge[s] = "done" => bridge'[s] = "done"
        /\ router = "exited" => router' = "exited"
        /\ Session \/ UNCHANGED <<session, toJoin, timedOut>>
    BY <1>3, DoneStays
  <2>2. CASE UNCHANGED <<session, toJoin, timedOut>>
    BY <1>0, <2>1, <2>2 DEF Joining
  <2>3. CASE StopSend
    <3>1. \A s \in Sources : Lists(toJoin', s)
      BY <2>3, ListOf, MergeAssumption DEF StopSend, Lists
    <3> QED  BY <2>3, <3>1 DEF StopSend, Joining
  <2>4. CASE JoinCapture
    <3>1. /\ session = "joining" /\ session' = "joining" /\ toJoin # <<>> /\ toJoin' = Tail(toJoin)
          /\ ~timedOut' => ~timedOut /\ bridge[Head(toJoin)] = "done"
          /\ bridge' = bridge
      BY <2>4 DEF JoinCapture
    <3>2. ASSUME NEW s \in Sources, Lists(toJoin, s)  PROVE s = Head(toJoin) \/ Lists(toJoin', s)
      <4>1. PICK i \in DOMAIN toJoin : toJoin[i] = s
        BY <3>2 DEF Lists
      <4>2. /\ Head(toJoin) = toJoin[1] /\ Len(toJoin) \in Nat /\ DOMAIN toJoin = 1 .. Len(toJoin)
            /\ DOMAIN toJoin' = 1 .. Len(toJoin) - 1
            /\ \A j \in DOMAIN toJoin' : toJoin'[j] = toJoin[j + 1]
        BY <1>0, <3>1, HeadTail
      <4>3. i # 1 => i - 1 \in DOMAIN toJoin' /\ (i - 1) + 1 = i
        BY <4>1, <4>2
      <4> QED  BY <4>1, <4>2, <4>3 DEF Lists
    <3> QED  BY <1>0, <3>1, <3>2 DEF Joining
  <2>5. CASE JoinRouter
    <3>1. \A s : ~Lists(toJoin, s)
      BY <2>5 DEF JoinRouter, Lists
    <3> QED  BY <1>0, <2>5, <3>1 DEF JoinRouter, Joining
  <2>6. CASE StopBegin \/ CancelStop \/ DropSession \/ DropStreams
    BY <2>6 DEF StopBegin, CancelStop, DropSession, DropStreams, Joining
  <2> QED  BY <2>1, <2>2, <2>3, <2>4, <2>5, <2>6 DEF Session
<1> QED  BY <1>1, <1>2, <1>3

\* Each step keeps the inductive invariant.
LEMMA NextLife == ChannelInv /\ LifeInv /\ [Next]_vars => LifeInv'
  BY NextRunning, NextStopping, NextJoining DEF LifeInv

\* What is known of the flag, the sinks and the bridges at each stage of start and
\* stop: LifeInv is inductive together with ChannelInv.
THEOREM LifeInvariant == Spec => []LifeInv
  BY InitLife, NextLife, ChannelInvariant, PTL DEF Spec

\* Whatever the tasks were doing when stop was called, and however long the
\* sinks took: when stop returns without having timed out, the tasks are gone,
\* every sink was stopped exactly once, and no write was left unfinished.
THEOREM StopIsComplete == Spec => []StopMeansStopped
<1>1. LifeInv => StopMeansStopped
  BY DEF LifeInv, Running, Stopping, Joining, StopMeansStopped
<1> QED  BY <1>1, LifeInvariant, PTL

\* A sink gets audio only between the end of start_sinks and its own on_stop, and
\* is stopped at most once.
THEOREM SinkProtocol == Spec => WrittenBetweenStartAndStop
<1> DEFINE Step == \A k \in Sinks :
             /\ toStart # <<>> \/ stops[k] > 0 => written'[k] = written[k]
             /\ stops'[k] # stops[k] => stops[k] = 0 /\ toStart = <<>>
<1>1. ASSUME ChannelInv, LifeInv, [Next]_vars  PROVE [Step]_vars
  <2> USE DEF vars, routerVars, sinkVars, mergerVars, inboxVars
  <2>0. Running /\ Stopping /\ toStop \in Seq(Sinks) /\ stops \in [Sinks -> Nat] /\ written \in [Sinks -> Seq(Items)]
        /\ router \in {"none", "select", "draining", "stopping", "exited"}
    BY <1>1, TypeParts DEF ChannelInv, TypeRouter, LifeInv
  <2>1. ASSUME NEW k \in Sinks, WriteOk(k) \/ WriteFails(k)  PROVE Step
    <3>1. UNCHANGED stops /\ work # <<>> /\ \A j \in Sinks \ {k} : written'[j] = written[j]
      BY <2>0, <2>1 DEF WriteOk, WriteFails, Writing
    <3>2. router \in {"select", "draining"}
      BY <2>0, <3>1 DEF Running
    <3>3. toStart = <<>> /\ \A j \in Sinks : stops[j] = 0
      BY <2>0, <3>2 DEF Running, Stopping
    <3> QED  BY <3>1, <3>3
  <2>2. ASSUME StopSink  PROVE Step
    <3>1. /\ router = "stopping" /\ toStop # <<>> /\ UNCHANGED written
          /\ \A j \in Sinks \ {Head(toStop)} : stops'[j] = stops[j]
      BY <2>0, <2>2 DEF StopSink
    <3>2. Lists(toStop, Head(toStop))
      BY <2>0, <3>1, HeadTail DEF Lists
    <3>3. Head(toStop) \in Sinks => stops[Head(toStop)] = 0
      BY <2>0, <3>1, <3>2 DEF Stopping
    <3>4. toStart = <<>>
      BY <2>0, <3>1 DEF Running
    <3> QED  BY <3>1, <3>3, <3>4
  <2>3. ASSUME RouterReceive \/ RouterTick \/ RouterStop \/ RouterFeed \/ RouterDrained \/ RouterExit \/ Tick
        PROVE  UNCHANGED <<written, stops>>
    BY <2>3 DEF RouterReceive, RouterTick, RouterStop, RouterFeed, RouterDrained, RouterExit, Tick
  <2>4. ASSUME NEW s \in Sources, Capture(s) \/ Bridge(s)  PROVE UNCHANGED <<written, stops>>
    BY <2>4 DEF Capture, Bridge, BridgeCheck, BridgePoll, BridgeDrain, BridgeSend, BridgeSendFails
  <2>5. ASSUME NEW k \in ChannelSinks, Receive(k) \/ DropReceiver(k)  PROVE UNCHANGED <<written, stops>>
    BY <2>5 DEF Receive, DropReceiver
  <2>6. ASSUME Start \/ Session  PROVE UNCHANGED <<written, stops>>
    BY <2>6 DEF Start, StartSink, SpawnRouter, OpenSource, OpenFails,
                Session, StopBegin, StopSend, JoinCapture, JoinRouter, CancelStop, DropSession, DropStreams
  <2>7. UNCHANGED <<written, stops>> => Step
    OBVIOUS
  <2> HIDE DEF Step
  <2> QED  BY <1>1, <2>1, <2>2, <2>3, <2>4, <2>5, <2>6, <2>7 DEF Next, RouterStep
<1> QED  BY <1>1, ChannelInvariant, LifeInvariant, PTL DEF Spec, WrittenBetweenStartAndStop
=============================================================================
