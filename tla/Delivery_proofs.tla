--------------------------- MODULE Delivery_proofs ---------------------------
(***************************************************************************)
(* Proofs about what Pipeline delivers: every chunk that the router takes  *)
(* from the channel is written once to each sink that wants it or given up *)
(* there, each source's chunks in order, and the merged sinks get the      *)
(* results of a merger that behaves as module Merger says.                 *)
(***************************************************************************)
EXTENDS Pipeline_proofs

\* What the router still has to do concerns the last chunk received of a source,
\* for sinks that take chunks one by one, with the call of the merger at the end;
\* or, after that call, results of the merger, for merged sinks.
FeedStep(i) ==
  /\ work[i].op = "feed" /\ i = Len(work) /\ HasMergeRoutes
  /\ work[i].seq + 1 = taken[work[i].source]
ChunkStep(i) ==
  /\ work[i].op = "write" /\ work[i].item \in ChunkItems
  /\ work[i].sinks \cap MergedSinks = {}
  /\ work[i].item.seq + 1 = taken[work[i].item.source]
ResultStep(i) ==
  /\ work[i].op = "write" /\ work[i].item \in MergedItems
  /\ work[i].sinks \subseteq MergedSinks /\ work[Len(work)].op = "write"

WorkShape == \A i \in DOMAIN work : FeedStep(i) \/ ChunkStep(i) \/ ResultStep(i)

\* The other sinks have got chunks only.
PlainWritten == \A k \in Sinks \ MergedSinks : written[k] \in Seq(ChunkItems)

-----------------------------------------------------------------------------
\* After a write has ended for sink k, the work is what it was, with k taken out
\* of its first step and that step gone if k was the last: d says whether.
Moved(k, d) ==
  /\ Len(work) \in Nat /\ DOMAIN work = 1 .. Len(work) /\ 1 \in DOMAIN work
  /\ DOMAIN work' = 1 .. Len(work) - d /\ Len(work') = Len(work) - d
  /\ d = 1 <=> work[1].sinks = {k}
  /\ k \in work[1].sinks /\ work[1].op = "write"
  /\ \A i \in DOMAIN work' :
       work'[i] = IF i + d = 1 THEN WriteTo(work[1].item, work[1].sinks \ {k}) ELSE work[i + d]

\* A write that returns leaves the list of work, alone or with its step.
LEMMA ReturnedMoves ==
  ASSUME TypeRouter, NEW k \in Sinks, Writing(k), Returned(k)
  PROVE  \E d \in {0, 1} : Moved(k, d)
<1> DEFINE first == WriteTo(work[1].item, work[1].sinks \ {k})
<1>1. /\ Head(work) = work[1] /\ 1 \in DOMAIN work /\ Len(work) \in Nat
      /\ DOMAIN work = 1 .. Len(work) /\ Len(Tail(work)) = Len(work) - 1
      /\ DOMAIN Tail(work) = 1 .. Len(work) - 1 /\ Tail(work) \in Seq(RouterSteps)
      /\ \A i \in DOMAIN Tail(work) : i + 1 \in DOMAIN work /\ Tail(work)[i] = work[i + 1]
  BY HeadTail DEF Writing, TypeRouter
<1>2. work[1].op = "write" /\ k \in work[1].sinks
  BY <1>1 DEF Writing
<1>3. work' = WritesOf(work[1].item, work[1].sinks \ {k}) \o Tail(work)
  BY <1>1 DEF Returned
<1>4. CASE work[1].sinks = {k}
  <2>1. work' = Tail(work)
    <3>1. work[1].sinks \ {k} = {}
      BY <1>4
    <3>2. work' = <<>> \o Tail(work)
      BY <1>3, <3>1, Zenon DEF WritesOf
    <3> QED  BY <1>1, <3>2
  <2>2. \A i \in DOMAIN work' : i + 1 # 1
    BY <1>1, <2>1
  <2>3. Moved(k, 1)
    BY <1>1, <1>2, <1>4, <2>1, <2>2 DEF Moved
  <2> QED  BY <2>3
<1>5. CASE work[1].sinks # {k}
  <2>1. work' = <<first>> \o Tail(work)
    BY <1>2, <1>3, <1>5 DEF WritesOf
  <2> HIDE DEF first
  <2>2. Len(work') = Len(work) /\ DOMAIN work' = 1 .. Len(work)
    BY <1>1, <2>1
  <2>3. ASSUME NEW i \in DOMAIN work'
        PROVE  work'[i] = IF i = 1 THEN first ELSE work[i]
    <3>1. CASE i = 1
      BY <1>1, <2>1, <3>1
    <3>2. CASE i # 1
      <4>1. i - 1 \in DOMAIN Tail(work) /\ work'[i] = Tail(work)[i - 1]
        BY <1>1, <2>1, <2>2, <3>2
      <4>2. (i - 1) + 1 = i
        BY <2>2
      <4> QED  BY <1>1, <3>2, <4>1, <4>2
    <3> QED  BY <3>1, <3>2
  <2>4. Moved(k, 0)
    <3>1. Len(work) - 0 = Len(work) /\ \A i \in DOMAIN work' : i + 0 = i
      BY <1>1, <2>2
    <3>2. \A i \in DOMAIN work' : work'[i] = IF i + 0 = 1 THEN first ELSE work[i + 0]
      BY <2>3, <3>1
    <3>3. 0 = 1 <=> work[1].sinks = {k}
      BY <1>5
    <3> QED  BY <1>1, <1>2, <2>2, <3>1, <3>2, <3>3 DEF Moved, first
  <2> QED  BY <2>4
<1> QED  BY <1>4, <1>5

\* So what is left to write to a sink, of all items or of one, is what was left,
\* without the write that has ended.
LEMMA LeftMoves ==
  ASSUME NEW k, NEW d \in {0, 1}, Moved(k, d), NEW j
  PROVE  /\ \A i \in LeftFor(j)' : /\ i + d \in LeftFor(j) /\ ~(j = k /\ i + d = 1)
                                   /\ work'[i].item = work[i + d].item
         /\ \A i \in LeftFor(j) : ~(j = k /\ i = 1) => i - d \in LeftFor(j)' /\ (i - d) + d = i
<1>1. /\ Len(work) \in Nat /\ DOMAIN work = 1 .. Len(work) /\ 1 \in DOMAIN work
      /\ DOMAIN work' = 1 .. Len(work) - d /\ d \in Nat
  BY DEF Moved
<1>2. \A i \in DOMAIN work' : i + d \in DOMAIN work
  BY <1>1
<1>3. ASSUME NEW i \in DOMAIN work'
      PROVE  /\ work'[i].op = work[i + d].op
             /\ work[i + d].op = "write" => work'[i].item = work[i + d].item
             /\ work[i + d].op = "write" =>
                  (j \in work'[i].sinks <=> j \in work[i + d].sinks /\ ~(j = k /\ i + d = 1))
  <2>1. CASE i + d = 1
    BY <2>1 DEF Moved, WriteTo
  <2>2. CASE i + d # 1
    BY <2>2 DEF Moved
  <2> QED  BY <2>1, <2>2
<1>4. ASSUME NEW i \in LeftFor(j), ~(j = k /\ i = 1)
      PROVE  i - d \in LeftFor(j)' /\ (i - d) + d = i
  <2>1. i \in DOMAIN work /\ work[i].op = "write" /\ j \in work[i].sinks
    BY DEF LeftFor
  <2>2. d = 1 => i # 1
    BY <1>4, <2>1 DEF Moved
  <2>3. i - d \in DOMAIN work' /\ (i - d) + d = i
    BY <1>1, <2>1, <2>2
  <2> QED  BY <1>3, <1>4, <2>1, <2>3 DEF LeftFor
<1>5. ASSUME NEW i \in LeftFor(j)'
      PROVE  i + d \in LeftFor(j) /\ ~(j = k /\ i + d = 1) /\ work'[i].item = work[i + d].item
  <2>1. i \in DOMAIN work' /\ work'[i].op = "write" /\ j \in work'[i].sinks
    BY DEF LeftFor
  <2> QED  BY <1>2, <1>3, <2>1 DEF LeftFor
<1> QED  BY <1>4, <1>5

-----------------------------------------------------------------------------
\* Concatenations of sequences of at most three elements.
LEMMA Concatenated ==
  ASSUME NEW x, NEW y, NEW z
  PROVE  /\ <<x>> \o <<y>> = <<x, y>> /\ <<x, y>> \o <<z>> = <<x, y, z>>
         /\ <<x>> \o <<>> = <<x>> /\ <<>> \o <<x>> = <<x>> /\ <<x, y>> \o <<>> = <<x, y>>
         /\ <<>> \o <<>> = <<>>
<1> DEFINE S == {x, y, z}
<1>1. <<>> \in Seq(S) /\ <<x>> \in Seq(S) /\ <<y>> \in Seq(S) /\ <<z>> \in Seq(S) /\ <<x, y>> \in Seq(S)
  OBVIOUS
<1>2. \A p \in Seq(S) : p \o <<>> = p /\ <<>> \o p = p
  BY ConcatEmptySeq
<1>3. <<x>> \o <<y>> = <<x, y>>
  <2>1. /\ <<x>> \o <<y>> \in Seq(S) /\ Len(<<x>> \o <<y>>) = 2
        /\ (<<x>> \o <<y>>)[1] = x /\ (<<x>> \o <<y>>)[2] = y
    BY <1>1
  <2>2. /\ <<x, y>> \in Seq(S) /\ Len(<<x, y>>) = 2
        /\ \A i \in 1 .. 2 : (<<x>> \o <<y>>)[i] = <<x, y>>[i]
    BY <2>1
  <2> HIDE DEF S
  <2> QED  BY <2>1, <2>2, SeqEqual
<1>4. <<x, y>> \o <<z>> = <<x, y, z>>
  <2>1. /\ <<x, y>> \o <<z>> \in Seq(S) /\ Len(<<x, y>> \o <<z>>) = 3
        /\ (<<x, y>> \o <<z>>)[1] = x /\ (<<x, y>> \o <<z>>)[2] = y /\ (<<x, y>> \o <<z>>)[3] = z
    BY <1>1
  <2>2. /\ <<x, y, z>> \in Seq(S) /\ Len(<<x, y, z>>) = 3
        /\ \A i \in 1 .. 3 : (<<x, y>> \o <<z>>)[i] = <<x, y, z>>[i]
    BY <2>1
  <2> HIDE DEF S
  <2> QED  BY <2>1, <2>2, SeqEqual
<1> QED  BY <1>1, <1>2, <1>3, <1>4

\* The steps for a chunk: each sink that wants it is in exactly one write.
LEMMA RouteChunkShape ==
  ASSUME NEW s \in Sources, NEW n \in 0 .. MaxCaptured - 1
  PROVE  LET q == RouteChunk(s, n)
             left(k) == {i \in DOMAIN q : q[i].op = "write" /\ k \in q[i].sinks}
         IN  /\ \A i \in DOMAIN q :
                  \/ q[i] = Feed(s, n) /\ i = Len(q) /\ HasMergeRoutes
                  \/ /\ q[i].op = "write" /\ q[i].item = Chunk(s, n)
                     /\ q[i].sinks \cap MergedSinks = {}
             /\ \A k \in Sinks : IF WantsEach(k, s) THEN \E i \in DOMAIN q : left(k) = {i} ELSE left(k) = {}
             /\ HasMergeRoutes => \E i \in DOMAIN q : q[i] = Feed(s, n)
<1> DEFINE c == Chunk(s, n)
           B == BroadcastSinks
           D == DirectSinks(s)
           b == WriteTo(c, B)
           e == WriteTo(c, D)
           f == Feed(s, n)
           q == RouteChunk(s, n)
           left(k) == {i \in DOMAIN q : q[i].op = "write" /\ k \in q[i].sinks}
<1>1. /\ B \cap MergedSinks = {} /\ D \cap MergedSinks = {} /\ B \cap D = {}
      /\ \A k \in Sinks : WantsEach(k, s) <=> k \in B \/ k \in D
  BY DEF BroadcastSinks, DirectSinks, MergedSinks, OfKind, WantsEach
<1>2. /\ b.op = "write" /\ b.item = c /\ b.sinks = B
      /\ e.op = "write" /\ e.item = c /\ e.sinks = D /\ f.op = "feed"
  BY DEF WriteTo, Feed
<1>3. q = (IF B = {} THEN <<>> ELSE <<b>>) \o (IF D = {} THEN <<>> ELSE <<e>>)
            \o (IF HasMergeRoutes THEN <<f>> ELSE <<>>)
  BY DEF RouteChunk, WritesOf, FeedOf
<1> HIDE DEF b, e, f, B, D, c, q
<1>4. /\ \A i \in DOMAIN q :
           \/ q[i] = f /\ i = Len(q) /\ HasMergeRoutes
           \/ q[i].op = "write" /\ q[i].item = c /\ q[i].sinks \cap MergedSinks = {}
      /\ \A k \in Sinks : IF WantsEach(k, s) THEN \E i \in DOMAIN q : left(k) = {i} ELSE left(k) = {}
      /\ HasMergeRoutes => \E i \in DOMAIN q : q[i] = f
  <2>1. CASE B = {} /\ D = {} /\ ~HasMergeRoutes
    <3>1. q = <<>>
      BY <1>3, Concatenated, <2>1
    <3> QED  BY <1>1, <1>2, <2>1, <3>1
  <2>2. CASE B = {} /\ D = {} /\ HasMergeRoutes
    <3>1. q = <<f>>
      BY <1>3, Concatenated, <2>2
    <3> QED  BY <1>1, <1>2, <2>2, <3>1
  <2>3. CASE B # {} /\ D = {} /\ ~HasMergeRoutes
    <3>1. q = <<b>>
      BY <1>3, Concatenated, <2>3
    <3> QED  BY <1>1, <1>2, <2>3, <3>1
  <2>4. CASE B # {} /\ D = {} /\ HasMergeRoutes
    <3>1. q = <<b, f>>
      BY <1>3, Concatenated, <2>4
    <3> QED  BY <1>1, <1>2, <2>4, <3>1
  <2>5. CASE B = {} /\ D # {} /\ ~HasMergeRoutes
    <3>1. q = <<e>>
      BY <1>3, Concatenated, <2>5
    <3> QED  BY <1>1, <1>2, <2>5, <3>1
  <2>6. CASE B = {} /\ D # {} /\ HasMergeRoutes
    <3>1. q = <<e, f>>
      BY <1>3, Concatenated, <2>6
    <3> QED  BY <1>1, <1>2, <2>6, <3>1
  <2>7. CASE B # {} /\ D # {} /\ ~HasMergeRoutes
    <3>1. q = <<b, e>>
      BY <1>3, Concatenated, <2>7
    <3> QED  BY <1>1, <1>2, <2>7, <3>1
  <2>8. CASE B # {} /\ D # {} /\ HasMergeRoutes
    <3>1. q = <<b, e, f>>
      BY <1>3, Concatenated, <2>8
    <3> QED  BY <1>1, <1>2, <2>8, <3>1
  <2> QED  BY <2>1, <2>2, <2>3, <2>4, <2>5, <2>6, <2>7, <2>8
<1> QED  BY <1>4 DEF q, c, f

-----------------------------------------------------------------------------
\* Where the chunk n of s is at sink k: nowhere, or in exactly one place.
Single1(S) == \E x \in S : S = {x}

Nowhere(k, c) == WritesLeft(k, c) = {} /\ Writes(k, c) = {} /\ <<k, c>> \notin gaveUp

InOnePlace(k, c) ==
  \/ Single1(WritesLeft(k, c)) /\ Writes(k, c) = {} /\ <<k, c>> \notin gaveUp
  \/ WritesLeft(k, c) = {} /\ Single1(Writes(k, c)) /\ <<k, c>> \notin gaveUp
  \/ WritesLeft(k, c) = {} /\ Writes(k, c) = {} /\ <<k, c>> \in gaveUp

Accounted(k, s, n) ==
  IF n < taken[s] /\ WantsEach(k, s) THEN InOnePlace(k, Chunk(s, n)) ELSE Nowhere(k, Chunk(s, n))

Exclusive == \A k \in Sinks, s \in Sources : \A n \in 0 .. MaxCaptured - 1 : Accounted(k, s, n)

\* How often a chunk is accounted for at a sink.
LEMMA AccountsOf ==
  ASSUME NEW k, NEW c
  PROVE  /\ Nowhere(k, c) => Accounts(k, c) = {}
         /\ InOnePlace(k, c) => \E a \in Accounts(k, c) : Accounts(k, c) = {a}
<1> DEFINE L == WritesLeft(k, c)
           W == Writes(k, c)
           A == Accounts(k, c)
           G == {<<k, c>>} \cap gaveUp
<1>1. A = {<<"left", i>> : i \in L} \cup {<<"written", i>> : i \in W} \cup {<<"given up", 0>> : g \in G}
  BY DEF Accounts
<1> HIDE DEF L, W, A
<1>2. <<k, c>> \notin gaveUp => G = {}
  OBVIOUS
<1>3. <<k, c>> \in gaveUp => G = {<<k, c>>}
  OBVIOUS
<1> HIDE DEF G
<1>4. L = {} /\ W = {} /\ G = {} => A = {}
  BY <1>1
<1>5. ASSUME NEW i, L = {i}, W = {}, G = {}  PROVE \E a \in A : A = {a}
  <2>1. A = {<<"left", i>>}
    BY <1>1, <1>5
  <2> QED  BY <2>1
<1>6. ASSUME NEW i, L = {}, W = {i}, G = {}  PROVE \E a \in A : A = {a}
  <2>1. A = {<<"written", i>>}
    BY <1>1, <1>6
  <2> QED  BY <2>1
<1>7. ASSUME L = {}, W = {}, G = {<<k, c>>}  PROVE \E a \in A : A = {a}
  <2>1. A = {<<"given up", 0>>}
    BY <1>1, <1>7
  <2> QED  BY <2>1
<1> QED  BY <1>2, <1>3, <1>4, <1>5, <1>6, <1>7 DEF Nowhere, InOnePlace, Single1, L, W, A

\* What is left of an item are the places of work that name it.
LEMMA LeftOf ==
  ASSUME NEW k, NEW c
  PROVE  WritesLeft(k, c) = {i \in LeftFor(k) : work[i].item = c}
  BY DEF WritesLeft, LeftFor

\* A chunk is no merge result.
LEMMA KindsDiffer ==
  ASSUME NEW x \in ChunkItems, NEW y \in MergedItems
  PROVE  x # y
<1>1. DOMAIN x = {"source", "seq"} /\ DOMAIN y = {"window", "chunks"}
  BY DEF ChunkItems, MergedItems
<1>2. "window" \notin DOMAIN x /\ "window" \in DOMAIN y
  BY <1>1
<1> QED  BY <1>2

\* A chunk is an item with its source and number.
LEMMA ChunkIsItem ==
  ASSUME NEW s \in Sources, NEW n \in 0 .. MaxCaptured - 1
  PROVE  Chunk(s, n) \in ChunkItems /\ Chunk(s, n).source = s /\ Chunk(s, n).seq = n
  BY DEF Chunk, ChunkItems

\* What the router writes when work begins is either the writes of one chunk or
\* those of results: in the latter case no chunk is left to write anywhere.
LEMMA NoChunkLeft ==
  ASSUME NEW results \in Seq(MergedItems), work = WriteResults(results),
         NEW k, NEW c \in ChunkItems
  PROVE  WritesLeft(k, c) = {}
<1>1. /\ DOMAIN work = 1 .. Len(results) * Len(Groups)
      /\ \A i \in DOMAIN work : work[i].item \in MergedItems
  <2>1. \A i \in DOMAIN work : \E r \in DOMAIN results : work[i].item = results[r]
    BY ResultWrites
  <2> QED  BY <2>1, ResultWrites
<1> QED  BY <1>1, KindsDiffer DEF WritesLeft

-----------------------------------------------------------------------------
\* A call of the merger comes last: nothing is left to write when it is made.
LEMMA FeedIsLast ==
  ASSUME TypeRouter, WorkShape, work # <<>>, Head(work).op = "feed"
  PROVE  /\ Tail(work) = <<>> /\ Head(work) \in RouterSteps /\ HasMergeRoutes
         /\ Head(work).seq + 1 = taken[Head(work).source]
         /\ \A i \in DOMAIN work : work[i] = Head(work)
         /\ \A k : LeftFor(k) = {}
<1>1. /\ Head(work) = work[1] /\ 1 \in DOMAIN work /\ Len(work) \in Nat /\ DOMAIN work = 1 .. Len(work)
      /\ Tail(work) \in Seq(RouterSteps) /\ Len(Tail(work)) = Len(work) - 1 /\ Head(work) \in RouterSteps
  BY HeadTail DEF TypeRouter
<1>2. FeedStep(1)
  BY <1>1 DEF WorkShape, ChunkStep, ResultStep
<1>3. Len(work) = 1 /\ DOMAIN work = {1}
  <2>1. 1 = Len(work)
    BY <1>2, Zenon DEF FeedStep
  <2>2. 1 .. 1 = {1}
    OBVIOUS
  <2> QED  BY <1>1, <2>1, <2>2
<1>4. Tail(work) = <<>>
  <2>1. Len(Tail(work)) = 0
    BY <1>1, <1>3
  <2> QED  BY <1>1, <2>1, EmptySeq
<1> QED  BY <1>1, <1>2, <1>3, <1>4 DEF FeedStep, LeftFor

\* The merger is called, or its timeouts are checked, when nothing is left to
\* write, and what there is to write afterwards are its results.
MergesInto(results) ==
  /\ results \in Seq(MergedItems) /\ merged' = merged \o results /\ work' = WriteResults(results)
  /\ \A k : LeftFor(k) = {}
  /\ UNCHANGED <<written, gaveUp, taken>>

\* A step of the merger records the results it hands out.
LEMMA MergeStep ==
  ASSUME ChannelInv, WorkShape, RouterTick \/ RouterStop \/ RouterFeed
  PROVE  \E results : MergesInto(results)
<1>0. TypeRouter
  BY TypeParts DEF ChannelInv
<1>t. IsTable(pending, ChunkMaps(MaxCaptured)) /\ MaxCaptured \in Nat
  BY <1>0, SupplyBound DEF TypeRouter
<1> USE DEF sinkVars
<1>1. CASE RouterTick \/ RouterStop
  <2>1. PICK o \in CheckTimeoutsOutcomes(pending) :
          merged' = merged \o o.results /\ work' = WriteResults(o.results)
    BY <1>1 DEF RouterTick, RouterStop, CheckMergeTimeouts
  <2>2. o.results \in Seq(MergedItems)
    BY <1>t, CheckTimeoutsType, Zenon DEF MergedItems
  <2>3. work = <<>> /\ UNCHANGED <<written, gaveUp, taken>>
    BY <1>1 DEF RouterTick, RouterStop
  <2>4. \A k : LeftFor(k) = {}
    BY <2>3 DEF LeftFor
  <2> QED  BY <2>1, <2>2, <2>3, <2>4 DEF MergesInto
<1>2. CASE RouterFeed
  <2> DEFINE f == Head(work)
  <2>1. /\ work # <<>> /\ f.op = "feed" /\ UNCHANGED <<written, gaveUp, taken>>
        /\ \E o \in AddChunkOutcomes(pending, f.source, f.seq) :
             merged' = merged \o o.results /\ work' = WriteResults(o.results) \o Tail(work)
    BY <1>2 DEF RouterFeed
  <2>2. Tail(work) = <<>> /\ f \in RouterSteps /\ \A k : LeftFor(k) = {}
    BY <1>0, <2>1, FeedIsLast
  <2>3. f.source \in Sources /\ f.seq \in 0 .. MaxCaptured - 1
    BY <2>1, <2>2 DEF RouterSteps
  <2>4. PICK o \in AddChunkOutcomes(pending, f.source, f.seq) :
          merged' = merged \o o.results /\ work' = WriteResults(o.results) \o Tail(work)
    BY <2>1
  <2> HIDE DEF f
  <2>5. o.results \in Seq(MergedItems)
    BY <1>t, <2>3, <2>4, AddChunkType, Zenon DEF MergedItems
  <2>6. WriteResults(o.results) \in Seq(RouterSteps)
    BY <2>5, ResultWrites
  <2>7. work' = WriteResults(o.results)
    BY <2>2, <2>4, <2>6, ConcatEmptySeq
  <2> QED  BY <2>1, <2>2, <2>4, <2>5, <2>7 DEF MergesInto
<1> QED  BY <1>1, <1>2

\* The other steps of the model concern neither the work nor what was delivered.
deliveryVars == <<work, written, gaveUp, taken, merged>>

\* Only the router, its sinks' writes and the clock concern the delivery.
LEMMA DeliverySteps ==
  ASSUME Next
  PROVE  \/ RouterReceive \/ RouterTick \/ RouterStop \/ RouterFeed
         \/ \E k \in Sinks : WriteOk(k) \/ WriteFails(k)
         \/ UNCHANGED deliveryVars /\ (Tick \/ UNCHANGED pending)
<1> DEFINE Same == UNCHANGED deliveryVars /\ (Tick \/ UNCHANGED pending)
<1> USE DEF deliveryVars, routerVars, mergerVars, sinkVars
<1>1. ASSUME NEW s \in Sources, Capture(s) \/ Bridge(s)  PROVE Same
  BY <1>1 DEF Capture, Bridge, BridgeCheck, BridgePoll, BridgeDrain, BridgeSend, BridgeSendFails
<1>2. ASSUME NEW k \in ChannelSinks, Receive(k) \/ DropReceiver(k)  PROVE Same
  BY <1>2 DEF Receive, DropReceiver
<1>3. ASSUME Start \/ Session  PROVE Same
  BY <1>3 DEF Start, StartSink, SpawnRouter, OpenSource, OpenFails,
              Session, StopBegin, StopSend, JoinCapture, JoinRouter, CancelStop, DropSession, DropStreams
<1>4. ASSUME RouterDrained \/ StopSink \/ RouterExit \/ Tick  PROVE Same
  BY <1>4 DEF RouterDrained, StopSink, RouterExit, Tick
<1> HIDE DEF Same
<1> QED  BY <1>1, <1>2, <1>3, <1>4 DEF Next, RouterStep, Same

-----------------------------------------------------------------------------
DeliveryInv == WorkShape /\ PlainWritten /\ Exclusive /\ InOrder

\* The inductive invariant holds at the start.
LEMMA InitDelivery == Init => DeliveryInv
<1> SUFFICES ASSUME Init  PROVE DeliveryInv
  OBVIOUS
<1>1. /\ work = <<>> /\ gaveUp = {} /\ written = [k \in Sinks |-> <<>>] /\ taken = [s \in Sources |-> 0]
  BY DEF Init
<1>2. WorkShape /\ PlainWritten /\ InOrder
  BY <1>1 DEF WorkShape, PlainWritten, InOrder
<1>3. \A k \in Sinks : \A c : Nowhere(k, c)
  BY <1>1 DEF Nowhere, WritesLeft, Writes
<1>4. Exclusive
  BY <1>1, <1>3 DEF Exclusive, Accounted
<1> QED  BY <1>2, <1>4 DEF DeliveryInv

\* Nothing changes for a chunk at a sink while what is left to write of it, what
\* was written and what was given up stay empty or single.
LEMMA AccountKept ==
  ASSUME NEW k, NEW s, NEW n, Accounted(k, s, n), taken'[s] = taken[s],
         WritesLeft(k, Chunk(s, n)) = {} => WritesLeft(k, Chunk(s, n))' = {},
         Single1(WritesLeft(k, Chunk(s, n))) => Single1(WritesLeft(k, Chunk(s, n))'),
         Writes(k, Chunk(s, n))' = Writes(k, Chunk(s, n)),
         <<k, Chunk(s, n)>> \in gaveUp' <=> <<k, Chunk(s, n)>> \in gaveUp
  PROVE  Accounted(k, s, n)'
<1> DEFINE c == Chunk(s, n)
<1>1. Nowhere(k, c) => Nowhere(k, c)'
  BY DEF Nowhere
<1>2. InOnePlace(k, c) => InOnePlace(k, c)'
  BY DEF InOnePlace
<1> QED  BY <1>1, <1>2 DEF Accounted

\* A chunk received is left to be written once to each sink that wants it.
LEMMA ReceiveDelivers ==
  ASSUME ChannelInv, DeliveryInv, RouterReceive
  PROVE  DeliveryInv'
<1> DEFINE c == Head(chan)
           s == c.source
           m == c.seq
<1>0. WorkShape /\ PlainWritten /\ Exclusive /\ InOrder /\ TypeBridge /\ TypeRouter
  BY TypeParts DEF DeliveryInv, ChannelInv
<1>1. /\ work = <<>> /\ work' = RouteChunk(s, m) /\ taken' = [taken EXCEPT ![s] = @ + 1]
      /\ UNCHANGED <<written, gaveUp>> /\ router # "exited" /\ chan # <<>>
  BY DEF RouterReceive, sinkVars
<1>2. c \in ChunkItems /\ m = taken[s] /\ c = Chunk(s, taken[s])
  BY <1>0, <1>1, HeadIsNext DEF ChannelInv
<1>3. s \in Sources /\ m \in 0 .. MaxCaptured - 1 /\ m \in Nat /\ c = Chunk(s, m)
  BY <1>2, SupplyBound DEF ChunkItems
<1> HIDE DEF c
<1>4. taken'[s] = m + 1 /\ \A t \in Sources \ {s} : taken'[t] = taken[t]
  BY <1>0, <1>1, <1>2, <1>3 DEF TypeBridge
<1>5. /\ \A i \in DOMAIN work' :
           \/ work'[i] = Feed(s, m) /\ i = Len(work') /\ HasMergeRoutes
           \/ work'[i].op = "write" /\ work'[i].item = c /\ work'[i].sinks \cap MergedSinks = {}
      /\ \A k \in Sinks : IF WantsEach(k, s) THEN Single1(LeftFor(k)') ELSE LeftFor(k)' = {}
  BY <1>1, <1>3, RouteChunkShape DEF LeftFor, Single1
<1>6. WorkShape'
  <2>1. Feed(s, m).op = "feed" /\ Feed(s, m).source = s /\ Feed(s, m).seq = m
    BY DEF Feed
  <2>2. ASSUME NEW i \in DOMAIN work'  PROVE FeedStep(i)' \/ ChunkStep(i)'
    <3>1. CASE work'[i] = Feed(s, m) /\ i = Len(work') /\ HasMergeRoutes
      BY <1>4, <2>1, <3>1 DEF FeedStep
    <3>2. CASE work'[i].op = "write" /\ work'[i].item = c /\ work'[i].sinks \cap MergedSinks = {}
      <4>1. c.seq + 1 = taken'[c.source]
        BY <1>4
      <4> QED  BY <1>2, <3>2, <4>1 DEF ChunkStep
    <3> QED  BY <1>5, <3>1, <3>2
  <2> QED  BY <2>2 DEF WorkShape
<1>7. Exclusive'
  <2>1. ASSUME NEW k \in Sinks, NEW t \in Sources, NEW n \in 0 .. MaxCaptured - 1
        PROVE  Accounted(k, t, n)'
    <3> DEFINE x == Chunk(t, n)
    <3>1. /\ Accounted(k, t, n) /\ WritesLeft(k, x) = {} /\ n \in Nat
          /\ taken[t] \in Nat
      BY <1>0, <1>1, SupplyBound DEF Exclusive, WritesLeft, TypeBridge
    <3>2. Writes(k, x)' = Writes(k, x) /\ (<<k, x>> \in gaveUp' <=> <<k, x>> \in gaveUp)
      BY <1>1 DEF Writes
    <3>3. ~Single1({})
      BY DEF Single1
    <3>4. x = c <=> t = s /\ n = m
      BY <1>3 DEF Chunk
    <3>5. CASE t = s /\ n = m
      <4>1. Nowhere(k, x) /\ ~(n < taken[t])
        BY <1>2, <3>1, <3>5 DEF Accounted
      <4>2. WritesLeft(k, x)' = LeftFor(k)'
        <5>1. \A i \in LeftFor(k)' : work'[i].item = c
          <6>1. \A i \in LeftFor(k)' : i \in DOMAIN work' /\ work'[i].op = "write"
            BY DEF LeftFor
          <6> QED  BY <1>5, <6>1 DEF Feed
        <5>2. WritesLeft(k, x)' = {i \in LeftFor(k)' : work'[i].item = x}
          BY DEF WritesLeft, LeftFor
        <5> QED  BY <3>4, <3>5, <5>1, <5>2
      <4>3. n < taken'[t]
        BY <1>4, <3>5
      <4>4. CASE WantsEach(k, t)
        <5>1. Single1(WritesLeft(k, x)')
          BY <1>5, <3>5, <4>2, <4>4
        <5> QED  BY <3>2, <4>1, <4>3, <4>4, <5>1 DEF Accounted, InOnePlace, Nowhere
      <4>5. CASE ~WantsEach(k, t)
        <5>1. WritesLeft(k, x)' = {}
          BY <1>5, <3>5, <4>2, <4>5
        <5> QED  BY <3>2, <4>1, <4>5, <5>1 DEF Accounted, Nowhere
      <4> QED  BY <4>4, <4>5
    <3>6. CASE ~(t = s /\ n = m)
      <4>1. WritesLeft(k, x)' = {}
        <5>1. \A i \in DOMAIN work' : work'[i].op = "write" => work'[i].item = c
          BY <1>5 DEF Feed
        <5> QED  BY <3>4, <3>6, <5>1 DEF WritesLeft
      <4>2. n < taken'[t] <=> n < taken[t]
        BY <1>2, <1>3, <1>4, <3>1, <3>6
      <4>3. Nowhere(k, x) => Nowhere(k, x)'
        BY <3>2, <4>1 DEF Nowhere
      <4>4. InOnePlace(k, x) => InOnePlace(k, x)'
        BY <3>1, <3>2, <3>3, <4>1 DEF InOnePlace
      <4> QED  BY <3>1, <4>2, <4>3, <4>4 DEF Accounted
    <3> QED  BY <3>5, <3>6
  <2> QED  BY <2>1 DEF Exclusive
<1>8. PlainWritten' /\ InOrder'
  BY <1>0, <1>1 DEF PlainWritten, InOrder
<1> QED  BY <1>6, <1>7, <1>8 DEF DeliveryInv

\* The merger's steps do not concern the chunks delivered one by one.
LEMMA MergeDelivers ==
  ASSUME ChannelInv, DeliveryInv, NEW results, MergesInto(results)
  PROVE  DeliveryInv'
<1>0. WorkShape /\ PlainWritten /\ Exclusive /\ InOrder
  BY DEF DeliveryInv
<1>1. /\ results \in Seq(MergedItems) /\ work' = WriteResults(results)
      /\ UNCHANGED <<written, gaveUp, taken>> /\ \A k : LeftFor(k) = {}
  BY DEF MergesInto
<1>2. WorkShape'
  <2>1. /\ work' \in Seq(RouterSteps)
        /\ \A i \in DOMAIN work' : /\ ((i - 1) \div Len(Groups)) + 1 \in DOMAIN results
                                   /\ ((i - 1) % Len(Groups)) + 1 \in DOMAIN Groups
                                   /\ work'[i].op = "write"
                                   /\ work'[i].item = results[((i - 1) \div Len(Groups)) + 1]
                                   /\ work'[i].sinks = Groups[((i - 1) % Len(Groups)) + 1]
    BY <1>1, ResultWrites
  <2>2. \A r \in DOMAIN results : results[r] \in MergedItems
    BY <1>1
  <2>3. \A g \in DOMAIN Groups : Groups[g] \in (SUBSET MergedSinks) \ {{}}
    BY GroupList
  <2>4. ASSUME NEW i \in DOMAIN work'  PROVE ResultStep(i)'
    <3>1. Len(work') \in DOMAIN work'
      BY <2>1
    <3> QED  BY <2>1, <2>2, <2>3, <3>1 DEF ResultStep
  <2> QED  BY <2>4 DEF WorkShape
<1>3. Exclusive'
  <2>1. ASSUME NEW k \in Sinks, NEW s \in Sources, NEW n \in 0 .. MaxCaptured - 1
        PROVE  Accounted(k, s, n)'
    <3>1. WritesLeft(k, Chunk(s, n))' = {} /\ WritesLeft(k, Chunk(s, n)) = {}
      <4>1. Chunk(s, n) \in ChunkItems
        BY ChunkIsItem
      <4>2. \A i \in DOMAIN work' : work'[i].item \in MergedItems
        <5>1. \A i \in DOMAIN work' : \E r \in DOMAIN results : work'[i].item = results[r]
          BY <1>1, ResultWrites
        <5> QED  BY <1>1, <5>1
      <4>3. WritesLeft(k, Chunk(s, n))' = {}
        BY <4>1, <4>2, KindsDiffer DEF WritesLeft
      <4> QED  BY <1>1, <4>3, LeftOf
    <3>2. ~Single1({})
      BY DEF Single1
    <3>3. Writes(k, Chunk(s, n))' = Writes(k, Chunk(s, n))
      BY <1>1 DEF Writes
    <3>4. Accounted(k, s, n)
      BY <1>0 DEF Exclusive
    <3> QED  BY <1>1, <3>1, <3>2, <3>3, <3>4, AccountKept
  <2> QED  BY <2>1 DEF Exclusive
<1>4. PlainWritten' /\ InOrder'
  BY <1>0, <1>1 DEF PlainWritten, InOrder
<1> QED  BY <1>2, <1>3, <1>4 DEF DeliveryInv

-----------------------------------------------------------------------------
\* A write that ends, with success or given up, leaves the work as Moved says.
Succeeded(k) == written' = [written EXCEPT ![k] = Append(@, work[1].item)] /\ UNCHANGED gaveUp
GivenUp(k) == gaveUp' = gaveUp \cup {<<k, work[1].item>>} /\ UNCHANGED written
WriteEnds(k, d) ==
  /\ d \in {0, 1} /\ Moved(k, d) /\ UNCHANGED <<taken, merged, pending>>
  /\ Succeeded(k) \/ (GivenUp(k) /\ k \in Unreliable \cup ChannelSinks)

\* A write that fails is tried again, or ends like one that succeeds.
LEMMA WriteCases ==
  ASSUME TypeRouter, NEW k \in Sinks, WriteOk(k) \/ WriteFails(k)
  PROVE  UNCHANGED <<deliveryVars, pending>> \/ \E d : WriteEnds(k, d)
<1>1. Writing(k) /\ Head(work) = work[1] /\ UNCHANGED <<taken, merged, pending>>
  BY HeadTail DEF WriteOk, WriteFails, Writing, TypeRouter, mergerVars
<1>2. Returned(k) => \E d \in {0, 1} : Moved(k, d)
  BY <1>1, ReturnedMoves
<1>3. CASE WriteOk(k)
  BY <1>1, <1>2, <1>3 DEF WriteOk, WriteEnds, Succeeded
<1>4. CASE WriteFails(k) /\ attempts[k] + 1 >= RetryAttempts
  BY <1>1, <1>2, <1>4 DEF WriteFails, WriteEnds, GivenUp
<1>5. CASE WriteFails(k) /\ ~(attempts[k] + 1 >= RetryAttempts)
  BY <1>1, <1>5 DEF WriteFails, deliveryVars
<1> QED  BY <1>3, <1>4, <1>5

\* The work keeps its shape.
LEMMA ShapeMoves ==
  ASSUME WorkShape, NEW k, NEW d \in {0, 1}, Moved(k, d), taken' = taken
  PROVE  WorkShape'
<1>1. /\ Len(work) \in Nat /\ DOMAIN work = 1 .. Len(work) /\ 1 \in DOMAIN work
      /\ DOMAIN work' = 1 .. Len(work) - d /\ Len(work') = Len(work) - d
      /\ work[1].op = "write"
  BY DEF Moved
<1>2. ASSUME NEW i \in DOMAIN work'
      PROVE  /\ i + d \in DOMAIN work /\ work'[i].op = work[i + d].op
             /\ i + d # 1 => work'[i] = work[i + d]
             /\ i + d = 1 => work'[i].item = work[1].item /\ work'[i].sinks = work[1].sinks \ {k}
  <2>1. i + d \in DOMAIN work
    BY <1>1
  <2>2. CASE i + d = 1
    BY <1>1, <2>1, <2>2 DEF Moved, WriteTo
  <2>3. CASE i + d # 1
    BY <2>1, <2>3 DEF Moved
  <2> QED  BY <2>2, <2>3
<1>3. ASSUME NEW i \in DOMAIN work'  PROVE FeedStep(i)' \/ ChunkStep(i)' \/ ResultStep(i)'
  <2>1. FeedStep(i + d) \/ ChunkStep(i + d) \/ ResultStep(i + d)
    BY <1>2 DEF WorkShape
  <2>2. /\ Len(work') \in DOMAIN work' /\ Len(work') + d = Len(work)
        /\ i = Len(work') <=> i + d = Len(work)
    BY <1>1
  <2>3. work'[Len(work')].op = work[Len(work)].op
    BY <1>2, <2>2
  <2>4. CASE i + d = 1
    <3>1. ChunkStep(1) \/ ResultStep(1)
      BY <1>1, <2>1, <2>4 DEF FeedStep
    <3> QED  BY <1>2, <2>3, <2>4, <3>1 DEF ChunkStep, ResultStep
  <2>5. CASE i + d # 1
    <3>1. work'[i] = work[i + d]
      BY <1>2, <2>5
    <3>2. FeedStep(i + d) => FeedStep(i)'
      BY <2>2, <3>1 DEF FeedStep
    <3>3. ChunkStep(i + d) => ChunkStep(i)'
      BY <3>1 DEF ChunkStep
    <3>4. ResultStep(i + d) => ResultStep(i)'
      BY <2>3, <3>1 DEF ResultStep
    <3> QED  BY <2>1, <3>2, <3>3, <3>4
  <2> QED  BY <2>4, <2>5
<1> QED  BY <1>3 DEF WorkShape

\* Of an item that is not the one whose write ended, or at another sink, as much
\* is left as before; of that item at that sink nothing, if there was one write.
LEMMA LeftKept ==
  ASSUME NEW k, NEW d \in {0, 1}, Moved(k, d), NEW j, NEW c, ~(j = k /\ c = work[1].item)
  PROVE  /\ WritesLeft(j, c) = {} => WritesLeft(j, c)' = {}
         /\ Single1(WritesLeft(j, c)) => Single1(WritesLeft(j, c)')
<1>1. /\ WritesLeft(j, c) = {i \in LeftFor(j) : work[i].item = c}
      /\ WritesLeft(j, c)' = {i \in LeftFor(j)' : work'[i].item = c}
  BY DEF WritesLeft, LeftFor
<1>2. /\ \A i \in LeftFor(j)' : i + d \in LeftFor(j) /\ work'[i].item = work[i + d].item
      /\ \A i \in LeftFor(j) : ~(j = k /\ i = 1) => i - d \in LeftFor(j)' /\ (i - d) + d = i
      /\ \A i \in LeftFor(j)' : i \in Nat
  <2>1. \A i \in LeftFor(j)' : i \in Nat
    BY DEF LeftFor, Moved
  <2> QED  BY <2>1, LeftMoves
<1>3. \A i \in WritesLeft(j, c)' : i \in Nat /\ i + d \in WritesLeft(j, c)
  BY <1>1, <1>2
<1>4. ASSUME NEW x, WritesLeft(j, c) = {x}  PROVE Single1(WritesLeft(j, c)')
  <2>1. x \in LeftFor(j) /\ work[x].item = c
    BY <1>1, <1>4
  <2>2. x - d \in LeftFor(j)' /\ (x - d) + d = x
    BY <1>2, <2>1
  <2>3. x - d \in WritesLeft(j, c)'
    BY <1>1, <1>2, <2>1, <2>2
  <2>4. \A i \in WritesLeft(j, c)' : i + d = x /\ i \in Nat
    BY <1>3, <1>4
  <2>5. WritesLeft(j, c)' = {x - d}
    BY <2>2, <2>3, <2>4
  <2> QED  BY <2>5 DEF Single1
<1> QED  BY <1>3, <1>4 DEF Single1

\* Once a chunk's only write has ended, none is left of it.
LEMMA LeftGone ==
  ASSUME NEW k, NEW d \in {0, 1}, Moved(k, d), NEW c, c = work[1].item, Single1(WritesLeft(k, c))
  PROVE  WritesLeft(k, c)' = {}
<1>1. 1 \in WritesLeft(k, c)
  BY DEF WritesLeft, Moved
<1>2. WritesLeft(k, c) = {1}
  BY <1>1 DEF Single1
<1>3. \A i \in LeftFor(k)' : i + d \in LeftFor(k) /\ i + d # 1 /\ work'[i].item = work[i + d].item
  BY LeftMoves
<1>4. ASSUME NEW i \in LeftFor(k)', work'[i].item = c  PROVE FALSE
  <2>1. i + d \in WritesLeft(k, c)
    BY <1>3, <1>4, LeftOf
  <2> QED  BY <1>2, <1>3, <2>1
<1>5. ASSUME NEW i \in WritesLeft(k, c)'  PROVE FALSE
  BY <1>4, <1>5 DEF WritesLeft, LeftFor
<1> QED  BY <1>5

\* What was written, after the write of c to k has ended.
LEMMA WrittenMoves ==
  ASSUME TypeRouter, NEW k \in Sinks, NEW d, WriteEnds(k, d), NEW c, c = work[1].item, NEW j \in Sinks
  PROVE  /\ \A x : ~(j = k /\ x = c) => Writes(j, x)' = Writes(j, x)
         /\ \A x : ~(j = k /\ x = c) => (<<j, x>> \in gaveUp' <=> <<j, x>> \in gaveUp)
         /\ Len(written[j]) \in Nat /\ DOMAIN written[j] = 1 .. Len(written[j])
         /\ \/ j = k /\ Succeeded(k) /\ written'[j] = Append(written[j], c)
               /\ Len(written'[j]) = Len(written[j]) + 1
               /\ DOMAIN written'[j] = 1 .. Len(written[j]) + 1
               /\ written'[j][Len(written[j]) + 1] = c
               /\ \A i \in DOMAIN written[j] : written'[j][i] = written[j][i]
            \/ written'[j] = written[j] /\ ~(j = k /\ Succeeded(k))
<1>1. written \in [Sinks -> Seq(Items)] /\ written[j] \in Seq(Items)
  BY DEF TypeRouter
<1>2. Succeeded(k) \/ GivenUp(k)
  BY DEF WriteEnds
<1>3. Len(written[j]) \in Nat /\ DOMAIN written[j] = 1 .. Len(written[j])
  BY <1>1
<1>4. \A x : ~(j = k /\ x = c) => (<<j, x>> \in gaveUp' <=> <<j, x>> \in gaveUp)
  <2>1. CASE Succeeded(k)
    BY <2>1 DEF Succeeded
  <2>2. CASE GivenUp(k)
    BY <2>2 DEF GivenUp
  <2> QED  BY <1>2, <2>1, <2>2
<1>5. CASE j = k /\ Succeeded(k)
  <2>1. written'[j] = Append(written[j], c)
    BY <1>1, <1>5 DEF Succeeded
  <2>2. /\ Len(written'[j]) = Len(written[j]) + 1
        /\ DOMAIN written'[j] = 1 .. Len(written[j]) + 1
        /\ written'[j][Len(written[j]) + 1] = c
        /\ \A i \in DOMAIN written[j] : written'[j][i] = written[j][i]
    BY <1>1, <1>3, <2>1
  <2>3. ASSUME NEW x, x # c  PROVE Writes(j, x)' = Writes(j, x)
    BY <1>3, <2>2, <2>3 DEF Writes
  <2> QED  BY <1>3, <1>4, <1>5, <2>1, <2>2, <2>3
<1>6. CASE ~(j = k /\ Succeeded(k))
  <2>1. written'[j] = written[j]
    BY <1>1, <1>2, <1>6 DEF Succeeded, GivenUp
  <2>2. \A x : Writes(j, x)' = Writes(j, x)
    BY <2>1 DEF Writes
  <2> QED  BY <1>3, <1>4, <1>6, <2>1, <2>2
<1> QED  BY <1>5, <1>6

\* The write of a chunk that ends accounts for that chunk at that sink.
LEMMA WriteDelivers ==
  ASSUME TypeRouter, TypeBridge, DeliveryInv, NEW k \in Sinks, NEW d, WriteEnds(k, d)
  PROVE  DeliveryInv'
<1>0. /\ WorkShape /\ PlainWritten /\ Exclusive /\ InOrder
      /\ d \in {0, 1} /\ Moved(k, d) /\ taken' = taken
  BY DEF DeliveryInv, WriteEnds
<1>1. PICK c : c = work[1].item
  OBVIOUS
<1>2. 1 \in DOMAIN work /\ work[1].op = "write" /\ k \in work[1].sinks
  BY <1>0 DEF Moved
<1>3. \/ c \in ChunkItems /\ k \notin MergedSinks /\ c.seq + 1 = taken[c.source]
      \/ c \in MergedItems /\ k \in MergedSinks
  <2>1. ChunkStep(1) \/ ResultStep(1)
    BY <1>0, <1>2 DEF WorkShape, FeedStep
  <2> QED  BY <1>1, <1>2, <2>1 DEF ChunkStep, ResultStep
<1>4. WorkShape'
  BY <1>0, ShapeMoves
<1>5. PlainWritten'
  <2>1. ASSUME NEW j \in Sinks \ MergedSinks  PROVE written'[j] \in Seq(ChunkItems)
    <3>1. written[j] \in Seq(ChunkItems)
      BY <1>0 DEF PlainWritten
    <3>2. written'[j] = written[j] \/ (j = k /\ written'[j] = Append(written[j], c))
      BY <1>1, WrittenMoves
    <3>3. j = k => c \in ChunkItems
      BY <1>3
    <3> QED  BY <3>1, <3>2, <3>3
  <2> QED  BY <2>1 DEF PlainWritten
<1>6. ASSUME NEW s \in Sources, NEW n \in 0 .. MaxCaptured - 1, Chunk(s, n) = c
      PROVE  /\ n < taken[s] /\ WantsEach(k, s) /\ InOnePlace(k, c)
             /\ Single1(WritesLeft(k, c)) /\ Writes(k, c) = {} /\ <<k, c>> \notin gaveUp
  <2>1. 1 \in WritesLeft(k, c)
    BY <1>1, <1>2 DEF WritesLeft
  <2>2. Accounted(k, s, n) /\ ~Nowhere(k, c)
    BY <1>0, <2>1 DEF Exclusive, Nowhere
  <2>3. n < taken[s] /\ WantsEach(k, s) /\ InOnePlace(k, c)
    BY <1>6, <2>2 DEF Accounted
  <2> QED  BY <2>1, <2>3 DEF InOnePlace
<1>7. Exclusive'
  <2>1. ASSUME NEW j \in Sinks, NEW s \in Sources, NEW n \in 0 .. MaxCaptured - 1
        PROVE  Accounted(j, s, n)'
    <3>0. Accounted(j, s, n)
      BY <1>0 DEF Exclusive
    <3>1. CASE ~(j = k /\ Chunk(s, n) = c)
      <4> DEFINE x == Chunk(s, n)
      <4>1. /\ WritesLeft(j, x) = {} => WritesLeft(j, x)' = {}
            /\ Single1(WritesLeft(j, x)) => Single1(WritesLeft(j, x)')
        BY <1>0, <1>1, <3>1, LeftKept
      <4>2. Writes(j, x)' = Writes(j, x) /\ (<<j, x>> \in gaveUp' <=> <<j, x>> \in gaveUp)
        BY <1>1, <3>1, WrittenMoves
      <4> QED  BY <1>0, <3>0, <4>1, <4>2, AccountKept
    <3>2. CASE j = k /\ Chunk(s, n) = c
      <4>1. /\ n < taken[s] /\ WantsEach(k, s)
            /\ Single1(WritesLeft(k, c)) /\ Writes(k, c) = {} /\ <<k, c>> \notin gaveUp
        BY <1>6, <3>2
      <4>2. WritesLeft(k, c)' = {}
        BY <1>0, <1>1, <4>1, LeftGone
      <4>3. InOnePlace(k, c)'
        <5>1. CASE Succeeded(k)
          <6>1. /\ DOMAIN written'[k] = 1 .. Len(written[k]) + 1
                /\ written'[k][Len(written[k]) + 1] = c
                /\ \A i \in DOMAIN written[k] : written'[k][i] = written[k][i]
                /\ DOMAIN written[k] = 1 .. Len(written[k]) /\ Len(written[k]) \in Nat
            BY <1>1, <5>1, WrittenMoves
          <6>2. \A i \in DOMAIN written[k] : written[k][i] # c
            BY <4>1 DEF Writes
          <6>3. Writes(k, c)' = {Len(written[k]) + 1}
            BY <6>1, <6>2 DEF Writes
          <6>4. <<k, c>> \notin gaveUp'
            BY <4>1, <5>1 DEF Succeeded
          <6> QED  BY <4>2, <6>3, <6>4 DEF InOnePlace, Single1
        <5>2. CASE GivenUp(k)
          <6>1. <<k, c>> \in gaveUp' /\ Writes(k, c)' = {}
            BY <1>1, <4>1, <5>2 DEF GivenUp, Writes
          <6> QED  BY <4>2, <6>1 DEF InOnePlace
        <5> QED  BY <5>1, <5>2 DEF WriteEnds
      <4> QED  BY <1>0, <3>2, <4>1, <4>3 DEF Accounted
    <3> QED  BY <3>1, <3>2
  <2> QED  BY <2>1 DEF Exclusive
<1>8. InOrder'
  <2>1. ASSUME NEW j \in Sinks \ MergedSinks, NEW a \in DOMAIN written'[j], NEW b \in DOMAIN written'[j],
               a < b, written'[j][a].source = written'[j][b].source
        PROVE  written'[j][a].seq < written'[j][b].seq
    <3>1. \A i1, i2 \in DOMAIN written[j] :
            i1 < i2 /\ written[j][i1].source = written[j][i2].source => written[j][i1].seq < written[j][i2].seq
      BY <1>0 DEF InOrder
    <3>2. CASE written'[j] = written[j]
      BY <2>1, <3>1, <3>2
    <3>3. CASE written'[j] # written[j]
      <4>1. /\ j = k /\ DOMAIN written'[j] = 1 .. Len(written[j]) + 1
            /\ written'[j][Len(written[j]) + 1] = c
            /\ \A i \in DOMAIN written[j] : written'[j][i] = written[j][i]
            /\ DOMAIN written[j] = 1 .. Len(written[j]) /\ Len(written[j]) \in Nat
        BY <1>1, <3>3, WrittenMoves
      <4>2. a \in DOMAIN written[j] /\ written'[j][a] = written[j][a]
        BY <2>1, <4>1
      <4>3. CASE b # Len(written[j]) + 1
        <5>1. b \in DOMAIN written[j] /\ written'[j][b] = written[j][b]
          BY <4>1, <4>3
        <5> QED  BY <2>1, <3>1, <4>2, <5>1
      <4>4. CASE b = Len(written[j]) + 1
        <5>1. c \in ChunkItems /\ c.seq + 1 = taken[c.source]
          BY <1>3, <4>1
        <5>2. PICK y : y = written[j][a]
          OBVIOUS
        <5>3. y \in ChunkItems /\ y.source = c.source
          BY <1>0, <2>1, <4>1, <4>2, <4>4, <5>2 DEF PlainWritten
        <5>4. /\ y.source \in Sources /\ y.seq \in 0 .. MaxCaptured - 1 /\ y = Chunk(y.source, y.seq)
              /\ c.source \in Sources /\ c.seq \in 0 .. MaxCaptured - 1 /\ c = Chunk(c.source, c.seq)
          BY <5>1, <5>3 DEF ChunkItems, Chunk
        <5>5. a \in Writes(j, y)
          BY <4>2, <5>2 DEF Writes
        <5>6. Accounted(j, y.source, y.seq) /\ ~Nowhere(j, y)
          BY <1>0, <5>4, <5>5 DEF Exclusive, Nowhere
        <5>7. y.seq < taken[y.source]
          BY <5>4, <5>6 DEF Accounted
        <5>8. y # c
          BY <1>6, <4>1, <5>4, <5>5
        <5>9. y.seq # c.seq
          BY <5>3, <5>4, <5>8
        <5>10. y.seq < c.seq
          BY <5>1, <5>3, <5>4, <5>7, <5>9, SupplyBound
        <5> QED  BY <4>1, <4>2, <4>4, <5>2, <5>10
      <4> QED  BY <4>3, <4>4
    <3> QED  BY <3>2, <3>3
  <2> QED  BY <2>1 DEF InOrder
<1> QED  BY <1>4, <1>5, <1>7, <1>8 DEF DeliveryInv

-----------------------------------------------------------------------------
\* Each step keeps the inductive invariant.
LEMMA NextDelivery == ChannelInv /\ DeliveryInv /\ [Next]_vars => DeliveryInv'
<1> SUFFICES ASSUME ChannelInv, DeliveryInv, [Next]_vars  PROVE DeliveryInv'
  OBVIOUS
<1>0. WorkShape /\ TypeRouter /\ TypeBridge
  BY TypeParts DEF DeliveryInv, ChannelInv
<1>1. ASSUME UNCHANGED deliveryVars  PROVE DeliveryInv'
  <2>1. WorkShape' /\ PlainWritten' /\ InOrder'
    BY <1>1 DEF DeliveryInv, deliveryVars, WorkShape, FeedStep, ChunkStep, ResultStep, PlainWritten, InOrder
  <2>2. Exclusive'
    <3>1. \A k \in Sinks : \A c : WritesLeft(k, c)' = WritesLeft(k, c) /\ Writes(k, c)' = Writes(k, c)
      BY <1>1 DEF deliveryVars, WritesLeft, Writes
    <3>2. ASSUME NEW k \in Sinks, NEW s \in Sources, NEW n \in 0 .. MaxCaptured - 1
          PROVE  Accounted(k, s, n)'
      BY <1>1, <3>1, AccountKept DEF DeliveryInv, deliveryVars, Exclusive
    <3> QED  BY <3>2 DEF Exclusive
  <2> QED  BY <2>1, <2>2 DEF DeliveryInv
<1>2. CASE Next
  BY <1>0, <1>1, <1>2, DeliverySteps, ReceiveDelivers, MergeStep, MergeDelivers, WriteCases, WriteDelivers
<1>3. CASE UNCHANGED vars
  BY <1>1, <1>3 DEF vars, deliveryVars, routerVars, mergerVars, sinkVars
<1> QED  BY <1>2, <1>3

\* Each chunk that the router took is, at each sink it is routed to, in one place
\* only: still to be written, written, or given up; and in the order in which the
\* router takes them.  DeliveryInv is inductive together with ChannelInv.
THEOREM DeliveryInvariant == Spec => []DeliveryInv
  BY InitDelivery, NextDelivery, ChannelInvariant, PTL DEF Spec

\* Retries, failures of other sinks, the merger's work and a stop neither lose nor
\* repeat a chunk: each one received is, at each sink that wants it, in exactly
\* one place, and at the other sinks nowhere.
THEOREM EachOnce == Spec => []EachAccounted
<1>1. ChannelInv /\ DeliveryInv => EachAccounted
  <2> SUFFICES ASSUME ChannelInv, DeliveryInv,
                      NEW k \in Sinks, NEW s \in Sources, NEW n \in 0 .. taken[s] - 1
               PROVE  IF WantsEach(k, s) THEN \E a \in Accounts(k, Chunk(s, n)) : Accounts(k, Chunk(s, n)) = {a}
                                         ELSE Accounts(k, Chunk(s, n)) = {}
    BY DEF EachAccounted
  <2>1. n \in 0 .. MaxCaptured - 1 /\ n < taken[s]
    BY TypeParts, SupplyBound DEF ChannelInv, TypeBridge
  <2>2. Accounted(k, s, n)
    BY <2>1 DEF DeliveryInv, Exclusive
  <2> QED  BY <2>1, <2>2, AccountsOf DEF Accounted
<1> QED  BY <1>1, ChannelInvariant, DeliveryInvariant, PTL

\* A sink that takes chunks one by one gets those of each source in the order in
\* which they were captured.
THEOREM OrderKept == Spec => []InOrder
<1>1. DeliveryInv => InOrder
  BY DEF DeliveryInv
<1> QED  BY <1>1, DeliveryInvariant, PTL

-----------------------------------------------------------------------------
\* MergedInOrder, sink by sink.
Places(k, place) ==
  /\ place \in [Len(written[k]) + 1 .. Len(merged) -> LeftFor(k)]
  /\ \A i \in LeftFor(k) : \E j \in DOMAIN place : place[j] = i
  /\ \A j \in DOMAIN place : work[place[j]].item = merged[j]
  /\ \A i, j \in DOMAIN place : i < j => place[i] < place[j]

GotPrefix(k) == \A j \in DOMAIN written[k] : j <= Len(merged) /\ written[k][j] = merged[j]

MergedTo(k) == GotPrefix(k) /\ \E place : Places(k, place)

\* MergedInOrder, sink by sink.
LEMMA MergedParts == MergedInOrder <=> \A k \in SureMerged : MergedTo(k)
  BY DEF MergedInOrder, MergedTo, GotPrefix, Places

\* The lengths in question.
LEMMA MergedTypes ==
  ASSUME TypeRouter, NEW k \in SureMerged
  PROVE  /\ k \in Sinks /\ k \in MergedSinks /\ k \notin Unreliable /\ k \notin ChannelSinks
         /\ Len(written[k]) \in Nat /\ DOMAIN written[k] = 1 .. Len(written[k])
         /\ Len(merged) \in Nat /\ DOMAIN merged = 1 .. Len(merged)
<1>1. k \in Sinks /\ k \in MergedSinks /\ k \notin Unreliable /\ k \notin ChannelSinks
  BY DEF SureMerged, MergedSinks, OfKind
<1>2. written[k] \in Seq(Items) /\ merged \in Seq(MergedItems)
  BY <1>1 DEF TypeRouter
<1> QED  BY <1>1, <1>2

\* Nothing is left for a merged sink exactly when it has got all results.
LEMMA AllWritten ==
  ASSUME TypeRouter, NEW k \in SureMerged, LeftFor(k) = {}
  PROVE  MergedTo(k) <=> GotPrefix(k) /\ Len(written[k]) = Len(merged)
<1>0. /\ Len(written[k]) \in Nat /\ DOMAIN written[k] = 1 .. Len(written[k])
      /\ Len(merged) \in Nat
  BY MergedTypes
<1>1. ASSUME MergedTo(k)  PROVE Len(written[k]) = Len(merged)
  <2>1. PICK place : Places(k, place)
    BY <1>1 DEF MergedTo
  <2>2. Len(written[k]) + 1 .. Len(merged) = {}
    BY <2>1 DEF Places
  <2>3. Len(merged) <= Len(written[k])
    <3> SUFFICES ASSUME ~(Len(merged) <= Len(written[k]))  PROVE FALSE
      OBVIOUS
    <3>1. Len(merged) \in Len(written[k]) + 1 .. Len(merged)
      BY <1>0
    <3> QED  BY <2>2, <3>1
  <2>4. Len(written[k]) > 0 => Len(written[k]) <= Len(merged)
    BY <1>0, <1>1 DEF MergedTo, GotPrefix
  <2> QED  BY <1>0, <2>3, <2>4
<1>2. ASSUME GotPrefix(k), Len(written[k]) = Len(merged)  PROVE MergedTo(k)
  <2>1. Len(written[k]) + 1 .. Len(merged) = {}
    BY <1>0, <1>2
  <2>2. Places(k, [j \in {} |-> j])
    BY <2>1 DEF Places
  <2> QED  BY <1>2, <2>2 DEF MergedTo
<1> QED  BY <1>1, <1>2 DEF MergedTo

\* Rows of n places follow each other.
LEMMA RowsAscend ==
  ASSUME NEW n \in Nat \ {0}, NEW a \in Nat, NEW b \in Nat, NEW g \in Nat, a < b
  PROVE  a * n + g < b * n + g
<1>1. (a + 1) * n = a * n + n /\ a * n \in Nat /\ b * n \in Nat
  OBVIOUS
<1>2. (a + 1) * n <= b * n
  OBVIOUS
<1> QED  BY <1>1, <1>2

\* New results are left to be written to each merged sink, in their order.
LEMMA MergeQueues ==
  ASSUME TypeRouter, MergedInOrder, NEW results, MergesInto(results)
  PROVE  MergedInOrder'
<1>0. /\ results \in Seq(MergedItems) /\ merged' = merged \o results /\ work' = WriteResults(results)
      /\ written' = written /\ \A k : LeftFor(k) = {}
  BY DEF MergesInto
<1>1. ASSUME NEW k \in SureMerged  PROVE MergedTo(k)'
  <2> DEFINE n == Len(Groups)
             R == Len(results)
             N == Len(merged)
  <2>1. /\ k \in Sinks /\ k \in MergedSinks /\ N \in Nat /\ DOMAIN merged = 1 .. N
        /\ GotPrefix(k) /\ Len(written[k]) = N /\ DOMAIN written[k] = 1 .. N
    BY <1>0, MergedParts, MergedTypes, AllWritten
  <2>2. /\ R \in Nat /\ DOMAIN results = 1 .. R /\ Len(merged') = N + R
        /\ DOMAIN merged' = 1 .. N + R
        /\ \A j \in 1 .. N : merged'[j] = merged[j]
        /\ \A r \in 1 .. R : merged'[N + r] = results[r]
    BY <1>0, <2>1 DEF TypeRouter
  <2>3. PICK g \in DOMAIN Groups : k \in Groups[g]
    BY <2>1, GroupList
  <2>4. /\ n \in Nat /\ DOMAIN Groups = 1 .. n /\ g \in 1 .. n /\ n # 0
        /\ \A h \in DOMAIN Groups : k \in Groups[h] <=> h = g
    BY <2>3, GroupList
  <2>5. /\ DOMAIN work' = 1 .. R * n
        /\ \A i \in DOMAIN work' : /\ ((i - 1) % n) + 1 \in DOMAIN Groups
                                   /\ work'[i].op = "write"
                                   /\ work'[i].item = results[((i - 1) \div n) + 1]
                                   /\ work'[i].sinks = Groups[((i - 1) % n) + 1]
    BY <1>0, ResultWrites
  <2> HIDE DEF n, R, N
  <2>6. LeftFor(k)' = {i \in 1 .. R * n : ((i - 1) % n) + 1 = g}
    BY <2>4, <2>5 DEF LeftFor
  <2> DEFINE place == [j \in N + 1 .. N + R |-> (j - N - 1) * n + g]
  <2>7. ASSUME NEW j \in N + 1 .. N + R
        PROVE  /\ place[j] = (j - N - 1) * n + g /\ place[j] \in LeftFor(k)'
               /\ work'[place[j]].item = merged'[j] /\ j - N - 1 \in Nat
    <3>1. PICK r \in 1 .. R : r = j - N
      BY <2>1, <2>2
    <3>2. j = N + r /\ r - 1 = j - N - 1 /\ r - 1 \in Nat
      BY <2>1, <3>1
    <3>3. place[j] = (r - 1) * n + g
      BY <3>2
    <3> HIDE DEF place
    <3>4. /\ place[j] \in 1 .. R * n
          /\ ((place[j] - 1) \div n) + 1 = r /\ ((place[j] - 1) % n) + 1 = g
      <4>1. AtPlace(place[j], r, g, n, R)
        BY <2>2, <2>4, <3>3, PlaceOf, Zenon
      <4> QED  BY <4>1, Zenon DEF AtPlace
    <3>5. work'[place[j]].item = results[r]
      BY <2>5, <3>4
    <3> QED  BY <2>2, <2>6, <3>2, <3>3, <3>4, <3>5
  <2>8. ASSUME NEW i \in LeftFor(k)'  PROVE \E j \in N + 1 .. N + R : place[j] = i
    <3>1. i \in 1 .. R * n /\ ((i - 1) % n) + 1 = g
      BY <2>6
    <3>2. PICK r \in 1 .. R : r = ((i - 1) \div n) + 1
      BY <2>2, <2>4, <3>1, RowColumn
    <3>3. PICK p : p = (i - 1) \div n
      OBVIOUS
    <3>4. r = p + 1 /\ p \in Nat /\ i = p * n + g
      <4>1. p + 1 \in 1 .. R /\ i = p * n + ((i - 1) % n) + 1
        BY <2>2, <2>4, <3>1, <3>3, RowColumn
      <4>2. (i - 1) % n = g - 1 /\ (i - 1) \div n = p
        <5>1. (i - 1) % n \in 0 .. n - 1
          BY <2>2, <2>4, <3>1
        <5> QED  BY <2>4, <3>1, <3>3, <5>1
      <4>3. p * n \in Nat /\ p \in Nat
        <5>1. (i - 1) \div n \in Nat
          BY <2>2, <2>4, <3>1
        <5> QED  BY <2>4, <3>3, <5>1
      <4>4. r = p + 1
        BY <3>2, <3>3, Zenon
      <4>5. i = p * n + (g - 1) + 1
        BY <4>1, <4>2, Zenon
      <4>6. p * n + (g - 1) + 1 = p * n + g
        BY <2>4, <4>3
      <4> QED  BY <4>3, <4>4, <4>5, <4>6, Zenon
    <3>5. N + r \in N + 1 .. N + R /\ (N + r) - N - 1 = p
      <4>1. r = p + 1 /\ p \in Nat /\ r \in 1 .. R
        BY <3>4
      <4> QED  BY <2>1, <2>2, <4>1
    <3>6. place[N + r] = p * n + g
      <4>1. place[N + r] = ((N + r) - N - 1) * n + g
        BY <2>7, <3>5
      <4> QED  BY <3>5, <4>1, Zenon
    <3> HIDE DEF place
    <3> QED  BY <3>4, <3>5, <3>6
  <2>9. ASSUME NEW i \in N + 1 .. N + R, NEW j \in N + 1 .. N + R, i < j  PROVE place[i] < place[j]
    <3>1. /\ place[i] = (i - N - 1) * n + g /\ place[j] = (j - N - 1) * n + g
          /\ i - N - 1 \in Nat /\ j - N - 1 \in Nat
      BY <2>7
    <3>2. i - N - 1 < j - N - 1
      BY <2>1, <2>2, <2>9
    <3> HIDE DEF place
    <3>3. n \in Nat \ {0} /\ g \in Nat
      BY <2>4
    <3> QED  BY <3>1, <3>2, <3>3, RowsAscend
  <2>10. \E pl : Places(k, pl)'
    <3>1. Len(written'[k]) + 1 .. Len(merged') = N + 1 .. N + R /\ DOMAIN place = N + 1 .. N + R
      BY <1>0, <2>1, <2>2
    <3>2. place \in [N + 1 .. N + R -> LeftFor(k)']
      BY <2>7
    <3>3. PICK pl : pl = place
      OBVIOUS
    <3> HIDE DEF place
    <3>4. /\ pl \in [Len(written'[k]) + 1 .. Len(merged') -> LeftFor(k)']
          /\ \A i \in LeftFor(k)' : \E j \in DOMAIN pl : pl[j] = i
          /\ \A j \in DOMAIN pl : work'[pl[j]].item = merged'[j]
          /\ \A i, j \in DOMAIN pl : i < j => pl[i] < pl[j]
      BY <2>7, <2>8, <2>9, <3>1, <3>2, <3>3
    <3>5. Places(k, pl)'
      BY <3>4 DEF Places
    <3> QED  BY <3>5
  <2>11. GotPrefix(k)'
    <3>1. \A j \in 1 .. N : j <= Len(merged') /\ written[k][j] = merged[j]
      BY <2>1, <2>2 DEF GotPrefix
    <3> QED  BY <1>0, <2>1, <2>2, <3>1 DEF GotPrefix
  <2> QED  BY <2>10, <2>11 DEF MergedTo
<1> QED  BY <1>1 DEF MergedInOrder, MergedTo, GotPrefix, Places, SureMerged

\* A chunk received leaves nothing to write to the merged sinks.
LEMMA ReceiveQueuesNone ==
  ASSUME ChannelInv, MergedInOrder, RouterReceive
  PROVE  MergedInOrder'
<1>0. TypeRouter /\ TypeRouter' /\ TypeBridge
  BY TypeParts, RouterStepType DEF ChannelInv, RouterStep
<1>1. /\ work = <<>> /\ work' = RouteChunk(Head(chan).source, Head(chan).seq)
      /\ UNCHANGED <<written, merged>> /\ router # "exited" /\ chan # <<>>
  BY DEF RouterReceive, sinkVars, mergerVars
<1>2. Head(chan).source \in Sources /\ Head(chan).seq \in 0 .. MaxCaptured - 1
  <2>1. Head(chan) \in ChunkItems
    BY <1>0, <1>1, HeadTail DEF TypeBridge
  <2> QED  BY <2>1 DEF ChunkItems
<1>3. ASSUME NEW k \in SureMerged  PROVE MergedTo(k)'
  <2>1. k \in MergedSinks /\ k \in Sinks
    BY <1>0, MergedTypes
  <2>2. LeftFor(k) = {}
    BY <1>1 DEF LeftFor
  <2>3. LeftFor(k)' = {}
    <3>1. \A i \in DOMAIN work' : work'[i].op = "write" => work'[i].sinks \cap MergedSinks = {}
      BY <1>1, <1>2, RouteChunkShape DEF Feed
    <3> QED  BY <2>1, <3>1 DEF LeftFor
  <2>4. GotPrefix(k) /\ Len(written[k]) = Len(merged)
    BY <1>0, <2>2, MergedParts, AllWritten
  <2>5. GotPrefix(k)' /\ Len(written'[k]) = Len(merged')
    BY <1>1, <2>4 DEF GotPrefix
  <2>6. Len(written'[k]) + 1 .. Len(merged') = {}
    <3>1. Len(merged) \in Nat
      BY <1>0, MergedTypes
    <3> QED  BY <1>1, <2>5, <3>1
  <2>7. Places(k, [j \in {} |-> j])'
    BY <2>3, <2>6 DEF Places
  <2> QED  BY <2>5, <2>7 DEF MergedTo
<1> QED  BY <1>3 DEF MergedInOrder, MergedTo, GotPrefix, Places, SureMerged

\* A write that ends, for this sink or another, moves what is left forward.
LEMMA WriteAdvances ==
  ASSUME TypeRouter, MergedInOrder, NEW e \in Sinks, NEW d, WriteEnds(e, d)
  PROVE  MergedInOrder'
<1>0. d \in {0, 1} /\ Moved(e, d) /\ merged' = merged
  BY DEF WriteEnds
<1>1. ASSUME NEW k \in SureMerged  PROVE MergedTo(k)'
  <2> DEFINE m == Len(written[k])
             N == Len(merged)
  <2>1. /\ k \in Sinks /\ k \notin Unreliable /\ k \notin ChannelSinks
        /\ m \in Nat /\ DOMAIN written[k] = 1 .. m /\ N \in Nat
    BY MergedTypes
  <2>2. PICK place : Places(k, place)
    BY MergedParts DEF MergedTo
  <2>3. GotPrefix(k)
    BY MergedParts DEF MergedTo
  <2>4. /\ place \in [m + 1 .. N -> LeftFor(k)] /\ DOMAIN place = m + 1 .. N
        /\ \A i \in LeftFor(k) : \E j \in m + 1 .. N : place[j] = i
        /\ \A j \in m + 1 .. N : work[place[j]].item = merged[j]
        /\ \A i, j \in m + 1 .. N : i < j => place[i] < place[j]
    BY <2>2 DEF Places
  <2>5. \A i \in LeftFor(k) : i \in Nat /\ i >= 1
    BY <1>0 DEF LeftFor, Moved
  <2>6. /\ \A i \in LeftFor(k)' : /\ i + d \in LeftFor(k) /\ ~(k = e /\ i + d = 1)
                                  /\ work'[i].item = work[i + d].item /\ i \in Nat
        /\ \A i \in LeftFor(k) : ~(k = e /\ i = 1) => i - d \in LeftFor(k)' /\ (i - d) + d = i
    <3>1. \A i \in LeftFor(k)' : i \in Nat
      BY <1>0 DEF LeftFor, Moved
    <3> QED  BY <1>0, <3>1, LeftMoves
  \* The first m of the results, or one more, are now written.
  <2>7. PICK M \in {m, m + 1} :
          /\ Len(written'[k]) = M /\ GotPrefix(k)'
          /\ \A j \in M + 1 .. N : j \in m + 1 .. N /\ ~(k = e /\ place[j] = 1)
          /\ \A j \in m + 1 .. N : ~(k = e /\ place[j] = 1) => j \in M + 1 .. N
    <3>1. CASE k = e
      <4>1. Succeeded(k)
        BY <2>1, <3>1 DEF WriteEnds
      <4>2. /\ Len(written'[k]) = m + 1 /\ DOMAIN written'[k] = 1 .. m + 1
            /\ written'[k][m + 1] = work[1].item
            /\ \A i \in DOMAIN written[k] : written'[k][i] = written[k][i]
        BY <2>1, <3>1, <4>1, WrittenMoves
      <4>3. 1 \in LeftFor(k)
        BY <1>0, <3>1 DEF Moved, LeftFor
      <4>4. PICK j1 \in m + 1 .. N : place[j1] = 1
        BY <2>4, <4>3
      <4>5. j1 = m + 1 /\ m + 1 <= N
        <5>1. m + 1 \in m + 1 .. N
          BY <2>1, <4>4
        <5>2. place[m + 1] \in LeftFor(k)
          BY <2>4, <5>1
        <5>3. place[m + 1] >= 1 /\ place[m + 1] \in Nat
          BY <2>5, <5>2
        <5>4. ~(m + 1 < j1)
          <6>1. m + 1 < j1 => place[m + 1] < 1
            BY <2>4, <4>4, <5>1
          <6> QED  BY <5>3, <6>1
        <5> QED  BY <2>1, <4>4, <5>4
      <4>6. work[1].item = merged[m + 1]
        BY <2>4, <4>4, <4>5
      <4>7. GotPrefix(k)'
        <5>1. ASSUME NEW j \in 1 .. m + 1  PROVE j <= N /\ written'[k][j] = merged[j]
          <6>1. CASE j = m + 1
            BY <4>2, <4>5, <4>6, <6>1
          <6>2. CASE j # m + 1
            <7>1. j \in DOMAIN written[k]
              BY <2>1, <6>2
            <7> QED  BY <2>3, <4>2, <7>1 DEF GotPrefix
          <6> QED  BY <6>1, <6>2
        <5> QED  BY <1>0, <4>2, <5>1 DEF GotPrefix
      <4>8. \A j \in m + 2 .. N : j \in m + 1 .. N /\ place[j] # 1
        <5>1. \A j \in m + 2 .. N : j \in m + 1 .. N /\ m + 1 < j
          BY <2>1
        <5>2. \A j \in m + 2 .. N : 1 < place[j]
          BY <2>4, <4>4, <4>5, <5>1
        <5>3. \A v : 1 < v => v # 1
          OBVIOUS
        <5> QED  BY <5>1, <5>2, <5>3
      <4>9. \A j \in m + 1 .. N : place[j] # 1 => j \in m + 2 .. N
        <5>1. \A j \in m + 1 .. N : j # m + 1 => j \in m + 2 .. N
          BY <2>1
        <5> QED  BY <4>4, <4>5, <5>1
      <4>10. (m + 1) + 1 = m + 2
        BY <2>1
      <4> QED  BY <3>1, <4>2, <4>7, <4>8, <4>9, <4>10
    <3>2. CASE k # e
      <4>1. written'[k] = written[k]
        BY <2>1, <3>2, WrittenMoves
      <4>2. GotPrefix(k)'
        BY <1>0, <2>3, <4>1 DEF GotPrefix
      <4> QED  BY <3>2, <4>1, <4>2
    <3> QED  BY <3>1, <3>2
  <2>8. PICK pl : pl = [j \in M + 1 .. N |-> place[j] - d]
    OBVIOUS
  <2>9. ASSUME NEW j \in M + 1 .. N
        PROVE  /\ j \in m + 1 .. N /\ pl[j] = place[j] - d /\ pl[j] \in LeftFor(k)'
               /\ pl[j] + d = place[j] /\ work'[pl[j]].item = merged[j] /\ pl[j] \in Nat
    <3>1. j \in m + 1 .. N /\ ~(k = e /\ place[j] = 1)
      BY <2>7
    <3>2. place[j] \in LeftFor(k) /\ work[place[j]].item = merged[j]
      BY <2>4, <3>1
    <3>3. pl[j] = place[j] - d
      BY <2>8
    <3>4. pl[j] \in LeftFor(k)' /\ pl[j] + d = place[j]
      BY <2>6, <3>1, <3>2, <3>3
    <3>5. work'[pl[j]].item = work[pl[j] + d].item /\ pl[j] \in Nat
      BY <2>6, <3>4
    <3> QED  BY <3>1, <3>2, <3>3, <3>4, <3>5
  <2>10. ASSUME NEW i \in LeftFor(k)'  PROVE \E j \in M + 1 .. N : pl[j] = i
    <3>1. i + d \in LeftFor(k) /\ ~(k = e /\ i + d = 1) /\ i \in Nat
      BY <2>6
    <3>2. PICK j \in m + 1 .. N : place[j] = i + d
      BY <2>4, <3>1
    <3>3. j \in M + 1 .. N
      BY <2>7, <3>1, <3>2
    <3>4. pl[j] = i
      <4>1. pl[j] + d = i + d /\ pl[j] \in Nat
        BY <2>9, <3>2, <3>3
      <4> QED  BY <1>0, <3>1, <4>1
    <3> QED  BY <3>3, <3>4
  <2>11. ASSUME NEW i \in M + 1 .. N, NEW j \in M + 1 .. N, i < j  PROVE pl[i] < pl[j]
    <3>1. /\ place[i] < place[j] /\ pl[i] + d = place[i] /\ pl[j] + d = place[j]
          /\ pl[i] \in Nat /\ pl[j] \in Nat
      BY <2>4, <2>9, <2>11
    <3> QED  BY <1>0, <3>1
  <2>12. Places(k, pl)'
    <3>1. DOMAIN pl = M + 1 .. N /\ Len(written'[k]) + 1 .. Len(merged') = M + 1 .. N
      BY <1>0, <2>7, <2>8
    <3>2. pl \in [M + 1 .. N -> LeftFor(k)']
      BY <2>8, <2>9
    <3> HIDE DEF m, N
    <3> QED  BY <1>0, <2>9, <2>10, <2>11, <3>1, <3>2 DEF Places
  <2> QED  BY <2>7, <2>12 DEF MergedTo
<1> QED  BY <1>1 DEF MergedInOrder, MergedTo, GotPrefix, Places, SureMerged

\* No result has been handed out at the start.
LEMMA InitMerged == Init => MergedInOrder
<1> SUFFICES ASSUME Init, NEW k \in SureMerged  PROVE MergedTo(k)
  BY MergedParts
<1>1. k \in Sinks /\ written[k] = <<>> /\ merged = <<>> /\ work = <<>>
  BY DEF Init, SureMerged, MergedSinks, OfKind
<1>2. Len(written[k]) + 1 .. Len(merged) = {}
  BY <1>1
<1>3. Places(k, [j \in {} |-> j])
  BY <1>1, <1>2 DEF Places, LeftFor
<1>4. GotPrefix(k)
  BY <1>1 DEF GotPrefix
<1> QED  BY <1>3, <1>4 DEF MergedTo

\* Each step keeps the order of the results at each merged sink.
LEMMA NextMerged == ChannelInv /\ DeliveryInv /\ MergedInOrder /\ [Next]_vars => MergedInOrder'
<1> SUFFICES ASSUME ChannelInv, DeliveryInv, MergedInOrder, [Next]_vars  PROVE MergedInOrder'
  OBVIOUS
<1>0. WorkShape /\ TypeRouter
  BY TypeParts DEF DeliveryInv, ChannelInv
<1>1. ASSUME UNCHANGED deliveryVars  PROVE MergedInOrder'
  BY <1>1 DEF deliveryVars, MergedInOrder, LeftFor
<1>2. CASE Next
  BY <1>0, <1>1, <1>2, DeliverySteps, ReceiveQueuesNone, MergeStep, MergeQueues, WriteCases, WriteAdvances
<1>3. CASE UNCHANGED vars
  BY <1>1, <1>3 DEF vars, deliveryVars, routerVars, mergerVars, sinkVars
<1> QED  BY <1>2, <1>3

\* A merged sink that never fails and never waits has got a prefix of the merger's
\* results in their order, and the rest is left for it in that order: neither the
\* other sinks' retries nor the chunks in between drop, repeat or swap a result.
THEOREM ResultsInOrder == Spec => []MergedInOrder
  BY InitMerged, NextMerged, ChannelInvariant, DeliveryInvariant, PTL DEF Spec
-----------------------------------------------------------------------------
\* That the router drives the merger as module Merger says.  The instances TheMerger,
\* of Merger, and Proved, of the module with the theorems about it, have the operators
\* of MergeWindows once more, each under its own name: first, that each of them is the
\* one that Pipeline itself uses.
Proved == INSTANCE Merger_proofs WITH sent <- Fed, emitted <- merged, MaxChunks <- MaxCaptured

\* Cardinality is the same in all three.
LEMMA SameCardinality ==
  \A S : /\ TheMerger!Cardinality(S) = Cardinality(S)
         /\ Proved!Cardinality(S) = Cardinality(S)
  BY Zenon
     DEF TheMerger!Cardinality, Cardinality, TheMerger!IsFiniteSet, IsFiniteSet, Proved!Cardinality, Proved!IsFiniteSet

\* Restrict is the same in all three.
LEMMA SameRestrict ==
  \A f, S : /\ TheMerger!Restrict(f, S) = Restrict(f, S)
            /\ Proved!Restrict(f, S) = Restrict(f, S)
  BY Zenon DEF TheMerger!Restrict, Restrict, Proved!Restrict

\* IsInjective is the same in all three.
LEMMA SameInjective ==
  \A f : /\ (TheMerger!IsInjective(f) <=> IsInjective(f))
         /\ (Proved!IsInjective(f) <=> IsInjective(f))
  BY Zenon DEF TheMerger!IsInjective, IsInjective, Proved!IsInjective

\* SetToSeqs is the same in all three.
LEMMA SameLists ==
  \A S : /\ TheMerger!SetToSeqs(S) = SetToSeqs(S)
         /\ Proved!SetToSeqs(S) = SetToSeqs(S)
  BY Zenon, SameCardinality, SameInjective DEF TheMerger!SetToSeqs, SetToSeqs, Proved!SetToSeqs

\* NewWindow is the same in all three.
LEMMA SameNewWindow == TheMerger!NewWindow = NewWindow /\ Proved!NewWindow = NewWindow
  BY Zenon DEF TheMerger!NewWindow, NewWindow, Proved!NewWindow

\* WindowId is the same in all three.
LEMMA SameWindowId ==
  \A s, k : TheMerger!WindowId(s, k) = WindowId(s, k) /\ Proved!WindowId(s, k) = WindowId(s, k)
  BY Zenon DEF TheMerger!WindowId, WindowId, Proved!WindowId

\* Put is the same in all three.
LEMMA SamePut ==
  \A m, k, v : /\ TheMerger!Put(m, k, v) = Put(m, k, v)
               /\ Proved!Put(m, k, v) = Put(m, k, v)
  BY Zenon DEF TheMerger!Put, Put, Proved!Put

\* Insert is the same in all three.
LEMMA SameInsert ==
  \A t, s, k : /\ TheMerger!Insert(t, s, k) = Insert(t, s, k)
               /\ Proved!Insert(t, s, k) = Insert(t, s, k)
<1> TAKE t, s, k
<1>1. TheMerger!Insert(t, s, k) = Insert(t, s, k)
  BY SamePut, SameNewWindow, SameWindowId DEF TheMerger!Insert, Insert
<1>2. Proved!Insert(t, s, k) = Insert(t, s, k)
  BY SamePut, SameNewWindow, SameWindowId DEF Proved!Insert, Insert
<1> QED  BY <1>1, <1>2

\* Completed is the same in all three.
LEMMA SameCompleted ==
  \A t, w : /\ TheMerger!Completed(t, w) = Completed(t, w)
            /\ Proved!Completed(t, w) = Completed(t, w)
  BY Zenon
     DEF TheMerger!Completed, Completed, TheMerger!IsComplete, IsComplete, Proved!Completed, Proved!IsComplete

\* Excess is the same in all three.
LEMMA SameExcess == \A t : TheMerger!Excess(t) = Excess(t) /\ Proved!Excess(t) = Excess(t)
  BY Zenon, SameCardinality DEF TheMerger!Excess, Excess, Proved!Excess

\* TimedOut is the same in all three.
LEMMA SameTimedOut == \A t : TheMerger!TimedOut(t) = TimedOut(t) /\ Proved!TimedOut(t) = TimedOut(t)
  BY Zenon DEF TheMerger!TimedOut, TimedOut, Proved!TimedOut

\* Aged is the same in all three.
LEMMA SameAged == \A t : TheMerger!Aged(t) = Aged(t) /\ Proved!Aged(t) = Aged(t)
  BY Zenon DEF TheMerger!Aged, Aged, Proved!Aged

\* Without is the same in all three.
LEMMA SameWithout ==
  \A t, W : /\ TheMerger!Without(t, W) = Without(t, W)
            /\ Proved!Without(t, W) = Without(t, W)
  BY Zenon, SameRestrict DEF TheMerger!Without, Without, Proved!Without

\* Results is the same in all three.
LEMMA SameResults ==
  \A t, ws : /\ TheMerger!Results(t, ws) = Results(t, ws)
             /\ Proved!Results(t, ws) = Results(t, ws)
  BY Zenon DEF TheMerger!Results, Results, Proved!Results

\* Ascending is the same in all three.
LEMMA SameAscending ==
  \A ws : /\ (TheMerger!Ascending(ws) <=> Ascending(ws))
          /\ (Proved!Ascending(ws) <=> Ascending(ws))
  BY Zenon DEF TheMerger!Ascending, Ascending, Proved!Ascending

\* CheckTimeoutsOutcomes is the same in all three.
LEMMA SameCheckOutcomes ==
  \A t : /\ TheMerger!CheckTimeoutsOutcomes(t) = CheckTimeoutsOutcomes(t)
         /\ Proved!CheckTimeoutsOutcomes(t) = CheckTimeoutsOutcomes(t)
  BY Zenon, SameWithout, SameTimedOut, SameResults, SameLists
     DEF TheMerger!CheckTimeoutsOutcomes, CheckTimeoutsOutcomes, Proved!CheckTimeoutsOutcomes

\* What an outcome of add_chunk is, first for TheMerger.
LEMMA OutcomeOfTheirs ==
  ASSUME NEW t, NEW s, NEW k, NEW x,
         NEW inserted, TheMerger!Insert(t, s, k) = inserted,
         NEW done, TheMerger!Completed(inserted, TheMerger!WindowId(s, k)) = done,
         NEW kept, TheMerger!Without(inserted, done) = kept,
         NEW evicted, TheMerger!Excess(kept) = evicted
  PROVE  x \in TheMerger!AddChunkOutcomes(t, s, k) <=>
           \E ds \in TheMerger!SetToSeqs(done), es \in TheMerger!SetToSeqs(evicted) :
             /\ TheMerger!Ascending(es)
             /\ x = [table   |-> TheMerger!Without(kept, evicted),
                     results |-> TheMerger!Results(inserted, ds \o es)]
  BY DEF TheMerger!AddChunkOutcomes

\* The same for Proved.
LEMMA OutcomeOfProved ==
  ASSUME NEW t, NEW s, NEW k, NEW x,
         NEW inserted, Proved!Insert(t, s, k) = inserted,
         NEW done, Proved!Completed(inserted, Proved!WindowId(s, k)) = done,
         NEW kept, Proved!Without(inserted, done) = kept,
         NEW evicted, Proved!Excess(kept) = evicted
  PROVE  x \in Proved!AddChunkOutcomes(t, s, k) <=>
           \E ds \in Proved!SetToSeqs(done), es \in Proved!SetToSeqs(evicted) :
             /\ Proved!Ascending(es)
             /\ x = [table   |-> Proved!Without(kept, evicted),
                     results |-> Proved!Results(inserted, ds \o es)]
  BY DEF Proved!AddChunkOutcomes

\* The same for the operator that Pipeline uses.
LEMMA OutcomeOfOurs ==
  ASSUME NEW t, NEW s, NEW k, NEW x,
         NEW inserted, Insert(t, s, k) = inserted,
         NEW done, Completed(inserted, WindowId(s, k)) = done,
         NEW kept, Without(inserted, done) = kept,
         NEW evicted, Excess(kept) = evicted
  PROVE  x \in AddChunkOutcomes(t, s, k) <=>
           \E ds \in SetToSeqs(done), es \in SetToSeqs(evicted) :
             /\ Ascending(es)
             /\ x = [table |-> Without(kept, evicted), results |-> Results(inserted, ds \o es)]
  BY DEF AddChunkOutcomes

\* add_chunk has the same outcomes in TheMerger.
LEMMA SameAddOutcomes ==
  ASSUME NEW t, NEW s, NEW k, NEW x
  PROVE  x \in TheMerger!AddChunkOutcomes(t, s, k) <=> x \in AddChunkOutcomes(t, s, k)
<1> DEFINE inserted == Insert(t, s, k)
           done     == Completed(inserted, WindowId(s, k))
           kept     == Without(inserted, done)
           evicted  == Excess(kept)
<1>1. /\ TheMerger!Insert(t, s, k) = inserted
      /\ TheMerger!Completed(inserted, TheMerger!WindowId(s, k)) = done
      /\ TheMerger!Without(inserted, done) = kept
      /\ TheMerger!Excess(kept) = evicted
      /\ TheMerger!Without(kept, evicted) = Without(kept, evicted)
      /\ TheMerger!SetToSeqs(done) = SetToSeqs(done)
      /\ TheMerger!SetToSeqs(evicted) = SetToSeqs(evicted)
      /\ \A w : TheMerger!Results(inserted, w) = Results(inserted, w)
      /\ \A w : TheMerger!Ascending(w) <=> Ascending(w)
  BY Zenon, SameInsert, SameCompleted, SameWindowId, SameWithout, SameExcess, SameResults, SameLists,
     SameAscending
<1>2. x \in AddChunkOutcomes(t, s, k) <=>
        \E ds \in SetToSeqs(done), es \in SetToSeqs(evicted) :
          /\ Ascending(es)
          /\ x = [table |-> Without(kept, evicted), results |-> Results(inserted, ds \o es)]
  BY OutcomeOfOurs
<1>3. x \in TheMerger!AddChunkOutcomes(t, s, k) <=>
        \E ds \in TheMerger!SetToSeqs(done), es \in TheMerger!SetToSeqs(evicted) :
          /\ TheMerger!Ascending(es)
          /\ x = [table   |-> TheMerger!Without(kept, evicted),
                  results |-> TheMerger!Results(inserted, ds \o es)]
  <2> HIDE DEF inserted, done, kept, evicted
  <2> QED  BY <1>1, OutcomeOfTheirs
<1>4. ASSUME x \in TheMerger!AddChunkOutcomes(t, s, k) PROVE x \in AddChunkOutcomes(t, s, k)
  <2> HIDE DEF inserted, done, kept, evicted
  <2>1. PICK ds \in TheMerger!SetToSeqs(done), es \in TheMerger!SetToSeqs(evicted) :
          /\ TheMerger!Ascending(es)
          /\ x = [table   |-> TheMerger!Without(kept, evicted),
                  results |-> TheMerger!Results(inserted, ds \o es)]
    BY Zenon, <1>3, <1>4
  <2>2. x = [table |-> Without(kept, evicted), results |-> Results(inserted, ds \o es)] /\ Ascending(es)
    BY Zenon, <1>1, <2>1
  <2>3. ds \in SetToSeqs(done) /\ es \in SetToSeqs(evicted)
    BY Zenon, <1>1, <2>1
  <2>4. QED BY Zenon, <1>2, <2>2, <2>3
<1>5. ASSUME x \in AddChunkOutcomes(t, s, k) PROVE x \in TheMerger!AddChunkOutcomes(t, s, k)
  <2> HIDE DEF inserted, done, kept, evicted
  <2>1. PICK ds \in SetToSeqs(done), es \in SetToSeqs(evicted) :
          /\ Ascending(es)
          /\ x = [table |-> Without(kept, evicted), results |-> Results(inserted, ds \o es)]
    BY Zenon, <1>2, <1>5
  <2>2. QED BY Zenon, <1>1, <1>3, <2>1
<1>6. QED BY <1>4, <1>5

\* And in Proved.
LEMMA ProvedAddOutcomes ==
  ASSUME NEW t, NEW s, NEW k, NEW x
  PROVE  x \in Proved!AddChunkOutcomes(t, s, k) <=> x \in AddChunkOutcomes(t, s, k)
<1> DEFINE inserted == Insert(t, s, k)
           done     == Completed(inserted, WindowId(s, k))
           kept     == Without(inserted, done)
           evicted  == Excess(kept)
<1>1. /\ Proved!Insert(t, s, k) = inserted
      /\ Proved!Completed(inserted, Proved!WindowId(s, k)) = done
      /\ Proved!Without(inserted, done) = kept
      /\ Proved!Excess(kept) = evicted
      /\ Proved!Without(kept, evicted) = Without(kept, evicted)
      /\ Proved!SetToSeqs(done) = SetToSeqs(done)
      /\ Proved!SetToSeqs(evicted) = SetToSeqs(evicted)
      /\ \A w : Proved!Results(inserted, w) = Results(inserted, w)
      /\ \A w : Proved!Ascending(w) <=> Ascending(w)
  BY Zenon, SameInsert, SameCompleted, SameWindowId, SameWithout, SameExcess, SameResults, SameLists,
     SameAscending
<1>2. x \in AddChunkOutcomes(t, s, k) <=>
        \E ds \in SetToSeqs(done), es \in SetToSeqs(evicted) :
          /\ Ascending(es)
          /\ x = [table |-> Without(kept, evicted), results |-> Results(inserted, ds \o es)]
  BY OutcomeOfOurs
<1>3. x \in Proved!AddChunkOutcomes(t, s, k) <=>
        \E ds \in Proved!SetToSeqs(done), es \in Proved!SetToSeqs(evicted) :
          /\ Proved!Ascending(es)
          /\ x = [table   |-> Proved!Without(kept, evicted),
                  results |-> Proved!Results(inserted, ds \o es)]
  <2> HIDE DEF inserted, done, kept, evicted
  <2> QED  BY <1>1, OutcomeOfProved
<1>4. ASSUME x \in Proved!AddChunkOutcomes(t, s, k) PROVE x \in AddChunkOutcomes(t, s, k)
  <2> HIDE DEF inserted, done, kept, evicted
  <2>1. PICK ds \in Proved!SetToSeqs(done), es \in Proved!SetToSeqs(evicted) :
          /\ Proved!Ascending(es)
          /\ x = [table   |-> Proved!Without(kept, evicted),
                  results |-> Proved!Results(inserted, ds \o es)]
    BY Zenon, <1>3, <1>4
  <2>2. x = [table |-> Without(kept, evicted), results |-> Results(inserted, ds \o es)] /\ Ascending(es)
    BY Zenon, <1>1, <2>1
  <2>3. ds \in SetToSeqs(done) /\ es \in SetToSeqs(evicted)
    BY Zenon, <1>1, <2>1
  <2>4. QED BY Zenon, <1>2, <2>2, <2>3
<1>5. ASSUME x \in AddChunkOutcomes(t, s, k) PROVE x \in Proved!AddChunkOutcomes(t, s, k)
  <2> HIDE DEF inserted, done, kept, evicted
  <2>1. PICK ds \in SetToSeqs(done), es \in SetToSeqs(evicted) :
          /\ Ascending(es)
          /\ x = [table |-> Without(kept, evicted), results |-> Results(inserted, ds \o es)]
    BY Zenon, <1>2, <1>5
  <2>2. QED BY Zenon, <1>1, <1>3, <2>1
<1>6. QED BY <1>4, <1>5

\* What counts as fed to the merger is a number per source.
LEMMA FedType ==
  ASSUME TypeBridge
  PROVE  /\ DOMAIN Fed = Sources
         /\ \A s \in Sources : taken[s] \in Nat
  BY SupplyBound DEF Fed, TypeBridge

\* A chunk received is not yet fed to the merger: its call is the last step left.
LEMMA ReceiveStutters ==
  ASSUME ChannelInv, RouterReceive
  PROVE  Fed' = Fed
<1> DEFINE c == Head(chan)
<1>0. TypeRouter /\ TypeBridge
  BY TypeParts DEF ChannelInv
<1>1. /\ work = <<>> /\ work' = RouteChunk(c.source, c.seq) /\ chan # <<>>
      /\ taken' = [taken EXCEPT ![c.source] = @ + 1]
  BY DEF RouterReceive
<1>2. c.source \in Sources /\ c.seq \in 0 .. MaxCaptured - 1
  <2>1. c \in ChunkItems
    BY <1>0, <1>1, HeadTail DEF TypeBridge
  <2> QED  BY <2>1 DEF ChunkItems
<1> HIDE DEF c
<1>3. \A s : ~ToFeed(s)
  BY <1>1 DEF ToFeed
<1>4. HasMergeRoutes => \A s : ToFeed(s)' <=> s = c.source
  <2>1. Feed(c.source, c.seq).op = "feed" /\ Feed(c.source, c.seq).source = c.source
    BY DEF Feed
  <2>2. /\ \A i \in DOMAIN work' : work'[i] = Feed(c.source, c.seq) \/ work'[i].op = "write"
        /\ HasMergeRoutes => \E i \in DOMAIN work' : work'[i] = Feed(c.source, c.seq)
    BY <1>1, <1>2, RouteChunkShape
  <2> QED  BY <2>1, <2>2 DEF ToFeed
<1>5. ASSUME NEW s \in Sources
      PROVE  (IF ~HasMergeRoutes THEN 0 ELSE IF ToFeed(s)' THEN taken'[s] - 1 ELSE taken'[s])
               = (IF ~HasMergeRoutes THEN 0 ELSE IF ToFeed(s) THEN taken[s] - 1 ELSE taken[s])
  <2>1. taken[s] \in Nat /\ taken \in [Sources -> 0 .. MaxCaptured]
    BY <1>0, FedType DEF TypeBridge
  <2>2. taken'[s] = IF s = c.source THEN taken[s] + 1 ELSE taken[s]
    BY <1>1, <2>1
  <2> QED  BY <1>3, <1>4, <2>1, <2>2
<1> QED  BY <1>5 DEF Fed

\* A write that ends leaves the call of the merger to come, if there is one.
LEMMA WriteStutters ==
  ASSUME NEW e, NEW d, WriteEnds(e, d)
  PROVE  Fed' = Fed
<1>1. d \in {0, 1} /\ Moved(e, d) /\ taken' = taken
  BY DEF WriteEnds
<1>2. /\ Len(work) \in Nat /\ DOMAIN work = 1 .. Len(work) /\ 1 \in DOMAIN work
      /\ DOMAIN work' = 1 .. Len(work) - d /\ work[1].op = "write"
  BY <1>1 DEF Moved
<1>3. \A i \in DOMAIN work' : IF i + d = 1 THEN work'[i].op = "write" ELSE work'[i] = work[i + d]
  BY <1>1 DEF Moved, WriteTo
<1>4. ASSUME NEW s  PROVE ToFeed(s)' <=> ToFeed(s)
  <2>1. ASSUME NEW i \in DOMAIN work', work'[i].op = "feed"
        PROVE  i + d \in DOMAIN work /\ work'[i] = work[i + d]
    BY <1>1, <1>2, <1>3, <2>1
  <2>2. ASSUME NEW i \in DOMAIN work, work[i].op = "feed"
        PROVE  i - d \in DOMAIN work' /\ work'[i - d] = work[i]
    <3>1. i # 1
      BY <1>2, <2>2
    <3>2. i - d \in DOMAIN work' /\ (i - d) + d = i
      BY <1>1, <1>2, <3>1
    <3> QED  BY <1>3, <3>1, <3>2
  <2> QED  BY <2>1, <2>2 DEF ToFeed
<1> QED  BY <1>1, <1>4 DEF Fed

\* The call of add_chunk is a step AddChunk of module Merger, for the chunk that is
\* the next one of its source there.
LEMMA FeedImplements ==
  ASSUME ChannelInv, WorkShape, RouterFeed
  PROVE  TheMerger!Next
<1> DEFINE f == Head(work)
<1>0. TypeRouter /\ TypeBridge
  BY TypeParts DEF ChannelInv
<1>t. IsTable(pending, ChunkMaps(MaxCaptured)) /\ MaxCaptured \in Nat
  BY <1>0, SupplyBound DEF TypeRouter
<1>1. work # <<>> /\ f.op = "feed" /\ taken' = taken
  BY DEF RouterFeed
<1>2. PICK o \in AddChunkOutcomes(pending, f.source, f.seq) :
        /\ pending' = o.table /\ merged' = merged \o o.results
        /\ work' = WriteResults(o.results) \o Tail(work)
  BY DEF RouterFeed
<1>3. /\ Tail(work) = <<>> /\ f \in RouterSteps /\ HasMergeRoutes
      /\ f.seq + 1 = taken[f.source] /\ \A i \in DOMAIN work : work[i] = f
  BY <1>0, <1>1, FeedIsLast
<1>4. f.source \in Sources /\ f.seq \in 0 .. MaxCaptured - 1 /\ f.seq \in Nat
  BY <1>t, <1>1, <1>3 DEF RouterSteps
<1>n. 1 \in DOMAIN work
  BY <1>0, <1>1, HeadTail DEF TypeRouter
<1> HIDE DEF f
<1>5. \A s \in Sources : ToFeed(s) <=> s = f.source
  BY <1>1, <1>3, <1>n DEF ToFeed
<1>6. \A s : ~ToFeed(s)'
  <2>1. o.results \in Seq(MergedItems)
    BY <1>t, <1>2, <1>4, AddChunkType, Zenon DEF MergedItems
  <2>2. work' = WriteResults(o.results)
    BY <1>2, <1>3, <2>1, ResultWrites, ConcatEmptySeq
  <2> QED  BY <2>1, <2>2, ResultWrites DEF ToFeed
<1>7. Fed[f.source] = f.seq
  BY <1>3, <1>4, <1>5 DEF Fed
<1>8. Fed' = [Fed EXCEPT ![f.source] = @ + 1]
  <2>1. Fed' = [s \in Sources |-> taken[s]]
    BY <1>1, <1>3, <1>6 DEF Fed
  <2>2. Fed = [s \in Sources |-> IF s = f.source THEN taken[s] - 1 ELSE taken[s]]
    BY <1>3, <1>5 DEF Fed
  <2>3. \A s \in Sources : taken[s] \in Nat
    BY <1>0, FedType
  <2> QED  BY <1>4, <2>1, <2>2, <2>3
<1>9. o \in TheMerger!AddChunkOutcomes(pending, f.source, Fed[f.source])
  BY <1>2, <1>7, SameAddOutcomes
<1>10. Fed[f.source] < MaxCaptured
  BY <1>t, <1>4, <1>7
<1> QED  BY <1>2, <1>4, <1>8, <1>9, <1>10 DEF TheMerger!Next, TheMerger!AddChunk

\* The tick of the router, and the first thing it does on a Stop, is a step
\* CheckTimeouts of module Merger.
LEMMA TimeoutImplements ==
  ASSUME ChannelInv, RouterTick \/ RouterStop
  PROVE  TheMerger!Next
<1>t. IsTable(pending, ChunkMaps(MaxCaptured)) /\ MaxCaptured \in Nat
  BY TypeParts, SupplyBound DEF ChannelInv, TypeRouter
<1>1. PICK o \in CheckTimeoutsOutcomes(pending) :
        pending' = o.table /\ merged' = merged \o o.results /\ work' = WriteResults(o.results)
  BY DEF RouterTick, RouterStop, CheckMergeTimeouts
<1>2. work = <<>> /\ taken' = taken
  BY DEF RouterTick, RouterStop
<1>3. \A s : ~ToFeed(s)
  BY <1>2 DEF ToFeed
<1>4. \A s : ~ToFeed(s)'
  <2>1. o.results \in Seq(MergedItems)
    BY <1>t, CheckTimeoutsType, Zenon DEF MergedItems
  <2> QED  BY <1>1, <2>1, ResultWrites DEF ToFeed
<1>5. Fed' = Fed
  BY <1>2, <1>3, <1>4 DEF Fed
<1>6. o \in TheMerger!CheckTimeoutsOutcomes(pending)
  BY <1>1, SameCheckOutcomes
<1> QED  BY <1>1, <1>5, <1>6 DEF TheMerger!Next, TheMerger!CheckTimeouts

\* Time passes for the merger as in module Merger.
LEMMA TickImplements ==
  ASSUME Tick
  PROVE  TheMerger!Next
<1>1. pending' = TheMerger!Aged(pending) /\ merged' = merged /\ Fed' = Fed
  BY SameAged DEF Tick, Fed, ToFeed
<1> QED  BY <1>1 DEF Tick, TheMerger!Next, TheMerger!Tick

\* The initial states are initial states of module Merger ...
LEMMA InitImplements == Init => TheMerger!Init
<1> SUFFICES ASSUME Init  PROVE TheMerger!Init
  OBVIOUS
<1>1. /\ pending = [w \in {} |-> NewWindow] /\ merged = <<>> /\ work = <<>>
      /\ taken = [s \in Sources |-> 0]
  BY DEF Init
<1>2. Fed = [s \in Sources |-> 0]
  BY <1>1 DEF Fed, ToFeed
<1>3. pending = [w \in {} |-> TheMerger!NewWindow]
  BY <1>1
<1> QED  BY <1>1, <1>2, <1>3 DEF TheMerger!Init

\* ... and every other step of the pipeline is a stutter for it.
LEMMA NextImplements == ChannelInv /\ DeliveryInv /\ [Next]_vars => [TheMerger!Next]_(TheMerger!vars)
<1> SUFFICES ASSUME ChannelInv, DeliveryInv, [Next]_vars  PROVE [TheMerger!Next]_(TheMerger!vars)
  OBVIOUS
<1>0. WorkShape /\ TypeRouter
  BY TypeParts DEF DeliveryInv, ChannelInv
<1> DEFINE Stutter == UNCHANGED <<pending, Fed, merged>>
<1>1. UNCHANGED <<deliveryVars, pending>> => Stutter
  BY DEF deliveryVars, Fed, ToFeed
<1>2. RouterReceive => Stutter
  BY ReceiveStutters DEF RouterReceive, mergerVars
<1>3. ASSUME NEW e, NEW d, WriteEnds(e, d)  PROVE Stutter
  BY <1>3, WriteStutters DEF WriteEnds
<1>4. Stutter => UNCHANGED TheMerger!vars
  BY DEF TheMerger!vars
<1>5. CASE Next
  <2> HIDE DEF Stutter
  <2> QED  BY <1>0, <1>1, <1>2, <1>3, <1>4, <1>5, DeliverySteps, FeedImplements, TimeoutImplements,
              TickImplements, WriteCases
<1>6. CASE UNCHANGED vars
  <2>1. UNCHANGED <<deliveryVars, pending>>
    BY <1>6 DEF vars, deliveryVars, routerVars, mergerVars, sinkVars
  <2> QED  BY <1>1, <1>4, <2>1
<1> QED  BY <1>5, <1>6

\* The router, with the channel before it, the writes and retries after it, the
\* interval and the stop, drives the merger as module Merger says: the chunks of a
\* source are fed to it one by one in their order, each once, and nothing else
\* touches its table.  So the safety theorems of Merger_proofs hold of the pipeline.
THEOREM DrivesTheMerger == Spec => ImplementsMerger
  BY InitImplements, NextImplements, ChannelInvariant, DeliveryInvariant, PTL DEF Spec, ImplementsMerger
-----------------------------------------------------------------------------
\* The refinement carries over what Merger_proofs shows: TheMerger and Proved are
\* the same state machine ...
LEMMA SameMachine ==
  /\ TheMerger!Init => Proved!Init
  /\ [TheMerger!Next]_(TheMerger!vars) => [Proved!Next]_(Proved!vars)
<1>1. TheMerger!Init => Proved!Init
  BY SameNewWindow DEF TheMerger!Init, Proved!Init
<1>2. \A s : TheMerger!AddChunk(s) => Proved!AddChunk(s)
  BY SameAddOutcomes, ProvedAddOutcomes DEF TheMerger!AddChunk, Proved!AddChunk
<1>3. TheMerger!CheckTimeouts => Proved!CheckTimeouts
  BY SameCheckOutcomes DEF TheMerger!CheckTimeouts, Proved!CheckTimeouts
<1>4. TheMerger!Tick => Proved!Tick
  BY SameAged DEF TheMerger!Tick, Proved!Tick
<1>5. TheMerger!Next => Proved!Next
  BY <1>2, <1>3, <1>4 DEF TheMerger!Next, Proved!Next
<1> QED  BY <1>1, <1>5 DEF TheMerger!vars, Proved!vars

\* ... whose assumptions are met, so that its invariant is one of the pipeline.
LEMMA MergerAssumptions == Proved!MergeAssumption /\ Proved!BoundAssumption
<1>1. Proved!MergeAssumption
  BY MergeAssumption DEF Proved!MergeAssumption, Proved!IsFiniteSet, IsFiniteSet
<1>2. Proved!BoundAssumption
  BY SupplyBound DEF Proved!BoundAssumption
<1> QED  BY <1>1, <1>2

\* The inductive invariant of the merger holds at each step of the pipeline.
LEMMA MergerInvariant == Spec => []Proved!IInv
<1>1. Proved!Init => Proved!IInv
  BY MergerAssumptions, Proved!InitInv
<1>2. Proved!IInv /\ [Proved!Next]_(Proved!vars) => Proved!IInv'
  BY MergerAssumptions, Proved!NextInv
<1> QED  BY <1>1, <1>2, SameMachine, DrivesTheMerger, PTL DEF ImplementsMerger

\* What it says of the chunks, in the words of Pipeline.
LEMMA MergerSays ==
  ASSUME TypeOK, Proved!IInv
  PROVE  /\ \A i, j \in DOMAIN merged : i < j =>
              /\ \A s \in DOMAIN merged[i].chunks : ~Carries(merged[j], s, merged[i].chunks[s])
              /\ Missing(merged[i]) = {} /\ Missing(merged[j]) = {}
                   => merged[i].window <= merged[j].window
         /\ \A s \in Sources : \A n \in 0 .. Fed[s] - 1 :
              \/ \E i \in DOMAIN merged : Carries(merged[i], s, n)
              \/ \E w \in DOMAIN pending : Carries(pending[w], s, n)
              \/ n + 1 < Fed[s] /\ WindowId(s, n + 1) = WindowId(s, n)
<1>t. DOMAIN merged = 1 .. Len(merged) /\ Len(merged) \in Nat
  BY LenProperties DEF TypeOK
<1>1. Proved!CompleteInOrder /\ Proved!LostOnlyIfSuperseded /\ Proved!Sound(pending, merged, Fed)
  BY MergerAssumptions, Proved!Consequences DEF Proved!IInv
<1>2. Proved!Once(pending, merged)
  BY <1>1 DEF Proved!Sound
<1>3. \A i, j \in DOMAIN merged : i < j =>
        \A s \in DOMAIN merged[i].chunks : ~Carries(merged[j], s, merged[i].chunks[s])
  <2>1. \A i \in DOMAIN merged : DOMAIN merged[i].chunks \subseteq Sources
    <3>1. \A i \in DOMAIN merged : merged[i] \in MergedItems
      BY DEF TypeOK
    <3>2. \A m \in MergedItems : DOMAIN m.chunks \subseteq Sources
      BY DEF MergedItems, ChunkMaps
    <3> QED  BY <3>1, <3>2
  <2>2. ASSUME NEW i \in DOMAIN merged, NEW j \in DOMAIN merged, i < j,
               NEW s \in DOMAIN merged[i].chunks, Carries(merged[j], s, merged[i].chunks[s])
        PROVE  FALSE
    <3>1. s \in Sources /\ i # j
      BY <2>1, <2>2, <1>t
    <3>2. s \in DOMAIN merged[j].chunks /\ merged[i].chunks[s] = merged[j].chunks[s]
      BY <2>2 DEF Carries
    <3> QED  BY <1>2, <3>1, <3>2, Zenon DEF Proved!Once
  <2> QED  BY <2>2
<1>4. \A i, j \in DOMAIN merged :
        i < j /\ Missing(merged[i]) = {} /\ Missing(merged[j]) = {} => merged[i].window <= merged[j].window
  BY <1>1 DEF Proved!CompleteInOrder, Proved!Missing, Missing
<1>5. \A s \in Sources : \A n \in 0 .. Fed[s] - 1 :
        \/ \E i \in DOMAIN merged : Carries(merged[i], s, n)
        \/ \E w \in DOMAIN pending : Carries(pending[w], s, n)
        \/ n + 1 < Fed[s] /\ WindowId(s, n + 1) = WindowId(s, n)
  BY <1>1, SameWindowId DEF Proved!LostOnlyIfSuperseded, Proved!Located, Proved!Holds, Carries
<1> QED  BY <1>3, <1>4, <1>5

\* A merged sink that has nothing left to get has got all of the results.
LEMMA AllGot ==
  ASSUME TypeOK, MergedInOrder, work = <<>>, NEW k \in SureMerged
  PROVE  DOMAIN merged \subseteq DOMAIN written[k]
<1>1. /\ merged \in Seq(MergedItems) /\ written[k] \in Seq(Items)
  BY DEF TypeOK, SureMerged, MergedSinks, OfKind
<1>2. LeftFor(k) = {}
  BY DEF LeftFor
<1>3. Len(written[k]) + 1 .. Len(merged) = {}
  BY <1>2 DEF MergedInOrder
<1>4. ASSUME NEW m \in Nat, NEW w \in Nat, w + 1 .. m = {}  PROVE m <= w
  BY <1>4
<1>5. /\ Len(merged) \in Nat /\ DOMAIN merged = 1 .. Len(merged)
      /\ Len(written[k]) \in Nat /\ DOMAIN written[k] = 1 .. Len(written[k])
  BY <1>1, LenProperties
<1> QED  BY <1>3, <1>4, <1>5

\* The end-to-end promise of the merge path: what a merged sink that never fails and
\* never waits is given mixes no chunk in twice, has complete results in the order of
\* their windows, and misses only what is pending or was replaced by its successor.
THEOREM MergedAudio == Spec => []MergedAudioSound
<1>1. TypeOK /\ MergedInOrder /\ Proved!IInv => MergedAudioSound
  <2> SUFFICES ASSUME TypeOK, MergedInOrder, Proved!IInv, NEW k \in SureMerged
               PROVE  MergedAudioSound!(k)
    BY DEF MergedAudioSound
  <2>1. \A j \in DOMAIN written[k] : j \in DOMAIN merged /\ written[k][j] = merged[j]
    <3>1. merged \in Seq(MergedItems) /\ written[k] \in Seq(Items)
      BY DEF TypeOK, SureMerged, MergedSinks, OfKind
    <3> QED  BY <3>1 DEF MergedInOrder
  <2>2. ASSUME work = <<>>, NEW s \in Sources, NEW n \in 0 .. taken[s] - 1
        PROVE  \/ \E i \in DOMAIN written[k] : Carries(written[k][i], s, n)
               \/ \E w \in DOMAIN pending : Carries(pending[w], s, n)
               \/ n + 1 < taken[s] /\ WindowId(s, n + 1) = WindowId(s, n)
    <3>1. HasMergeRoutes
      <4>1. k \in MergedSinks
        BY DEF SureMerged
      <4>2. {m \in MergedSinks : Route[m].sources = Route[k].sources} \in MergeGroups
        BY <4>1 DEF MergeGroups
      <4> QED  BY <4>2 DEF HasMergeRoutes
    <3>2. Fed[s] = taken[s]
      BY <2>2, <3>1 DEF Fed, ToFeed
    <3> QED  BY <2>1, <2>2, <3>2, AllGot, MergerSays
  <2> QED  BY <2>1, <2>2, MergerSays
<1> QED  BY <1>1, TypeCorrect, ResultsInOrder, MergerInvariant, PTL
=============================================================================
