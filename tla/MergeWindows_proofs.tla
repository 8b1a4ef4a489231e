-------------------------- MODULE MergeWindows_proofs --------------------------
(***************************************************************************)
(* Lemmas about the operators of MergeWindows, for every table whose       *)
(* chunks have indices below some n: the proofs about the merger           *)
(* (Merger_proofs) and about the pipeline (Pipeline_proofs) both rest on   *)
(* them.                                                                   *)
(***************************************************************************)
EXTENDS MergeWindows, TLAPS, FiniteSetTheorems, WellFoundedInduction

\* A non-empty set of naturals has a least element.
LEMMA Least ==
  ASSUME NEW S \in SUBSET Nat, S # {}
  PROVE  \E m \in S : \A v \in S : m <= v
<1>1. PICK m \in S : \A v \in S : ~ (<<v, m>> \in OpToRel(<, Nat))
  BY NatLessThanWellFounded, WFMin
<1>2. \A v \in S : ~ (v < m)
  BY <1>1 DEF OpToRel
<1> QED  BY <1>2

\* What eviction leaves never exceeds the limit.
LEMMA KeptBounded ==
  ASSUME NEW D \in SUBSET Nat, IsFiniteSet(D), NEW M \in Nat,
         NEW K, K = {w \in D : ~(Cardinality({v \in D : w < v}) >= M)}
  PROVE  IsFiniteSet(K) /\ Cardinality(K) <= M
<1>0. K \in SUBSET D
  OBVIOUS
<1>1. IsFiniteSet(K) /\ Cardinality(K) \in Nat
  BY <1>0, FS_Subset, FS_CardinalityType
<1>2. CASE K = {}
  <2>1. Cardinality(K) = 0
    BY <1>2, FS_EmptySet, Zenon
  <2> QED  BY <1>1, <2>1
<1>3. CASE K # {}
  <2>1. PICK m \in K : \A v \in K : m <= v
    BY <1>0, <1>3, Least
  <2> DEFINE Above == {v \in D : m < v}
  <2>2. IsFiniteSet(Above) /\ Cardinality(Above) \in Nat
    BY FS_Subset, FS_CardinalityType
  <2>3. Cardinality(Above) < M
    BY <2>1, <2>2
  <2>4. K \subseteq Above \cup {m}
    <3>1. \A v \in K : v \in D /\ (v = m \/ m < v)
      BY <1>0, <2>1
    <3> QED  BY <3>1
  <2>5. m \notin Above
    BY <1>0, <2>1
  <2> HIDE DEF Above
  <2>6. /\ IsFiniteSet(Above \cup {m})
        /\ Cardinality(Above \cup {m}) = Cardinality(Above) + 1
    BY <2>2, <2>5, FS_AddElement
  <2>7. Cardinality(K) <= Cardinality(Above \cup {m})
    BY <2>4, <2>6, FS_Subset
  <2> QED  BY <1>1, <2>2, <2>3, <2>6, <2>7
<1> QED  BY <1>2, <1>3

-----------------------------------------------------------------------------
\* A window of the table, with chunks from C.
WindowOf(C) == [chunks : C, age : 0 .. Timeout]

\* The id of a window is a natural number (window_id_for_timestamp).
LEMMA WindowIdType == \A s \in Sources, k \in Nat : WindowId(s, k) \in Nat
  BY MergeAssumption DEF WindowId

\* Adding one chunk to the chunks of a window.
LEMMA AddToChunks ==
  ASSUME NEW n \in Nat, NEW c \in ChunkMaps(n), NEW s \in Sources, NEW k \in 0 .. n - 1
  PROVE  /\ Put(c, s, k) \in ChunkMaps(n)
         /\ DOMAIN Put(c, s, k) = DOMAIN c \cup {s}
         /\ Put(c, s, k)[s] = k
         /\ \A r \in DOMAIN c \ {s} : Put(c, s, k)[r] = c[r]
<1> DEFINE d == Put(c, s, k)
<1>1. PICK S \in SUBSET Sources : c \in [S -> 0 .. n - 1]
  BY DEF ChunkMaps
<1>2. d = [r \in {s} \cup S |-> IF r = s THEN k ELSE c[r]]
  BY <1>1 DEF Put
<1>3. d \in [{s} \cup S -> 0 .. n - 1]
  BY <1>1, <1>2
<1>4. {s} \cup S \in SUBSET Sources
  OBVIOUS
<1> QED  BY <1>1, <1>2, <1>3, <1>4 DEF ChunkMaps

\* The window that receives the chunk k, before it does.
Receiver(t, s, k) == IF WindowId(s, k) \in DOMAIN t THEN t[WindowId(s, k)] ELSE NewWindow

\* What Insert does to a table.
Inserted(t, s, k, C) ==
  /\ IsTable(Insert(t, s, k), C)
  /\ DOMAIN Insert(t, s, k) = DOMAIN t \cup {WindowId(s, k)}
  /\ \A v \in DOMAIN t \ {WindowId(s, k)} : Insert(t, s, k)[v] = t[v]
  /\ Receiver(t, s, k) \in WindowOf(C)
  /\ Insert(t, s, k)[WindowId(s, k)].age = Receiver(t, s, k).age
  /\ Insert(t, s, k)[WindowId(s, k)].chunks = Put(Receiver(t, s, k).chunks, s, k)

\* add_chunk's insertion makes a table with the chunk in its window.
LEMMA InsertTable ==
  ASSUME NEW n \in Nat, NEW t, IsTable(t, ChunkMaps(n)),
         NEW s \in Sources, NEW k \in 0 .. n - 1
  PROVE  Inserted(t, s, k, ChunkMaps(n))
<1> DEFINE u == Insert(t, s, k)
           W == WindowId(s, k)
           old == Receiver(t, s, k)
<1>1. W \in Nat
  BY WindowIdType
<1>2. NewWindow \in WindowOf(ChunkMaps(n))
  <2>1. [r \in {} |-> 0] \in [{} -> 0 .. n - 1] /\ {} \in SUBSET Sources
    OBVIOUS
  <2>2. [r \in {} |-> 0] \in ChunkMaps(n)
    BY <2>1 DEF ChunkMaps
  <2> QED  BY <2>2, MergeAssumption DEF NewWindow, WindowOf
<1>3. old \in WindowOf(ChunkMaps(n))
  BY <1>2 DEF IsTable, WindowOf, Receiver
<1> DEFINE new == [old EXCEPT !.chunks = Put(@, s, k)]
<1>4. /\ new \in WindowOf(ChunkMaps(n)) /\ new.age = old.age
      /\ new.chunks = Put(old.chunks, s, k)
  BY <1>3, AddToChunks DEF WindowOf
<1>5. u = Put(t, W, new)
  BY DEF Insert, Receiver
<1> HIDE DEF new, old
<1>6. u = [v \in DOMAIN t \cup {W} |-> IF v = W THEN new ELSE t[v]]
  BY <1>5 DEF Put
<1>7. IsFiniteSet(DOMAIN t \cup {W})
  BY FS_AddElement DEF IsTable
<1>8. IsTable(u, ChunkMaps(n))
  BY <1>1, <1>4, <1>6, <1>7 DEF IsTable, WindowOf
<1> HIDE DEF u, W
<1>9. /\ DOMAIN u = DOMAIN t \cup {W}
      /\ \A v \in DOMAIN t \ {W} : u[v] = t[v]
      /\ u[W] = new
  BY <1>6
<1> QED  BY <1>1, <1>3, <1>4, <1>8, <1>9 DEF u, W, old, Inserted

\* What Without does to a table.
LEMMA WithoutTable ==
  ASSUME NEW C, NEW t, IsTable(t, C), NEW W
  PROVE  /\ IsTable(Without(t, W), C)
         /\ DOMAIN Without(t, W) = DOMAIN t \ W
         /\ \A v \in DOMAIN t \ W : Without(t, W)[v] = t[v]
<1>1. Without(t, W) = [v \in DOMAIN t \ W |-> t[v]]
  BY DEF Without, Restrict
<1>2. IsFiniteSet(DOMAIN t \ W)
  BY FS_Subset DEF IsTable
<1> QED  BY <1>1, <1>2 DEF IsTable

\* The sequences that visit each element of a finite set once.
LEMMA OrderOf ==
  ASSUME NEW S, IsFiniteSet(S), NEW ws \in SetToSeqs(S)
  PROVE  /\ ws \in Seq(S)
         /\ \A i, j \in DOMAIN ws : ws[i] = ws[j] => i = j
         /\ \A x \in S : \E i \in DOMAIN ws : ws[i] = x
<1> DEFINE n == Cardinality(S)
<1>1. n \in Nat
  BY FS_CardinalityType
<1>2. ws \in [1 .. n -> S] /\ \A i, j \in 1 .. n : i # j => ws[i] # ws[j]
  BY DEF SetToSeqs
<1>3. ws \in Injection(1 .. n, S)
  BY <1>2 DEF Injection, IsInjective
<1>4. Cardinality(1 .. n) = n
  BY <1>1, FS_Interval
<1>5. ws \in Surjection(1 .. n, S)
  BY <1>3, <1>4, FS_Injection
<1>6. ws \in Seq(S)
  BY <1>1, <1>2
<1> QED  BY <1>2, <1>5, <1>6 DEF Surjection

\* emit_window along a sequence of pending windows.
ResultsFor(ws, t, C) ==
  /\ Results(t, ws) \in Seq([window : Nat, chunks : C]) /\ DOMAIN Results(t, ws) = DOMAIN ws
  /\ \A i \in DOMAIN ws :
       Results(t, ws)[i].window = ws[i] /\ Results(t, ws)[i].chunks = t[ws[i]].chunks

\* The results of a list of windows, one for each, in its order.
LEMMA ResultsShape ==
  ASSUME NEW C, NEW t, IsTable(t, C), NEW ws \in Seq(DOMAIN t)
  PROVE  ResultsFor(ws, t, C)
<1> DEFINE rs == Results(t, ws)
<1>1. DOMAIN ws = 1 .. Len(ws) /\ Len(ws) \in Nat
  OBVIOUS
<1>2. \A i \in 1 .. Len(ws) : ws[i] \in DOMAIN t
  OBVIOUS
<1>3. \A i \in 1 .. Len(ws) :
        [window |-> ws[i], chunks |-> t[ws[i]].chunks] \in [window : Nat, chunks : C]
  BY <1>2 DEF IsTable
<1>4. rs = [i \in 1 .. Len(ws) |-> [window |-> ws[i], chunks |-> t[ws[i]].chunks]]
  BY <1>1 DEF Results
<1>5. rs \in Seq([window : Nat, chunks : C])
  BY <1>1, <1>3, <1>4
<1> QED  BY <1>1, <1>4, <1>5 DEF ResultsFor

-----------------------------------------------------------------------------
\* Every step emits an exact set of windows of a table, each once: of the table
\* with the new chunk inserted, or of the pending one.

\* add_chunk, taken apart: what the insertion completes, what that leaves, and
\* all windows emitted.
DoneBy(t, s, k) == Completed(Insert(t, s, k), WindowId(s, k))
KeptBy(t, s, k) == Without(Insert(t, s, k), DoneBy(t, s, k))
EmittedBy(t, s, k) == DoneBy(t, s, k) \cup Excess(KeptBy(t, s, k))

\* ws visits each element of W once.
Visits(ws, W) ==
  /\ ws \in Seq(W)
  /\ \A i, j \in DOMAIN ws : ws[i] = ws[j] => i = j
  /\ \A w \in W : \E i \in DOMAIN ws : ws[i] = w

\* The outcomes of add_chunk emit the completed and the evicted windows, each once.
LEMMA AddChunkParts ==
  ASSUME NEW n \in Nat, NEW t, IsTable(t, ChunkMaps(n)),
         NEW s \in Sources, NEW k \in 0 .. n - 1,
         NEW o \in AddChunkOutcomes(t, s, k)
  PROVE  \E ws : /\ Visits(ws, EmittedBy(t, s, k))
                 /\ o.results = Results(Insert(t, s, k), ws)
                 /\ o.table = Without(Insert(t, s, k), EmittedBy(t, s, k))
<1> DEFINE u == Insert(t, s, k)
           done == DoneBy(t, s, k)
           kept == KeptBy(t, s, k)
           evicted == Excess(kept)
<1>1. IsTable(u, ChunkMaps(n)) /\ WindowId(s, k) \in DOMAIN u
  <2>1. Inserted(t, s, k, ChunkMaps(n))
    BY InsertTable, Zenon
  <2> QED  BY <2>1 DEF Inserted
<1>2. /\ IsTable(kept, ChunkMaps(n)) /\ DOMAIN kept = DOMAIN u \ done
      /\ \A v \in DOMAIN kept : kept[v] = u[v]
  <2>1. /\ IsTable(Without(u, done), ChunkMaps(n))
        /\ DOMAIN Without(u, done) = DOMAIN u \ done
        /\ \A v \in DOMAIN u \ done : Without(u, done)[v] = u[v]
    BY <1>1, WithoutTable, Zenon
  <2> QED  BY <2>1 DEF KeptBy
<1>3. IsFiniteSet(done) /\ IsFiniteSet(evicted) /\ done \cap evicted = {}
  <2>1. IsFiniteSet(done)
    BY FS_EmptySet, FS_Singleton DEF Completed, DoneBy
  <2>2. evicted \in SUBSET DOMAIN kept
    BY DEF Excess
  <2> QED  BY <1>2, <2>1, <2>2, FS_Subset DEF IsTable
<1>4. PICK ds \in SetToSeqs(done), es \in SetToSeqs(evicted) :
        /\ o.results = Results(u, ds \o es)
        /\ o.table = Without(kept, evicted)
  BY DEF AddChunkOutcomes, DoneBy, KeptBy
<1>5. /\ ds \in Seq(done)
      /\ \A i, j \in DOMAIN ds : ds[i] = ds[j] => i = j
      /\ \A w \in done : \E i \in DOMAIN ds : ds[i] = w
  BY <1>3, OrderOf
<1>6. /\ es \in Seq(evicted)
      /\ \A i, j \in DOMAIN es : es[i] = es[j] => i = j
      /\ \A w \in evicted : \E i \in DOMAIN es : es[i] = w
  BY <1>3, OrderOf
<1> DEFINE ws == ds \o es
<1> HIDE DEF u, done, kept, evicted
<1>11. Without(kept, evicted) = Without(u, done \cup evicted)
  <2>1. DOMAIN kept \ evicted = DOMAIN u \ (done \cup evicted)
    BY <1>2
  <2>2. \A v \in DOMAIN kept \ evicted : kept[v] = u[v]
    BY <1>2
  <2> QED  BY <2>1, <2>2 DEF Without, Restrict
<1>7. ws \in Seq(done \cup evicted)
  BY <1>5, <1>6
<1>8. /\ DOMAIN ds = 1 .. Len(ds) /\ Len(ds) \in Nat
      /\ DOMAIN es = 1 .. Len(es) /\ Len(es) \in Nat
      /\ DOMAIN ws = 1 .. Len(ds) + Len(es)
      /\ \A i \in 1 .. Len(ds) : ws[i] = ds[i] /\ ds[i] \in done
      /\ \A i \in Len(ds) + 1 .. Len(ds) + Len(es) :
           /\ ws[i] = es[i - Len(ds)] /\ i - Len(ds) \in DOMAIN es
           /\ es[i - Len(ds)] \in evicted
      /\ \A i \in 1 .. Len(es) : ws[i + Len(ds)] = es[i] /\ i + Len(ds) \in DOMAIN ws
  BY <1>5, <1>6
<1>9. \A i, j \in DOMAIN ws : ws[i] = ws[j] => i = j
  <2> SUFFICES ASSUME NEW i \in DOMAIN ws, NEW j \in DOMAIN ws, ws[i] = ws[j]
               PROVE  i = j
    OBVIOUS
  <2>1. CASE i <= Len(ds) /\ j <= Len(ds)
    BY <1>5, <1>8, <2>1
  <2>2. CASE i > Len(ds) /\ j > Len(ds)
    <3>1. i - Len(ds) = j - Len(ds)
      BY <1>6, <1>8, <2>2
    <3> QED  BY <1>8, <3>1
  <2>3. CASE (i <= Len(ds)) # (j <= Len(ds))
    BY <1>3, <1>8, <2>3
  <2> QED  BY <1>8, <2>1, <2>2, <2>3
<1>10. \A w \in done \cup evicted : \E i \in DOMAIN ws : ws[i] = w
  <2> TAKE w \in done \cup evicted
  <2>1. CASE w \in done
    BY <1>5, <1>8, <2>1
  <2>2. CASE w \in evicted
    <3>1. PICK i \in 1 .. Len(es) : es[i] = w
      BY <1>6, <1>8, <2>2
    <3> QED  BY <1>8, <3>1
  <2> QED  BY <2>1, <2>2
<1>12. Visits(ws, done \cup evicted)
  BY <1>7, <1>9, <1>10 DEF Visits
<1> QED  BY <1>4, <1>11, <1>12 DEF u, done, kept, evicted, EmittedBy

\* The parts of check_timeouts.
LEMMA CheckTimeoutsParts ==
  ASSUME NEW C, NEW t, IsTable(t, C), NEW o \in CheckTimeoutsOutcomes(t)
  PROVE  \E ws : /\ Visits(ws, TimedOut(t))
                 /\ o.results = Results(t, ws)
                 /\ o.table = Without(t, TimedOut(t))
<1>1. IsFiniteSet(TimedOut(t))
  BY FS_Subset DEF TimedOut, IsTable
<1> QED  BY <1>1, OrderOf DEF CheckTimeoutsOutcomes, Visits

-----------------------------------------------------------------------------
\* The outcomes have the shape of the code's data: the table stays a table, and
\* the results are results.
LEMMA EmissionType ==
  ASSUME NEW C, NEW t, IsTable(t, C), NEW W \in SUBSET DOMAIN t, NEW ws, Visits(ws, W)
  PROVE  /\ IsTable(Without(t, W), C)
         /\ Results(t, ws) \in Seq([window : Nat, chunks : C])
<1>1. ws \in Seq(DOMAIN t)
  BY DEF Visits
<1>2. ResultsFor(ws, t, C)
  BY <1>1, ResultsShape, Zenon
<1> QED  BY <1>2, WithoutTable DEF ResultsFor

\* What add_chunk returns has the types of a table and of results.
LEMMA AddChunkType ==
  ASSUME NEW n \in Nat, NEW t, IsTable(t, ChunkMaps(n)), NEW s \in Sources, NEW k \in 0 .. n - 1,
         NEW o \in AddChunkOutcomes(t, s, k)
  PROVE  /\ IsTable(o.table, ChunkMaps(n))
         /\ o.results \in Seq([window : Nat, chunks : ChunkMaps(n)])
<1> DEFINE u == Insert(t, s, k)
           W == EmittedBy(t, s, k)
<1>1. PICK ws : Visits(ws, W) /\ o.results = Results(u, ws) /\ o.table = Without(u, W)
  BY AddChunkParts
<1>2. IsTable(u, ChunkMaps(n)) /\ WindowId(s, k) \in DOMAIN u
  <2>1. Inserted(t, s, k, ChunkMaps(n))
    BY InsertTable, Zenon
  <2> QED  BY <2>1 DEF Inserted
<1>3. W \in SUBSET DOMAIN u
  <2>1. DOMAIN KeptBy(t, s, k) = DOMAIN u \ DoneBy(t, s, k)
    BY <1>2, WithoutTable DEF KeptBy
  <2>2. DoneBy(t, s, k) \in SUBSET DOMAIN u
    BY <1>2 DEF DoneBy, Completed
  <2>3. Excess(KeptBy(t, s, k)) \in SUBSET DOMAIN KeptBy(t, s, k)
    BY DEF Excess
  <2> QED  BY <2>1, <2>2, <2>3 DEF EmittedBy
<1> HIDE DEF u, W
<1> QED  BY <1>1, <1>2, <1>3, EmissionType

\* What check_timeouts returns has the types of a table and of results.
LEMMA CheckTimeoutsType ==
  ASSUME NEW C, NEW t, IsTable(t, C), NEW o \in CheckTimeoutsOutcomes(t)
  PROVE  IsTable(o.table, C) /\ o.results \in Seq([window : Nat, chunks : C])
<1>1. PICK ws : /\ Visits(ws, TimedOut(t))
                /\ o.results = Results(t, ws)
                /\ o.table = Without(t, TimedOut(t))
  BY CheckTimeoutsParts
<1>2. TimedOut(t) \in SUBSET DOMAIN t
  BY DEF TimedOut
<1> QED  BY <1>1, <1>2, EmissionType

\* Ageing keeps a table a table.
LEMMA AgedTable ==
  ASSUME NEW C, NEW t, IsTable(t, C)
  PROVE  IsTable(Aged(t), C)
<1>1. t \in [DOMAIN t -> WindowOf(C)]
  BY DEF IsTable, WindowOf
<1>2. \A w \in DOMAIN t : [t[w] EXCEPT !.age = IF @ < Timeout THEN @ + 1 ELSE @] \in WindowOf(C)
  BY <1>1, MergeAssumption DEF WindowOf
<1> QED  BY <1>1, <1>2 DEF Aged, IsTable, WindowOf
=============================================================================
