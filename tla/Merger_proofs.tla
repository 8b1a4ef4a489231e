---------------------------- MODULE Merger_proofs ----------------------------
(***************************************************************************)
(* Proofs about Merger, for every set of sources, all durations, limits    *)
(* and timeouts.  The inductive invariant IInv is TypeOK and the           *)
(* invariants about the table and the order of results, with Sound: every  *)
(* chunk delivered is in one place only, the window of its timestamp, and  *)
(* is lost only to the next one of its source.  With the lemmas about the  *)
(* operators of MergeWindows (MergeWindows_proofs), add_chunk is an        *)
(* insertion followed by the emission of a set of windows, check_timeouts  *)
(* such an emission.                                                       *)
(***************************************************************************)
EXTENDS Merger, MergeWindows_proofs

\* A window of the table, and a merge result.
Record == WindowOf(Chunks)
Result == [window : Nat, chunks : Chunks]

\* Window ids grow with the index of the chunk.
LEMMA WindowMonotone ==
  ASSUME NEW s \in Sources, NEW a \in Nat, NEW b \in Nat, a <= b
  PROVE  WindowId(s, a) <= WindowId(s, b)
<1> DEFINE x == a * ChunkTime[s]
           y == b * ChunkTime[s]
<1>1. x \in Nat /\ y \in Nat /\ x <= y
  <2>1. ChunkTime[s] \in Nat
    BY MergeAssumption
  <2> QED  BY <2>1
<1> HIDE DEF x, y
<1> DEFINE p == x \div WindowTime
           q == y \div WindowTime
<1>2. WindowTime \in Nat /\ WindowTime > 0
  BY MergeAssumption
<1>3. /\ p \in Nat /\ p * WindowTime <= x /\ x < (p + 1) * WindowTime
      /\ q \in Nat /\ q * WindowTime <= y /\ y < (q + 1) * WindowTime
  BY <1>1, <1>2
<1> HIDE DEF p, q
<1>4. ~(q < p)
  <2> SUFFICES ASSUME q < p PROVE FALSE
    OBVIOUS
  <2>1. q + 1 <= p
    BY <1>3
  <2>2. (q + 1) * WindowTime <= p * WindowTime
    BY <1>2, <1>3, <2>1
  <2> QED  BY <1>1, <1>2, <1>3, <2>2
<1> QED  BY <1>3, <1>4 DEF WindowId, p, q, x, y

\* The invariant, over a table p, the results e and the counts n: a chunk below
\* its source's count, in the window of its timestamp ...
Home(c, w, n) == \A s \in DOMAIN c : c[s] < n[s] /\ WindowId(s, c[s]) = w
Housed(p, e, n) ==
  /\ \A w \in DOMAIN p : Home(p[w].chunks, w, n)
  /\ \A i \in DOMAIN e : Home(e[i].chunks, e[i].window, n)

\* ... in one place only ...
Once(p, e) ==
  /\ \A i, j \in DOMAIN e : \A s \in Sources :
       /\ s \in DOMAIN e[i].chunks /\ s \in DOMAIN e[j].chunks
       /\ e[i].chunks[s] = e[j].chunks[s]
       => i = j
  /\ \A w \in DOMAIN p : \A i \in DOMAIN e : \A s \in Sources :
       s \in DOMAIN p[w].chunks /\ s \in DOMAIN e[i].chunks
         => p[w].chunks[s] # e[i].chunks[s]

\* ... and lost only to the next one of its source.
Found(p, e, s, k) ==
  \/ \E i \in DOMAIN e : s \in DOMAIN e[i].chunks /\ e[i].chunks[s] = k
  \/ \E w \in DOMAIN p : s \in DOMAIN p[w].chunks /\ p[w].chunks[s] = k
Kept(p, e, n) ==
  \A s \in Sources : \A k \in 0 .. n[s] - 1 :
    Found(p, e, s, k) \/ (k + 1 < n[s] /\ WindowId(s, k + 1) = WindowId(s, k))

Sound(p, e, n) == Housed(p, e, n) /\ Once(p, e) /\ Kept(p, e, n)

\* Inserting the next chunk of a source keeps the invariant.
LEMMA InsertSound ==
  ASSUME NEW t, IsTable(t, Chunks), NEW e \in Seq(Result),
         NEW n \in [Sources -> 0 .. MaxChunks], NEW s \in Sources, n[s] < MaxChunks,
         Sound(t, e, n)
  PROVE  Sound(Insert(t, s, n[s]), e, [n EXCEPT ![s] = @ + 1])
<1> DEFINE k == n[s]
           m == [n EXCEPT ![s] = @ + 1]
           u == Insert(t, s, k)
           W == WindowId(s, k)
           old == Receiver(t, s, k)
<1>1. /\ k \in 0 .. MaxChunks - 1 /\ k \in Nat
      /\ \A r \in Sources : n[r] \in Nat /\ m[r] \in Nat /\ n[r] <= m[r]
      /\ m[s] = k + 1 /\ \A r \in Sources \ {s} : m[r] = n[r]
  BY BoundAssumption
<1>2. /\ DOMAIN u = DOMAIN t \cup {W}
      /\ \A v \in DOMAIN t \ {W} : u[v] = t[v]
      /\ old \in Record
      /\ u[W].chunks = Put(old.chunks, s, k)
  <2> HIDE DEF k, m
  <2>1. MaxChunks \in Nat /\ IsTable(t, ChunkMaps(MaxChunks)) /\ k \in 0 .. MaxChunks - 1
    BY <1>1, BoundAssumption DEF Chunks
  <2>2. Inserted(t, s, k, Chunks)
    BY <2>1, InsertTable, Zenon DEF Chunks
  <2> QED  BY <2>2 DEF Inserted, Record
<1>3. /\ DOMAIN u[W].chunks = DOMAIN old.chunks \cup {s}
      /\ u[W].chunks[s] = k
      /\ \A r \in DOMAIN old.chunks \ {s} : u[W].chunks[r] = old.chunks[r]
  BY <1>2 DEF Put
<1>4. \A v \in DOMAIN t : DOMAIN t[v].chunks \subseteq Sources
                          /\ \A r \in DOMAIN t[v].chunks : t[v].chunks[r] \in Nat
  BY DEF IsTable, Chunks, ChunkMaps
<1>5. \/ W \in DOMAIN t /\ old = t[W]
      \/ W \notin DOMAIN t /\ DOMAIN old.chunks = {}
  BY DEF Receiver, NewWindow
<1> HIDE DEF u, W, old, m
<1>6. Housed(t, e, n) /\ Once(t, e) /\ Kept(t, e, n)
  BY DEF Sound
<1>7. \A i \in DOMAIN e : /\ DOMAIN e[i].chunks \subseteq Sources
                          /\ \A r \in DOMAIN e[i].chunks : e[i].chunks[r] \in Nat
  <2>1. \A i \in DOMAIN e : e[i] \in Result
    OBVIOUS
  <2>2. \A i \in DOMAIN e : e[i].chunks \in Chunks
    BY <2>1 DEF Result
  <2> QED  BY <2>2 DEF Chunks, ChunkMaps
<1>8. Housed(u, e, m)
  <2>1. ASSUME NEW w \in DOMAIN u
        PROVE  Home(u[w].chunks, w, m)
    <3>1. CASE w # W
      BY <1>1, <1>2, <1>4, <1>6, <3>1 DEF Housed, Home
    <3>2. CASE w = W
      <4>1. \A r \in DOMAIN old.chunks : old.chunks[r] < m[r] /\ WindowId(r, old.chunks[r]) = W
        BY <1>1, <1>4, <1>5, <1>6 DEF Housed, Home
      <4>2. k < m[s] /\ WindowId(s, k) = W
        BY <1>1 DEF W
      <4> QED  BY <1>3, <3>2, <4>1, <4>2 DEF Home
    <3> QED  BY <3>1, <3>2
  <2>2. ASSUME NEW i \in DOMAIN e
        PROVE  Home(e[i].chunks, e[i].window, m)
    BY <1>1, <1>6, <1>7 DEF Housed, Home
  <2> QED  BY <2>1, <2>2 DEF Housed
<1>9. Once(u, e)
  <2>1. ASSUME NEW w \in DOMAIN u, NEW i \in DOMAIN e, NEW r \in Sources,
               r \in DOMAIN u[w].chunks, r \in DOMAIN e[i].chunks
        PROVE  u[w].chunks[r] # e[i].chunks[r]
    <3>1. CASE w # W
      BY <1>2, <1>6, <2>1, <3>1 DEF Once
    <3>2. CASE w = W /\ r = s
      BY <1>1, <1>3, <1>6, <1>7, <2>1, <3>2 DEF Housed, Home
    <3>3. CASE w = W /\ r # s
      BY <1>3, <1>5, <1>6, <2>1, <3>3 DEF Once
    <3> QED  BY <3>1, <3>2, <3>3
  <2> QED  BY <1>6, <2>1 DEF Once
<1>10. Kept(u, e, m)
  <2> SUFFICES ASSUME NEW r \in Sources, NEW j \in 0 .. m[r] - 1
               PROVE  Found(u, e, r, j) \/ (j + 1 < m[r] /\ WindowId(r, j + 1) = WindowId(r, j))
    BY DEF Kept
  <2>0. j \in Nat
    OBVIOUS
  <2>1. CASE r = s /\ j = k
    BY <1>2, <1>3, <2>1 DEF Found
  <2>2. CASE ~(r = s /\ j = k)
    <3>1. j \in 0 .. n[r] - 1
      BY <1>1, <2>2
    <3>2. CASE \E i \in DOMAIN e : r \in DOMAIN e[i].chunks /\ e[i].chunks[r] = j
      BY <3>2 DEF Found
    <3>3. CASE j + 1 < n[r] /\ WindowId(r, j + 1) = WindowId(r, j)
      BY <1>1, <3>1, <3>3
    <3>4. ASSUME NEW w \in DOMAIN t, r \in DOMAIN t[w].chunks, t[w].chunks[r] = j
          PROVE  Found(u, e, r, j) \/ (j + 1 < m[r] /\ WindowId(r, j + 1) = WindowId(r, j))
      <4>1. CASE w # W
        BY <1>2, <3>4, <4>1 DEF Found
      <4>2. CASE w = W /\ r # s
        BY <1>2, <1>3, <1>5, <3>4, <4>2 DEF Found
      <4>3. CASE w = W /\ r = s
        <5>1. j < k /\ WindowId(r, j) = W
          BY <1>6, <3>4, <4>3 DEF Housed, Home
        <5>2. WindowId(r, j) <= WindowId(r, j + 1) /\ WindowId(r, j + 1) <= WindowId(s, k)
          <6>1. j + 1 \in Nat /\ j <= j + 1 /\ j + 1 <= k /\ k \in Nat
            BY <1>1, <2>0, <5>1
          <6>2. WindowId(r, j) <= WindowId(r, j + 1)
            BY <2>0, <6>1, WindowMonotone
          <6>3. WindowId(r, j + 1) <= WindowId(r, k)
            BY <6>1, WindowMonotone
          <6> QED  BY <4>3, <6>2, <6>3
        <5>3. WindowId(r, j) \in Nat /\ WindowId(r, j + 1) \in Nat /\ WindowId(s, k) \in Nat
          <6>1. j + 1 \in Nat
            BY <2>0
          <6> QED  BY <1>1, <2>0, <6>1, WindowIdType
        <5>4. WindowId(r, j + 1) = WindowId(r, j)
          BY <5>1, <5>2, <5>3 DEF W
        <5> QED  BY <1>1, <2>0, <4>3, <5>1, <5>4
      <4> QED  BY <4>1, <4>2, <4>3
    <3>5. Found(t, e, r, j) \/ (j + 1 < n[r] /\ WindowId(r, j + 1) = WindowId(r, j))
      BY <1>6, <3>1 DEF Kept
    <3> QED  BY <3>2, <3>3, <3>4, <3>5 DEF Found
  <2> QED  BY <2>1, <2>2
<1> QED  BY <1>8, <1>9, <1>10 DEF Sound, u, m

\* The results of an emission, after those before it.
After(e, t, ws) == e \o Results(t, ws)

\* f extends e by one result for each window that ws visits.
Extends(f, e, t, W, ws) ==
  /\ \A i \in DOMAIN f : (i \in DOMAIN e /\ f[i] = e[i]) \/ i - Len(e) \in DOMAIN ws
  /\ \A i \in DOMAIN e : i \in DOMAIN f /\ f[i] = e[i]
  /\ \A i \in DOMAIN ws : /\ Len(e) + i \in DOMAIN f
                          /\ ws[i] \in W
                          /\ f[Len(e) + i].window = ws[i]
                          /\ f[Len(e) + i].chunks = t[ws[i]].chunks

\* Emitting windows appends a result for each of them and changes nothing else.
LEMMA Appended ==
  ASSUME NEW t, IsTable(t, Chunks), NEW e \in Seq(Result),
         NEW W \in SUBSET DOMAIN t, NEW ws \in Seq(W)
  PROVE  After(e, t, ws) \in Seq(Result) /\ Extends(After(e, t, ws), e, t, W, ws)
<1> DEFINE rs == Results(t, ws)
           f == After(e, t, ws)
<1>1. ws \in Seq(DOMAIN t)
  OBVIOUS
<1>2. /\ rs \in Seq(Result) /\ DOMAIN rs = DOMAIN ws
      /\ \A i \in DOMAIN ws : rs[i].window = ws[i] /\ rs[i].chunks = t[ws[i]].chunks
  <2>1. ResultsFor(ws, t, Chunks)
    BY <1>1, ResultsShape, Zenon
  <2> QED  BY <2>1 DEF ResultsFor, Result
<1> HIDE DEF rs
<1>3. f = e \o rs
  BY DEF rs, After
<1> HIDE DEF f
<1>4. /\ f \in Seq(Result)
      /\ Len(e) \in Nat /\ Len(rs) \in Nat
      /\ DOMAIN e = 1 .. Len(e) /\ DOMAIN rs = 1 .. Len(rs)
      /\ DOMAIN f = 1 .. Len(e) + Len(rs)
      /\ \A i \in 1 .. Len(e) : f[i] = e[i]
      /\ \A i \in 1 .. Len(rs) : f[Len(e) + i] = rs[i]
  BY <1>2, <1>3
<1>5. \A i \in DOMAIN ws : ws[i] \in W
  OBVIOUS
<1>6. \A i \in DOMAIN f : (i \in DOMAIN e /\ f[i] = e[i]) \/ i - Len(e) \in DOMAIN ws
  BY <1>2, <1>4
<1>7. \A i \in DOMAIN e : i \in DOMAIN f /\ f[i] = e[i]
  BY <1>4
<1>8. \A i \in DOMAIN ws : Len(e) + i \in DOMAIN f /\ f[Len(e) + i] = rs[i]
  BY <1>2, <1>4
<1>9. Extends(f, e, t, W, ws)
  BY <1>2, <1>4, <1>5, <1>6, <1>7, <1>8 DEF Extends
<1> QED  BY <1>4, <1>9 DEF f

\* Emitting each of the windows W of a table once keeps the invariant.
LEMMA EmitSound ==
  ASSUME NEW t, IsTable(t, Chunks), NEW e \in Seq(Result),
         NEW n \in [Sources -> 0 .. MaxChunks], Sound(t, e, n),
         NEW W \in SUBSET DOMAIN t, NEW ws, Visits(ws, W)
  PROVE  Sound(Without(t, W), After(e, t, ws), n)
<1> DEFINE u == Without(t, W)
           f == After(e, t, ws)
<1>v. /\ ws \in Seq(W)
      /\ \A i, j \in DOMAIN ws : ws[i] = ws[j] => i = j
      /\ \A w \in W : \E i \in DOMAIN ws : ws[i] = w
  BY DEF Visits
<1>0. u = Without(t, W) /\ f = After(e, t, ws)
  OBVIOUS
<1> HIDE DEF u, f
<1>1. DOMAIN u = DOMAIN t \ W /\ \A v \in DOMAIN u : u[v] = t[v]
  <2>1. /\ DOMAIN Without(t, W) = DOMAIN t \ W
        /\ \A v \in DOMAIN t \ W : Without(t, W)[v] = t[v]
    BY WithoutTable, Zenon
  <2> QED  BY <1>0, <2>1
<1>2. f \in Seq(Result) /\ Extends(f, e, t, W, ws)
  BY <1>0, <1>v, Appended
<1>3. Len(e) \in Nat /\ DOMAIN f \subseteq Nat /\ DOMAIN ws \subseteq Nat
  BY <1>2, <1>v
\* A result is an old one or that of a window in W.
<1>4. \A i \in DOMAIN f :
        \/ i \in DOMAIN e /\ f[i] = e[i]
        \/ /\ i - Len(e) \in DOMAIN ws /\ ws[i - Len(e)] \in W
           /\ f[i].window = ws[i - Len(e)]
           /\ f[i].chunks = t[ws[i - Len(e)]].chunks
  <2> TAKE i \in DOMAIN f
  <2>1. ASSUME i - Len(e) \in DOMAIN ws
        PROVE  i = Len(e) + (i - Len(e))
    BY <1>3
  <2> QED  BY <1>2, <2>1 DEF Extends
<1>5. Housed(t, e, n) /\ Once(t, e) /\ Kept(t, e, n)
  BY DEF Sound
<1>6. Housed(u, f, n)
  BY <1>1, <1>4, <1>5 DEF Housed
<1>7. Once(u, f)
  <2>1. ASSUME NEW i \in DOMAIN f, NEW j \in DOMAIN f, NEW s \in Sources,
               s \in DOMAIN f[i].chunks, s \in DOMAIN f[j].chunks,
               f[i].chunks[s] = f[j].chunks[s]
        PROVE  i = j
    <3>1. CASE i \in DOMAIN e /\ f[i] = e[i] /\ j \in DOMAIN e /\ f[j] = e[j]
      BY <1>5, <2>1, <3>1 DEF Once
    <3>2. CASE /\ i - Len(e) \in DOMAIN ws /\ f[i].chunks = t[ws[i - Len(e)]].chunks
               /\ j - Len(e) \in DOMAIN ws /\ f[j].chunks = t[ws[j - Len(e)]].chunks
      <4>1. ws[i - Len(e)] \in DOMAIN t /\ ws[j - Len(e)] \in DOMAIN t
        BY <1>2, <3>2 DEF Extends
      <4>2. ws[i - Len(e)] = ws[j - Len(e)]
        BY <1>5, <2>1, <3>2, <4>1 DEF Housed, Home
      <4>3. i - Len(e) = j - Len(e)
        BY <1>v, <3>2, <4>2
      <4> QED  BY <1>3, <4>3
    <3>3. ASSUME NEW x \in DOMAIN f, NEW y \in DOMAIN f,
                 x \in DOMAIN e, f[x] = e[x],
                 y - Len(e) \in DOMAIN ws, f[y].chunks = t[ws[y - Len(e)]].chunks,
                 s \in DOMAIN f[x].chunks, s \in DOMAIN f[y].chunks,
                 f[x].chunks[s] = f[y].chunks[s]
          PROVE  FALSE
      <4>1. ws[y - Len(e)] \in DOMAIN t
        BY <1>2, <3>3 DEF Extends
      <4> QED  BY <1>5, <3>3, <4>1 DEF Once
    <3> QED  BY <1>4, <2>1, <3>1, <3>2, <3>3
  <2>2. ASSUME NEW w \in DOMAIN u, NEW i \in DOMAIN f, NEW s \in Sources,
               s \in DOMAIN u[w].chunks, s \in DOMAIN f[i].chunks
        PROVE  u[w].chunks[s] # f[i].chunks[s]
    <3>1. CASE i \in DOMAIN e /\ f[i] = e[i]
      BY <1>1, <1>5, <2>2, <3>1 DEF Once
    <3>2. CASE /\ i - Len(e) \in DOMAIN ws /\ ws[i - Len(e)] \in W
               /\ f[i].chunks = t[ws[i - Len(e)]].chunks
      <4>1. ws[i - Len(e)] \in DOMAIN t /\ ws[i - Len(e)] # w /\ w \in DOMAIN t /\ u[w] = t[w]
        BY <1>1, <3>2
      <4>2. Home(t[w].chunks, w, n) /\ Home(t[ws[i - Len(e)]].chunks, ws[i - Len(e)], n)
        BY <1>5, <4>1 DEF Housed
      <4> QED  BY <2>2, <3>2, <4>1, <4>2 DEF Home
    <3> QED  BY <1>4, <3>1, <3>2
  <2> QED  BY <2>1, <2>2 DEF Once
<1>8. Kept(u, f, n)
  <2>1. ASSUME NEW s \in Sources, NEW k, Found(t, e, s, k)
        PROVE  Found(u, f, s, k)
    <3>1. CASE \E i \in DOMAIN e : s \in DOMAIN e[i].chunks /\ e[i].chunks[s] = k
      BY <1>2, <3>1 DEF Found, Extends
    <3>2. ASSUME NEW w \in DOMAIN t, s \in DOMAIN t[w].chunks, t[w].chunks[s] = k
          PROVE  Found(u, f, s, k)
      <4>1. CASE w \in W
        <5>1. PICK i \in DOMAIN ws : ws[i] = w
          BY <1>v, <4>1
        <5> QED  BY <1>2, <3>2, <5>1 DEF Found, Extends
      <4>2. CASE w \notin W
        BY <1>1, <3>2, <4>2 DEF Found
      <4> QED  BY <4>1, <4>2
    <3> QED  BY <2>1, <3>1, <3>2 DEF Found
  <2> QED  BY <1>5, <2>1 DEF Kept
<1> QED  BY <1>6, <1>7, <1>8 DEF Sound, u, f

-----------------------------------------------------------------------------
\* The inductive invariant.
IInv ==
  /\ TypeOK
  /\ PendingIncomplete
  /\ PendingBounded
  /\ CompleteInOrder
  /\ Sound(pending, emitted, sent)

\* What a step that emits the windows W of the table t, in the order ws, does to
\* the part of the invariant that speaks of the results; t has at most one
\* complete window, that of the chunk k which s has just delivered, and emits it.
LEMMA EmitStep ==
  ASSUME IInv,
         NEW t, IsTable(t, Chunks), \A w \in DOMAIN t : DOMAIN t[w].chunks # {},
         NEW n \in [Sources -> 0 .. MaxChunks], Sound(t, emitted, n),
         NEW W \in SUBSET DOMAIN t, NEW ws, Visits(ws, W),
         \A w \in DOMAIN t : IsComplete(t, w) =>
           w \in W /\ \E s \in Sources : w = WindowId(s, sent[s]),
         \A v, w \in DOMAIN t : IsComplete(t, v) /\ IsComplete(t, w) => v = w,
         pending' = Without(t, W), emitted' = After(emitted, t, ws), sent' = n
  PROVE  /\ TypeOK' /\ PendingIncomplete' /\ CompleteInOrder'
         /\ Sound(pending, emitted, sent)'
<1>1. /\ emitted \in Seq(Result) /\ Housed(pending, emitted, sent)
      /\ sent \in [Sources -> 0 .. MaxChunks]
      /\ CompleteInOrder
  BY DEF IInv, TypeOK, Result, Sound
<1>2. /\ IsTable(pending', Chunks) /\ DOMAIN pending' = DOMAIN t \ W
      /\ \A v \in DOMAIN t \ W : pending'[v] = t[v]
  <2>1. /\ IsTable(Without(t, W), Chunks) /\ DOMAIN Without(t, W) = DOMAIN t \ W
        /\ \A v \in DOMAIN t \ W : Without(t, W)[v] = t[v]
    BY WithoutTable, Zenon
  <2> QED  BY <2>1
<1>v. ws \in Seq(W)
  BY DEF Visits
<1>3. emitted' \in Seq(Result) /\ Extends(emitted', emitted, t, W, ws)
  BY <1>1, <1>v, Appended
<1>4. TypeOK'
  BY <1>2, <1>3 DEF TypeOK, Result
<1>5. PendingIncomplete'
  BY <1>2 DEF PendingIncomplete, IsComplete
<1>6. Sound(pending, emitted, sent)'
  BY <1>1, EmitSound
<1>7. CompleteInOrder'
  <2> SUFFICES ASSUME NEW i \in DOMAIN emitted', NEW j \in DOMAIN emitted', i < j,
                      Missing(emitted'[i]) = {}, Missing(emitted'[j]) = {}
               PROVE  emitted'[i].window <= emitted'[j].window
    BY DEF CompleteInOrder
  <2>1. /\ DOMAIN emitted = 1 .. Len(emitted) /\ Len(emitted) \in Nat
        /\ i \in Nat /\ j \in Nat /\ DOMAIN ws \subseteq Nat \ {0}
    BY <1>1, <1>3, <1>v
  <2>2. ASSUME NEW x \in DOMAIN emitted', x \notin DOMAIN emitted, Missing(emitted'[x]) = {}
        PROVE  /\ emitted'[x].window \in DOMAIN t
               /\ IsComplete(t, emitted'[x].window)
    <3>1. x - Len(emitted) \in DOMAIN ws
      BY <1>3, <2>2 DEF Extends
    <3>2. x = Len(emitted) + (x - Len(emitted))
      BY <1>3, <2>1
    <3>3. /\ emitted'[x].window = ws[x - Len(emitted)]
          /\ emitted'[x].chunks = t[ws[x - Len(emitted)]].chunks
          /\ ws[x - Len(emitted)] \in DOMAIN t
      BY <1>3, <3>1, <3>2 DEF Extends
    <3> QED  BY <2>2, <3>3 DEF IsComplete, Missing
  <2>3. CASE i \in DOMAIN emitted /\ j \in DOMAIN emitted
    BY <1>1, <1>3, <2>3 DEF CompleteInOrder, Extends
  <2>4. CASE i \in DOMAIN emitted /\ j \notin DOMAIN emitted
    <3>1. PICK s \in Sources : emitted'[j].window = WindowId(s, sent[s])
      BY <2>2, <2>4
    <3>2. emitted'[i] = emitted[i]
      BY <1>3, <2>4 DEF Extends
    <3>3. s \in DOMAIN emitted[i].chunks
      BY <3>2 DEF Missing
    <3>4. /\ emitted[i].chunks[s] < sent[s]
          /\ WindowId(s, emitted[i].chunks[s]) = emitted[i].window
      BY <1>1, <2>4, <3>3 DEF Housed, Home
    <3>5. emitted[i].chunks[s] \in Nat /\ sent[s] \in Nat
      <4>1. emitted[i] \in Result
        BY <1>1, <2>4
      <4> QED  BY <1>1, <3>3, <4>1 DEF Result, Chunks, ChunkMaps
    <3> QED  BY <3>1, <3>2, <3>4, <3>5, WindowMonotone
  <2>5. CASE i \notin DOMAIN emitted /\ j \notin DOMAIN emitted
    <3>1. emitted'[i].window = emitted'[j].window
      BY <2>2, <2>5
    <3>2. emitted'[i] \in Result
      BY <1>3
    <3> QED  BY <3>1, <3>2 DEF Result
  <2>6. ~(i \notin DOMAIN emitted /\ j \in DOMAIN emitted)
    <3>1. CASE i \notin DOMAIN emitted /\ j \in DOMAIN emitted
      <4>1. i - Len(emitted) \in DOMAIN ws
        BY <1>3, <3>1 DEF Extends
      <4> QED  BY <2>1, <3>1, <4>1
    <3> QED  BY <3>1
  <2> QED  BY <2>3, <2>4, <2>5, <2>6
<1> QED  BY <1>4, <1>5, <1>6, <1>7

\* What inserting the next chunk of s does, apart from the invariant Sound.
LEMMA AddChunkFacts ==
  ASSUME NEW t, IsTable(t, Chunks), \A w \in DOMAIN t : DOMAIN t[w].chunks # {},
         \A w \in DOMAIN t : ~IsComplete(t, w),
         NEW s \in Sources, NEW k \in 0 .. MaxChunks - 1
  PROVE  /\ IsTable(Insert(t, s, k), Chunks)
         /\ DOMAIN Insert(t, s, k) = DOMAIN t \cup {WindowId(s, k)}
         /\ \A v \in DOMAIN Insert(t, s, k) : DOMAIN Insert(t, s, k)[v].chunks # {}
         /\ \A v \in DOMAIN Insert(t, s, k) : IsComplete(Insert(t, s, k), v) =>
              v = WindowId(s, k) /\ v \in DoneBy(t, s, k)
         /\ \A v \in DoneBy(t, s, k) : IsComplete(Insert(t, s, k), v)
         /\ DOMAIN KeptBy(t, s, k) = DOMAIN Insert(t, s, k) \ DoneBy(t, s, k)
         /\ EmittedBy(t, s, k) \in SUBSET DOMAIN Insert(t, s, k)
<1> DEFINE u == Insert(t, s, k)
           done == DoneBy(t, s, k)
<1>1. /\ IsTable(u, Chunks)
      /\ DOMAIN u = DOMAIN t \cup {WindowId(s, k)}
      /\ \A v \in DOMAIN t \ {WindowId(s, k)} : u[v] = t[v]
      /\ u[WindowId(s, k)].chunks = Put(Receiver(t, s, k).chunks, s, k)
  <2>1. MaxChunks \in Nat /\ IsTable(t, ChunkMaps(MaxChunks))
    BY BoundAssumption DEF Chunks
  <2>2. Inserted(t, s, k, Chunks)
    BY <2>1, InsertTable, Zenon DEF Chunks
  <2> QED  BY <2>2 DEF Inserted
<1>2. done = Completed(u, WindowId(s, k))
  BY DEF DoneBy
<1>3. DOMAIN KeptBy(t, s, k) = DOMAIN u \ done
  BY <1>1, WithoutTable DEF KeptBy
<1> HIDE DEF u, done
<1>4. \A v \in DOMAIN u : DOMAIN u[v].chunks # {}
  <2>1. s \in DOMAIN u[WindowId(s, k)].chunks
    BY <1>1 DEF Put
  <2> QED  BY <1>1, <2>1
<1>5. \A v \in DOMAIN u : IsComplete(u, v) => v = WindowId(s, k) /\ v \in done
  BY <1>1, <1>2 DEF IsComplete, Completed
<1>6. done \subseteq DOMAIN u /\ \A v \in done : IsComplete(u, v)
  BY <1>1, <1>2 DEF Completed
<1>7. done \cup Excess(KeptBy(t, s, k)) \in SUBSET DOMAIN u
  BY <1>3, <1>6 DEF Excess
<1> QED  BY <1>1, <1>3, <1>4, <1>5, <1>6, <1>7 DEF u, done, EmittedBy

\* AddChunk(s) in terms of the windows it emits.
LEMMA AddChunkEmits ==
  ASSUME IInv, NEW s \in Sources, AddChunk(s)
  PROVE  /\ sent[s] \in 0 .. MaxChunks - 1
         /\ sent' = [sent EXCEPT ![s] = @ + 1]
         /\ \E ws : /\ Visits(ws, EmittedBy(pending, s, sent[s]))
                    /\ emitted' = After(emitted, Insert(pending, s, sent[s]), ws)
                    /\ pending' = Without(Insert(pending, s, sent[s]),
                                          EmittedBy(pending, s, sent[s]))
<1>1. /\ sent[s] < MaxChunks /\ sent[s] \in 0 .. MaxChunks
      /\ IsTable(pending, Chunks)
  BY DEF IInv, TypeOK, AddChunk
<1>2. sent[s] \in 0 .. MaxChunks - 1
  BY <1>1, BoundAssumption
<1>3. PICK o \in AddChunkOutcomes(pending, s, sent[s]) :
        pending' = o.table /\ emitted' = emitted \o o.results
  BY DEF AddChunk
<1>4. PICK ws : /\ Visits(ws, EmittedBy(pending, s, sent[s]))
                /\ o.results = Results(Insert(pending, s, sent[s]), ws)
                /\ o.table = Without(Insert(pending, s, sent[s]),
                                     EmittedBy(pending, s, sent[s]))
  BY <1>1, <1>2, <1>3, AddChunkParts, BoundAssumption DEF Chunks
<1> QED  BY <1>2, <1>3, <1>4 DEF After, AddChunk

\* CheckTimeouts in terms of the windows it emits.
LEMMA CheckTimeoutsEmits ==
  ASSUME IInv, CheckTimeouts
  PROVE  \E ws : /\ Visits(ws, TimedOut(pending))
                 /\ emitted' = After(emitted, pending, ws)
                 /\ pending' = Without(pending, TimedOut(pending))
                 /\ sent' = sent
<1>1. IsTable(pending, Chunks)
  BY DEF IInv, TypeOK
<1>2. PICK o \in CheckTimeoutsOutcomes(pending) :
        pending' = o.table /\ emitted' = emitted \o o.results
  BY DEF CheckTimeouts
<1>3. PICK ws : /\ Visits(ws, TimedOut(pending))
                /\ o.results = Results(pending, ws)
                /\ o.table = Without(pending, TimedOut(pending))
  BY <1>1, <1>2, CheckTimeoutsParts
<1> QED  BY <1>2, <1>3 DEF After, CheckTimeouts

\* The parts of the invariant the lemmas ask for.
LEMMA Parts ==
  ASSUME IInv
  PROVE  /\ IsTable(pending, Chunks) /\ emitted \in Seq(Result)
         /\ \A w \in DOMAIN pending : DOMAIN pending[w].chunks # {}
         /\ \A w \in DOMAIN pending : ~IsComplete(pending, w)
         /\ sent \in [Sources -> 0 .. MaxChunks]
         /\ Sound(pending, emitted, sent)
  BY DEF IInv, TypeOK, Result, PendingIncomplete

\* add_chunk keeps the invariant: insertion, then emission.
LEMMA AddChunkInv ==
  ASSUME IInv, NEW s \in Sources, AddChunk(s)
  PROVE  IInv'
<1> DEFINE k == sent[s]
           u == Insert(pending, s, k)
           done == DoneBy(pending, s, k)
           kept == KeptBy(pending, s, k)
           W == EmittedBy(pending, s, k)
<1>1. PICK ws : /\ Visits(ws, W)
                /\ emitted' = After(emitted, u, ws)
                /\ pending' = Without(u, W)
  BY AddChunkEmits
<1>2. k \in 0 .. MaxChunks - 1 /\ sent' = [sent EXCEPT ![s] = @ + 1]
  BY AddChunkEmits
<1>3. /\ IsTable(u, Chunks)
      /\ \A v \in DOMAIN u : DOMAIN u[v].chunks # {}
      /\ \A v \in DOMAIN u : IsComplete(u, v) => v = WindowId(s, k) /\ v \in done
      /\ DOMAIN kept = DOMAIN u \ done
      /\ W \in SUBSET DOMAIN u
  <2> HIDE DEF k
  <2> QED  BY <1>2, Parts, AddChunkFacts
<1>4. Sound(u, emitted, sent')
  <2>1. k < MaxChunks
    BY <1>2, BoundAssumption
  <2>2. Sound(u, emitted, [sent EXCEPT ![s] = @ + 1])
    BY <2>1, Parts, InsertSound
  <2> QED  BY <1>2, <2>2
<1>5. sent' \in [Sources -> 0 .. MaxChunks]
  BY <1>2, Parts, BoundAssumption
<1>6. W = done \cup Excess(kept)
  BY DEF EmittedBy
<1> HIDE DEF k, u, done, kept, W
<1>7. /\ TypeOK' /\ PendingIncomplete' /\ CompleteInOrder'
      /\ Sound(pending, emitted, sent)'
  <2>1. \A w \in DOMAIN u : IsComplete(u, w) =>
           w \in W /\ \E r \in Sources : w = WindowId(r, sent[r])
    BY <1>3, <1>6 DEF k
  <2>2. \A v, w \in DOMAIN u : IsComplete(u, v) /\ IsComplete(u, w) => v = w
    BY <1>3
  <2> QED  BY <1>1, <1>3, <1>4, <1>5, <2>1, <2>2, EmitStep
<1>8. PendingBounded'
  <2>1. DOMAIN pending' = DOMAIN u \ W
    <3>1. DOMAIN Without(u, W) = DOMAIN u \ W
      BY <1>3, WithoutTable, Zenon
    <3> QED  BY <1>1, <3>1
  <2>2. DOMAIN pending' = {w \in DOMAIN kept :
                             ~(Cardinality({v \in DOMAIN kept : w < v}) >= MaxPending)}
    BY <1>3, <1>6, <2>1 DEF Excess
  <2>3. DOMAIN kept \in SUBSET Nat /\ IsFiniteSet(DOMAIN kept)
    BY <1>3, FS_Subset DEF IsTable
  <2>4. MaxPending \in Nat
    BY MergeAssumption
  <2> QED  BY <2>2, <2>3, <2>4, KeptBounded DEF PendingBounded
<1> QED  BY <1>7, <1>8 DEF IInv

\* check_timeouts keeps the invariant.
LEMMA CheckTimeoutsInv ==
  ASSUME IInv, CheckTimeouts
  PROVE  IInv'
<1> DEFINE W == TimedOut(pending)
<1>1. PICK ws : /\ Visits(ws, W)
                /\ emitted' = After(emitted, pending, ws)
                /\ pending' = Without(pending, W)
                /\ sent' = sent
  BY CheckTimeoutsEmits
<1>2. W \in SUBSET DOMAIN pending
  BY DEF TimedOut
<1> HIDE DEF W
<1>3. /\ TypeOK' /\ PendingIncomplete' /\ CompleteInOrder'
      /\ Sound(pending, emitted, sent)'
  BY <1>1, <1>2, Parts, EmitStep
<1>4. PendingBounded'
  <2>1. DOMAIN Without(pending, W) = DOMAIN pending \ W
    BY Parts, WithoutTable, Zenon
  <2>2. /\ IsFiniteSet(DOMAIN pending) /\ Cardinality(DOMAIN pending) <= MaxPending
        /\ Cardinality(DOMAIN pending) \in Nat
    BY FS_CardinalityType DEF IInv, PendingBounded
  <2>3. /\ IsFiniteSet(DOMAIN pending') /\ Cardinality(DOMAIN pending') \in Nat
        /\ Cardinality(DOMAIN pending') <= Cardinality(DOMAIN pending)
    BY <1>1, <2>1, <2>2, FS_Subset, FS_CardinalityType
  <2> QED  BY <2>2, <2>3, MergeAssumption DEF PendingBounded
<1> QED  BY <1>3, <1>4 DEF IInv

\* The passage of time changes the ages only.
LEMMA TickInv ==
  ASSUME IInv, Tick
  PROVE  IInv'
<1>1. /\ DOMAIN pending' = DOMAIN pending
      /\ \A w \in DOMAIN pending : pending'[w] = [pending[w] EXCEPT !.age = IF @ < Timeout THEN @ + 1 ELSE @]
      /\ pending' = [w \in DOMAIN pending |-> pending'[w]]
      /\ sent' = sent /\ emitted' = emitted
  BY DEF Tick, Aged
<1>2. pending \in [DOMAIN pending -> Record]
  BY Parts DEF IsTable, Record, WindowOf
<1>3. \A w \in DOMAIN pending : pending'[w] \in Record /\ pending'[w].chunks = pending[w].chunks
  BY <1>1, <1>2, MergeAssumption DEF Record, WindowOf
<1>4. IsTable(pending', Chunks)
  BY <1>1, <1>3, Parts DEF IsTable, Record, WindowOf
<1>5. TypeOK' /\ PendingIncomplete' /\ PendingBounded' /\ CompleteInOrder'
  BY <1>1, <1>3, <1>4
  DEF IInv, TypeOK, PendingIncomplete, PendingBounded, CompleteInOrder, IsComplete, Missing
<1>6. Sound(pending, emitted, sent)'
  BY <1>1, <1>3, Parts DEF Sound, Housed, Home, Once, Kept, Found
<1> QED  BY <1>5, <1>6 DEF IInv

\* A new merger satisfies the invariant.
LEMMA InitInv == Init => IInv
<1> SUFFICES ASSUME Init PROVE IInv
  OBVIOUS
<1>1. /\ DOMAIN pending = {} /\ pending = [w \in {} |-> NewWindow]
      /\ emitted = <<>> /\ DOMAIN emitted = {}
      /\ sent = [s \in Sources |-> 0]
  BY DEF Init
<1>2. IsTable(pending, Chunks)
  BY <1>1, FS_EmptySet DEF IsTable
<1>3. TypeOK
  BY <1>1, <1>2, BoundAssumption DEF TypeOK
<1>4. PendingBounded
  BY <1>1, FS_EmptySet, MergeAssumption DEF PendingBounded
<1>5. PendingIncomplete /\ CompleteInOrder
  BY <1>1 DEF PendingIncomplete, CompleteInOrder
<1>6. Sound(pending, emitted, sent)
  BY <1>1 DEF Sound, Housed, Once, Kept
<1> QED  BY <1>3, <1>4, <1>5, <1>6 DEF IInv

\* Every step, and every stutter, keeps the invariant.
LEMMA NextInv == IInv /\ [Next]_vars => IInv'
<1> SUFFICES ASSUME IInv, [Next]_vars PROVE IInv'
  OBVIOUS
<1>1. ASSUME NEW s \in Sources, AddChunk(s) PROVE IInv'
  BY <1>1, AddChunkInv
<1>2. CASE CheckTimeouts
  BY <1>2, CheckTimeoutsInv
<1>3. CASE Tick
  BY <1>3, TickInv
<1>4. CASE UNCHANGED vars
  <2>1. pending' = pending /\ sent' = sent /\ emitted' = emitted
    BY <1>4 DEF vars
  <2>2. TypeOK'
    BY <2>1 DEF IInv, TypeOK
  <2>3. PendingIncomplete' /\ PendingBounded' /\ CompleteInOrder'
    BY <2>1 DEF IInv, PendingIncomplete, PendingBounded, CompleteInOrder, IsComplete, Missing
  <2>4. Sound(pending, emitted, sent)'
    BY <2>1 DEF IInv
  <2> QED  BY <2>2, <2>3, <2>4 DEF IInv
<1> QED  BY <1>1, <1>2, <1>3, <1>4 DEF Next

\* The invariant holds of every behaviour of the merger.
THEOREM Invariant == Spec => []IInv
  BY InitInv, NextInv, PTL DEF Spec

-----------------------------------------------------------------------------
\* What the inductive invariant says of the properties.
LEMMA Consequences ==
  ASSUME IInv
  PROVE  /\ TypeOK /\ PendingIncomplete /\ PendingBounded
         /\ EmittedOnce /\ LostOnlyIfSuperseded /\ CompleteInOrder
<1>1. EmittedOnce
  <2> SUFFICES ASSUME NEW s \in Sources, NEW k \in 0 .. sent[s]
               PROVE  /\ \A i, j \in DOMAIN emitted :
                           Holds(emitted[i], s, k) /\ Holds(emitted[j], s, k) => i = j
                      /\ \A w \in DOMAIN pending : Holds(pending[w], s, k) =>
                           /\ w = WindowId(s, k)
                           /\ \A i \in DOMAIN emitted : ~Holds(emitted[i], s, k)
    BY DEF EmittedOnce
  <2>1. Housed(pending, emitted, sent) /\ Once(pending, emitted)
    BY DEF IInv, Sound
  <2> QED  BY <2>1 DEF Housed, Home, Once, Holds
<1>2. LostOnlyIfSuperseded
  BY DEF IInv, Sound, Kept, Found, LostOnlyIfSuperseded, Located, Holds
<1> QED  BY <1>1, <1>2 DEF IInv

\* The table and the results always have the shape of the code's data
\* (TimeWindowMerger.pending, MergeResult), for any number of sources, any
\* durations, limit and timeout.
THEOREM TypeCorrect == Spec => []TypeOK
  BY Consequences, Invariant, PTL

\* add_chunk emits a complete window at once: none waits in the table.
THEOREM CompleteLeavesAtOnce == Spec => []PendingIncomplete
  BY Consequences, Invariant, PTL

\* Eviction keeps the table within max_pending_windows, for any limit and any
\* order of arrival.
THEOREM Backlog == Spec => []PendingBounded
  BY Consequences, Invariant, PTL

\* No chunk is combined into two results, or into a result while it is pending:
\* emit_window removes what it merges, and a late chunk never brings an emitted
\* one back.
THEOREM NoDuplicates == Spec => []EmittedOnce
  BY Consequences, Invariant, PTL

\* A chunk given to add_chunk is pending or in a result, unless the next chunk of
\* its source fell into the same window and replaced it.
THEOREM NothingElseLost == Spec => []LostOnlyIfSuperseded
  BY Consequences, Invariant, PTL

\* The results that combine every source leave in the order of their windows.
THEOREM Ordered == Spec => []CompleteInOrder
  BY Consequences, Invariant, PTL

\* What is evicted is older than all that stays, and the table was full.
LEMMA EvictedIsOldest ==
  ASSUME NEW D \in SUBSET Nat, IsFiniteSet(D), NEW P, IsFiniteSet(P), NEW x \in Nat,
         D \subseteq P \cup {x}, NEW M \in Nat,
         NEW w \in D, Cardinality({v \in D : w < v}) >= M
  PROVE  /\ Cardinality(P) >= M
         /\ \A y \in D : ~(Cardinality({v \in D : y < v}) >= M) => w < y
<1> DEFINE Above(y) == {v \in D : y < v}
<1>1. \A y \in D : IsFiniteSet(Above(y)) /\ Cardinality(Above(y)) \in Nat
  BY FS_Subset, FS_CardinalityType
<1>2. Cardinality(P) \in Nat
  BY FS_CardinalityType
<1>3. Cardinality(P) >= M
  <2> DEFINE A == Above(w)
             B == A \ {x}
  <2>1. /\ IsFiniteSet(A) /\ Cardinality(A) \in Nat /\ Cardinality(A) >= M
        /\ A \subseteq P \cup {x} /\ w \notin A /\ w \in P \cup {x}
    <3>1. IsFiniteSet(A) /\ Cardinality(A) \in Nat
      BY <1>1, Zenon
    <3>2. A \subseteq P \cup {x} /\ w \in P \cup {x}
      OBVIOUS
    <3>3. w \notin A
      <4>1. ~(w < w)
        OBVIOUS
      <4> QED  BY <4>1, Zenon
    <3> QED  BY <3>1, <3>2, <3>3
  <2> HIDE DEF A
  <2>2. CASE x \notin A
    <3>1. A \in SUBSET P
      BY <2>1, <2>2
    <3>2. Cardinality(A) <= Cardinality(P)
      BY <3>1, FS_Subset
    <3> QED  BY <1>2, <2>1, <3>2
  <2>3. CASE x \in A
    <3>1. /\ IsFiniteSet(B) /\ Cardinality(B) = Cardinality(A) - 1
      BY <2>1, <2>3, FS_RemoveElement
    <3>2. w \notin B /\ B \cup {w} \in SUBSET P
      BY <2>1, <2>3
    <3> HIDE DEF B
    <3>3. Cardinality(B \cup {w}) = Cardinality(B) + 1
      BY <3>1, <3>2, FS_AddElement
    <3>4. Cardinality(B \cup {w}) <= Cardinality(P)
      BY <3>2, FS_Subset
    <3> QED  BY <1>2, <2>1, <3>1, <3>3, <3>4
  <2> QED  BY <2>2, <2>3
<1>4. ASSUME NEW y \in D, ~(Cardinality(Above(y)) >= M)
      PROVE  w < y
  <2>1. CASE y <= w
    <3>1. Above(w) \in SUBSET Above(y)
      <4>1. \A v \in D : w < v => y < v
        BY <2>1
      <4> QED  BY <4>1, Zenon
    <3>2. Cardinality(Above(w)) <= Cardinality(Above(y))
      BY <1>1, <3>1, FS_Subset
    <3>3. Cardinality(Above(w)) >= M
      OBVIOUS
    <3> HIDE DEF Above
    <3> QED  BY <1>1, <1>4, <3>2, <3>3
  <2> QED  BY <2>1
<1> QED  BY <1>3, <1>4

\* The windows of the results that a step appends.
LEMMA NewResults ==
  ASSUME NEW e \in Seq(Result), NEW f \in Seq(Result), NEW t, NEW W, NEW ws,
         Visits(ws, W), Extends(f, e, t, W, ws), NEW i \in Len(e) + 1 .. Len(f)
  PROVE  f[i].window \in W /\ f[i].chunks = t[f[i].window].chunks
<1>1. i \in DOMAIN f /\ i \notin DOMAIN e /\ i = Len(e) + (i - Len(e))
  OBVIOUS
<1>2. i - Len(e) \in DOMAIN ws
  BY <1>1 DEF Extends
<1> QED  BY <1>1, <1>2 DEF Extends

\* An incomplete window leaves the merger only when it has timed out, or when the
\* table was full, and then before every window that is not emitted with it.
THEOREM Justified == Spec => IncompleteOnlyWhenLateOrFull
<1> DEFINE Step == \A i \in NewlyEmitted :
                     Missing(emitted'[i]) # {} => JustifiedEmission(emitted'[i].window)
<1>1. ASSUME IInv, NEW s \in Sources, AddChunk(s)
      PROVE  Step
  <2> DEFINE k == sent[s]
             u == Insert(pending, s, k)
             done == DoneBy(pending, s, k)
             kept == KeptBy(pending, s, k)
             W == EmittedBy(pending, s, k)
  <2>1. PICK ws : /\ Visits(ws, W)
                  /\ emitted' = After(emitted, u, ws)
                  /\ pending' = Without(u, W)
    BY <1>1, AddChunkEmits
  <2>2. k \in 0 .. MaxChunks - 1
    BY <1>1, AddChunkEmits
  <2>3. /\ IsTable(u, Chunks)
        /\ DOMAIN u = DOMAIN pending \cup {WindowId(s, k)}
        /\ \A v \in done : IsComplete(u, v)
        /\ DOMAIN kept = DOMAIN u \ done
        /\ W \in SUBSET DOMAIN u
    <3> HIDE DEF k
    <3> QED  BY <1>1, <2>2, Parts, AddChunkFacts
  <2>4. W = done \cup Excess(kept)
    BY DEF EmittedBy
  <2>5. WindowId(s, k) \in Nat
    BY <2>2, WindowIdType
  <2>6. IsTable(pending, Chunks) /\ emitted \in Seq(Result)
    BY <1>1, Parts
  <2> HIDE DEF k, u, done, kept, W
  <2>7. ws \in Seq(W)
    BY <2>1 DEF Visits
  <2>8. emitted' \in Seq(Result) /\ Extends(emitted', emitted, u, W, ws)
    BY <2>1, <2>3, <2>6, <2>7, Appended
  <2>9. ASSUME NEW w \in W, ~IsComplete(u, w)
        PROVE  JustifiedEmission(w)
    <3>1. w \in Excess(kept)
      BY <2>3, <2>4, <2>9
    <3>2. w \in DOMAIN kept /\ Cardinality({v \in DOMAIN kept : w < v}) >= MaxPending
      BY <3>1 DEF Excess
    <3>3. /\ DOMAIN kept \in SUBSET Nat /\ IsFiniteSet(DOMAIN kept)
          /\ IsFiniteSet(DOMAIN pending)
      BY <2>3, <2>6, FS_Subset DEF IsTable
    <3>4. /\ Cardinality(DOMAIN pending) >= MaxPending
          /\ \A y \in DOMAIN kept :
               ~(Cardinality({v \in DOMAIN kept : y < v}) >= MaxPending) => w < y
      <4>1. DOMAIN kept \subseteq DOMAIN pending \cup {WindowId(s, k)} /\ MaxPending \in Nat
        BY <2>3, MergeAssumption
      <4> QED  BY <2>5, <3>2, <3>3, <4>1, EvictedIsOldest
    <3>5. DOMAIN pending' = DOMAIN u \ W
      <4>1. DOMAIN Without(u, W) = DOMAIN u \ W
        BY <2>3, WithoutTable, Zenon
      <4> QED  BY <2>1, <4>1
    <3>6. \A y \in DOMAIN pending' : y \in DOMAIN kept /\ y \notin Excess(kept)
      BY <2>3, <2>4, <3>5
    <3> QED  BY <3>4, <3>6 DEF Excess, JustifiedEmission
  <2> SUFFICES ASSUME NEW i \in NewlyEmitted, Missing(emitted'[i]) # {}
               PROVE  JustifiedEmission(emitted'[i].window)
    OBVIOUS
  <2>10. emitted'[i].window \in W /\ emitted'[i].chunks = u[emitted'[i].window].chunks
    BY <2>1, <2>6, <2>8, NewResults DEF NewlyEmitted
  <2> QED  BY <2>9, <2>10 DEF Missing, IsComplete
<1>2. ASSUME IInv, CheckTimeouts
      PROVE  Step
  <2>1. PICK ws : /\ Visits(ws, TimedOut(pending))
                  /\ emitted' = After(emitted, pending, ws)
    BY <1>2, CheckTimeoutsEmits
  <2>2. IsTable(pending, Chunks) /\ emitted \in Seq(Result)
    BY <1>2, Parts
  <2>3. TimedOut(pending) \in SUBSET DOMAIN pending /\ ws \in Seq(TimedOut(pending))
    BY <2>1 DEF TimedOut, Visits
  <2>4. emitted' \in Seq(Result) /\ Extends(emitted', emitted, pending, TimedOut(pending), ws)
    BY <2>1, <2>2, <2>3, Appended
  <2> SUFFICES ASSUME NEW i \in NewlyEmitted
               PROVE  JustifiedEmission(emitted'[i].window)
    OBVIOUS
  <2>5. emitted'[i].window \in TimedOut(pending)
    BY <2>1, <2>2, <2>4, NewResults DEF NewlyEmitted
  <2> QED  BY <2>5 DEF JustifiedEmission
<1>3. ASSUME IInv, UNCHANGED emitted
      PROVE  Step
  <2>1. Len(emitted) \in Nat
    BY <1>3, Parts
  <2>2. NewlyEmitted = {}
    BY <1>3, <2>1 DEF NewlyEmitted
  <2> QED  BY <2>2
<1>4. IInv /\ [Next]_vars => [Step]_vars
  BY <1>1, <1>2, <1>3 DEF Next, Tick, vars
<1> QED  BY <1>4, Invariant, PTL DEF Spec, IncompleteOnlyWhenLateOrFull
=============================================================================
