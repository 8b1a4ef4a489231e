---------------------------- MODULE MergeWindows ----------------------------
(***************************************************************************)
(* The time-window table of TimeWindowMerger (src/pipeline/merger.rs) as   *)
(* operators on a table value, so that the merger on its own (Merger) and  *)
(* the whole pipeline (Pipeline) use the same definitions.                 *)
(*                                                                         *)
(* A table maps the ids of the pending windows to what PendingWindow       *)
(* holds: the chunk of each source that contributed, and the time since    *)
(* the window was created, counted in clock ticks up to the timeout.       *)
(* A chunk is named by its source and its index in the source's stream;    *)
(* the timestamp of the k-th chunk of s is k * ChunkTime[s], because the   *)
(* capture bridge advances it by the duration of each chunk, and only the  *)
(* last chunk of a source, which none follows, has another duration than   *)
(* the others.  Sources differ in it with the native rates of their        *)
(* devices.  Sample values, which averaging combines, are left out: a      *)
(* merge result records which chunks were combined.                        *)
(***************************************************************************)
EXTENDS Naturals, FiniteSets, SequencesExt, FiniteSetsExt, Functions

CONSTANTS
  Sources,     \* expected_sources: every source of the session
  ChunkTime,   \* per source, the duration of its chunks
  WindowTime,  \* merge_window_duration, cut to milliseconds, in the same unit
  MaxPending,  \* max_pending_windows
  Timeout      \* merge_window_timeout, in clock ticks

\* WindowTime is a divisor in window_id_for_timestamp; the builder does not
\* reject a zero duration, with which the program panics at the first chunk.
ASSUME MergeAssumption ==
  /\ IsFiniteSet(Sources) /\ Sources # {}
  /\ ChunkTime \in [Sources -> Nat \ {0}] /\ WindowTime \in Nat \ {0}
  /\ MaxPending \in Nat /\ Timeout \in Nat

\* window_id_for_timestamp.  The timestamp is cut to milliseconds first, which
\* changes nothing: a window is a whole number of them.
WindowId(s, k) == (k * ChunkTime[s]) \div WindowTime

\* HashMap::insert: the value of a key, new or overwritten.
Put(map, key, value) ==
  [k \in DOMAIN map \cup {key} |-> IF k = key THEN value ELSE map[k]]

NewWindow == [chunks |-> [s \in {} |-> 0], age |-> 0]

\* A plausible bug: only a window that exists already gets the chunk.
InsertIntoExisting(table, s, k) ==
  LET w == WindowId(s, k)
  IN  IF w \in DOMAIN table THEN Put(table, w, [table[w] EXCEPT !.chunks = Put(@, s, k)])
                            ELSE Put(table, w, NewWindow)

\* entry(window_id).or_insert_with(..) followed by chunks.insert(..): a chunk
\* already there from the same source is overwritten.
Insert(table, s, k) ==
  LET w   == WindowId(s, k)
      old == IF w \in DOMAIN table THEN table[w] ELSE NewWindow
  IN  Put(table, w, [old EXCEPT !.chunks = Put(@, s, k)])

IsComplete(table, w) == Sources \subseteq DOMAIN table[w].chunks

\* A plausible bug: completion is left to the next check_timeouts.
CompletedLater(table, w) == {}

\* The windows that the insertion of a chunk of window w completes: w or none.
Completed(table, w) == IF IsComplete(table, w) THEN {w} ELSE {}

\* Plausible bugs: one window too many stays; the newest windows are evicted.
ExcessByOne(table) ==
  {w \in DOMAIN table :
     Cardinality({v \in DOMAIN table : w < v}) > MaxPending}
ExcessNewest(table) ==
  {w \in DOMAIN table :
     Cardinality({v \in DOMAIN table : v < w}) >= MaxPending}

\* The windows that evict_excess_windows removes: the lowest ids, until no more
\* than MaxPending remain.
Excess(table) ==
  {w \in DOMAIN table :
     Cardinality({v \in DOMAIN table : w < v}) >= MaxPending}

\* A plausible bug: the latest window is thought to be still filling.
TimedOutButLast(table) ==
  {w \in DOMAIN table : table[w].age >= Timeout /\ \E v \in DOMAIN table : w < v}

TimedOut(table) == {w \in DOMAIN table : table[w].age >= Timeout}

Without(table, W) == Restrict(table, DOMAIN table \ W)

\* emit_window for each of the windows of the sequence ws, in that order.
Results(table, ws) ==
  [i \in DOMAIN ws |-> [window |-> ws[i], chunks |-> table[ws[i]].chunks]]

Missing(result) == Sources \ DOMAIN result.chunks

Ascending(ws) == \A i, j \in DOMAIN ws : i < j => ws[i] < ws[j]

\* A plausible bug: evicted windows are removed but not returned.
AddChunkDropsEvicted(table, s, k) ==
  LET inserted == Insert(table, s, k)
      done     == Completed(inserted, WindowId(s, k))
      kept     == Without(inserted, done)
  IN  {[table   |-> Without(kept, Excess(kept)),
        results |-> Results(inserted, ds)] : ds \in SetToSeqs(done)}

\* What add_chunk can return and the table it leaves, for the chunk k of s:
\* the completed window first, then the evicted ones, oldest first.
AddChunkOutcomes(table, s, k) ==
  LET inserted == Insert(table, s, k)
      done     == Completed(inserted, WindowId(s, k))
      kept     == Without(inserted, done)
      evicted  == Excess(kept)
  IN  {[table   |-> Without(kept, evicted),
        results |-> Results(inserted, ds \o es)] :
         ds \in SetToSeqs(done),
         es \in {es \in SetToSeqs(evicted) : Ascending(es)}}

\* A plausible bug: timed-out windows are returned but stay in the table.
CheckTimeoutsKeeps(table) ==
  {[table |-> table, results |-> Results(table, ws)] : ws \in SetToSeqs(TimedOut(table))}

\* What check_timeouts can return: the windows are visited in the order of a
\* HashMap iteration, which is any order.
CheckTimeoutsOutcomes(table) ==
  {[table   |-> Without(table, TimedOut(table)),
    results |-> Results(table, ws)] : ws \in SetToSeqs(TimedOut(table))}

\* The clock, against created_at of every pending window; saturates at Timeout.
Aged(table) ==
  [w \in DOMAIN table |-> [table[w] EXCEPT !.age = IF @ < Timeout THEN @ + 1 ELSE @]]

\* The chunks of a window, with indices below n, and a table of such windows.
ChunkMaps(n) == UNION {[S -> 0 .. n - 1] : S \in SUBSET Sources}

IsTable(table, chunkMaps) ==
  /\ IsFiniteSet(DOMAIN table) /\ DOMAIN table \subseteq Nat
  /\ table \in [DOMAIN table -> [chunks : chunkMaps, age : 0 .. Timeout]]
=============================================================================
