------------------------------- MODULE Merger -------------------------------
(***************************************************************************)
(* TimeWindowMerger (src/pipeline/merger.rs) as the router drives it: the  *)
(* chunks of each source arrive in order but interleaved in any way with   *)
(* those of the others, with the passage of time, and with the periodic    *)
(* check_timeouts.  "emitted" is the sequence of all merge results.        *)
(***************************************************************************)
EXTENDS MergeWindows

CONSTANT MaxChunks  \* bound: chunks a source delivers

ASSUME BoundAssumption == MaxChunks \in Nat

VARIABLES
  pending,  \* TimeWindowMerger.pending
  sent,     \* per source, how many chunks add_chunk has been given
  emitted   \* every merge result so far, in order

vars == <<pending, sent, emitted>>

Init ==
  /\ pending = [w \in {} |-> NewWindow]
  /\ sent = [s \in Sources |-> 0]
  /\ emitted = <<>>

\* add_chunk for the next chunk of s.
AddChunk(s) ==
  /\ sent[s] < MaxChunks
  /\ sent' = [sent EXCEPT ![s] = @ + 1]
  /\ \E o \in AddChunkOutcomes(pending, s, sent[s]) :
       /\ pending' = o.table
       /\ emitted' = emitted \o o.results

\* check_timeouts, called by the router's interval.
CheckTimeouts ==
  /\ \E o \in CheckTimeoutsOutcomes(pending) :
       /\ pending' = o.table
       /\ emitted' = emitted \o o.results
  /\ UNCHANGED sent

\* Time passes.
Tick ==
  /\ \E w \in DOMAIN pending : pending[w].age < Timeout
  /\ pending' = Aged(pending)
  /\ UNCHANGED <<sent, emitted>>

Next == (\E s \in Sources : AddChunk(s)) \/ CheckTimeouts \/ Tick

\* Time passes, and the interval of Router::run fires again and again.  Nothing
\* obliges a source to deliver.
Spec == Init /\ [][Next]_vars /\ WF_vars(Tick) /\ WF_vars(CheckTimeouts)

-----------------------------------------------------------------------------
Chunks == ChunkMaps(MaxChunks)

\* The state has the shape of the code's data; every table entry is a window
\* with at least one chunk.
TypeOK ==
  /\ IsTable(pending, Chunks)
  /\ \A w \in DOMAIN pending : DOMAIN pending[w].chunks # {}
  /\ sent \in [Sources -> 0 .. MaxChunks]
  /\ emitted \in Seq([window : Nat, chunks : Chunks])

\* A window whose sources have all contributed never stays in the table: it is
\* emitted by the add_chunk that completes it, not by a later timeout.
PendingIncomplete == \A w \in DOMAIN pending : ~IsComplete(pending, w)

\* The backlog never exceeds max_pending_windows between two calls.
PendingBounded ==
  IsFiniteSet(DOMAIN pending) /\ Cardinality(DOMAIN pending) <= MaxPending

Holds(window, s, k) == s \in DOMAIN window.chunks /\ window.chunks[s] = k

\* Of all places a chunk can be (a pending window, or one of the results), it is
\* in at most one: no audio is mixed into the output twice, whatever windows
\* time out, are evicted or are created again by a late chunk.
EmittedOnce ==
  \A s \in Sources : \A k \in 0 .. sent[s] :
    /\ \A i, j \in DOMAIN emitted :
         Holds(emitted[i], s, k) /\ Holds(emitted[j], s, k) => i = j
    /\ \A w \in DOMAIN pending : Holds(pending[w], s, k) =>
         /\ w = WindowId(s, k)
         /\ \A i \in DOMAIN emitted : ~Holds(emitted[i], s, k)

Located(s, k) ==
  \/ \E i \in DOMAIN emitted : Holds(emitted[i], s, k)
  \/ \E w \in DOMAIN pending : Holds(pending[w], s, k)

\* A chunk given to the merger is pending or in a result, with one exception:
\* the next chunk of its source fell into the same window and overwrote it.
\* Eviction, timeouts and late arrivals lose nothing.
LostOnlyIfSuperseded ==
  \A s \in Sources : \A k \in 0 .. sent[s] - 1 :
    \/ Located(s, k)
    \/ k + 1 < sent[s] /\ WindowId(s, k + 1) = WindowId(s, k)

\* The results that combine all sources come out in the order of their windows,
\* although windows complete, time out and reappear in any order.
CompleteInOrder ==
  \A i, j \in DOMAIN emitted :
    i < j /\ Missing(emitted[i]) = {} /\ Missing(emitted[j]) = {}
      => emitted[i].window <= emitted[j].window

NewlyEmitted == Len(emitted) + 1 .. Len(emitted')

JustifiedEmission(w) ==
  \/ w \in TimedOut(pending)
  \/ /\ Cardinality(DOMAIN pending) >= MaxPending
     /\ \A v \in DOMAIN pending' : w < v

\* A step emits a window with missing sources only when the window has timed
\* out, or when the table was full and no older window stays in it: a backlog
\* never costs a window that still has time while an older one is kept.
IncompleteOnlyWhenLateOrFull ==
  [][\A i \in NewlyEmitted :
       Missing(emitted'[i]) # {} => JustifiedEmission(emitted'[i].window)]_vars

\* Every chunk given to the merger reaches an emitted result, unless the next
\* chunk of its source overwrote it: a source that stops delivering cannot hold
\* the audio of the others back for ever.
EventuallyEmitted ==
  \A s \in Sources : \A k \in 0 .. MaxChunks - 1 :
    (k < sent[s]) ~>
      \/ \E i \in DOMAIN emitted : Holds(emitted[i], s, k)
      \/ k + 1 < sent[s] /\ WindowId(s, k + 1) = WindowId(s, k)
=============================================================================
