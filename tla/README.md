# TLA+ models of stream-audio

stream-audio captures audio from one or more devices and delivers it to sinks.
This directory holds TLA+ modules that model its pipeline, TLC configurations
that check them on small instances, and proofs that TLAPS checks for every
instance. Paths below are relative to the repository; its crate is in `src/src`.

Run the tools in this directory, for example

    tlc -config Merger.cfg MCMerger.tla
    tlc -config Pipeline.cfg MCPipeline.tla
    tlapm Merger_proofs.tla

## 1. The system

    device callback --> ring --> capture bridge --+
    device callback --> ring --> capture bridge --+--> chunk channel --> router --> sinks
                                                       (capacity 100)      |  ^
    Session::stop / drop -- running flag, Stop command -----------------> merger

| Component | State | Operations | Interacts with |
| --- | --- | --- | --- |
| `AudioDevice`, `CaptureStream` (`source/device.rs`) | ring producer, a stream that runs while held | i16 callback (one `push_slice`), f32 callback (`try_push` per sample), drop | the ring, from a thread of its own that never waits |
| `AudioBuffer` (`pipeline/ring_buffer.rs`) | ring consumer, chunk size | `has_chunk`, `try_read_chunk`, `drain` | pops sample by sample while the device pushes |
| `CaptureBridge` (`pipeline/capture.rs`) | output timestamp, a chunk in hand | `run`, `process_next_chunk`, `drain_remaining` | reads the running flag, sends to the chunk channel, waits when it is full |
| `RoutingTable` (`pipeline/routing.rs`) | broadcast sinks, direct routes, merge groups; fixed | look-ups | router |
| `TimeWindowMerger` (`pipeline/merger.rs`) | pending windows | `add_chunk`, `check_timeouts`, eviction, `merge_chunks` | router, the clock |
| `Router` (`pipeline/router.rs`) | position in `run`, writes in progress | `with_routing`, `start_sinks`; select over chunk, Stop and merge tick; `route_chunk`, `write_to_sink` with retries, `drain_and_finalize`, `stop_sinks` | channels, merger, sinks |
| `Session` (`session.rs`) | running flag, task handles, streams | `stop`, `Drop` | sends Stop, waits for tasks with a timeout, then drops the streams |
| `StreamAudioBuilder` (`builder.rs`) | sources and routes, in order | `add_source`, `add_sink*`, `validate`, `start` | creates all of the above, one after the other |
| `FileSink`, `ChannelSink` (`sink/`) | WAV writer and counts; a sender | `on_start`, `write`, `flush`, `on_stop` | called by the router; the user reads from the channel |
| `FormatConverter` (`format/`) | none | channel conversion, then resampling in `f64`, chunk by chunk | called by the bridge |
| events, errors, configuration | plain data | | |

What is hard about it:

* concurrency: a device thread per source against its bridge; the bridges against
  each other on one bounded channel; chunk, tick and Stop in the router's select;
* ordering at shutdown: the flag, the Stop command, the drains of the rings, the drain
  of the channel and the drop of the streams are steps of different tasks;
* time: windows time out, waits of `stop` give up, retries delay;
* failure: writes that fail and are retried; a stop that is cancelled; a start that
  fails half-way; a recording cut off before its header is written;
* limits: a full ring, a full channel, the limit on pending windows, a user who does not read
  from a channel sink;
* numbers: lengths and values rounded chunk by chunk, sizes that wrap.

What makes each part correct:

* ring and bridge: samples pass in order, none twice; only a full ring loses any; a
  timestamp is the time of capture; chunks are whole frames; the bridge ends after a stop;
* channel and router: nothing is lost or reordered between bridge and router; each
  sink gets exactly what its route asks for, in order, whatever other sinks do; merge
  results reach the merged sinks once;
* merger: nothing is combined twice, nothing is dropped, no window waits for ever;
  incomplete windows come out only when they must;
* session: after `stop`, all tasks have ended, all sinks were stopped once, and no
  captured audio is left behind;
* converter: each output sample is on the line between the right two frames of the right channel;
* file sink: the header agrees with the data, and each sample is in the file once;
* builder: what it accepts, the router and merger are made for; a start that fails leaves nothing running.

Section 6 says which of these do not hold.

## 2. The modules

* `MergeWindows`: the window table as operators. A chunk is its source and index,
  its timestamp the index times the duration of that source's chunks (`ChunkTime`), since the bridge advances the timestamp
  by the duration of each chunk; sources differ in it with the rates of their devices. `Insert`, `Completed`, `Excess`, `TimedOut`,
  `Without`, `Results` are the pieces of `add_chunk`, `evict_excess_windows`,
  `check_timeouts` and `emit_window`. `AddChunkOutcomes` and `CheckTimeoutsOutcomes` put
  them together as whole calls. An outcome is a set member because the order in which a
  `HashMap` is iterated is free. A window's age counts clock ticks up to the timeout.
* `Merger`: the merger under any interleaving of chunks, time and timeout checks. `MCMerger` gives its sources chunks of
  different durations.
* `MergeWindows_proofs`, `Merger_proofs`: lemmas about these operators, theorems about `Merger`.
* `Routing`: which sinks get which audio, for any assignment of routes: the meaning of the
  tables of `RoutingTable` and of its look-ups.
* `Builder`: from the user's calls to those tables. Sources and sinks are added in any order and with any
  ids; `Start` is `validate`; `SortSink` and `UnknownSource` are the turns of the loop of
  `RoutingTable::new`; `MakeRouter` is `Router::with_routing`.
* `Builder_proofs`: theorems about `Builder`.
* `Pipeline`: a session from the call of `start`, chunk by chunk.
  * `toStart` and `toOpen` are what `start` has still to do: `StartSink`, `SpawnRouter`, then `OpenSource` for
    one source after the other. `StartSink` and `OpenFails` may fail; `session` is then `"failed"`, the streams are
    dropped and what was spawned runs on. `streams` are the devices that deliver.
  * `captured`, `read`, `hand` count the chunks in a ring, taken from it, and still to be
    sent; `bridge` is the position in `CaptureBridge::run`: the check of the flag and the
    poll after the tick are separate steps, and so is each send.
  * `chan` and `cmd` are the channels. `router` is the position in `Router::run`; `work` is
    what it still has to do for the chunk or tick in hand: writes to a set of sinks
    (`join_all`, so they return in any order) and the call of the merger, whose results
    are further writes. `attempts` counts the failures of a write.
  * `inbox` and `reading` are the user's side of a channel sink: how much is in the channel and whether
    the receiver is still there. A write waits for room (`HasRoom`) and fails once the receiver is dropped.
  * `session` and `toJoin` are also the position in `stop_internal`. `JoinCapture` and
    `JoinRouter` end when the task is done or, at any time, by the timeout.
  * `taken`, `written`, `gaveUp`, `stops`, `timedOut` and `merged` (the results that the merger has returned, in
    order) are history for the properties.
* `Pipeline_proofs`, `Delivery_proofs`: theorems about `Pipeline`: types and channel, start and stop; what
  the sinks get, the refinement of `Merger` and what follows for merged sinks.
* `MCPipeline`: sinks and routes for the runs of `Pipeline`.
* `Capture`: one source, sample by sample. `CallbackI16` is one `push_slice`,
  `CallbackF32` and `TryPush` are the loop of the f32 callback, `TryPop` and `PopRest` the
  pops of `AudioBuffer`. `Stop`, `DropStream` and `RouterExit` are what the rest of the
  session does to the bridge, in the order the session guarantees and no other; the streams may be dropped with the
  running flag still set, by a start that fails. A chunk's timestamp is in nanoseconds: `Durations` is what
  `AudioChunk::duration` makes of a converted chunk, rounded to the nearest nanosecond, and `Advance` adds it up. `NanosPerSec`
  is a constant so that a small value of it makes rounding matter in a small instance. `Pieces` lines up what is
  left of the captured samples: the chunks sent, those to be sent, the one being read, the ring.
* `LossyStream`: what a source promises, whatever its threads and buffers: `Supply` takes the first of the samples offered,
  all of them unless a whole buffer is under way; `Deliver` hands over the oldest samples under way as one ascending
  batch; after `Close` the oldest may be thrown away (`Discard`). `Capture` implements it.
* `Capture_proofs`: theorems about `Capture`, and the refinement of `LossyStream`.
* `Format`: the conversion of one chunk as operators on sequences of samples. Arithmetic is exact
  except where the code's `f64` may miss a whole number: a length `n * to / from` that is a whole number may come out above it and
  be rounded up once more (441 frames from 44100 to 48000 Hz give 481), which the constant `Inexact` lists; an interpolated value
  that is a whole number may come out below it and be truncated (`MayBeMissed`), which is left open.
* `Mixing`: chunks of devices of several formats, converted and averaged: `convert_chunk`, then
  `merge_chunks`, with the length of whichever chunk the `HashMap` yields first. The frames of a whole chunk, `rate * duration`, are also
  an `f64` product: one that is a whole number may come out below it and be truncated to one frame less (48000 Hz and 290 ms
  give 13919), at the rates that the constant `Short` lists (`ComesOutShort`). A chunk is whole or the last
  one, of any length: also longer than a whole one, by up to `MaxExtra` samples, for the device may push while the last loop of
  `drain` pops. `MCMixing` has its devices and presets.
* `Mixing_proofs`: lemmas about the operators of `Format` and about sums over sets, theorems about `Mixing`.
* `WavFile`: `FileSink`, as the router drives it: one write at a time, retried when it fails, then
  one `on_stop`. `step` is the position in `write_samples_blocking` or
  `update_wav_header`. `Flush` is the public `flush`, by whoever else holds the sink, whenever
  no write has the lock (`Unlocked`): between two writes, or between an attempt that failed and its retry. `buffer` is what the `BufWriter` holds; `data`, `riffSize` and `dataSize` are
  what is in the file. `FlushFull` and the three seeks write the buffer out, and each may
  fail after any part of it (`FlushFullFails`, `StopFails`). `Crash` ends the process at any point, and
  `DropSink` is the writer's last attempt to flush after an `on_stop` that failed. `accepted` (the chunks whose
  write returned `Ok`) and `faulty` are history; `Stream` is the file followed by the buffer. The placeholder header counts as
  in the file at once: it goes to the buffer before any sample, so no sample is in the file without it.
* `WavFile_proofs`: theorems about `WavFile`.

`Pipeline` uses the operators of `MergeWindows` and `Routing`, and it is shown to implement
`Merger`. `Builder` builds what `Pipeline` takes as constants: `AcceptedIsSound` gives `ValidRoutes` and `ValidSession`, which
`PipelineAssumption` asks for, and `TablesFollowRoutes` says that the tables mean what `Routing` says. `WavFile` stands for one
of the sinks of `Pipeline` whose writes may fail. `Capture` refines in detail what `Pipeline` does in `Capture`,
`BridgePoll` and `BridgeDrain`, and takes its lengths from `Format`; what `Merger` puts in a window, `Mixing` averages. In each module an
operator introduced as a plausible bug is not part of the specification: it is put in the place of the definition
that follows it to see that a property notices.

## 3. The runs

| Run | Bounds | States | What it shows |
| --- | --- | --- | --- |
| `merger` | 2 sources, 5 chunks each, of 2 and 4 units, windows of 3 units, 2 pending, timeout of 1 tick | 66k | all invariants of the merger, its action property and `EventuallyEmitted` |
| `pipeline` | 2 sources with 2 and 1 chunks, channel of 1, 4 sinks: two broadcast (one unreliable, one that may fail to start), a direct and a merged one; the second source may fail to open; 2 attempts, 1 pending window | 985k | `ChannelLossless`, `EachAccounted`, `InOrder`, `StopMeansStopped`, `WrittenBetweenStartAndStop`, `ImplementsMerger`, `MergedInOrder`, `MergedAudioSound` |
| `pipeline_live` | 2 sources, 1 chunk each, channel of 1, a channel sink of capacity 1 and a merged sink; the second source may fail to open | 183k | `EventuallyWritten`, `ShutsDown`, `StopReturns` |
| `capture` | stereo, chunks of 2 frames, ring of 3, callbacks of 1 or 2, 7 frames in all, rate 3 to 2 or unchanged, 5 nanoseconds in a second; both sample formats | 367k | `SamplesInOrder`, `LostOnlyWhenFull`, `TimestampDrift`, `WholeChunks`, `ImplementsLossyStream`, `DrainEnds` |
| `mixing` | 2 sources; devices of rates 2, 4, 5, 6, mono and stereo; target of rate 4, mono, stereo or native; half a second, one frame short at rate 4; one length rounded up; last chunks longer by up to a sample; extreme samples | 347k | `ConvertedSound`, `LengthsAgree`, `MixIsAverage` |
| `wav_file` | 3 chunks of 1 or 3 samples, a buffer of 2, 2 attempts, sizes modulo 16 | 26k | `AcceptedIntact`, `HeaderNeverOverstates`, `CleanRecording` |
| `builder` | 3 ids, up to 3 sources and 3 sinks in every order, all routes | 227k | `AcceptedIsSound`, `RefusedForAFault`, `TablesFollowRoutes` |
| `stop_loses_audio`, `stop_keeps_windows`, `merge_ignores_route`, `failed_start`, `retry_repeats_samples` | as small as shows the case | | counterexamples, section 6 |

Why the bounds are enough for the cases that matter. In `merger`, the five chunks of the first source fall into
windows 0, 0, 1, 2, 2, those of the second into 0, 1, 2, 4, 5: a chunk supersedes its predecessor, a window is never reached by one of the
sources, more than two windows are open when only two may be, every window can time out at any point and be created again by a late
chunk. In the pipeline runs a
channel of one chunk is contended by two bridges, so each of them is
blocked at times; a source with two chunks is what order, eviction with one pending
window and a drain that has more than one chunk to send need; two attempts are the
fewest with a retry. The start fails before the router exists (a sink) and after a source is already delivering
(the second source). In `pipeline_live` two chunks come for a channel of one, so the
user who does not read blocks the router. In `capture` the ring is smaller than two chunks, so it fills,
also by half a frame, while a chunk is being popped, and a chunk of 2 frames at rate 3 becomes 2 frames at rate 2, more than the
4/3 it lasts: the timestamps are late from the second chunk on. Unconverted, it lasts 10/3 of the instance's nanoseconds and is rounded
down: the timestamps are early. Both happen after losses too, and chunks that start with the second channel. In `mixing` whole chunks
have 1 to 3 frames, so there is one to
interpolate, one to hold and one to drop; a chunk of the preset's own rate is one frame short while another is rounded up, where lengths
differ by two; the extremes are where sums could leave 16 bits. In `wav_file` the buffer
is smaller than a chunk, so a flush comes, and fails, in the middle
of one; two attempts let a retry follow; nine samples take more bytes than the modulus, so
the sizes wrap as they do in a release build after 2^32 bytes. In `builder`, three sources are needed for a
repetition that is not between neighbours, and three sinks for a group of two with another sink between them. Deadlock is not
checked where the system really stops: once the tasks of a session
have ended and the bound on captured audio is reached nothing is left to do.

Fairness, and why it is justified:

* `Merger`: time passes and the router's interval fires again and again (`tokio::time::interval`,
  `Router::create_timeout_interval`). No source is obliged to deliver.
* `Pipeline`: `start` goes on once called; each task runs on (weak fairness per bridge and for the router); a sink
  that can answer a write does, with success or an error, which is an assumption on sinks, except that
  a write to a channel sink can answer only when there is room or no receiver; `tokio::select!` picks at random among
  the ready branches, so neither chunks nor Stop can be passed over for ever (strong fairness
  of the two); a `stop` that has begun is polled on. Devices need not deliver, users need not read from a channel sink, and
  nobody needs to call `stop`. A user who never reads again is `[]Blocked` in the liveness properties; `StopReturns` holds even then.
* `Capture`: the bridge runs on, and a callback that has begun ends.

`Supply` and `MaxSamples` bound what a device delivers in all. So the liveness
properties do not speak of a device that outpaces its bridge for ever, which would keep the
inner loops of `run` and `drain` going until the stream is dropped.

Refinement: `ImplementsMerger` maps `sent` to `Fed`, the chunks that the router has received except one whose call of
`add_chunk` is still to come, and `emitted` to `merged`, the results that the merger has returned. Each step of the pipeline
is then a step of `Merger` or a stutter. `MergedInOrder` says how these results reach the sinks in `SureMerged`, the merged sinks
that are neither unreliable nor channel sinks: such a sink has got a prefix of them, and the rest, in order, is what the
router is still to write to it. `MergedAudioSound` states what the two give together: in what such a sink gets, no chunk is mixed in
twice, complete windows are in order, and what is missing was replaced or is still pending.

`ImplementsLossyStream` maps `supplied` to `heard`, what is under way to the samples in the ring, in the bridge's hands and in
chunks not yet sent (`InTransit`), and the batches to the samples of the chunks sent. The i16 callback is then one
`Supply`, the f32 callback one for each sample, a chunk sent a `Deliver`, a chunk that finds no router a `Discard`, and the pops
are stutters. What `SamplesInOrder` and `LostOnlyWhenFull` say of single states and steps is here one promise over the
whole behaviour, in which ring, chunks and bridge no longer appear.

## 4. What is proved

Each safety property of the passing runs, invariant, action property or refinement, is a theorem for every value of
the constants that the named assumptions allow.

### The merger

`MergeWindows_proofs` and `Merger_proofs`, from `MergeAssumption` (finitely many sources, at least one; positive
durations; any limit and timeout) and `BoundAssumption` (any number of chunks).

| Theorem | Property |
| --- | --- |
| `Invariant` | `IInv`, inductive |
| `TypeCorrect` | `TypeOK` |
| `CompleteLeavesAtOnce` | `PendingIncomplete` |
| `Backlog` | `PendingBounded` |
| `NoDuplicates` | `EmittedOnce` |
| `NothingElseLost` | `LostOnlyIfSuperseded` |
| `Ordered` | `CompleteInOrder` |
| `Justified` | `IncompleteOnlyWhenLateOrFull` |

The argument. `EmittedOnce` is not inductive: it says where a chunk is, but not why an
emitted chunk cannot come back. The invariant `IInv` adds `Sound`, three facts about the table,
the results and the counts: every chunk is below its source's count and in the window
of its timestamp (`Housed`); it is in one place (`Once`); and one that is nowhere was
overwritten by the next of its source in the same window (`Kept`). `InsertSound` shows that an
insertion keeps `Sound`: the new chunk is above everything placed before, and the one it
overwrites is its predecessor, because ids grow with the index (`WindowMonotone`). `EmitSound` shows
that emitting any set of windows, each once, keeps it. `add_chunk` is an insertion and
such an emission (`AddChunkParts`), `check_timeouts` an emission. For `CompleteInOrder`, a window
is completed only by the latest chunk of some source, so every source has delivered a chunk of
an earlier complete window before (`EmitStep`). For `Justified`,
`EvictedIsOldest` shows that what the eviction removes is older than all that it keeps.

### The session

`Pipeline_proofs` and `Delivery_proofs`, from `MergeAssumption` and `PipelineAssumption`: any
sources, sinks and valid routes, any capacities, numbers of attempts and amounts of captured audio, any sinks and
devices that fail.

| Theorem | Property |
| --- | --- |
| `ChannelInvariant` | `ChannelInv`, inductive |
| `TypeCorrect` | `TypeOK` |
| `NothingLostInChannel` | `ChannelLossless` |
| `LifeInvariant` | `LifeInv`, inductive with `ChannelInv` |
| `StopIsComplete` | `StopMeansStopped` |
| `SinkProtocol` | `WrittenBetweenStartAndStop` |
| `DeliveryInvariant` | `DeliveryInv`, inductive with `ChannelInv` |
| `EachOnce` | `EachAccounted` |
| `OrderKept` | `InOrder` |
| `ResultsInOrder` | `MergedInOrder` |
| `DrivesTheMerger` | `ImplementsMerger` |
| `MergedAudio` | `MergedAudioSound` |

The channel. `ChannelLossless` needs to know what a bridge has in its hands at each of its steps (`Counts`) and that a
source not yet opened has no bridge (`Unopened`); a send appends the next chunk of its source, and the head of the channel is
the next one the router takes (`HeadIsNext`). Types need facts about the sequences the code makes of sets: `ListOf` for
a set listed in any order, `GroupList` for the merge groups, and `ResultWrites` for what the router makes of the merger's results.

Start and stop. `LifeInv` says that the router writes only after the sinks are started and before they are
stopped (`Running`), which sinks are already stopped (`Stopping`), and which tasks a stop that has not timed out has
waited for (`Joining`). It uses that a bridge that has ended never starts again (`DoneStays`).

What a sink gets. `EachAccounted` counts; the invariant says instead where a chunk is. `Exclusive`: at
a sink that is to get it, a chunk that was received is in exactly one of three places, in the list of work, in what was written, or among the
given up, and at every other sink in none; `AccountsOf` turns that into the count. `WorkShape` says what
the list of work can look like: writes of one chunk, then at most one call of the merger, or writes of results.
`ReturnedMoves` says what an answered write does to this list. A chunk is received only when the list
is empty (`ReceiveDelivers`), so the new writes are the only ones of that chunk.

Merged sinks. `MergedInOrder` is inductive with these: its `place` is the witness that carries over, extended by the
writes that a call of the merger makes (`MergeQueues`) and shortened when a write succeeds (`WriteAdvances`).

The refinement, step by step: a received chunk that is still to be fed, and a write, are stutters
(`ReceiveStutters`, `WriteStutters`); the call of `add_chunk` is `AddChunk` (`FeedImplements`), a tick of the
interval and a timeout check at shutdown `CheckTimeouts` (`TimeoutImplements`), the clock `Tick` (`TickImplements`). The lemmas
`Same...` say that the operators of `MergeWindows` mean the same in both modules.

From end to end. `Proved` is `Merger_proofs` under the same mapping. Its assumptions hold here
(`MergerAssumptions`), so its invariant holds of every step of the pipeline (`MergerInvariant`), and with it what
`Consequences` draws from it (`MergerSays`). `MergedInOrder` carries that over to what the sink has been given, and when
nothing is left to do the sink has got all results (`AllGot`): `MergedAudioSound`.

### The file sink

`WavFile_proofs`, from `WavAssumption`: any sizes of buffer, chunks and counters, any number of attempts.

| Theorem | Property |
| --- | --- |
| `WavInvariant` | `WavInv`, inductive |
| `TypeCorrect` | `TypeOK` |
| `HeaderSafe` | `HeaderNeverOverstates` |
| `AcceptedStays` | `AcceptedIntact` |
| `Clean` | `CleanRecording` |

The argument. The stream, the file followed by the buffer, is what nearly all steps leave alone: a flush only moves the boundary, whole
or in part (`FlushMoves`), and a step either appends one sample or keeps the stream (`StreamSteps`). The samples of the attempt
in progress are its last ones, after at least as many as `samples_written` counts (`Counted`), so when the header is
written, with all samples flushed, it cannot say more than there is (`HeaderLast`); sizes that wrap only become smaller (`Wrapped`).
Chunks are in the stream in the order of their numbers, so what is in a chunk's place stays there when later ones, or
attempts that fail, are appended (`ChunksInOrder`); and as long as nothing fails the stream is exactly what was accepted (`Exact`).

### The source

`Capture_proofs`, from `CaptureAssumption`: any rates, mono or stereo, any size of ring, any chunks and
callbacks of whole frames.

| Theorem | Property |
| --- | --- |
| `CaptureInvariant` | `CaptureInv`, inductive |
| `TypeCorrect` | `TypeOK` |
| `OrderKept` | `SamplesInOrder` |
| `ChunksWhole` | `WholeChunks` |
| `LossMeansFull` | `LostOnlyWhenFull` |
| `DriftBounded` | `TimestampDrift` |
| `StreamImplemented` | `ImplementsLossyStream` |

The argument. A sample is in the ring, in the chunk being read, in a chunk to be sent or in one sent. The invariant says what holds
where the bridge is (`Steps`); that the pieces are ascending and follow one another (`Ordered`); that only what the drain finds at the
end differs from a chunk in length (`Whole`); and that the timestamp of the i-th chunk is within `i - 1` times half a nanosecond
of `i - 1` times the exact duration of a whole one (`Stamped`, `Due`). Every
step is one of few kinds (`Moves`): the device delivers, a sample is popped, a popped sample or the end of the ring ends a chunk, the chunk in
front is dropped, or nothing moves; each part is shown for the kinds. What is kept only grows when the device delivers
(`DeliversKeeps`), stays as it is when samples only move (`PopsKeeps`), and shrinks only when a send fails because the router has gone, so
a loss before that is at the ring, and the ring
is then full. For the drift, what was lost before a chunk is counted: the samples kept that are older than its first one are those of the
chunks before it (`KeptBefore`), which are whole, so they are `(i - 1) * ChunkSize` (`CountBefore`, by a bijection), and
the place of the chunk is that many samples, whatever was lost. The rest is arithmetic: the difference between `ceil` of one chunk's length,
repeated, and the true length, and one rounding for each chunk (`Resampled`, `NextDue`, `DriftArithmetic`).

The refinement, step by step. What is under way are the samples of all pieces from the first chunk not sent (`TransitFrom`). Pops and ends of
chunks only move samples between these pieces (`PopsFrom`, `Unseen`). A callback adds what fits to the ring (`DeliversFrom`); if it
loses a sample the ring is full, and its samples are as many as its places, because they ascend (`CountFirst`, `FullIsWhole`):
`Supplies`. The chunk in front is below all the rest (`TakesOldest`), and it is its own samples listed in
ascending order (`InOrderOf`), so to send it is to deliver, or without a router to discard, the oldest (`SendsOldest`).

### The conversion and the mix

`Mixing_proofs`, from `MixingAssumption`: any finite set of sources, any rates, mono or stereo, any chunk duration, any samples
of 16 bits, and whatever the arithmetic of `Format` leaves open.

| Theorem | Property |
| --- | --- |
| `MixInvariant` | `MixInv`, inductive |
| `TypeCorrect` | `TypeOK` |
| `SoundIsKept` | `ConvertedSound` |
| `WholeChunksAgree` | `LengthsAgree` |
| `AverageOfAll` | `MixIsAverage` |

The argument. `MixInv` says of the window that each chunk in it is an outcome of the conversion of the samples next to it, and of
the result that it was made from that window; the rest is about the operators. Quotients and remainders are handled through the product
they cut down (`Division`, `Truncates`). `ResampleOnLine`: each output sample of `resample` is within a unit of the interpolated
value, missed whole numbers included. `RechannelledOf` and `StereoChannels` say what the channels of a converted chunk
are, so `ConversionOnLine` holds for each; half a unit on either side for the mean of two channels gives the one and a half of `ConvertedSound`
(`Weighed`). `FramesOfChunk` says what a whole chunk may have, `LengthWithin` bounds its converted
length by the exact one: a frame less is possible only for a chunk of the preset's own rate that came out short. So two differ by at most one,
or by two in that case.

The average is a fold over a set, in an order nobody knows. The prover cannot do an induction over an operator, so the sum is
counted instead: a value `v` of 16 bits is a column of `v + 32768` units, and the sum of a set of sources is the
number of their units less the offset (`Total`). Taking one source out takes its column out (`TotalStep`), so `Total` solves the
recursion of the fold (`TotalIsSum`), and by a smallest set on which another solution would differ it is the only one (`SumIsTotal`). The bounds of the
sum, that it does not leave 16 bits after the division, and that silence adds nothing are then facts about numbers of
elements (`TotalWithin`, `SilenceAddsNothing`).

### The builder

`Builder_proofs`, without assumptions: any ids, any number of sources and sinks.

| Theorem | Property |
| --- | --- |
| `Invariant` | `IInv`, inductive |
| `TypeCorrect` | `TypeOK` |
| `Accepted` | `AcceptedIsSound` |
| `Refused` | `RefusedForAFault` |
| `TablesCorrect` | `TablesFollowRoutes` |

The argument. The three properties speak of the end of `start`; the invariant `IInv` says what the tables hold half-way
through the loop of `RoutingTable::new`: each list has exactly the sinks before `next` with its route, in
ascending order (`BroadcastListed`, `DirectListed`, `MergeListed`), and all of these routes name known sources (`Validated`). `AppendListed` and
`PushListed` show that a sink pushed to the list of its route keeps that; `SortedForStep` says that no
other list is concerned. `Repetitions` shows that comparing each source with those before it finds every repetition: the sequence of ids is
a surjection on their set, and it is injective exactly when nothing is found.

### Only model-checked

* Liveness: `EventuallyEmitted`, `EventuallyWritten`, `ShutsDown`, `StopReturns`, `DrainEnds`. The prover does
  not treat fairness.
* The five runs that end in a counterexample, section 6.

## 5. Plan

In the order of importance; 1 to 11 and 14 are done, 12 and 13 are open.

1. `MergeWindows`, `Merger`, `Merger_proofs`.
2. `Routing`.
3. `Pipeline`, `MCPipeline`: composition of bridges, channel, router, merger, sinks, session.
4. `Capture`.
5. `WavFile`: `FileSink` with a write that fails half-way, its retry, a flush, a stop, and a crash before the
   header is updated; the size modulo 2^32.
6. The start phase of `Pipeline`, with the failure of any sink or device, and a channel sink whose user does not read.
7. `Format` and `Mixing`: the conversion and the averaging of samples; the drift of timestamps in `Capture`.
8. `Builder`, `Builder_proofs`: from the user's calls to the tables of the router.
9. `Pipeline_proofs`, `Delivery_proofs`: every safety property of `Pipeline`, the refinement of
   `Merger`, and what follows for merged sinks, for any number of sources and sinks.
10. `Capture_proofs`: order of samples, whole chunks, drift of timestamps, losses only at a full ring, for all
    sizes; the abstract `LossyStream`, and that `Capture` implements it.
11. `WavFile_proofs`: the header, the accepted chunks and the clean recording, for any word size and any chunks.
12. Formats in `WavFile`: chunks of different rates in one file, under the native preset.
13. The events, and what an `on_event` callback may conclude from their order.
14. `Mixing_proofs`: every safety property of `Mixing`, with the sums of the mix.

## 6. Where code and documentation disagree

Each is a run in which TLC finds the quoted statement violated.

* `stop_loses_audio`: `Session::stop` promises to "Drain any remaining audio in the buffer to
  sinks" (`src/src/session.rs:135`). It sends Stop to the router at once; the router empties the channel,
  stops the sinks and ends, while a bridge still has audio, whose send then fails. No timeout
  is involved, and `stop` returns `Ok`.
* `stop_keeps_windows`: `drain_and_finalize` "Drains remaining chunks and finalizes merge
  windows during shutdown" (`src/src/pipeline/router.rs:311`). It emits the windows that have timed out before the
  drain; the others are dropped with the router.
* `merge_ignores_route`: a merged sink gets audio "from the specified sources"
  (`src/src/builder.rs:205`). There is one merger for all sources, and its results go to every
  merge group.
* `failed_start`: an error of `start` is one of the "Fatal errors that prevent an audio stream from
  starting" (`src/src/error.rs:9`). When the second device fails, the router and the bridge of the first are left running without
  a session, and the sinks get what the first device had captured; none of them is ever stopped.
* `retry_repeats_samples`: on stop the header is updated "with actual sizes"
  (`src/src/sink/file.rs:192`). A write that fails in the middle of a chunk leaves the samples before the
  failure in the file or the buffer, its retry appends the chunk from the start, and
  `samples_written` counts it once: the file then has more data than its header says. The statement is restricted to recordings in which
  no chunk was given up, so TLC's trace is just that: a failure half-way, its retry, and a stop that returns `Ok`.

Met while modelling and visible in the models, without a run of their own:

* `src/README.md:16` promises "Resilient buffering - never drops audio due to slow consumers", and `src/src/config.rs:68` says
  that when the ring fills the oldest audio is dropped and an event is emitted. A slow sink holds up the router, the chunk channel
  and the bridge, until the ring is full; the callbacks then drop
  what does not fit, the newest, and report nothing. The ring's capacity is a constant, not `ring_buffer_duration`
  (`CallbackI16`, `TryPush`). `LostOnlyWhenFull` says that this is the only loss before the router leaves, and `TimestampDrift` what it does
  to the timestamps and to the order of the channels.
* The device is stopped only after `stop` has returned, so the last loop of `drain` can end between the two samples
  of a frame; the converter then drops the half frame (`PopRest`, `FramesIn`).
* A comment at `src/src/pipeline/merger.rs:257` speaks of the minimum length; the code takes the length of the first chunk it meets
  (`MergeChunks`; `LengthsAgree` says by how much that matters).

## 7. Not modelled

* Events, and the texts of errors: values handed to the caller, on which no state depends.
* The setters of the builder that overwrite one value (`format`, `with_config`, `max_pending_windows`,
  `on_event`): their results are the constants of the modules.
* `f32_to_i16` and `i16_to_f32` of `format`, which the pipeline does not call; the f32 callback's own clamp and scaling.
* Enumeration and opening of devices beyond "succeeds or fails", the mock source, examples and tests.
* Panics of tasks, among them those of a merge window below one millisecond or a chunk below one frame, which the builder accepts; named
  assumptions exclude them (`MergeAssumption`, `CaptureAssumption`).
* Devices with more than two channels: the converter passes their samples through unchanged.
* Chunks of several formats in one WAV file, which the native preset allows: the header keeps the format of the first one. Sinks appear in
  `Pipeline` only as something that accepts, rejects or delays a write; what the file sink then does is in `WavFile`.
* A common clock of the sources: each counts from its own start, which `src/src/pipeline/merger.rs:7` states as a limitation.
