------------------------------- MODULE WavFile -------------------------------
(***************************************************************************)
(* FileSink (src/sink/file.rs) as the router drives it: one write at a     *)
(* time, tried again when it fails, then one on_stop; the process may end  *)
(* at any moment.  A sample is named by its chunk and its index in it.     *)
(* std's BufWriter holds samples until it is full or the writer seeks; its *)
(* flush may fail after any part, and then keeps the rest.  A header field *)
(* reaches the disk as a whole.                                            *)
(***************************************************************************)
EXTENDS Naturals, SequencesExt, FiniteSetsExt

CONSTANTS
  BufferSize,     \* samples that fit in the BufWriter
  RetryAttempts,  \* sink_retry_attempts
  Word,           \* 2^32: the sizes in the header are u32
  ChunkSizes,     \* numbers of samples in a chunk
  MaxChunks       \* bound: chunks written

ASSUME WavAssumption ==
  /\ BufferSize \in Nat \ {0} /\ RetryAttempts \in Nat /\ Word \in Nat \ {0}
  /\ ChunkSizes \subseteq Nat \ {0} /\ MaxChunks \in Nat

VARIABLES
  step,            \* where the sink is in write or on_stop
  chunk,           \* the number of the chunk being written
  size,            \* its samples
  put,             \* how many of them this attempt has handed to the writer
  attempts,        \* failed attempts of write_to_sink
  writer,          \* whether FileState.writer is Some
  samplesWritten,  \* FileState.samples_written
  buffer,          \* contents of the BufWriter
  data,            \* samples in the file
  riffSize,        \* the fields of the header in the file
  dataSize,
  accepted,        \* history: the chunks whose write returned Ok, with their sizes
  faulty           \* history: whether an operation on the file failed

header    == <<riffSize, dataSize>>
writeVars == <<chunk, size, put, attempts, samplesWritten, accepted>>
vars      == <<step, writeVars, writer, buffer, data, header, faulty>>

\* The file size in the header leaves out the first 8 of the header's 44 bytes.
HeaderRest == 36

Init ==
  /\ step = "idle" /\ chunk = 0 /\ size = 0 /\ put = 0 /\ attempts = 0
  /\ writer = FALSE /\ samplesWritten = 0 /\ buffer = <<>> /\ data = <<>>
  /\ riffSize = 0 /\ dataSize = 0 /\ accepted = <<>> /\ faulty = FALSE

-----------------------------------------------------------------------------
\* The router calls write with the next chunk, of n samples.
Write(n) ==
  /\ step = "idle" /\ chunk < MaxChunks
  /\ chunk' = chunk + 1 /\ size' = n /\ put' = 0 /\ attempts' = 0
  /\ step' = IF writer THEN "samples" ELSE "create"
  /\ UNCHANGED <<writer, samplesWritten, buffer, data, header, accepted, faulty>>

\* File::create empties the file; the placeholder header goes to the buffer ahead
\* of all samples, and counts as in the file at once.
Create ==
  /\ step = "create"
  /\ writer' = TRUE /\ buffer' = <<>> /\ data' = <<>>
  /\ riffSize' = HeaderRest % Word /\ dataSize' = 0 /\ step' = "samples"
  /\ UNCHANGED <<writeVars, faulty>>

\* A plausible bug: an error drops the writer, and the retry creates the file anew.
FailedDropsWriter ==
  /\ faulty' = TRUE /\ put' = 0 /\ attempts' = attempts + 1 /\ writer' = FALSE
  /\ step' = IF attempts' >= RetryAttempts THEN "idle" ELSE "create"
  /\ UNCHANGED <<chunk, size, samplesWritten, header, accepted>>

\* The write returns an error: the router tries again or gives the chunk up.
Failed ==
  /\ faulty' = TRUE /\ put' = 0 /\ attempts' = attempts + 1
  /\ step' = IF attempts' >= RetryAttempts THEN "idle" ELSE step
  /\ UNCHANGED <<chunk, size, writer, samplesWritten, header, accepted>>

CreateFails == step = "create" /\ Failed /\ UNCHANGED <<buffer, data>>

\* Plausible bugs: the buffer has no bound; samples_written counts chunks.
PutSampleUnbounded ==
  /\ step = "samples" /\ put' = put + 1
  /\ buffer' = Append(buffer, <<chunk, put + 1>>)
  /\ step' = IF put' = size THEN "idle" ELSE step
  /\ samplesWritten' = IF put' = size THEN samplesWritten + size ELSE samplesWritten
  /\ UNCHANGED <<chunk, size, attempts, accepted, writer, data, header, faulty>>
PutSampleCountsOne ==
  /\ step = "samples" /\ Len(buffer) < BufferSize
  /\ buffer' = Append(buffer, <<chunk, put + 1>>)
  /\ put' = put + 1
  /\ IF put' = size
       THEN /\ samplesWritten' = samplesWritten + 1 /\ step' = "idle"
            /\ accepted' = Append(accepted, [chunk |-> chunk, size |-> size])
       ELSE UNCHANGED <<samplesWritten, step, accepted>>
  /\ UNCHANGED <<chunk, size, attempts, writer, data, header, faulty>>

\* write_all of one sample; after the last one the chunk counts as written.
PutSample ==
  /\ step = "samples" /\ Len(buffer) < BufferSize
  /\ buffer' = Append(buffer, <<chunk, put + 1>>)
  /\ put' = put + 1
  /\ IF put' = size
       THEN /\ samplesWritten' = samplesWritten + size /\ step' = "idle"
            /\ accepted' = Append(accepted, [chunk |-> chunk, size |-> size])
       ELSE UNCHANGED <<samplesWritten, step, accepted>>
  /\ UNCHANGED <<chunk, size, attempts, writer, data, header, faulty>>

\* A flush of the buffer, and one that fails after n samples.
Flushed == data' = data \o buffer /\ buffer' = <<>>
FlushedPart(n) ==
  /\ data' = data \o SubSeq(buffer, 1, n)
  /\ buffer' = SubSeq(buffer, n + 1, Len(buffer))
Parts == 0 .. Len(buffer) - 1

\* write_all of a sample that finds the buffer full.
FlushFull ==
  /\ step = "samples" /\ Len(buffer) = BufferSize
  /\ Flushed
  /\ UNCHANGED <<step, writeVars, writer, header, faulty>>

FlushFullFails ==
  /\ step = "samples" /\ Len(buffer) = BufferSize
  /\ \E n \in Parts : FlushedPart(n)
  /\ Failed

\* No write holds the lock: there is none, or it failed and the router waits before
\* it tries again.
Unlocked == step = "idle" \/ (step = "samples" /\ put = 0 /\ attempts > 0)

\* The public flush, by whoever else holds the sink, between two writes or attempts.
Flush ==
  /\ Unlocked /\ writer
  /\ \/ Flushed /\ UNCHANGED faulty
     \/ faulty' = TRUE /\ \E n \in Parts : FlushedPart(n)
  /\ UNCHANGED <<step, writeVars, writer, header>>

-----------------------------------------------------------------------------
\* on_stop: without a writer there is nothing to finalize.
Stop ==
  /\ step = "idle"
  /\ step' = IF writer THEN "seekRiff" ELSE "stopped"
  /\ UNCHANGED <<writeVars, writer, buffer, data, header, faulty>>

\* The sizes as a release build computes them, wrapping.
DataSize == (2 * samplesWritten) % Word
RiffSize == (HeaderRest + DataSize) % Word

\* A plausible bug: the data size comes first.
SeekDataFirst ==
  /\ step = "seekData"
  /\ dataSize' = DataSize /\ step' = "seekEnd"
  /\ UNCHANGED <<writeVars, writer, buffer, data, riffSize, faulty>>

\* update_wav_header: each of its three seeks flushes what was written before it.
SeekRiff ==
  /\ step = "seekRiff"
  /\ Flushed /\ step' = "seekData"
  /\ UNCHANGED <<writeVars, writer, header, faulty>>

SeekData ==
  /\ step = "seekData"
  /\ riffSize' = RiffSize /\ step' = "seekEnd"
  /\ UNCHANGED <<writeVars, writer, buffer, data, dataSize, faulty>>

SeekEnd ==
  /\ step = "seekEnd"
  /\ dataSize' = DataSize /\ writer' = FALSE /\ step' = "stopped"
  /\ UNCHANGED <<writeVars, buffer, data, riffSize, faulty>>

\* finalize_blocking returns the error and keeps the writer.
StopFails ==
  /\ step \in {"seekRiff", "seekData", "seekEnd"}
  /\ \/ step = "seekRiff" /\ \E n \in Parts : FlushedPart(n)
     \/ step # "seekRiff" /\ UNCHANGED <<buffer, data>>
  /\ faulty' = TRUE
  /\ step' = CASE step = "seekRiff" -> "noData" [] step = "seekData" -> "noRiff" [] OTHER -> "noSize"
  /\ UNCHANGED <<writeVars, writer, header>>

\* The sink is dropped with its writer, which tries once more to flush what it
\* still holds, the samples or a field of the header, and ignores the outcome.
DropSink ==
  /\ \/ step = "noData" /\ UNCHANGED header
        /\ \E n \in 0 .. Len(buffer) : data' = data \o SubSeq(buffer, 1, n)
     \/ step = "noRiff" /\ UNCHANGED <<data, dataSize>> /\ riffSize' \in {riffSize, RiffSize}
     \/ step = "noSize" /\ UNCHANGED <<data, riffSize>> /\ dataSize' \in {dataSize, DataSize}
  /\ buffer' = <<>> /\ step' = "dropped" /\ writer' = FALSE
  /\ UNCHANGED <<writeVars, faulty>>

\* The process ends; what the buffer holds is lost.
Crash ==
  /\ step \notin {"stopped", "dropped", "crashed"}
  /\ step' = "crashed" /\ buffer' = <<>> /\ writer' = FALSE
  /\ UNCHANGED <<writeVars, data, header, faulty>>

Next ==
  \/ \E n \in ChunkSizes : Write(n)
  \/ Create \/ CreateFails \/ PutSample \/ FlushFull \/ FlushFullFails \/ Flush
  \/ Stop \/ SeekRiff \/ SeekData \/ SeekEnd \/ StopFails \/ DropSink \/ Crash

Spec == Init /\ [][Next]_vars

-----------------------------------------------------------------------------
Samples == (1 .. MaxChunks) \X Nat

\* The state has the shape of the code's data.
TypeOK ==
  /\ step \in {"idle", "create", "samples", "seekRiff", "seekData", "seekEnd", "stopped",
               "noData", "noRiff", "noSize", "dropped", "crashed"}
  /\ chunk \in 0 .. MaxChunks /\ size \in ChunkSizes \cup {0} /\ put \in 0 .. size
  /\ attempts \in 0 .. RetryAttempts + 1 /\ {writer, faulty} \subseteq BOOLEAN
  /\ samplesWritten \in Nat /\ {buffer, data} \subseteq Seq(Samples)
  /\ Len(buffer) <= BufferSize
  /\ {riffSize, dataSize} \subseteq 0 .. Word - 1
  /\ accepted \in Seq([chunk : 1 .. MaxChunks, size : ChunkSizes])

Stream == data \o buffer

\* What precedes the whole samples of a chunk in the stream, wherever they occur.
Before(a) == {i \in 0 .. Len(Stream) - a.size : \A j \in 1 .. a.size : Stream[i + j] = <<a.chunk, j>>}

\* A chunk whose write returned Ok is in the file or the buffer as a whole, and
\* such chunks are in order, whatever failed before or between them; after an
\* on_stop that returned Ok all of it is in the file.
AcceptedIntact ==
  /\ step \notin {"crashed", "dropped"} =>
       /\ \A i \in DOMAIN accepted : Before(accepted[i]) # {}
       /\ \A i, j \in DOMAIN accepted : i < j =>
            \A p \in Before(accepted[i]), q \in Before(accepted[j]) : p + accepted[i].size <= q
  /\ step = "stopped" => buffer = <<>>

\* The header never promises more data than the file holds, also after a crash at
\* any point, a stop that failed half-way, and sizes beyond 32 bits; and the data
\* size is set only after the size of the whole file.
HeaderNeverOverstates ==
  /\ dataSize <= 2 * Len(data)
  /\ dataSize # 0 => riffSize = (HeaderRest + dataSize) % Word

\* The samples of the chunks whose write returned Ok, and their order.
AcceptedSamples == UNION {{<<a.chunk, j>> : j \in 1 .. a.size} : a \in Range(accepted)}
Precedes(x, y) == x[1] < y[1] \/ (x[1] = y[1] /\ x[2] < y[2])

\* A recording during which nothing failed is exactly the chunks written, each
\* sample once and in its place, and the header says so if their size fits.
CleanRecording ==
  step = "stopped" /\ ~faulty =>
    /\ Range(data) = AcceptedSamples
    /\ \A i, j \in DOMAIN data : i < j => Precedes(data[i], data[j])
    /\ 2 * Len(data) < Word => dataSize = 2 * Len(data)

-----------------------------------------------------------------------------
\* Not so: file.rs says that on_stop "finalizes the WAV file by updating the
\* header with actual sizes".  It fails even when the router gave no chunk up: a
\* write that fails half-way leaves samples which its retry writes again.
HeaderHasActualSizes ==
  step = "stopped" /\ Len(accepted) = chunk /\ 2 * Len(data) < Word =>
    dataSize = 2 * Len(data)
=============================================================================
