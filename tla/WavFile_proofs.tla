---------------------------- MODULE WavFile_proofs ----------------------------
(***************************************************************************)
(* Proofs about WavFile, for every buffer, word and chunk size and every   *)
(* number of attempts: what a chunk that was accepted, and a header that   *)
(* was written, mean for the file, whatever fails and wherever the process *)
(* ends.                                                                   *)
(***************************************************************************)
EXTENDS WavFile, TLAPS, SequenceTheorems

\* Until the process ends or the sink is dropped, what was handed to the writer is
\* in the file or in the buffer.
Live == step \notin {"crashed", "dropped"}

\* What is known where the sink is.
Steps ==
  /\ step \in {"create", "samples"} =>
       size \in ChunkSizes /\ chunk > 0 /\ (attempts = 0 \/ attempts < RetryAttempts)
  /\ step = "create" => ~writer /\ put = 0
  /\ step = "samples" => writer /\ put < size
  /\ step \in {"seekRiff", "seekData", "seekEnd", "noData", "noRiff", "noSize"} => writer
  /\ step \in {"seekData", "seekEnd", "noRiff", "noSize", "stopped"} => buffer = <<>>
  /\ step \in {"noData", "noRiff", "noSize"} => faulty
  /\ step \in {"idle", "create"} /\ ~writer =>
       samplesWritten = 0 /\ data = <<>> /\ buffer = <<>> /\ accepted = <<>>

\* The samples of the attempt in progress are the last ones of the stream, after
\* at least as many as are counted as written.
InHand == IF step = "samples" THEN put ELSE 0

Counted ==
  Live => /\ samplesWritten + InHand <= Len(Stream)
          /\ \A j \in 1 .. InHand : Stream[Len(Stream) - InHand + j] = <<chunk, j>>

\* The fields of the header are written after the samples, the data size last.
HeaderLast ==
  /\ step \notin {"stopped", "dropped", "crashed"} => dataSize = 0
  /\ step \in {"seekEnd", "noSize"} => riffSize = RiffSize
  /\ step = "stopped" => dataSize = DataSize
  /\ HeaderNeverOverstates

\* Chunks come in the order of their numbers, in the stream as in the history, and
\* an accepted one stays whole.
ChunksInOrder ==
  /\ \A i \in DOMAIN accepted : accepted[i].chunk <= chunk
  /\ step \in {"create", "samples"} => \A i \in DOMAIN accepted : accepted[i].chunk < chunk
  /\ \A i, j \in DOMAIN accepted : i < j => accepted[i].chunk < accepted[j].chunk
  /\ Live => /\ \A i \in DOMAIN Stream : Stream[i][1] <= chunk
             /\ \A i, j \in DOMAIN Stream : i <= j => Stream[i][1] <= Stream[j][1]
             /\ \A i \in DOMAIN accepted : Before(accepted[i]) # {}

\* As long as nothing fails, the stream is what was accepted and what is in hand.
Exact ==
  Live /\ ~faulty =>
    /\ Len(Stream) = samplesWritten + InHand
    /\ Range(Stream) = AcceptedSamples \cup {<<chunk, j>> : j \in 1 .. InHand}
    /\ \A i, j \in DOMAIN Stream : i < j => Precedes(Stream[i], Stream[j])

WavInv == TypeOK /\ Steps /\ Counted /\ HeaderLast /\ ChunksInOrder /\ Exact

-----------------------------------------------------------------------------
\* A size as the header's 32 bits hold it: in range, and never more than it is.
LEMMA Wrapped ==
  ASSUME NEW n \in Nat
  PROVE  n % Word \in 0 .. Word - 1 /\ n % Word <= n /\ (n < Word => n % Word = n)
<1> DEFINE q == n \div Word
           r == n % Word
<1>1. Word \in Nat /\ Word > 0
  BY WavAssumption
<1>2. q \in Nat /\ r \in 0 .. Word - 1 /\ n = Word * q + r
  BY <1>1
<1>3. n < Word => n % Word = n
  BY <1>1
<1> HIDE DEF q, r
<1>4. Word * q \in Nat
  BY <1>1, <1>2
<1>5. r <= n
  BY <1>2, <1>4
<1> QED  BY <1>2, <1>3, <1>5 DEF r

\* The sizes written into the header fit 32 bits, and are right below 2^32.
LEMMA Sizes ==
  ASSUME samplesWritten \in Nat
  PROVE  /\ DataSize \in 0 .. Word - 1 /\ DataSize <= 2 * samplesWritten
         /\ 2 * samplesWritten < Word => DataSize = 2 * samplesWritten
         /\ RiffSize \in 0 .. Word - 1 /\ HeaderRest % Word \in 0 .. Word - 1 /\ 0 \in 0 .. Word - 1
<1>1. /\ DataSize \in 0 .. Word - 1 /\ DataSize <= 2 * samplesWritten
      /\ 2 * samplesWritten < Word => DataSize = 2 * samplesWritten
  <2>1. 2 * samplesWritten \in Nat
    OBVIOUS
  <2> QED  BY <2>1, Wrapped, Zenon DEF DataSize
<1>2. RiffSize \in 0 .. Word - 1
  <2>1. HeaderRest + DataSize \in Nat
    BY <1>1 DEF HeaderRest
  <2> QED  BY <2>1, Wrapped, Zenon DEF RiffSize
<1>3. HeaderRest % Word \in 0 .. Word - 1 /\ 0 \in 0 .. Word - 1
  <2>1. HeaderRest \in Nat
    BY DEF HeaderRest
  <2> QED  BY <2>1, Wrapped, WavAssumption
<1> QED  BY <1>1, <1>2, <1>3

\* Two sequences of samples, one after the other.
LEMMA Joined ==
  ASSUME NEW d \in Seq(Samples), NEW p \in Seq(Samples)
  PROVE  d \o p \in Seq(Samples) /\ Len(d \o p) = Len(d) + Len(p)
  OBVIOUS

\* Concatenation is associative.
LEMMA Regrouped ==
  ASSUME NEW d \in Seq(Samples), NEW p \in Seq(Samples), NEW r \in Seq(Samples)
  PROVE  (d \o p) \o r = d \o (p \o r)
<1>1. /\ d \o p \in Seq(Samples) /\ Len(d \o p) = Len(d) + Len(p)
      /\ p \o r \in Seq(Samples) /\ Len(p \o r) = Len(p) + Len(r)
      /\ Len(d) \in Nat /\ Len(p) \in Nat /\ Len(r) \in Nat
  OBVIOUS
<1>2. /\ (d \o p) \o r \in Seq(Samples) /\ d \o (p \o r) \in Seq(Samples)
      /\ Len((d \o p) \o r) = Len(d) + Len(p) + Len(r) /\ Len(d \o (p \o r)) = Len(d) + Len(p) + Len(r)
  BY <1>1
<1>3. ASSUME NEW i \in 1 .. Len(d) + Len(p) + Len(r)
      PROVE  ((d \o p) \o r)[i] = (d \o (p \o r))[i]
  BY <1>1, <1>2
<1> QED  BY <1>2, <1>3, SeqEqual

\* A flush, whole or in part, moves samples from the buffer to the file.
SplitAt(d, b, n, p, r) ==
  /\ d \o p \in Seq(Samples) /\ r \in Seq(Samples)
  /\ Len(r) = Len(b) - n /\ Len(d \o p) = Len(d) + n /\ (d \o p) \o r = d \o b

\* What a flush writes of the buffer moves to the file, and the rest stays.
LEMMA FlushMoves ==
  ASSUME NEW d \in Seq(Samples), NEW b \in Seq(Samples), NEW n \in 0 .. Len(b),
         NEW p, p = SubSeq(b, 1, n), NEW r, r = SubSeq(b, n + 1, Len(b))
  PROVE  SplitAt(d, b, n, p, r)
<1>1. Len(b) \in Nat /\ Len(d) \in Nat /\ \A i \in 1 .. Len(b) : b[i] \in Samples
  OBVIOUS
<1>2. p \in Seq(Samples) /\ Len(p) = n
  BY <1>1, SubSeqProperties
<1>3. r \in Seq(Samples) /\ Len(r) = Len(b) - n
  BY <1>1, SubSeqProperties
<1>4. p \o r = b
  <2>1. 1 \in 1 .. Len(b) + 1 /\ n \in 1 - 1 .. Len(b) /\ Len(b) \in n .. Len(b)
    BY <1>1
  <2>2. p \o r = SubSeq(b, 1, Len(b))
    BY <2>1, ConcatAdjacentSubSeq
  <2> QED  BY <2>2, SubSeqFull
<1>5. (d \o p) \o r = d \o (p \o r)
  BY <1>2, <1>3, Regrouped
<1>6. d \o p \in Seq(Samples) /\ Len(d \o p) = Len(d) + n
  <2>1. d \o p \in Seq(Samples) /\ Len(d \o p) = Len(d) + Len(p)
    BY <1>2, Joined, Zenon
  <2> QED  BY <1>2, <2>1, Zenon
<1> QED  BY <1>3, <1>4, <1>5, <1>6 DEF SplitAt

\* What the type invariant says of the file, the buffer and the stream of both.
LEMMA StreamType ==
  ASSUME TypeOK
  PROVE  /\ data \in Seq(Samples) /\ buffer \in Seq(Samples) /\ Stream \in Seq(Samples)
         /\ Len(Stream) \in Nat /\ DOMAIN Stream = 1 .. Len(Stream)
         /\ Len(Stream) = Len(data) + Len(buffer) /\ Len(data) \in Nat /\ Len(buffer) \in Nat
         /\ buffer = <<>> => Stream = data
<1>1. data \in Seq(Samples) /\ buffer \in Seq(Samples)
  BY DEF TypeOK
<1> QED  BY <1>1, ConcatProperties, ConcatEmptySeq, LenProperties DEF Stream

\* What FlushedPart and Flushed do to the stream: nothing.
LEMMA PartFlushed ==
  ASSUME TypeOK, NEW n \in 0 .. Len(buffer), FlushedPart(n)
  PROVE  /\ data' \in Seq(Samples) /\ buffer' \in Seq(Samples) /\ Len(buffer') <= Len(buffer)
         /\ Len(data) <= Len(data') /\ Stream' = Stream
<1>1. data \in Seq(Samples) /\ buffer \in Seq(Samples) /\ Len(data) \in Nat /\ Len(buffer) \in Nat
  BY StreamType
<1>2. PICK p, r : /\ p = SubSeq(buffer, 1, n) /\ r = SubSeq(buffer, n + 1, Len(buffer))
                  /\ data' = data \o p /\ buffer' = r
  BY DEF FlushedPart
<1>a. SplitAt(data, buffer, n, p, r)
  BY <1>1, <1>2, FlushMoves, Zenon
<1>3. /\ data' \in Seq(Samples) /\ buffer' \in Seq(Samples) /\ Len(buffer') = Len(buffer) - n
      /\ Len(data') = Len(data) + n /\ data' \o buffer' = data \o buffer
  BY <1>2, <1>a, Zenon DEF SplitAt
<1> QED  BY <1>1, <1>3 DEF Stream

\* A complete flush moves all of the buffer.
LEMMA AllFlushed ==
  ASSUME TypeOK, Flushed
  PROVE  /\ data' \in Seq(Samples) /\ buffer' \in Seq(Samples) /\ Len(buffer') <= Len(buffer)
         /\ Len(data) <= Len(data') /\ Stream' = Stream /\ data' = Stream
<1>1. data \in Seq(Samples) /\ buffer \in Seq(Samples) /\ Len(data) \in Nat /\ Len(buffer) \in Nat
  BY StreamType
<1>2. data \o buffer \in Seq(Samples) /\ Len(data \o buffer) = Len(data) + Len(buffer)
  BY <1>1, ConcatProperties
<1>3. data' = data \o buffer /\ buffer' = <<>>
  BY DEF Flushed
<1>4. Stream' = data' \o <<>> /\ data' = Stream
  BY <1>3 DEF Stream
<1>5. Stream' = Stream
  BY <1>2, <1>3, <1>4, ConcatEmptySeq
<1>6. buffer' \in Seq(Samples) /\ Len(buffer') = 0
  BY <1>3
<1> QED  BY <1>1, <1>2, <1>3, <1>4, <1>5, <1>6
\* The fields of the state, without the sequences and without the header.
TypeControl ==
  /\ step \in {"idle", "create", "samples", "seekRiff", "seekData", "seekEnd", "stopped",
               "noData", "noRiff", "noSize", "dropped", "crashed"}
  /\ chunk \in 0 .. MaxChunks /\ size \in ChunkSizes \cup {0} /\ put \in 0 .. size
  /\ attempts \in 0 .. RetryAttempts + 1 /\ {writer, faulty} \subseteq BOOLEAN
  /\ samplesWritten \in Nat
  /\ accepted \in Seq([chunk : 1 .. MaxChunks, size : ChunkSizes])
TypeSamples == data \in Seq(Samples) /\ buffer \in Seq(Samples) /\ Len(buffer) <= BufferSize
TypeHeader == riffSize \in 0 .. Word - 1 /\ dataSize \in 0 .. Word - 1

\* The type invariant in three parts.
LEMMA TypeParts == TypeOK <=> TypeControl /\ TypeSamples /\ TypeHeader
  BY DEF TypeOK, TypeControl, TypeSamples, TypeHeader

\* Each step keeps the types of the sink's control state.
LEMMA ControlType ==
  ASSUME TypeControl, Steps, Next
  PROVE  TypeControl'
<1> USE DEF TypeControl, writeVars
<1>0. /\ RetryAttempts \in Nat /\ MaxChunks \in Nat /\ \A n \in ChunkSizes : n \in Nat /\ n > 0
  BY WavAssumption
<1>1. ASSUME NEW n \in ChunkSizes, Write(n)  PROVE TypeControl'
  BY <1>0, <1>1 DEF Write
<1>2. CASE Create \/ FlushFull \/ Flush \/ Stop \/ SeekRiff \/ SeekData \/ SeekEnd
  BY <1>2 DEF Create, FlushFull, Flush, Stop, SeekRiff, SeekData, SeekEnd
<1>3. CASE StopFails \/ DropSink \/ Crash
  BY <1>3 DEF StopFails, DropSink, Crash
<1>4. CASE CreateFails \/ FlushFullFails
  <2>1. attempts' \in 0 .. RetryAttempts + 1
    BY <1>0, <1>4 DEF CreateFails, FlushFullFails, Failed, Steps
  <2>2. put' \in 0 .. size
    BY <1>0, <1>4 DEF CreateFails, FlushFullFails, Failed, Steps
  <2> QED  BY <1>4, <2>1, <2>2 DEF CreateFails, FlushFullFails, Failed
<1>5. CASE PutSample
  <2>1. put' \in 0 .. size /\ size \in ChunkSizes /\ chunk \in 1 .. MaxChunks /\ size \in Nat
    BY <1>0, <1>5 DEF PutSample, Steps
  <2>2. accepted' \in Seq([chunk : 1 .. MaxChunks, size : ChunkSizes]) /\ samplesWritten' \in Nat
    <3>1. PICK a \in [chunk : 1 .. MaxChunks, size : ChunkSizes] : a = [chunk |-> chunk, size |-> size]
      BY <2>1
    <3>2. /\ accepted' = Append(accepted, a) \/ accepted' = accepted
          /\ samplesWritten' = samplesWritten + size \/ samplesWritten' = samplesWritten
      BY <1>5, <3>1 DEF PutSample
    <3>3. accepted' \in Seq([chunk : 1 .. MaxChunks, size : ChunkSizes])
      <4> DEFINE R == [chunk : 1 .. MaxChunks, size : ChunkSizes]
      <4>1. a \in R /\ accepted \in Seq(R)
        BY <3>1
      <4> HIDE DEF R
      <4>2. accepted' \in Seq(R)
        BY <3>2, <4>1, AppendProperties
      <4> QED  BY <4>2 DEF R
    <3>4. samplesWritten' \in Nat
      BY <2>1, <3>2
    <3> QED  BY <3>3, <3>4
  <2>3. step' \in {"idle", "samples"} /\ UNCHANGED <<chunk, size, attempts, writer, faulty>>
    BY <1>5 DEF PutSample
  <2>4. {writer', faulty'} \subseteq BOOLEAN
    BY <2>3
  <2>5. /\ chunk' \in 0 .. MaxChunks /\ size' \in ChunkSizes \cup {0}
        /\ attempts' \in 0 .. RetryAttempts + 1
    BY <2>3
  <2>6. put' \in 0 .. size'
    BY <2>1, <2>3
  <2> QED  BY <2>2, <2>3, <2>4, <2>5, <2>6
<1> QED  BY <1>1, <1>2, <1>3, <1>4, <1>5 DEF Next

\* Each step keeps the types of the file and the buffer.
LEMMA SamplesType ==
  ASSUME TypeOK, Steps, Next
  PROVE  TypeSamples'
<1>0. /\ TypeSamples /\ BufferSize \in Nat /\ Len(buffer) \in Nat /\ Len(data) \in Nat
      /\ buffer \in Seq(Samples) /\ data \in Seq(Samples) /\ <<>> \in Seq(Samples) /\ Len(<<>>) = 0
  BY TypeParts, StreamType, WavAssumption
<1>1. UNCHANGED <<data, buffer>> => TypeSamples'
  BY <1>0 DEF TypeSamples
<1>2. Flushed => TypeSamples'
  BY <1>0, AllFlushed DEF TypeSamples
<1>3. ASSUME NEW n \in 0 .. Len(buffer), FlushedPart(n)  PROVE TypeSamples'
  <2>1. data' \in Seq(Samples) /\ buffer' \in Seq(Samples) /\ Len(buffer') <= Len(buffer)
    BY <1>3, PartFlushed
  <2> QED  BY <1>0, <2>1 DEF TypeSamples
<1>4. \A n \in Parts : n \in 0 .. Len(buffer)
  BY <1>0 DEF Parts
<1>5. CASE PutSample
  <2>1. <<chunk, put + 1>> \in Samples
    <3>1. chunk \in 1 .. MaxChunks /\ put \in Nat
      BY <1>5, TypeParts, WavAssumption DEF PutSample, Steps, TypeControl
    <3> QED  BY <3>1 DEF Samples
  <2>2. buffer' = Append(buffer, <<chunk, put + 1>>) /\ data' = data /\ Len(buffer) < BufferSize
    BY <1>5 DEF PutSample
  <2> QED  BY <1>0, <2>1, <2>2 DEF TypeSamples
<1>6. CASE Create
  BY <1>0, <1>6 DEF Create, TypeSamples
<1>7. CASE Crash
  BY <1>0, <1>7 DEF Crash, TypeSamples
<1>8. CASE DropSink
  <2>1. data' \in Seq(Samples)
    <3>1. CASE \E n \in 0 .. Len(buffer) : data' = data \o SubSeq(buffer, 1, n)
      <4>1. PICK n \in 0 .. Len(buffer) : data' = data \o SubSeq(buffer, 1, n)
        BY <3>1
      <4>2. PICK p, r : p = SubSeq(buffer, 1, n) /\ r = SubSeq(buffer, n + 1, Len(buffer)) /\ data' = data \o p
        BY <4>1
      <4>3. SplitAt(data, buffer, n, p, r)
        BY <1>0, <4>2, FlushMoves, Zenon
      <4> QED  BY <4>2, <4>3, Zenon DEF SplitAt
    <3>2. CASE data' = data
      BY <1>0, <3>2
    <3> QED  BY <1>8, <3>1, <3>2 DEF DropSink
  <2> QED  BY <1>0, <1>8, <2>1 DEF DropSink, TypeSamples
<1>9. ASSUME NEW n \in ChunkSizes, Write(n)  PROVE TypeSamples'
  BY <1>1, <1>9 DEF Write
<1>10. CASE CreateFails \/ Stop \/ SeekData \/ SeekEnd
  BY <1>1, <1>10 DEF CreateFails, Stop, SeekData, SeekEnd
<1>11. CASE FlushFull \/ FlushFullFails \/ Flush \/ SeekRiff \/ StopFails
  BY <1>1, <1>2, <1>3, <1>4, <1>11 DEF FlushFull, FlushFullFails, Flush, SeekRiff, StopFails
<1> QED  BY <1>5, <1>6, <1>7, <1>8, <1>9, <1>10, <1>11 DEF Next

\* Each step keeps the header's fields within 32 bits.
LEMMA HeaderType ==
  ASSUME TypeOK, Next
  PROVE  TypeHeader'
<1>1. /\ TypeHeader /\ DataSize \in 0 .. Word - 1 /\ RiffSize \in 0 .. Word - 1
      /\ HeaderRest % Word \in 0 .. Word - 1 /\ 0 \in 0 .. Word - 1
  BY TypeParts, Sizes DEF TypeControl
<1> HIDE DEF DataSize, RiffSize
<1> USE <1>1 DEF TypeHeader, header
<1>2. ASSUME NEW n \in ChunkSizes, Write(n)  PROVE TypeHeader'
  BY <1>2 DEF Write
<1>3. CASE Create
  BY <1>3 DEF Create
<1>4. CASE CreateFails \/ PutSample \/ FlushFull \/ FlushFullFails \/ Flush
  BY <1>4 DEF CreateFails, PutSample, FlushFull, FlushFullFails, Flush, Failed
<1>5. CASE Stop \/ SeekRiff \/ SeekData \/ SeekEnd \/ StopFails \/ DropSink \/ Crash
  BY <1>5 DEF Stop, SeekRiff, SeekData, SeekEnd, StopFails, DropSink, Crash
<1> QED  BY <1>2, <1>3, <1>4, <1>5 DEF Next

\* Each step keeps what is known where the sink is.
LEMMA NextSteps == TypeOK /\ Steps /\ Next => Steps'
<1> SUFFICES ASSUME TypeOK, Steps, Next  PROVE Steps'
  OBVIOUS
<1> USE DEF writeVars
<1>0. /\ RetryAttempts \in Nat /\ MaxChunks \in Nat /\ \A n \in ChunkSizes : n \in Nat /\ n > 0
      /\ chunk \in Nat /\ attempts \in Nat /\ put \in Nat /\ size \in Nat
  <2>1. TypeControl
    BY TypeParts
  <2>2. RetryAttempts \in Nat /\ MaxChunks \in Nat /\ \A n \in ChunkSizes : n \in Nat /\ n > 0
    BY WavAssumption
  <2>3. size \in Nat
    BY <2>1, <2>2 DEF TypeControl
  <2> QED  BY <2>1, <2>2, <2>3 DEF TypeControl
<1>1. ASSUME NEW n \in ChunkSizes, Write(n)  PROVE Steps'
  BY <1>0, <1>1 DEF Write, Steps
<1>2. CASE Create
  BY <1>0, <1>2 DEF Create, Steps
<1>3. CASE CreateFails
  BY <1>0, <1>3 DEF CreateFails, Failed, Steps
<1>4. CASE FlushFullFails
  BY <1>0, <1>4 DEF FlushFullFails, Failed, Steps
<1>5. CASE PutSample
  BY <1>0, <1>5 DEF PutSample, Steps
<1>6. CASE FlushFull
  BY <1>6 DEF FlushFull, Steps
<1>7. CASE Flush
  BY <1>7 DEF Flush, Unlocked, Steps
<1>8. CASE Stop
  BY <1>8 DEF Stop, Steps
<1>9. CASE SeekRiff
  BY <1>9 DEF SeekRiff, Steps, Flushed
<1>10. CASE SeekData \/ SeekEnd
  BY <1>10 DEF SeekData, SeekEnd, Steps
<1>11. CASE StopFails
  BY <1>11 DEF StopFails, Steps
<1>12. CASE DropSink \/ Crash
  BY <1>12 DEF DropSink, Crash, Steps
<1> QED  BY <1>1, <1>2, <1>3, <1>4, <1>5, <1>6, <1>7, <1>8, <1>9, <1>10, <1>11, <1>12 DEF Next

-----------------------------------------------------------------------------
\* What a step does to the stream: a sample is appended to it, or it stays, unless
\* the sink is gone after the step.
Appends ==
  /\ PutSample /\ Stream' = Append(Stream, <<chunk, put + 1>>)
Keeps ==
  /\ ~PutSample /\ Stream' = Stream

\* A step keeps the stream, appends the next sample to it, or is a failure.
LEMMA StreamSteps ==
  ASSUME TypeOK, Steps, Next
  PROVE  Live /\ (Keeps \/ Appends \/ ~Live')
<1>0. /\ buffer \in Seq(Samples) /\ data \in Seq(Samples) /\ Len(buffer) \in Nat
      /\ chunk \in 0 .. MaxChunks /\ put \in Nat
  BY StreamType, TypeParts, WavAssumption DEF TypeControl
<1>1. UNCHANGED <<data, buffer>> => Stream' = Stream
  BY DEF Stream
<1>2. Flushed => Stream' = Stream
  BY AllFlushed
<1>3. \A n \in Parts : FlushedPart(n) => Stream' = Stream
  BY <1>0, PartFlushed DEF Parts
<1>4. CASE PutSample
  <2>1. <<chunk, put + 1>> \in Samples
    <3>1. chunk \in 1 .. MaxChunks
      BY <1>0, <1>4, WavAssumption DEF PutSample, Steps
    <3> QED  BY <1>0, <3>1 DEF Samples
  <2>2. buffer' = Append(buffer, <<chunk, put + 1>>) /\ data' = data /\ Live
    BY <1>4 DEF PutSample, Live
  <2>3. Stream' = data \o Append(buffer, <<chunk, put + 1>>)
    BY <2>2 DEF Stream
  <2>4. PICK x \in Samples : x = <<chunk, put + 1>>
    BY <2>1
  <2>5. data \o Append(buffer, x) = Append(data \o buffer, x)
    <3>1. /\ Append(buffer, x) \in Seq(Samples) /\ Len(Append(buffer, x)) = Len(buffer) + 1
          /\ data \o buffer \in Seq(Samples) /\ Len(data \o buffer) = Len(data) + Len(buffer)
          /\ Len(data) \in Nat
      BY <1>0
    <3>2. /\ data \o Append(buffer, x) \in Seq(Samples) /\ Append(data \o buffer, x) \in Seq(Samples)
          /\ Len(data \o Append(buffer, x)) = Len(data) + Len(buffer) + 1
          /\ Len(Append(data \o buffer, x)) = Len(data) + Len(buffer) + 1
      BY <1>0, <3>1
    <3>3. ASSUME NEW i \in 1 .. Len(data) + Len(buffer) + 1
          PROVE  (data \o Append(buffer, x))[i] = Append(data \o buffer, x)[i]
      BY <1>0, <3>1, <3>2
    <3> QED  BY <3>2, <3>3, SeqEqual
  <2> QED  BY <1>4, <2>2, <2>3, <2>4, <2>5 DEF Appends, Stream
<1>5. CASE Create
  <2>1. data = <<>> /\ buffer = <<>> /\ data' = <<>> /\ buffer' = <<>> /\ Live /\ ~PutSample
    BY <1>5 DEF Create, Steps, Live, PutSample
  <2> QED  BY <2>1 DEF Keeps, Stream
<1>6. CASE DropSink \/ Crash
  BY <1>6 DEF DropSink, Crash, Live
<1>7. ASSUME NEW n \in ChunkSizes, Write(n)  PROVE Keeps /\ Live
  BY <1>1, <1>7 DEF Write, Keeps, Live, PutSample
<1>8. CASE CreateFails \/ FlushFull \/ FlushFullFails
  BY <1>1, <1>2, <1>3, <1>8 DEF CreateFails, FlushFull, FlushFullFails, Keeps, Live, PutSample
<1>9. CASE Flush
  <2>1. Live /\ put' = put /\ put + 1 # put
    BY <1>0, <1>9 DEF Flush, Unlocked, writeVars, Live
  <2>2. ~PutSample
    BY <2>1 DEF PutSample
  <2>3. Stream' = Stream
    BY <1>2, <1>3, <1>9 DEF Flush
  <2> QED  BY <2>1, <2>2, <2>3 DEF Keeps
<1>10. CASE Stop \/ SeekRiff \/ SeekData \/ SeekEnd \/ StopFails
  BY <1>1, <1>2, <1>3, <1>10 DEF Stop, SeekRiff, SeekData, SeekEnd, StopFails, Keeps, Live, PutSample
<1> QED  BY <1>4, <1>5, <1>6, <1>7, <1>8, <1>9, <1>10 DEF Next

\* The stream by index, after one more sample.
LEMMA StreamGrows ==
  ASSUME TypeOK, TypeOK', Appends
  PROVE  /\ Len(Stream) \in Nat /\ Len(Stream') = Len(Stream) + 1
         /\ DOMAIN Stream = 1 .. Len(Stream) /\ DOMAIN Stream' = 1 .. Len(Stream) + 1
         /\ \A i \in DOMAIN Stream : Stream'[i] = Stream[i]
         /\ Stream'[Len(Stream) + 1] = <<chunk, put + 1>>
<1>1. /\ Stream \in Seq(Samples) /\ Len(Stream) \in Nat /\ DOMAIN Stream = 1 .. Len(Stream)
  BY StreamType
<1>2. Stream' = Append(Stream, <<chunk, put + 1>>)
  BY DEF Appends
<1> QED  BY <1>1, <1>2

\* What an unchanged stream leaves of the attempt in hand: all of it, or nothing,
\* after a failure or for a new chunk.
LEMMA HandKept ==
  ASSUME TypeOK, Steps, Next, Keeps, Live'
  PROVE  /\ UNCHANGED <<samplesWritten, accepted>> /\ chunk' >= chunk /\ chunk \in Nat /\ chunk' \in Nat
         /\ InHand' = 0 \/ (InHand' = InHand /\ chunk' = chunk)
         /\ ~faulty' => ~faulty /\ InHand' = InHand
         /\ step' \in {"create", "samples"} => chunk' = chunk + 1 \/ (step = step' /\ chunk' = chunk)
                                               \/ (step = "create" /\ chunk' = chunk)
<1> USE DEF writeVars, InHand, Live, Keeps
<1>0. chunk \in Nat
  BY TypeParts, WavAssumption DEF TypeControl
<1>1. ASSUME NEW n \in ChunkSizes, Write(n)
      PROVE  chunk' = chunk + 1 /\ UNCHANGED <<samplesWritten, accepted, faulty>> /\ InHand = 0 /\ InHand' = 0
  BY <1>1 DEF Write
<1>2. CASE Create
  BY <1>0, <1>2 DEF Create, Steps
<1>3. CASE CreateFails \/ FlushFullFails
  BY <1>0, <1>3 DEF CreateFails, FlushFullFails, Failed
<1>4. CASE FlushFull \/ Flush
  BY <1>0, <1>4 DEF FlushFull, Flush
<1>5. CASE Stop \/ SeekRiff \/ SeekData \/ SeekEnd
  BY <1>0, <1>5 DEF Stop, SeekRiff, SeekData, SeekEnd
<1>6. CASE StopFails
  BY <1>0, <1>6 DEF StopFails
<1>7. CASE DropSink \/ Crash
  BY <1>7 DEF DropSink, Crash
<1> QED  BY <1>0, <1>1, <1>2, <1>3, <1>4, <1>5, <1>6, <1>7 DEF Next

\* What an appended sample does to it: it is one more, or the chunk is accepted.
LEMMA HandGrows ==
  ASSUME TypeOK, Steps, Appends
  PROVE  /\ InHand = put /\ put \in Nat /\ size \in Nat /\ put < size /\ step = "samples"
         /\ UNCHANGED <<chunk, size, faulty>>
         /\ \/ put + 1 = size /\ InHand' = 0 /\ samplesWritten' = samplesWritten + size /\ step' = "idle"
               /\ accepted' = Append(accepted, [chunk |-> chunk, size |-> size])
            \/ InHand' = put + 1 /\ UNCHANGED <<samplesWritten, accepted, step>>
<1>1. /\ size \in ChunkSizes /\ put < size /\ step = "samples"
  BY DEF Appends, PutSample, Steps
<1>2. size \in Nat /\ put \in Nat
  <2>1. put \in 0 .. size
    BY TypeParts DEF TypeControl
  <2> QED  BY <1>1, <2>1, WavAssumption
<1> QED  BY <1>1, <1>2 DEF Appends, PutSample, InHand

-----------------------------------------------------------------------------
\* Each step keeps the counter behind the samples in the stream.
LEMMA NextCounted == TypeOK /\ TypeOK' /\ Steps /\ Counted /\ Next => Counted'
<1> SUFFICES ASSUME TypeOK, TypeOK', Steps, Counted, Next, Live'
             PROVE  /\ samplesWritten' + InHand' <= Len(Stream')
                    /\ \A j \in 1 .. InHand' : Stream'[Len(Stream') - InHand' + j] = <<chunk', j>>
  BY DEF Counted
<1>1. /\ Live /\ samplesWritten \in Nat /\ samplesWritten' \in Nat /\ Len(Stream) \in Nat
      /\ samplesWritten + InHand <= Len(Stream)
      /\ \A j \in 1 .. InHand : Stream[Len(Stream) - InHand + j] = <<chunk, j>>
  <2>1. samplesWritten \in Nat /\ samplesWritten' \in Nat
    BY DEF TypeOK
  <2> QED  BY <2>1, StreamSteps, StreamType DEF Counted
<1>2. InHand \in Nat /\ InHand' \in Nat
  <2>1. \A n \in ChunkSizes : n \in Nat
    BY WavAssumption
  <2>2. /\ put \in 0 .. size /\ size \in ChunkSizes \cup {0}
        /\ put' \in 0 .. size' /\ size' \in ChunkSizes \cup {0}
    BY DEF TypeOK
  <2> QED  BY <2>1, <2>2 DEF InHand
<1>3. CASE Keeps
  <2>1. Stream' = Stream /\ samplesWritten' = samplesWritten /\ (InHand' = 0 \/ (InHand' = InHand /\ chunk' = chunk))
    BY <1>3, HandKept DEF Keeps
  <2>2. CASE InHand' = 0
    BY <1>1, <1>2, <2>1, <2>2
  <2>3. CASE InHand' = InHand /\ chunk' = chunk
    BY <1>1, <1>2, <2>1, <2>3
  <2> QED  BY <2>1, <2>2, <2>3
<1>4. CASE Appends
  <2>1. /\ Len(Stream') = Len(Stream) + 1 /\ DOMAIN Stream = 1 .. Len(Stream)
        /\ \A i \in DOMAIN Stream : Stream'[i] = Stream[i]
        /\ Stream'[Len(Stream) + 1] = <<chunk, put + 1>>
    BY <1>4, StreamGrows
  <2>2. InHand = put /\ put \in Nat /\ size \in Nat /\ chunk' = chunk
    BY <1>4, HandGrows
  <2>3. CASE put + 1 = size /\ InHand' = 0 /\ samplesWritten' = samplesWritten + size
    BY <1>1, <2>1, <2>2, <2>3
  <2>4. CASE InHand' = put + 1 /\ samplesWritten' = samplesWritten
    <3>1. samplesWritten' + InHand' <= Len(Stream')
      BY <1>1, <2>1, <2>2, <2>4
    <3>2. ASSUME NEW j \in 1 .. put + 1
          PROVE  Stream'[Len(Stream') - (put + 1) + j] = <<chunk, j>>
      <4>1. CASE j = put + 1
        BY <1>1, <2>1, <2>2, <4>1
      <4>2. CASE j # put + 1
        <5>1. j \in 1 .. put /\ Len(Stream') - (put + 1) + j = Len(Stream) - put + j
          BY <1>1, <2>1, <2>2, <4>2
        <5>2. Len(Stream) - put + j \in DOMAIN Stream
          BY <1>1, <2>1, <2>2, <5>1
        <5> QED  BY <1>1, <2>1, <2>2, <5>1, <5>2
      <4> QED  BY <4>1, <4>2
    <3> QED  BY <2>2, <2>4, <3>1, <3>2
  <2> QED  BY <1>4, <2>3, <2>4, HandGrows
<1> QED  BY <1>3, <1>4, StreamSteps

\* Each step keeps what is known of the header on the file.
LEMMA NextHeader == TypeOK /\ TypeOK' /\ Steps /\ Counted /\ HeaderLast /\ Next => HeaderLast'
<1> SUFFICES ASSUME TypeOK, TypeOK', Steps, Counted, HeaderLast, Next  PROVE HeaderLast'
  OBVIOUS
<1> USE DEF HeaderLast, HeaderNeverOverstates, header
<1>0. /\ samplesWritten \in Nat /\ Len(data) \in Nat /\ Len(data') \in Nat
      /\ data \in Seq(Samples) /\ data' \in Seq(Samples)
      /\ dataSize \in Nat /\ DataSize \in Nat /\ DataSize <= 2 * samplesWritten
  <2>1. samplesWritten \in Nat /\ dataSize \in 0 .. Word - 1
    BY TypeParts DEF TypeControl, TypeHeader
  <2>2. DataSize \in 0 .. Word - 1 /\ DataSize <= 2 * samplesWritten
    BY <2>1, Sizes
  <2>3. data \in Seq(Samples) /\ data' \in Seq(Samples)
    BY DEF TypeOK
  <2>4. Word \in Nat
    BY WavAssumption
  <2>5. Len(data) \in Nat /\ Len(data') \in Nat
    BY <2>3
  <2> QED  BY <2>1, <2>2, <2>3, <2>4, <2>5
\* Once the buffer is empty, the file has at least what is counted.
<1>a. Live /\ buffer = <<>> => samplesWritten <= Len(data)
  <2>1. Live => samplesWritten + InHand <= Len(Stream) /\ InHand >= 0
    <3>1. InHand >= 0
      <4>1. put \in 0 .. size /\ size \in ChunkSizes \cup {0} /\ \A n \in ChunkSizes : n \in Nat
        BY TypeParts, WavAssumption DEF TypeControl
      <4> QED  BY <4>1 DEF InHand
    <3> QED  BY <3>1 DEF Counted
  <2>2. buffer = <<>> => Len(Stream) = Len(data)
    BY StreamType
  <2>3. InHand \in Nat
    <3>1. put \in 0 .. size /\ size \in ChunkSizes \cup {0} /\ \A n \in ChunkSizes : n \in Nat
      BY TypeParts, WavAssumption DEF TypeControl
    <3> QED  BY <3>1 DEF InHand
  <2> QED  BY <1>0, <2>1, <2>2, <2>3
<1>b. step \in {"seekEnd", "noSize"} => DataSize <= 2 * Len(data)
  BY <1>0, <1>a DEF Steps, Live
<1>c. step = "seekEnd" \/ step = "noSize" => riffSize = (HeaderRest + DataSize) % Word
  BY DEF RiffSize
<1>d. dataSize' = 0 => HeaderNeverOverstates'
  BY <1>0
<1>e. samplesWritten = 0 => DataSize = 0
  <2>1. Word > 0 /\ Word \in Nat
    BY WavAssumption
  <2>2. 2 * samplesWritten < Word => DataSize = 2 * samplesWritten
    BY <1>0, Sizes
  <2> QED  BY <2>1, <2>2
<1>f. samplesWritten' = samplesWritten => DataSize' = DataSize
  BY DEF DataSize
<1> HIDE DEF HeaderNeverOverstates
<1>1. ASSUME NEW n \in ChunkSizes, Write(n)  PROVE HeaderLast'
  BY <1>1, <1>d DEF Write, writeVars
<1>2. CASE Create \/ CreateFails \/ FlushFullFails
  BY <1>2, <1>d DEF Create, CreateFails, FlushFullFails, Failed, writeVars
<1>3. CASE PutSample \/ FlushFull \/ Flush
  BY <1>3, <1>d DEF PutSample, FlushFull, Flush, Unlocked, writeVars
<1>4. CASE Stop \/ SeekRiff
  BY <1>4, <1>d, <1>e, <1>f DEF Stop, SeekRiff, writeVars, Steps
<1>5. CASE SeekData
  BY <1>5, <1>d DEF SeekData, writeVars, RiffSize, DataSize
<1>6. CASE SeekEnd
  <2>1. /\ dataSize' = DataSize /\ riffSize' = riffSize /\ data' = data /\ step' = "stopped"
        /\ DataSize' = DataSize
    BY <1>6, <1>f DEF SeekEnd, writeVars
  <2>2. step = "seekEnd"
    BY <1>6 DEF SeekEnd
  <2> QED  BY <1>b, <1>c, <2>1, <2>2 DEF HeaderNeverOverstates
<1>7. CASE StopFails
  BY <1>7, <1>d DEF StopFails, writeVars, RiffSize, DataSize
<1>8. CASE DropSink
  <2>1. CASE step = "noData" \/ step = "noRiff"
    BY <1>8, <1>d, <2>1 DEF DropSink
  <2>2. CASE step = "noSize"
    <3>1. /\ dataSize = 0 /\ riffSize' = riffSize /\ data' = data /\ step' = "dropped"
          /\ dataSize' = 0 \/ dataSize' = DataSize
      BY <1>8, <2>2 DEF DropSink
    <3>2. dataSize' = DataSize => HeaderNeverOverstates'
      BY <1>b, <1>c, <2>2, <3>1 DEF HeaderNeverOverstates
    <3> QED  BY <1>d, <3>1, <3>2
  <2> QED  BY <1>8, <2>1, <2>2 DEF DropSink
<1>9. CASE Crash
  BY <1>9, <1>d DEF Crash
<1> QED  BY <1>1, <1>2, <1>3, <1>4, <1>5, <1>6, <1>7, <1>8, <1>9 DEF Next
-----------------------------------------------------------------------------
\* The chunks accepted have a number and a size.
LEMMA AcceptedType ==
  ASSUME TypeOK
  PROVE  /\ Len(accepted) \in Nat /\ DOMAIN accepted = 1 .. Len(accepted)
         /\ \A i \in DOMAIN accepted : accepted[i].chunk \in Nat /\ accepted[i].size \in Nat /\ accepted[i].size > 0
<1> DEFINE R == [chunk : 1 .. MaxChunks, size : ChunkSizes]
<1>1. accepted \in Seq(R)
  BY DEF TypeOK
<1>2. ASSUME NEW a \in R  PROVE a.chunk \in Nat /\ a.size \in Nat /\ a.size > 0
  <2>1. a.chunk \in 1 .. MaxChunks /\ a.size \in ChunkSizes
    OBVIOUS
  <2>2. MaxChunks \in Nat /\ ChunkSizes \subseteq Nat \ {0}
    BY WavAssumption
  <2>3. \A c \in 1 .. MaxChunks, s \in ChunkSizes : c \in Nat /\ s \in Nat /\ s > 0
    BY <2>2
  <2> HIDE DEF R
  <2> QED  BY <2>1, <2>3, Zenon
<1> HIDE DEF R
<1>3. Len(accepted) \in Nat /\ DOMAIN accepted = 1 .. Len(accepted)
  BY <1>1
<1>4. \A i \in DOMAIN accepted : accepted[i] \in R
  BY <1>1, <1>3, ElementOfSeq
<1> QED  BY <1>2, <1>3, <1>4

\* When a chunk has been accepted, by the step that appends its last sample.
Accepts ==
  /\ DOMAIN accepted' = 1 .. Len(accepted) + 1
  /\ \A i \in DOMAIN accepted : accepted'[i] = accepted[i]
  /\ accepted'[Len(accepted) + 1] = [chunk |-> chunk, size |-> size]

\* The last sample of a chunk makes it accepted; no other does.
LEMMA AcceptedGrows ==
  ASSUME TypeOK, Steps, Appends
  PROVE  \/ put + 1 = size /\ InHand' = 0 /\ samplesWritten' = samplesWritten + size /\ step' = "idle" /\ Accepts
         \/ InHand' = put + 1 /\ UNCHANGED <<samplesWritten, accepted, step>>
<1>1. accepted \in Seq([chunk : 1 .. MaxChunks, size : ChunkSizes])
  BY DEF TypeOK
<1>2. accepted' = Append(accepted, [chunk |-> chunk, size |-> size]) => Accepts
  BY <1>1 DEF Accepts
<1> QED  BY <1>2, HandGrows

\* Each step keeps the accepted chunks in the stream, one after the other.
LEMMA NextInOrder == TypeOK /\ TypeOK' /\ Steps /\ Counted /\ ChunksInOrder /\ Next => ChunksInOrder'
<1> SUFFICES ASSUME TypeOK, TypeOK', Steps, Counted, ChunksInOrder, Next  PROVE ChunksInOrder'
  OBVIOUS
<1>0. /\ chunk \in Nat /\ Len(accepted) \in Nat /\ DOMAIN accepted = 1 .. Len(accepted)
      /\ \A i \in DOMAIN accepted : accepted[i].chunk \in Nat /\ accepted[i].size \in Nat
      /\ Stream \in Seq(Samples) /\ Len(Stream) \in Nat /\ DOMAIN Stream = 1 .. Len(Stream)
  <2>1. chunk \in Nat
    BY WavAssumption DEF TypeOK
  <2> QED  BY <2>1, AcceptedType, StreamType
<1>s. \A i \in DOMAIN Stream : Stream[i][1] \in Nat
  <2>1. \A x \in Samples : x[1] \in Nat
    BY WavAssumption DEF Samples
  <2> QED  BY <1>0, <2>1
<1>1. CASE ~Live'
  <2>1. UNCHANGED <<accepted, chunk>> /\ step' \notin {"create", "samples"}
    <3>1. DropSink \/ Crash
      BY <1>1 DEF Next, Live, Write, Create, CreateFails, PutSample, FlushFull, FlushFullFails, Failed,
                  Flush, Unlocked, Stop, SeekRiff, SeekData, SeekEnd, StopFails
    <3> QED  BY <3>1 DEF DropSink, Crash, writeVars
  <2> QED  BY <1>1, <2>1 DEF ChunksInOrder
<1>2. CASE Keeps /\ Live'
  <2>1. /\ UNCHANGED <<accepted, Stream>> /\ chunk' >= chunk /\ chunk' \in Nat /\ Live
        /\ step' \in {"create", "samples"} =>
             chunk' = chunk + 1 \/ (step \in {"create", "samples"} /\ chunk' = chunk)
    BY <1>2, HandKept, StreamSteps DEF Keeps
  <2>2. \A i \in DOMAIN accepted : accepted[i].chunk <= chunk'
    BY <1>0, <2>1 DEF ChunksInOrder
  <2>3. step' \in {"create", "samples"} => \A i \in DOMAIN accepted : accepted[i].chunk < chunk'
    BY <1>0, <2>1 DEF ChunksInOrder
  <2>4. \A i \in DOMAIN Stream : Stream[i][1] <= chunk'
    BY <1>0, <1>s, <2>1 DEF ChunksInOrder
  <2>5. ASSUME NEW a, Before(a) # {}  PROVE Before(a)' # {}
    BY <2>1, <2>5 DEF Before
  <2> QED  BY <2>1, <2>2, <2>3, <2>4, <2>5 DEF ChunksInOrder
<1>3. CASE Appends /\ Live'
  <2>0. /\ put \in Nat /\ size \in Nat /\ put < size /\ chunk' = chunk /\ step = "samples" /\ Live /\ InHand = put
    BY <1>3, HandGrows DEF Live
  <2>1. /\ Len(Stream') = Len(Stream) + 1 /\ DOMAIN Stream' = 1 .. Len(Stream) + 1
        /\ \A i \in DOMAIN Stream : Stream'[i] = Stream[i]
        /\ Stream'[Len(Stream) + 1] = <<chunk, put + 1>>
    BY <1>3, StreamGrows
  <2>2. /\ \A i \in DOMAIN accepted : accepted[i].chunk < chunk
        /\ \A i \in DOMAIN Stream : Stream[i][1] <= chunk
        /\ \A i, j \in DOMAIN Stream : i <= j => Stream[i][1] <= Stream[j][1]
        /\ \A i \in DOMAIN accepted : Before(accepted[i]) # {}
    BY <2>0 DEF ChunksInOrder
  <2>3. \A i \in DOMAIN Stream' : Stream'[i][1] <= chunk /\ (i \notin DOMAIN Stream => Stream'[i][1] = chunk)
    BY <1>0, <2>1, <2>2
  <2>4. \A i, j \in DOMAIN Stream' : i <= j => Stream'[i][1] <= Stream'[j][1]
    <3>1. \A i, j \in DOMAIN Stream' : i <= j /\ j \in DOMAIN Stream => i \in DOMAIN Stream
      BY <1>0, <2>1
    <3> QED  BY <2>1, <2>2, <2>3, <3>1
  <2>5. ASSUME NEW a, a.size \in Nat, Before(a) # {}  PROVE Before(a)' # {}
    <3>1. PICK p \in 0 .. Len(Stream) - a.size : \A j \in 1 .. a.size : Stream[p + j] = <<a.chunk, j>>
      BY <2>5 DEF Before
    <3>2. p \in 0 .. Len(Stream') - a.size
      BY <1>0, <2>1, <2>5
    <3>3. \A j \in 1 .. a.size : p + j \in DOMAIN Stream
      BY <1>0, <2>5
    <3> QED  BY <2>1, <3>1, <3>2, <3>3 DEF Before
  <2>6. CASE InHand' = put + 1 /\ UNCHANGED <<accepted, step>>
    <3>1. \A i \in DOMAIN accepted : accepted[i].chunk <= chunk
      BY <1>0, <2>2
    <3>2. \A i \in DOMAIN accepted' : Before(accepted[i])' # {}
      <4>1. ASSUME NEW i \in DOMAIN accepted  PROVE Before(accepted[i])' # {}
        <5>1. PICK a : a = accepted[i]
          OBVIOUS
        <5>2. a.size \in Nat /\ Before(a) # {} /\ a = accepted'[i]
          BY <1>0, <2>2, <2>6, <5>1
        <5>3. Before(a)' # {}
          BY <2>5, <5>2
        <5> QED  BY <5>2, <5>3
      <4> QED  BY <2>6, <4>1
    <3> QED  BY <2>0, <2>2, <2>3, <2>4, <2>6, <3>1, <3>2 DEF ChunksInOrder
  <2>7. CASE put + 1 = size /\ step' = "idle" /\ Accepts
    <3> DEFINE n == Len(accepted)
    <3>1. /\ DOMAIN accepted' = 1 .. n + 1 /\ \A i \in DOMAIN accepted : accepted'[i] = accepted[i]
          /\ accepted'[n + 1].chunk = chunk /\ accepted'[n + 1].size = size
      BY <2>7 DEF Accepts
    <3>2. \A i \in DOMAIN accepted' : i \in DOMAIN accepted \/ i = n + 1
      BY <1>0, <3>1
    <3>3. \A i \in DOMAIN accepted' : accepted'[i].chunk <= chunk
      BY <1>0, <2>2, <3>1, <3>2
    <3>4. \A i, j \in DOMAIN accepted' : i < j => accepted'[i].chunk < accepted'[j].chunk
      <4>1. \A i, j \in DOMAIN accepted' : i < j => i \in DOMAIN accepted
        BY <1>0, <3>1
      <4> QED  BY <2>2, <3>1, <3>2, <4>1 DEF ChunksInOrder
    <3>5. ASSUME NEW a, a.size = size, a.chunk = chunk  PROVE Before(a)' # {}
      <4>1. /\ samplesWritten \in Nat /\ samplesWritten + put <= Len(Stream)
            /\ \A j \in 1 .. put : Stream[Len(Stream) - put + j] = <<chunk, j>>
        BY <2>0 DEF Counted, TypeOK
      <4>2. Len(Stream) - put \in 0 .. Len(Stream') - size
        BY <1>0, <2>0, <2>1, <2>7, <4>1
      <4>3. ASSUME NEW j \in 1 .. size  PROVE Stream'[(Len(Stream) - put) + j] = <<chunk, j>>
        <5>1. CASE j = put + 1
          <6>1. (Len(Stream) - put) + j = Len(Stream) + 1
            BY <1>0, <2>0, <5>1
          <6> QED  BY <2>1, <5>1, <6>1
        <5>2. CASE j # put + 1
          <6>1. j \in 1 .. put /\ (Len(Stream) - put) + j \in DOMAIN Stream
            BY <1>0, <2>0, <2>7, <4>1, <5>2
          <6> QED  BY <2>1, <4>1, <6>1
        <5> QED  BY <5>1, <5>2
      <4> QED  BY <3>5, <4>2, <4>3 DEF Before
    <3>6. ASSUME NEW i \in DOMAIN accepted'  PROVE Before(accepted[i])' # {}
      <4>1. PICK a : a = accepted'[i]
        OBVIOUS
      <4>2. CASE i \in DOMAIN accepted
        <5>1. a.size \in Nat /\ Before(a) # {}
          BY <1>0, <2>2, <3>1, <4>1, <4>2
        <5> QED  BY <2>5, <4>1, <5>1
      <4>3. CASE i = n + 1
        BY <3>1, <3>5, <4>1, <4>3
      <4> QED  BY <3>2, <4>2, <4>3
    <3> QED  BY <2>0, <2>3, <2>4, <2>7, <3>3, <3>4, <3>6 DEF ChunksInOrder
  <2> QED  BY <1>3, <2>6, <2>7, AcceptedGrows
<1> QED  BY <1>1, <1>2, <1>3, StreamSteps

-----------------------------------------------------------------------------
\* The samples of chunks, and those of one more.
SamplesOf(acc) == UNION {{<<a.chunk, j>> : j \in 1 .. a.size} : a \in Range(acc)}
IsSampleOf(x, a) == \E j \in 1 .. a.size : x = <<a.chunk, j>>

\* The samples of the accepted chunks, one chunk at a time.
LEMMA SampleOfSome ==
  ASSUME NEW acc, NEW x
  PROVE  x \in SamplesOf(acc) <=> \E i \in DOMAIN acc : IsSampleOf(x, acc[i])
BY DEF SamplesOf, IsSampleOf, Range

\* As long as nothing fails, the stream keeps to what was accepted and what is in
\* hand: a failure is the only step after which the two part.
LEMMA NextExact == TypeOK /\ TypeOK' /\ Steps /\ Counted /\ ChunksInOrder /\ Exact /\ Next => Exact'
<1> SUFFICES ASSUME TypeOK, TypeOK', Steps, Counted, ChunksInOrder, Exact, Next, Live', ~faulty'
             PROVE  /\ Len(Stream') = samplesWritten' + InHand'
                    /\ Range(Stream') = AcceptedSamples' \cup {<<chunk', j>> : j \in 1 .. InHand'}
                    /\ \A i, j \in DOMAIN Stream' : i < j => Precedes(Stream'[i], Stream'[j])
  BY DEF Exact, Precedes
<1>0. AcceptedSamples = SamplesOf(accepted) /\ AcceptedSamples' = SamplesOf(accepted')
  BY DEF AcceptedSamples, SamplesOf
<1>1. CASE Keeps
  <2>1. /\ Stream' = Stream /\ UNCHANGED <<samplesWritten, accepted>> /\ ~faulty /\ InHand' = InHand
        /\ InHand' = 0 \/ chunk' = chunk
    BY <1>1, HandKept DEF Keeps
  <2>2. /\ Len(Stream) = samplesWritten + InHand
        /\ Range(Stream) = AcceptedSamples \cup {<<chunk, j>> : j \in 1 .. InHand}
        /\ \A i, j \in DOMAIN Stream : i < j => Precedes(Stream[i], Stream[j])
    BY <2>1, StreamSteps DEF Exact
  <2>3. {<<chunk', j>> : j \in 1 .. InHand'} = {<<chunk, j>> : j \in 1 .. InHand}
    <3>1. CASE InHand' = 0
      BY <2>1, <3>1
    <3>2. CASE chunk' = chunk
      BY <2>1, <3>2
    <3> QED  BY <2>1, <3>1, <3>2
  <2>4. AcceptedSamples' = AcceptedSamples
    BY <1>0, <2>1
  <2> QED  BY <2>1, <2>2, <2>3, <2>4
<1>2. CASE Appends
  <2>1. /\ put \in Nat /\ size \in Nat /\ put < size /\ step = "samples" /\ chunk' = chunk
        /\ InHand = put /\ ~faulty /\ Live
    BY <1>2, HandGrows DEF Live
  <2>2. /\ Len(Stream) \in Nat /\ Len(Stream') = Len(Stream) + 1
        /\ DOMAIN Stream = 1 .. Len(Stream) /\ DOMAIN Stream' = 1 .. Len(Stream) + 1
        /\ \A i \in DOMAIN Stream : Stream'[i] = Stream[i]
        /\ Stream'[Len(Stream) + 1] = <<chunk, put + 1>>
    BY <1>2, StreamGrows
  <2>3. /\ Len(Stream) = samplesWritten + put
        /\ Range(Stream) = AcceptedSamples \cup {<<chunk, j>> : j \in 1 .. put}
        /\ \A i, j \in DOMAIN Stream : i < j => Precedes(Stream[i], Stream[j])
    BY <2>1 DEF Exact
  <2>4. /\ DOMAIN accepted = 1 .. Len(accepted) /\ Len(accepted) \in Nat /\ chunk \in Nat
        /\ \A i \in DOMAIN accepted : accepted[i].chunk \in Nat /\ accepted[i].chunk < chunk
        /\ samplesWritten \in Nat
    <3>1. chunk \in Nat /\ samplesWritten \in Nat
      BY WavAssumption DEF TypeOK
    <3> QED  BY <2>1, <3>1, AcceptedType DEF ChunksInOrder
  <2>5. Range(Stream') = Range(Stream) \cup {<<chunk, put + 1>>}
    <3>1. ASSUME NEW i \in DOMAIN Stream'
          PROVE  Stream'[i] \in Range(Stream) \cup {<<chunk, put + 1>>}
      <4>1. CASE i \in DOMAIN Stream
        BY <2>2, <4>1 DEF Range
      <4>2. CASE i = Len(Stream) + 1
        BY <2>2, <4>2
      <4> QED  BY <2>2, <4>1, <4>2
    <3>2. ASSUME NEW i \in DOMAIN Stream  PROVE Stream[i] \in Range(Stream')
      <4>1. i \in DOMAIN Stream' /\ Stream'[i] = Stream[i]
        BY <2>2
      <4> QED  BY <4>1 DEF Range
    <3>3. <<chunk, put + 1>> \in Range(Stream')
      <4>1. Len(Stream) + 1 \in DOMAIN Stream'
        BY <2>2
      <4> QED  BY <2>2, <4>1 DEF Range
    <3> QED  BY <3>1, <3>2, <3>3 DEF Range
  <2>6. \A i \in DOMAIN Stream : Precedes(Stream[i], <<chunk, put + 1>>)
    <3> SUFFICES ASSUME NEW i \in DOMAIN Stream  PROVE Precedes(Stream[i], <<chunk, put + 1>>)
      OBVIOUS
    <3>1. Stream[i] \in AcceptedSamples \/ \E j \in 1 .. put : Stream[i] = <<chunk, j>>
      BY <2>3 DEF Range
    <3>2. CASE Stream[i] \in AcceptedSamples
      <4>1. PICK k \in DOMAIN accepted : IsSampleOf(Stream[i], accepted[k])
        BY <1>0, <3>2, SampleOfSome
      <4> QED  BY <2>4, <4>1 DEF IsSampleOf, Precedes
    <3>3. CASE \E j \in 1 .. put : Stream[i] = <<chunk, j>>
      BY <2>1, <3>3 DEF Precedes
    <3> QED  BY <3>1, <3>2, <3>3
  <2>7. \A i, j \in DOMAIN Stream' : i < j => Precedes(Stream'[i], Stream'[j])
    <3> SUFFICES ASSUME NEW i \in DOMAIN Stream', NEW j \in DOMAIN Stream', i < j
                 PROVE  Precedes(Stream'[i], Stream'[j])
      OBVIOUS
    <3>1. i \in DOMAIN Stream /\ (j \in DOMAIN Stream \/ j = Len(Stream) + 1)
      BY <2>2
    <3> QED  BY <2>2, <2>3, <2>6, <3>1
  <2>8. CASE InHand' = put + 1 /\ UNCHANGED <<samplesWritten, accepted>>
    <3>1. Len(Stream') = samplesWritten' + InHand'
      BY <2>1, <2>2, <2>3, <2>4, <2>8
    <3>2. {<<chunk', j>> : j \in 1 .. InHand'} = {<<chunk, j>> : j \in 1 .. put} \cup {<<chunk, put + 1>>}
      <4>1. 1 .. put + 1 = 1 .. put \cup {put + 1}
        BY <2>1
      <4> QED  BY <2>1, <2>8, <4>1
    <3>3. AcceptedSamples' = AcceptedSamples
      BY <1>0, <2>8
    <3> QED  BY <2>3, <2>5, <2>7, <3>1, <3>2, <3>3
  <2>9. CASE put + 1 = size /\ InHand' = 0 /\ samplesWritten' = samplesWritten + size /\ Accepts
    <3>1. Len(Stream') = samplesWritten' + InHand'
      BY <2>1, <2>2, <2>3, <2>4, <2>9
    <3>2. \A x : IsSampleOf(x, [chunk |-> chunk, size |-> size]) <=>
                  x \in {<<chunk, j>> : j \in 1 .. put} \cup {<<chunk, put + 1>>}
      <4>1. 1 .. size = 1 .. put \cup {put + 1}
        BY <2>1, <2>9
      <4> QED  BY <4>1 DEF IsSampleOf
    <3>3. \A x : (\E i \in DOMAIN accepted' : IsSampleOf(x, accepted'[i])) <=>
                  \/ \E i \in DOMAIN accepted : IsSampleOf(x, accepted[i])
                  \/ IsSampleOf(x, [chunk |-> chunk, size |-> size])
      <4>1. /\ DOMAIN accepted' = DOMAIN accepted \cup {Len(accepted) + 1}
            /\ \A i \in DOMAIN accepted : accepted'[i] = accepted[i]
            /\ accepted'[Len(accepted) + 1] = [chunk |-> chunk, size |-> size]
        BY <2>4, <2>9 DEF Accepts
      <4> QED  BY <4>1
    <3>4. \A x : x \in AcceptedSamples' <=>
                  x \in AcceptedSamples \cup ({<<chunk, j>> : j \in 1 .. put} \cup {<<chunk, put + 1>>})
      BY <1>0, <3>2, <3>3, SampleOfSome
    <3>5. Range(Stream') = AcceptedSamples'
      BY <2>3, <2>5, <3>4
    <3>6. {<<chunk', j>> : j \in 1 .. InHand'} = {}
      BY <2>9
    <3> QED  BY <2>7, <3>1, <3>5, <3>6
  <2> QED  BY <1>2, <2>8, <2>9, AcceptedGrows
<1> QED  BY <1>1, <1>2, StreamSteps

-----------------------------------------------------------------------------
\* The inductive invariant holds at the start.
LEMMA InitWav == Init => WavInv
<1> SUFFICES ASSUME Init  PROVE WavInv
  OBVIOUS
<1>1. TypeOK
  <2>1. /\ BufferSize \in Nat /\ Word \in Nat /\ Word > 0 /\ RetryAttempts \in Nat /\ MaxChunks \in Nat
    BY WavAssumption
  <2>2. TypeControl
    <3>1. accepted \in Seq([chunk : 1 .. MaxChunks, size : ChunkSizes])
      <4>1. accepted = <<>>
        BY DEF Init
      <4> QED  BY <4>1, EmptySeq
    <3>2. writer \in BOOLEAN /\ faulty \in BOOLEAN
      BY DEF Init
    <3>3. /\ chunk \in 0 .. MaxChunks /\ size \in ChunkSizes \cup {0} /\ put \in 0 .. size
          /\ attempts \in 0 .. RetryAttempts + 1 /\ samplesWritten \in Nat
      BY <2>1 DEF Init
    <3>4. step = "idle"
      BY DEF Init
    <3> QED  BY <3>1, <3>2, <3>3, <3>4, Zenon DEF TypeControl
  <2>3. TypeSamples /\ TypeHeader
    BY <2>1 DEF Init, TypeSamples, TypeHeader
  <2> QED  BY <2>2, <2>3, TypeParts
<1>2. Stream = <<>> /\ InHand = 0 /\ accepted = <<>> /\ samplesWritten = 0 /\ chunk = 0 /\ step = "idle"
  BY DEF Init, Stream, InHand
<1>3. Steps
  BY <1>2 DEF Init, Steps
<1>4. Counted
  BY <1>2 DEF Counted
<1>5. HeaderLast
  BY DEF Init, HeaderLast, HeaderNeverOverstates
<1>6. ChunksInOrder
  BY <1>2 DEF ChunksInOrder
<1>7. Exact
  <2>1. Range(Stream) = {} /\ AcceptedSamples = {}
    BY <1>2 DEF Range, AcceptedSamples
  <2> QED  BY <1>2, <2>1 DEF Exact
<1> QED  BY <1>1, <1>3, <1>4, <1>5, <1>6, <1>7 DEF WavInv

\* Each step keeps the inductive invariant.
LEMMA NextWav == WavInv /\ [Next]_vars => WavInv'
<1> SUFFICES ASSUME WavInv, [Next]_vars  PROVE WavInv'
  OBVIOUS
<1>1. CASE Next
  <2>1. TypeOK'
    <3>1. TypeControl' /\ TypeSamples' /\ TypeHeader'
      BY <1>1, TypeParts, ControlType, SamplesType, HeaderType DEF WavInv
    <3> QED  BY <3>1 DEF TypeOK, TypeControl, TypeSamples, TypeHeader
  <2> QED  BY <1>1, <2>1, NextSteps, NextCounted, NextHeader, NextInOrder, NextExact DEF WavInv
<1>2. CASE UNCHANGED vars
  <2> USE <1>2 DEF vars, writeVars, header, WavInv
  <2>1. TypeOK'
    BY DEF TypeOK
  <2>2. Stream' = Stream /\ InHand' = InHand /\ Live' = Live
    BY DEF Stream, InHand, Live
  <2>3. Steps'
    BY DEF Steps
  <2>4. Counted'
    BY <2>2 DEF Counted
  <2>5. HeaderLast'
    BY DEF HeaderLast, HeaderNeverOverstates, RiffSize, DataSize
  <2>6. ChunksInOrder'
    <3>1. UNCHANGED <<accepted, chunk, step, Stream, Live>> /\ ChunksInOrder
      BY <2>2
    <3>2. ASSUME NEW a  PROVE Before(a)' = Before(a)
      BY <3>1 DEF Before
    <3>3. \A i \in DOMAIN accepted : Before(accepted[i])' = Before(accepted[i])
      BY <3>1 DEF Before
    <3> HIDE <1>2 DEF vars, writeVars, header, WavInv
    <3> QED  BY <3>1, <3>3 DEF ChunksInOrder
  <2>7. Exact'
    BY <2>2 DEF Exact, AcceptedSamples
  <2> QED  BY <2>1, <2>3, <2>4, <2>5, <2>6, <2>7
<1> QED  BY <1>1, <1>2

\* The inductive invariant: where each sample is, in every state of the sink.
THEOREM WavInvariant == Spec => []WavInv
<1> QED  BY InitWav, NextWav, PTL DEF Spec

\* The state of the sink keeps the shape of the code's data: no buffer beyond its
\* size, and header fields that fit in their 32 bits.
THEOREM TypeCorrect == Spec => []TypeOK
<1>1. WavInv => TypeOK
  BY DEF WavInv
<1> QED  BY <1>1, WavInvariant, PTL

\* update_wav_header: whatever fails and wherever the process ends, the sizes in
\* the header never promise more than the file has.
THEOREM HeaderSafe == Spec => []HeaderNeverOverstates
<1>1. WavInv => HeaderNeverOverstates
  BY DEF WavInv, HeaderLast
<1> QED  BY <1>1, WavInvariant, PTL

\* write_chunk_blocking: a chunk whose write returned Ok stays whole and in its
\* place, through every later failure and retry, and an on_stop that returns Ok
\* leaves nothing in the buffer.
THEOREM AcceptedStays == Spec => []AcceptedIntact
<1>1. ASSUME WavInv  PROVE AcceptedIntact
  <2>1. TypeOK /\ ChunksInOrder /\ Steps
    BY <1>1 DEF WavInv
  <2>2. step = "stopped" => buffer = <<>>
    BY <2>1 DEF Steps
  <2>3. ASSUME Live  PROVE \A i \in DOMAIN accepted : Before(accepted[i]) # {}
    BY <2>1, <2>3 DEF ChunksInOrder
  <2>4. ASSUME Live, NEW i \in DOMAIN accepted, NEW j \in DOMAIN accepted, i < j,
               NEW p \in Before(accepted[i]), NEW q \in Before(accepted[j])
        PROVE  p + accepted[i].size <= q
    <3>1. /\ accepted[i].size \in Nat /\ accepted[i].size > 0 /\ accepted[i].chunk \in Nat
          /\ accepted[j].size \in Nat /\ accepted[j].size > 0 /\ accepted[j].chunk \in Nat
          /\ accepted[i].chunk < accepted[j].chunk
      BY <2>1, <2>4, AcceptedType DEF ChunksInOrder
    <3>2. /\ Len(Stream) \in Nat /\ DOMAIN Stream = 1 .. Len(Stream)
          /\ \A k, l \in DOMAIN Stream : k <= l => Stream[k][1] <= Stream[l][1]
      BY <2>1, <2>4, StreamType DEF ChunksInOrder
    <3> DEFINE s == accepted[i].size
    <3>3. /\ p \in Nat /\ p + s \in DOMAIN Stream /\ Stream[p + s][1] = accepted[i].chunk
      <4>1. p \in 0 .. Len(Stream) - s /\ \A k \in 1 .. s : Stream[p + k] = <<accepted[i].chunk, k>>
        BY DEF Before
      <4> QED  BY <3>1, <3>2, <4>1
    <3>4. /\ q \in Nat /\ q + 1 \in DOMAIN Stream /\ Stream[q + 1][1] = accepted[j].chunk
      <4>1. /\ q \in 0 .. Len(Stream) - accepted[j].size
            /\ \A k \in 1 .. accepted[j].size : Stream[q + k] = <<accepted[j].chunk, k>>
        BY DEF Before
      <4> QED  BY <3>1, <3>2, <4>1
    <3>5. CASE q + 1 <= p + s
      <4>1. Stream[q + 1][1] <= Stream[p + s][1]
        BY <3>2, <3>3, <3>4, <3>5
      <4> QED  BY <3>1, <3>3, <3>4, <4>1
    <3> QED  BY <3>1, <3>3, <3>4, <3>5
  <2> QED  BY <2>2, <2>3, <2>4 DEF AcceptedIntact, Live
<1> QED  BY <1>1, WavInvariant, PTL

\* FileSink as a whole: a recording in which no operation on the file failed is
\* exactly the chunks written, in order, and its header says so if 32 bits can.
THEOREM Clean == Spec => []CleanRecording
<1>1. ASSUME WavInv  PROVE CleanRecording
  <2> SUFFICES ASSUME step = "stopped", ~faulty
               PROVE  /\ Range(data) = AcceptedSamples
                      /\ \A i, j \in DOMAIN data : i < j => Precedes(data[i], data[j])
                      /\ 2 * Len(data) < Word => dataSize = 2 * Len(data)
    BY DEF CleanRecording
  <2>1. TypeOK /\ Steps /\ Exact
    BY <1>1 DEF WavInv
  <2>2. Live /\ InHand = 0 /\ Stream = data
    <3>1. buffer = <<>>
      BY <2>1 DEF Steps
    <3> QED  BY <2>1, <3>1, StreamType DEF Live, InHand
  <2>3. /\ Len(data) = samplesWritten + 0
        /\ Range(data) = AcceptedSamples \cup {<<chunk, j>> : j \in 1 .. 0}
        /\ \A i, j \in DOMAIN data : i < j => Precedes(data[i], data[j])
    BY <2>1, <2>2 DEF Exact
  <2>4. {<<chunk, j>> : j \in 1 .. 0} = {}
    OBVIOUS
  <2>5. 2 * Len(data) < Word => dataSize = 2 * Len(data)
    <3>1. samplesWritten \in Nat /\ dataSize = DataSize
      BY <1>1, <2>1 DEF WavInv, HeaderLast, TypeOK
    <3>2. 2 * samplesWritten < Word => DataSize = 2 * samplesWritten
      BY <3>1, Sizes
    <3> QED  BY <2>3, <3>1, <3>2
  <2> QED  BY <2>3, <2>4, <2>5
<1> QED  BY <1>1, WavInvariant, PTL
===============================================================================
