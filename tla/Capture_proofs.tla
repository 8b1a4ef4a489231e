---------------------------- MODULE Capture_proofs ----------------------------
(***************************************************************************)
(* Proofs about Capture, for every ring, chunk and callback size, all      *)
(* rates, and one or two channels: the samples of a source pass in order,  *)
(* are lost only at a full ring, come in whole chunks, and are stamped     *)
(* with the time of their place among the samples that were kept, up to    *)
(* what rounding adds for each chunk.                                      *)
(***************************************************************************)
EXTENDS Capture, TLAPS, FiniteSetTheorems, SequenceTheorems

\* What is known where the bridge is; and only a callback of f32 samples is ever
\* half-way.
Steps ==
  /\ format = "I16" => burst = 0
  /\ ~open => ~running
  /\ bridge \in {"drain", "drainRead", "drainRest", "flush", "done"} => ~running
  /\ bridge \in {"read", "drainRead"} =>
       Len(samples) < ChunkSize /\ ChunkSize <= Len(samples) + Len(ring)
  /\ bridge = "drainRest" => ring # <<>> \/ samples # <<>>
  /\ bridge \notin {"read", "drainRead", "drainRest"} => samples = <<>>
  /\ bridge = "send" => Len(chunks) = 1
  /\ bridge \in {"check", "poll", "read", "done"} => chunks = <<>>

\* The chunks sent and those to be sent, numbered through.
CutOf(s, k, c) == IF c <= Len(s) THEN s[c].samples ELSE k[c - Len(s)].samples
Cut(c)     == CutOf(sent, chunks, c)
NextCut(c) == CutOf(sent', chunks', c)
Cuts       == Len(sent) + Len(chunks)

Ascends(s)       == \A i, j \in DOMAIN s : i < j => s[i] < s[j]
Follows(s, t)    == \A i \in DOMAIN s, j \in DOMAIN t : s[i] < t[j]
AllBelow(s, n)   == \A i \in DOMAIN s : s[i] < n

\* SamplesInOrder, piece by piece.
Ordered ==
  /\ \A c \in 1 .. Cuts :
       /\ Ascends(Cut(c)) /\ AllBelow(Cut(c), heard)
       /\ Follows(Cut(c), samples) /\ Follows(Cut(c), ring)
       /\ \A d \in 1 .. Cuts : c < d => Follows(Cut(c), Cut(d))
  /\ Ascends(samples) /\ Ascends(ring) /\ Follows(samples, ring)
  /\ AllBelow(samples, heard) /\ AllBelow(ring, heard)

\* A chunk is whole unless it is what the drain found at the end.
Whole ==
  \A c \in 1 .. Cuts :
    /\ Len(Cut(c)) > 0
    /\ Len(Cut(c)) # ChunkSize => c = Cuts /\ bridge \in {"flush", "done"}

\* The frames in a whole chunk after its conversion to the rate r, and the exact
\* duration of them, whose numerator over r is this product.
WholeFrames(r) == ResampledLen(ChunkSize \div Channels, DeviceRate, r)
WholeTime(r)   == WholeFrames(r) * NanosPerSec

\* The timestamps count the chunks; t may be the time of the chunk after n chunks,
\* each of which was rounded to the nearest nanosecond.
Due(t, n, r) == 2 * (t * r - n * WholeTime(r)) \in -(n * r) .. n * r

Stamped ==
  /\ \A i \in DOMAIN sent : Due(sent[i].at, i - 1, rate)
  /\ open /\ bridge = "send" =>
       Due(chunks[1].at, Len(sent), rate) /\ Due(timestamp, Len(sent) + 1, rate)
  /\ open /\ bridge # "send" /\ (bridge \in {"flush", "done"} => chunks # <<>>) =>
       Due(timestamp, Len(sent), rate)

CaptureInv == TypeOK /\ Steps /\ Ordered /\ Whole /\ Stamped

-----------------------------------------------------------------------------
Chunk == [at : Nat, samples : SampleSeqs]

\* A chunk is made of its stamp and its samples.
LEMMA ChunkFields ==
  /\ \A x \in Chunk : x.at \in Nat /\ x.samples \in SampleSeqs
  /\ \A at \in Nat, part \in SampleSeqs :
       /\ Converted(part, at) \in Chunk
       /\ Converted(part, at).at = at /\ Converted(part, at).samples = part
BY DEF Chunk, Converted

\* What the type invariant says of the sequences.
LEMMA Sequences ==
  ASSUME TypeOK
  PROVE  /\ sent \in Seq(Chunk) /\ Len(sent) \in Nat /\ DOMAIN sent = 1 .. Len(sent)
         /\ chunks \in Seq(Chunk) /\ Len(chunks) \in Nat /\ DOMAIN chunks = 1 .. Len(chunks)
         /\ samples \in SampleSeqs /\ Len(samples) \in Nat /\ DOMAIN samples = 1 .. Len(samples)
         /\ ring \in SampleSeqs /\ Len(ring) \in Nat /\ DOMAIN ring = 1 .. Len(ring)
<1>1. /\ sent \in Seq(Chunk) /\ chunks \in Seq(Chunk) /\ samples \in SampleSeqs /\ ring \in SampleSeqs
  BY DEF TypeOK, Chunk
<1>2. ASSUME NEW s \in Seq(Chunk)  PROVE Len(s) \in Nat /\ DOMAIN s = 1 .. Len(s)
  BY LenProperties
<1>3. ASSUME NEW s \in SampleSeqs  PROVE Len(s) \in Nat /\ DOMAIN s = 1 .. Len(s)
  BY DEF SampleSeqs
<1> QED  BY <1>1, <1>2, <1>3

Sample == 0 .. MaxSamples - 1

\* The type of the sequences of samples, with the samples as one named set.
LEMMA SampleSeqsAre == SampleSeqs = Seq(Sample)
BY DEF SampleSeqs, Sample

\* A sequence of samples as a function.
LEMMA SampleSeq ==
  ASSUME NEW s \in SampleSeqs
  PROVE  /\ Len(s) \in Nat /\ DOMAIN s = 1 .. Len(s)
         /\ \A i \in DOMAIN s : s[i] \in 0 .. MaxSamples - 1 /\ s[i] \in Int
<1>1. MaxSamples \in Nat
  BY CaptureAssumption
<1> QED  BY <1>1 DEF SampleSeqs

\* Cuts are sequences of samples.
LEMMA CutType ==
  ASSUME NEW s \in Seq(Chunk), NEW k \in Seq(Chunk), NEW c \in 1 .. Len(s) + Len(k)
  PROVE  CutOf(s, k, c) \in SampleSeqs
<1>1. Len(s) \in Nat /\ Len(k) \in Nat
  BY LenProperties
<1>2. CASE c <= Len(s)
  <2>1. s[c] \in Chunk
    BY <1>1, <1>2, ElementOfSeq
  <2> QED  BY <1>2, <2>1, ChunkFields DEF CutOf
<1>3. CASE ~(c <= Len(s))
  <2>1. k[c - Len(s)] \in Chunk
    BY <1>1, <1>3, ElementOfSeq
  <2> QED  BY <1>3, <2>1, ChunkFields DEF CutOf
<1> QED  BY <1>2, <1>3

-----------------------------------------------------------------------------
\* What the operations on the sequences do, by their indices.
Popped(r, t) ==
  /\ Len(t) = Len(r) - 1
  /\ \A i \in 1 .. Len(r) - 1 : t[i] = r[i + 1]
Longer(s, t, x) ==
  /\ Len(t) = Len(s) + 1
  /\ \A i \in 1 .. Len(s) : t[i] = s[i]
  /\ t[Len(s) + 1] = x
Filled(r, t, fit, from) ==
  /\ Len(t) = Len(r) + fit
  /\ \A i \in 1 .. Len(r) : t[i] = r[i]
  /\ \A i \in 1 .. fit : t[Len(r) + i] = from + i - 1

\* try_pop: the tail, and the head that it returns.
LEMMA TailPops ==
  ASSUME NEW r \in SampleSeqs, r # <<>>
  PROVE  /\ Tail(r) \in SampleSeqs /\ Popped(r, Tail(r))
         /\ Len(r) > 0 /\ Head(r) = r[1] /\ Head(r) \in Sample
<1>1. r \in Seq(Sample)
  BY SampleSeqsAre
<1>2. Len(r) \in Nat /\ Len(r) > 0
  BY <1>1, EmptySeq
<1>3. /\ Head(r) \in Sample /\ Tail(r) \in Seq(Sample) /\ Len(Tail(r)) = Len(r) - 1
      /\ \A i \in 1 .. Len(r) - 1 : Tail(r)[i] = r[i + 1]
  BY <1>1, HeadTailProperties
<1>4. Head(r) = r[1]
  BY <1>1, <1>2
<1> QED  BY <1>2, <1>3, <1>4, SampleSeqsAre DEF Popped

\* A sample appended.
LEMMA AppendLengthens ==
  ASSUME NEW s \in SampleSeqs, NEW x \in Sample
  PROVE  Append(s, x) \in SampleSeqs /\ Longer(s, Append(s, x), x)
<1>1. s \in Seq(Sample)
  BY SampleSeqsAre
<1> QED  BY <1>1, SampleSeqsAre DEF Longer

\* Intervals from 1 that are equal end at the same number.
LEMMA SameInterval == \A m, n \in Nat : 1 .. m = 1 .. n => m = n
<1> SUFFICES ASSUME NEW m \in Nat, NEW n \in Nat, 1 .. m = 1 .. n  PROVE m = n
  OBVIOUS
<1>1. \A i : i \in 1 .. m <=> i \in 1 .. n
  OBVIOUS
<1>2. (m \in 1 .. m => m \in 1 .. n) /\ (n \in 1 .. n => n \in 1 .. m)
  BY <1>1
<1> QED  BY <1>2

\* push_slice: what fits is appended.
LEMMA SliceFills ==
  ASSUME NEW r \in SampleSeqs, NEW fit \in Nat, NEW from \in Nat, from + fit <= MaxSamples,
         NEW q, q = [i \in 1 .. fit |-> from + i - 1]
  PROVE  r \o q \in SampleSeqs /\ Filled(r, r \o q, fit, from)
<1>1. r \in Seq(Sample) /\ Len(r) \in Nat
  BY SampleSeqsAre, LenProperties
<1>2. \A i \in 1 .. fit : q[i] = from + i - 1
  OBVIOUS
<1>3. q \in [1 .. fit -> Sample]
  BY CaptureAssumption DEF Sample
<1>4. q \in Seq(Sample) /\ Len(q) = fit
  <2>1. q \in Seq(Sample)
    BY <1>3, SeqDef, Zenon
  <2>2. DOMAIN q = 1 .. Len(q) /\ DOMAIN q = 1 .. fit /\ Len(q) \in Nat
    BY <1>3, <2>1, LenProperties
  <2>3. Len(q) = fit
    BY <2>2, SameInterval, Zenon
  <2> QED  BY <2>1, <2>3
<1>5. /\ r \o q \in Seq(Sample) /\ Len(r \o q) = Len(r) + fit
      /\ \A i \in 1 .. Len(r) + fit : (r \o q)[i] = IF i <= Len(r) THEN r[i] ELSE q[i - Len(r)]
  BY <1>1, <1>4, ConcatProperties
<1>6. \A i \in 1 .. fit : (r \o q)[Len(r) + i] = q[i]
  <2> QED  BY <1>1, <1>5
<1>7. \A i \in 1 .. Len(r) : (r \o q)[i] = r[i]
  <2> QED  BY <1>1, <1>5
<1> QED  BY <1>2, <1>5, <1>6, <1>7, SampleSeqsAre DEF Filled

-----------------------------------------------------------------------------
\* One more chunk, the next chunk sent, the next chunk dropped.
OneMore(s, k, l, x) ==
  /\ Len(l) = Len(k) + 1
  /\ \A c \in 1 .. Len(s) + Len(k) : CutOf(s, l, c) = CutOf(s, k, c)
  /\ CutOf(s, l, Len(s) + Len(k) + 1) = x.samples
OneSent(s, k, l, m) ==
  /\ Len(l) + Len(m) = Len(s) + Len(k)
  /\ \A c \in 1 .. Len(s) + Len(k) : CutOf(l, m, c) = CutOf(s, k, c)
OneDropped(s, k, m) ==
  /\ Len(s) + Len(m) = Len(s) + Len(k) - 1
  /\ \A c \in 1 .. Len(s) + Len(k) - 1 :
       CutOf(s, m, c) = IF c <= Len(s) THEN CutOf(s, k, c) ELSE CutOf(s, k, c + 1)

\* A chunk appended to those to be sent is the last one.
LEMMA CutsAppend ==
  ASSUME NEW s \in Seq(Chunk), NEW k \in Seq(Chunk), NEW x \in Chunk, NEW l, l = Append(k, x)
  PROVE  OneMore(s, k, l, x)
<1>1. Len(s) \in Nat /\ Len(k) \in Nat
  BY LenProperties
<1>2. l \in Seq(Chunk) /\ Len(l) = Len(k) + 1 /\ l[Len(k) + 1] = x /\ \A i \in 1 .. Len(k) : l[i] = k[i]
  OBVIOUS
<1>3. ASSUME NEW c \in 1 .. Len(s) + Len(k)  PROVE CutOf(s, l, c) = CutOf(s, k, c)
  <2>1. ~(c <= Len(s)) => c - Len(s) \in 1 .. Len(k)
    BY <1>1
  <2> QED  BY <1>2, <2>1 DEF CutOf
<1>4. CutOf(s, l, Len(s) + Len(k) + 1) = x.samples
  <2>1. ~(Len(s) + Len(k) + 1 <= Len(s)) /\ Len(s) + Len(k) + 1 - Len(s) = Len(k) + 1
    BY <1>1
  <2> QED  BY <1>2, <2>1 DEF CutOf
<1> QED  BY <1>2, <1>3, <1>4 DEF OneMore

\* The head and the tail of chunks.
LEMMA ChunkTail ==
  ASSUME NEW k \in Seq(Chunk), k # <<>>
  PROVE  /\ Tail(k) \in Seq(Chunk) /\ Len(k) \in Nat /\ Len(k) > 0 /\ Len(Tail(k)) = Len(k) - 1
         /\ \A i \in 1 .. Len(k) - 1 : Tail(k)[i] = k[i + 1]
         /\ Head(k) = k[1] /\ Head(k) \in Chunk
<1>1. Len(k) \in Nat /\ Len(k) > 0
  BY EmptySeq
<1>2. /\ Head(k) \in Chunk /\ Tail(k) \in Seq(Chunk) /\ Len(Tail(k)) = Len(k) - 1
      /\ \A i \in 1 .. Len(k) - 1 : Tail(k)[i] = k[i + 1]
  BY HeadTailProperties
<1>3. Head(k) = k[1]
  BY <1>1
<1> QED  BY <1>1, <1>2, <1>3

\* A chunk sent, with its samples, keeps its number.
LEMMA CutsMove ==
  ASSUME NEW s \in Seq(Chunk), NEW k \in Seq(Chunk), k # <<>>,
         NEW y \in Chunk, y.samples = k[1].samples, NEW l, l = Append(s, y), NEW m, m = Tail(k)
  PROVE  OneSent(s, k, l, m)
<1>1. /\ Len(s) \in Nat /\ Len(k) \in Nat /\ Len(k) > 0 /\ Len(m) = Len(k) - 1
      /\ \A i \in 1 .. Len(k) - 1 : m[i] = k[i + 1]
  BY ChunkTail, LenProperties
<1>2. Len(l) = Len(s) + 1 /\ l[Len(s) + 1] = y /\ \A i \in 1 .. Len(s) : l[i] = s[i]
  OBVIOUS
<1>3. ASSUME NEW c \in 1 .. Len(s) + Len(k)  PROVE CutOf(l, m, c) = CutOf(s, k, c)
  <2>1. CASE c <= Len(s)
    BY <1>1, <1>2, <2>1 DEF CutOf
  <2>2. CASE c = Len(s) + 1
    <3>1. c <= Len(l) /\ ~(c <= Len(s)) /\ c - Len(s) = 1
      BY <1>1, <1>2, <2>2
    <3> QED  BY <1>2, <2>2, <3>1 DEF CutOf
  <2>3. CASE c > Len(s) + 1
    <3>1. ~(c <= Len(l)) /\ ~(c <= Len(s)) /\ c - Len(l) \in 1 .. Len(k) - 1 /\ (c - Len(l)) + 1 = c - Len(s)
      BY <1>1, <1>2, <2>3
    <3> QED  BY <1>1, <3>1 DEF CutOf
  <2> QED  BY <1>1, <2>1, <2>2, <2>3
<1> QED  BY <1>1, <1>2, <1>3 DEF OneSent

\* Where a chunk is dropped, the later ones move up.
LEMMA CutsDrop ==
  ASSUME NEW s \in Seq(Chunk), NEW k \in Seq(Chunk), k # <<>>, NEW m, m = Tail(k)
  PROVE  OneDropped(s, k, m)
<1>1. /\ Len(s) \in Nat /\ Len(k) \in Nat /\ Len(k) > 0 /\ Len(m) = Len(k) - 1
      /\ \A i \in 1 .. Len(k) - 1 : m[i] = k[i + 1]
  BY ChunkTail, LenProperties
<1>2. ASSUME NEW c \in 1 .. Len(s) + Len(k) - 1
      PROVE  CutOf(s, m, c) = IF c <= Len(s) THEN CutOf(s, k, c) ELSE CutOf(s, k, c + 1)
  <2>1. CASE c <= Len(s)
    BY <2>1 DEF CutOf
  <2>2. CASE ~(c <= Len(s))
    <3>1. ~(c + 1 <= Len(s)) /\ c - Len(s) \in 1 .. Len(k) - 1 /\ (c - Len(s)) + 1 = (c + 1) - Len(s)
      BY <1>1, <2>2
    <3> QED  BY <1>1, <2>2, <3>1 DEF CutOf
  <2> QED  BY <2>1, <2>2
<1> QED  BY <1>1, <1>2 DEF OneDropped

-----------------------------------------------------------------------------
\* What a step does to the pieces: it delivers samples or nothing, pops one sample,
\* ends a chunk with a popped sample or with the end of the ring, or drops the
\* chunk that is next to be sent.
SameCuts      == Cuts' = Cuts /\ \A c \in 1 .. Cuts : NextCut(c) = Cut(c)
NewCut(part)  ==
  Cuts' = Cuts + 1 /\ (\A c \in 1 .. Cuts : NextCut(c) = Cut(c)) /\ NextCut(Cuts + 1) = part

Delivers ==
  /\ SameCuts /\ samples' = samples
  /\ bridge \in {"flush", "done"} => bridge' \in {"flush", "done"}
  /\ heard' >= heard
  /\ \E fit \in 0 .. heard' - heard :
       Filled(ring, ring', fit, heard) /\ (fit < heard' - heard => Len(ring') = RingSize)

Pops ==
  /\ SameCuts /\ UNCHANGED <<heard, bridge>> /\ bridge \in {"read", "drainRead", "drainRest"}
  /\ ring # <<>> /\ Popped(ring, ring') /\ Longer(samples, samples', ring[1])

EndsChunk ==
  /\ UNCHANGED heard /\ bridge \in {"read", "drainRead"}
  /\ ring # <<>> /\ Popped(ring, ring') /\ samples' = <<>> /\ Len(samples) + 1 = ChunkSize
  /\ \E part \in SampleSeqs : NewCut(part) /\ Longer(samples, part, ring[1])

EndsRest ==
  /\ UNCHANGED <<heard, ring>> /\ bridge = "drainRest" /\ bridge' = "flush"
  /\ ring = <<>> /\ samples # <<>> /\ samples' = <<>> /\ NewCut(samples)

Drops ==
  /\ ~open' /\ UNCHANGED <<heard, samples, ring>>
  /\ chunks # <<>> /\ Cuts' = Cuts - 1
  /\ \A c \in 1 .. Cuts - 1 : NextCut(c) = IF c <= Len(sent) THEN Cut(c) ELSE Cut(c + 1)
  /\ bridge = "flush" => bridge' = "flush"
  /\ bridge \in {"send", "flush"}

\* The chunks are the same where no sequence of them changes.
LEMMA SameIfUnchanged ==
  ASSUME UNCHANGED <<sent, chunks>>
  PROVE  SameCuts
BY DEF SameCuts, Cuts, Cut, NextCut

\* A step that hands nothing over delivers nothing.
LEMMA Stands ==
  ASSUME TypeOK, SameCuts, UNCHANGED <<samples, ring, heard>>,
         bridge \in {"flush", "done"} => bridge' \in {"flush", "done"}
  PROVE  Delivers
<1>1. heard \in Nat /\ Len(ring) \in Nat /\ heard' = heard /\ ring' = ring
  BY CaptureAssumption, Sequences DEF TypeOK
<1>2. Filled(ring, ring', 0, heard)
  BY <1>1 DEF Filled
<1>3. 0 \in 0 .. heard' - heard /\ ~(0 < heard' - heard)
  BY <1>1
<1> QED  BY <1>1, <1>2, <1>3 DEF Delivers

\* A callback delivers, and what it does not deliver finds the ring full.
LEMMA DeviceMoves ==
  ASSUME TypeOK, TypeOK', Device
  PROVE  Delivers
<1>0. /\ heard \in Nat /\ heard' \in Nat /\ heard' <= MaxSamples /\ MaxSamples \in Nat
      /\ RingSize \in Nat /\ ring \in SampleSeqs /\ Len(ring) \in Nat /\ Len(ring) <= RingSize
      /\ burst \in Nat
  BY CaptureAssumption, Sequences DEF TypeOK
<1>1. ASSUME NEW n \in CallbackSizes, CallbackI16(n)  PROVE Delivers
  <2>1. n \in Nat /\ SameCuts /\ UNCHANGED <<samples, bridge>> /\ heard' = heard + n
    BY <1>1, CaptureAssumption, SameIfUnchanged DEF CallbackI16, outVars
  <2> DEFINE free == RingSize - Len(ring)
             fit  == IF n < free THEN n ELSE free
  <2>2. fit \in 0 .. n /\ (fit < n => fit = RingSize - Len(ring)) /\ free \in Nat
    BY <1>0, <2>1
  <2>3. ring' = ring \o [i \in 1 .. fit |-> heard + i - 1]
    BY <1>1 DEF CallbackI16
  <2> HIDE DEF fit
  <2>4. PICK q : q = [i \in 1 .. fit |-> heard + i - 1]
    OBVIOUS
  <2>5. fit \in Nat /\ heard + fit <= MaxSamples
    BY <1>0, <2>1, <2>2
  <2>6. Filled(ring, ring', fit, heard)
    BY <1>0, <2>3, <2>4, <2>5, SliceFills
  <2>7. fit < heard' - heard => Len(ring') = RingSize
    BY <1>0, <2>1, <2>2, <2>6 DEF Filled
  <2>8. fit \in 0 .. heard' - heard /\ heard' >= heard
    BY <1>0, <2>1, <2>2
  <2> QED  BY <2>1, <2>6, <2>7, <2>8 DEF Delivers
<1>2. ASSUME NEW n \in CallbackSizes, CallbackF32(n)  PROVE Delivers
  <2>1. SameCuts /\ UNCHANGED <<samples, bridge, ring, heard>>
    BY <1>2, SameIfUnchanged DEF CallbackF32, outVars
  <2> QED  BY <2>1, Stands
<1>3. CASE TryPush
  <2>1. SameCuts /\ UNCHANGED <<samples, bridge>> /\ heard' = heard + 1
    BY <1>3, SameIfUnchanged DEF TryPush, outVars
  <2>2. CASE Len(ring) < RingSize
    <3>1. ring' = Append(ring, heard) /\ heard \in Sample
      BY <1>0, <1>3, <2>1, <2>2 DEF TryPush, Sample
    <3>2. Longer(ring, ring', heard)
      BY <1>0, <3>1, AppendLengthens
    <3>3. Filled(ring, ring', 1, heard)
      BY <1>0, <3>2 DEF Longer, Filled
    <3>4. 1 \in 0 .. heard' - heard /\ ~(1 < heard' - heard) /\ heard' >= heard
      BY <1>0, <2>1
    <3> QED  BY <2>1, <3>3, <3>4 DEF Delivers
  <2>3. CASE ~(Len(ring) < RingSize)
    <3>1. ring' = ring /\ Len(ring') = RingSize
      BY <1>0, <1>3, <2>3 DEF TryPush
    <3>2. Filled(ring, ring', 0, heard)
      BY <1>0, <3>1 DEF Filled
    <3>3. 0 \in 0 .. heard' - heard /\ heard' >= heard
      BY <1>0, <2>1
    <3> QED  BY <2>1, <3>1, <3>2, <3>3 DEF Delivers
  <2> QED  BY <2>2, <2>3
<1> QED  BY <1>1, <1>2, <1>3 DEF Device

\* The first element of a sequence.
LEMMA AppendToEmpty == \A x : Append(<<>>, x) = <<x>>
OBVIOUS

\* try_read_chunk and the first loop of drain pop, or end a chunk.
LEMMA TryPopMoves ==
  ASSUME TypeOK, Steps, TryPop
  PROVE  Pops \/ EndsChunk
<1>0. /\ sent \in Seq(Chunk) /\ chunks \in Seq(Chunk) /\ samples \in SampleSeqs /\ ring \in SampleSeqs
      /\ Len(samples) \in Nat /\ Len(ring) \in Nat /\ ChunkSize \in Nat /\ timestamp \in Nat
  BY Sequences, CaptureAssumption DEF TypeOK
<1>1. /\ bridge \in {"read", "drainRead"} /\ ring' = Tail(ring) /\ UNCHANGED <<heard, open, sent>>
      /\ Len(samples) < ChunkSize /\ ChunkSize <= Len(samples) + Len(ring)
  BY DEF TryPop, BridgeStep, deviceVars, outVars, Steps
<1>2. ring # <<>>
  BY <1>0, <1>1
<1>3. Popped(ring, ring') /\ Head(ring) = ring[1] /\ Head(ring) \in Sample
  BY <1>0, <1>1, <1>2, TailPops
<1>4. PICK part : part = Append(samples, Head(ring))
  OBVIOUS
<1>5. part \in SampleSeqs /\ Longer(samples, part, ring[1])
  BY <1>0, <1>3, <1>4, AppendLengthens
<1>6. CASE Len(part) < ChunkSize
  <2>1. samples' = part /\ UNCHANGED <<bridge, chunks>>
    BY <1>4, <1>6 DEF TryPop
  <2>2. SameCuts
    BY <1>1, <2>1, SameIfUnchanged
  <2> QED  BY <1>1, <1>2, <1>3, <1>5, <2>1, <2>2 DEF Pops
<1>7. CASE ~(Len(part) < ChunkSize)
  <2>1. /\ samples' = <<>>
        /\ \/ bridge = "read" /\ chunks' = <<Converted(part, timestamp)>>
           \/ bridge = "drainRead" /\ chunks' = Append(chunks, Converted(part, 0))
    BY <1>1, <1>4, <1>7 DEF TryPop
  <2>2. PICK at \in Nat : chunks' = Append(chunks, Converted(part, at))
    <3>1. CASE bridge = "read" /\ chunks' = <<Converted(part, timestamp)>>
      <4>1. chunks = <<>>
        BY <3>1 DEF Steps
      <4>2. chunks' = Append(chunks, Converted(part, timestamp))
        BY <3>1, <4>1, AppendToEmpty, Zenon
      <4> QED  BY <1>0, <4>2
    <3>2. CASE chunks' = Append(chunks, Converted(part, 0))
      BY <3>2
    <3> QED  BY <2>1, <3>1, <3>2
  <2>3. Converted(part, at) \in Chunk /\ Converted(part, at).samples = part
    BY <1>5, ChunkFields
  <2>4. PICK x \in Chunk : x = Converted(part, at) /\ x.samples = part
    BY <2>3
  <2>5. /\ Len(chunks') = Len(chunks) + 1
        /\ \A c \in 1 .. Len(sent) + Len(chunks) : CutOf(sent, chunks', c) = CutOf(sent, chunks, c)
        /\ CutOf(sent, chunks', Len(sent) + Len(chunks) + 1) = part
    <3>1. chunks' = Append(chunks, x)
      BY <2>2, <2>4
    <3>2. OneMore(sent, chunks, chunks', x)
      BY <1>0, <3>1, CutsAppend, Zenon
    <3> QED  BY <2>4, <3>2, Zenon DEF OneMore
  <2>6. NewCut(part)
    <3>1. sent' = sent /\ Len(sent) \in Nat /\ Len(chunks) \in Nat
      BY <1>1, Sequences
    <3>2. Cuts' = Cuts + 1
      BY <2>5, <3>1 DEF Cuts
    <3>3. \A c \in 1 .. Cuts : NextCut(c) = Cut(c)
      BY <2>5, <3>1 DEF Cuts, NextCut, Cut
    <3>4. NextCut(Cuts + 1) = part
      BY <2>5, <3>1 DEF Cuts, NextCut
    <3> QED  BY <3>2, <3>3, <3>4 DEF NewCut
  <2>7. Len(samples) + 1 = ChunkSize
    BY <1>0, <1>1, <1>5, <1>7 DEF Longer
  <2> QED  BY <1>1, <1>2, <1>3, <1>5, <2>1, <2>6, <2>7 DEF EndsChunk
<1> QED  BY <1>6, <1>7

\* The last loop of drain pops, or ends the rest.
LEMMA PopRestMoves ==
  ASSUME TypeOK, Steps, PopRest
  PROVE  Pops \/ EndsRest
<1>0. /\ sent \in Seq(Chunk) /\ chunks \in Seq(Chunk) /\ samples \in SampleSeqs /\ ring \in SampleSeqs
      /\ Len(sent) \in Nat /\ Len(chunks) \in Nat
  BY Sequences
<1>1. bridge = "drainRest" /\ UNCHANGED <<heard, open, sent>>
  BY DEF PopRest, BridgeStep, deviceVars, outVars
<1>2. CASE ring # <<>>
  <2>1. ring' = Tail(ring) /\ samples' = Append(samples, Head(ring)) /\ UNCHANGED <<bridge, chunks>>
    BY <1>2 DEF PopRest
  <2>2. Popped(ring, ring') /\ Head(ring) = ring[1] /\ Head(ring) \in Sample
    BY <1>0, <1>2, <2>1, TailPops
  <2>3. Longer(samples, samples', ring[1])
    BY <1>0, <2>1, <2>2, AppendLengthens
  <2>4. SameCuts
    BY <1>1, <2>1, SameIfUnchanged
  <2> QED  BY <1>1, <1>2, <2>1, <2>2, <2>3, <2>4 DEF Pops
<1>3. CASE ring = <<>>
  <2>1. /\ chunks' = Append(chunks, Converted(samples, 0)) /\ samples' = <<>> /\ bridge' = "flush" /\ ring' = ring
    BY <1>3 DEF PopRest
  <2>2. samples # <<>>
    BY <1>1, <1>3 DEF Steps
  <2>3. PICK x \in Chunk : x = Converted(samples, 0) /\ x.samples = samples
    BY <1>0, ChunkFields
  <2>4. OneMore(sent, chunks, chunks', x)
    <3>1. chunks' = Append(chunks, x)
      BY <2>1, <2>3
    <3> QED  BY <1>0, <3>1, CutsAppend, Zenon
  <2>5. NewCut(samples)
    <3>1. sent' = sent
      BY <1>1
    <3>2. Cuts' = Cuts + 1
      BY <1>0, <2>4, <3>1 DEF Cuts, OneMore
    <3>3. \A c \in 1 .. Cuts : NextCut(c) = Cut(c)
      BY <2>4, <3>1 DEF Cuts, NextCut, Cut, OneMore
    <3>4. NextCut(Cuts + 1) = samples
      BY <1>0, <2>3, <2>4, <3>1 DEF Cuts, NextCut, OneMore
    <3> QED  BY <3>2, <3>3, <3>4 DEF NewCut
  <2> QED  BY <1>1, <1>3, <2>1, <2>2, <2>5 DEF EndsRest
<1> QED  BY <1>2, <1>3

\* A chunk leaves the bridge: to the router, or it is lost with it.
LEMMA Leaves ==
  ASSUME TypeOK, TypeOK', chunks # <<>>, chunks' = Tail(chunks),
         UNCHANGED <<heard, samples, ring, open>>, bridge \in {"send", "flush"},
         bridge = "flush" => bridge' = "flush",
         \/ open /\ \E y \in Chunk : y.samples = chunks[1].samples /\ sent' = Append(sent, y)
         \/ ~open /\ sent' = sent
  PROVE  Delivers \/ Drops
<1>0. /\ sent \in Seq(Chunk) /\ chunks \in Seq(Chunk) /\ Len(sent) \in Nat /\ Len(chunks) \in Nat
  BY Sequences
<1>1. CASE open /\ \E y \in Chunk : y.samples = chunks[1].samples /\ sent' = Append(sent, y)
  <2>1. PICK y \in Chunk : y.samples = chunks[1].samples /\ sent' = Append(sent, y)
    BY <1>1
  <2>2. OneSent(sent, chunks, sent', chunks')
    BY <1>0, <2>1, CutsMove, Zenon
  <2>3. SameCuts
    BY <2>2 DEF SameCuts, OneSent, Cuts, NextCut, Cut
  <2> QED  BY <2>3, Stands
<1>2. CASE ~open /\ sent' = sent
  <2>1. OneDropped(sent, chunks, chunks')
    BY <1>0, CutsDrop, Zenon
  <2>2. Cuts' = Cuts - 1
    BY <1>0, <1>2, <2>1 DEF OneDropped, Cuts
  <2>3. \A c \in 1 .. Cuts - 1 : NextCut(c) = IF c <= Len(sent) THEN Cut(c) ELSE Cut(c + 1)
    BY <1>0, <1>2, <2>1 DEF OneDropped, Cuts, NextCut, Cut
  <2> QED  BY <1>2, <2>2, <2>3 DEF Drops
<1> QED  BY <1>1, <1>2

\* Sending a vector of one chunk sends that chunk.
LEMMA SentOne ==
  ASSUME NEW s \in Seq(Chunk), NEW k \in Seq(Chunk), Len(k) = 1
  PROVE  s \o k = Append(s, k[1])
<1>0. Len(s) \in Nat /\ k[1] \in Chunk
  <2>1. k # <<>>
    BY EmptySeq
  <2> QED  BY <2>1, ChunkTail, LenProperties
<1>1. /\ s \o k \in Seq(Chunk) /\ Len(s \o k) = Len(s) + 1
      /\ \A i \in 1 .. Len(s) + 1 :
           (s \o k)[i] = IF i <= Len(s) THEN s[i] ELSE k[i - Len(s)]
  BY ConcatProperties
<1>2. /\ Append(s, k[1]) \in Seq(Chunk) /\ Len(Append(s, k[1])) = Len(s) + 1
      /\ \A i \in 1 .. Len(s) + 1 :
           Append(s, k[1])[i] = IF i <= Len(s) THEN s[i] ELSE k[1]
  BY <1>0
<1>3. \A i \in 1 .. Len(s) + 1 : (s \o k)[i] = Append(s, k[1])[i]
  <2>1. \A i \in 1 .. Len(s) + 1 : ~(i <= Len(s)) => i - Len(s) = 1
    BY <1>0
  <2> QED  BY <1>1, <1>2, <2>1
<1> QED  BY <1>1, <1>2, <1>3, SeqEqual

\* A chunk sent keeps its place; without a router it is dropped.
LEMMA SendMoves ==
  ASSUME TypeOK, TypeOK', Steps, Send
  PROVE  Delivers \/ Drops
<1>0. /\ sent \in Seq(Chunk) /\ chunks \in Seq(Chunk) /\ Len(sent) \in Nat /\ Len(chunks) \in Nat
  BY Sequences
<1>1. /\ bridge = "send" /\ chunks' = <<>> /\ UNCHANGED <<heard, samples, ring, open>> /\ Len(chunks) = 1
      /\ \/ open /\ sent' = sent \o chunks
         \/ ~open /\ sent' = sent
  BY DEF Send, BridgeStep, deviceVars, Steps
<1>2. chunks # <<>> /\ chunks[1] \in Chunk /\ chunks' = Tail(chunks)
  <2>1. chunks # <<>>
    BY <1>1, EmptySeq
  <2>2. chunks[1] \in Chunk
    BY <1>0, <2>1, ChunkTail
  <2>3. Tail(chunks) \in Seq(Chunk) /\ Len(Tail(chunks)) = 0
    BY <1>0, <1>1, <2>1, ChunkTail
  <2>4. Tail(chunks) = <<>>
    BY <2>3, EmptySeq
  <2> QED  BY <1>1, <2>1, <2>2, <2>4
<1>3. sent \o chunks = Append(sent, chunks[1])
  BY <1>0, <1>1, SentOne
<1> QED  BY <1>1, <1>2, <1>3, Leaves

\* So does each drained chunk.
LEMMA FlushMoves ==
  ASSUME TypeOK, TypeOK', Steps, Flush
  PROVE  Delivers \/ Drops
<1>0. /\ chunks \in Seq(Chunk) /\ timestamp \in Nat
  BY Sequences DEF TypeOK
<1>1. bridge = "flush" /\ UNCHANGED <<heard, samples, ring, open>>
  BY DEF Flush, BridgeStep, deviceVars
<1>2. CASE chunks = <<>>
  <2>1. bridge' = "done" /\ SameCuts
    BY <1>2, SameIfUnchanged DEF Flush
  <2> QED  BY <1>1, <2>1, Stands
<1>3. CASE chunks # <<>>
  <2>1. /\ chunks' = Tail(chunks) /\ bridge' = "flush"
        /\ \/ open /\ sent' = Append(sent, Converted(Head(chunks).samples, timestamp))
           \/ ~open /\ sent' = sent
    BY <1>1, <1>3 DEF Flush
  <2>2. Head(chunks) = chunks[1] /\ Head(chunks) \in Chunk
    BY <1>0, <1>3, ChunkTail
  <2>3. PICK y \in Chunk : y = Converted(Head(chunks).samples, timestamp) /\ y.samples = chunks[1].samples
    BY <1>0, <2>2, ChunkFields
  <2> QED  BY <1>1, <1>3, <2>1, <2>3, Leaves
<1> QED  BY <1>2, <1>3

\* Every step is one of the moves.
LEMMA Moves ==
  ASSUME TypeOK, TypeOK', Steps, [Next]_vars
  PROVE  Delivers \/ Pops \/ EndsChunk \/ EndsRest \/ Drops
<1>1. CASE Check \/ HasChunk
  <2>1. SameCuts /\ UNCHANGED <<samples, ring, heard>>
    BY <1>1, SameIfUnchanged DEF Check, HasChunk, BridgeStep, deviceVars, outVars
  <2>2. bridge \notin {"flush", "done"}
    BY <1>1 DEF Check, HasChunk
  <2> QED  BY <2>1, <2>2, Stands
<1>2. CASE Stop \/ DropStream \/ RouterExit \/ UNCHANGED vars
  <2>1. SameCuts /\ UNCHANGED <<samples, ring, heard, bridge>>
    BY <1>2, SameIfUnchanged DEF Stop, DropStream, RouterExit, vars, deviceVars, outVars
  <2> QED  BY <2>1, Stands
<1> QED  BY <1>1, <1>2, DeviceMoves, TryPopMoves, PopRestMoves, SendMoves, FlushMoves DEF Next, Bridge

-----------------------------------------------------------------------------
\* What popping, appending and filling do to the order of samples.
LEMMA PoppedOrder ==
  ASSUME NEW r \in SampleSeqs, NEW t \in SampleSeqs, Popped(r, t), Len(r) > 0
  PROVE  /\ Ascends(r) => Ascends(t) /\ \A i \in DOMAIN t : r[1] < t[i]
         /\ \A n \in Nat : AllBelow(r, n) => AllBelow(t, n)
         /\ \A s \in SampleSeqs : Follows(s, r) => Follows(s, t)
<1>1. /\ Len(r) \in Nat /\ DOMAIN r = 1 .. Len(r) /\ Len(t) = Len(r) - 1 /\ DOMAIN t = 1 .. Len(r) - 1
      /\ \A i \in DOMAIN t : t[i] = r[i + 1] /\ i + 1 \in DOMAIN r
  BY SampleSeq DEF Popped
<1>2. Ascends(r) => Ascends(t) /\ \A i \in DOMAIN t : r[1] < t[i]
  BY <1>1 DEF Ascends
<1>3. \A n \in Nat : AllBelow(r, n) => AllBelow(t, n)
  BY <1>1 DEF AllBelow
<1>4. \A s \in SampleSeqs : Follows(s, r) => Follows(s, t)
  BY <1>1 DEF Follows
<1> QED  BY <1>2, <1>3, <1>4

\* What appending does to the order of samples.
LEMMA LongerOrder ==
  ASSUME NEW s \in SampleSeqs, NEW t \in SampleSeqs, NEW x \in Sample, Longer(s, t, x)
  PROVE  /\ Ascends(s) /\ AllBelow(s, x) => Ascends(t)
         /\ \A n \in Nat : AllBelow(s, n) /\ x < n => AllBelow(t, n)
         /\ \A u \in SampleSeqs : Follows(u, s) /\ AllBelow(u, x) => Follows(u, t)
         /\ \A r \in SampleSeqs : Follows(s, r) /\ (\A i \in DOMAIN r : x < r[i]) => Follows(t, r)
<1>1. /\ Len(s) \in Nat /\ DOMAIN s = 1 .. Len(s) /\ DOMAIN t = 1 .. Len(s) + 1
      /\ \A i \in DOMAIN s : t[i] = s[i]
      /\ t[Len(s) + 1] = x
  BY SampleSeq DEF Longer
<1>2. \A i \in DOMAIN t : i \in DOMAIN s \/ i = Len(s) + 1
  BY <1>1
<1>3. Ascends(s) /\ AllBelow(s, x) => Ascends(t)
  <2>1. \A i, j \in DOMAIN t : i < j => i \in DOMAIN s
    BY <1>1
  <2> QED  BY <1>1, <1>2, <2>1 DEF Ascends, AllBelow
<1>4. \A n \in Nat : AllBelow(s, n) /\ x < n => AllBelow(t, n)
  BY <1>1, <1>2 DEF AllBelow
<1>5. \A u \in SampleSeqs : Follows(u, s) /\ AllBelow(u, x) => Follows(u, t)
  BY <1>1, <1>2 DEF Follows, AllBelow
<1>6. \A r \in SampleSeqs : Follows(s, r) /\ (\A i \in DOMAIN r : x < r[i]) => Follows(t, r)
  BY <1>1, <1>2 DEF Follows
<1> QED  BY <1>3, <1>4, <1>5, <1>6

\* What the device's samples do to the order of the ring: they are later than all.
LEMMA FilledOrder ==
  ASSUME NEW r \in SampleSeqs, NEW t \in SampleSeqs, NEW fit \in Nat, NEW h \in Nat,
         Filled(r, t, fit, h), AllBelow(r, h)
  PROVE  /\ Ascends(r) => Ascends(t)
         /\ AllBelow(t, h + fit)
         /\ \A s \in SampleSeqs : Follows(s, r) /\ AllBelow(s, h) => Follows(s, t)
<1>1. /\ Len(r) \in Nat /\ DOMAIN r = 1 .. Len(r) /\ DOMAIN t = 1 .. Len(r) + fit
      /\ \A i \in DOMAIN r : t[i] = r[i] /\ r[i] \in Int
  BY SampleSeq DEF Filled
<1>2. \A i \in DOMAIN t : i \notin DOMAIN r => t[i] = h + (i - Len(r)) - 1 /\ i - Len(r) \in 1 .. fit
  <2> SUFFICES ASSUME NEW i \in DOMAIN t, i \notin DOMAIN r
               PROVE  t[i] = h + (i - Len(r)) - 1 /\ i - Len(r) \in 1 .. fit
    OBVIOUS
  <2>1. i - Len(r) \in 1 .. fit /\ Len(r) + (i - Len(r)) = i
    BY <1>1
  <2>2. \A j \in 1 .. fit : t[Len(r) + j] = h + j - 1
    BY DEF Filled
  <2>3. t[Len(r) + (i - Len(r))] = h + (i - Len(r)) - 1
    BY <2>1, <2>2
  <2> QED  BY <2>1, <2>3
<1>3. \A i \in DOMAIN t : i \notin DOMAIN r => t[i] >= h /\ t[i] < h + fit
  BY <1>1, <1>2
<1>4. ASSUME Ascends(r)  PROVE Ascends(t)
  <2> SUFFICES ASSUME NEW i \in DOMAIN t, NEW j \in DOMAIN t, i < j  PROVE t[i] < t[j]
    BY DEF Ascends
  <2>1. CASE j \in DOMAIN r
    <3>1. i \in DOMAIN r
      BY <1>1, <2>1
    <3> QED  BY <1>1, <1>4, <2>1, <3>1 DEF Ascends
  <2>2. CASE j \notin DOMAIN r
    <3>1. CASE i \in DOMAIN r
      <4>1. t[i] \in Int /\ t[i] < h /\ t[j] >= h /\ t[j] \in Int
        BY <1>1, <1>2, <1>3, <2>2, <3>1 DEF AllBelow
      <4> QED  BY <4>1
    <3>2. CASE i \notin DOMAIN r
      BY <1>1, <1>2, <2>2, <3>2
    <3> QED  BY <3>1, <3>2
  <2> QED  BY <2>1, <2>2
<1>5. AllBelow(t, h + fit)
  <2>1. \A i \in DOMAIN r : t[i] < h + fit
    BY <1>1 DEF AllBelow
  <2> QED  BY <1>3, <2>1 DEF AllBelow
<1>6. ASSUME NEW s \in SampleSeqs, Follows(s, r), AllBelow(s, h)  PROVE Follows(s, t)
  <2> SUFFICES ASSUME NEW i \in DOMAIN s, NEW j \in DOMAIN t  PROVE s[i] < t[j]
    BY DEF Follows
  <2>1. s[i] \in Int /\ s[i] < h
    BY <1>6, SampleSeq DEF AllBelow
  <2>2. CASE j \in DOMAIN r
    BY <1>1, <1>6, <2>2 DEF Follows
  <2>3. CASE j \notin DOMAIN r
    <3>1. t[j] >= h /\ t[j] \in Int
      BY <1>1, <1>2, <1>3, <2>3
    <3> QED  BY <2>1, <3>1
  <2> QED  BY <2>2, <2>3
<1> QED  BY <1>4, <1>5, <1>6

-----------------------------------------------------------------------------
\* What the invariant says of the next state, by NextCut.
OrderedNext ==
  /\ \A c \in 1 .. Cuts' :
       /\ Ascends(NextCut(c)) /\ AllBelow(NextCut(c), heard')
       /\ Follows(NextCut(c), samples') /\ Follows(NextCut(c), ring')
       /\ \A d \in 1 .. Cuts' : c < d => Follows(NextCut(c), NextCut(d))
  /\ Ascends(samples') /\ Ascends(ring') /\ Follows(samples', ring')
  /\ AllBelow(samples', heard') /\ AllBelow(ring', heard')

\* OrderedNext is Ordered of the next state.
LEMMA OrderedPrimed == OrderedNext => Ordered'
BY DEF OrderedNext, Ordered, Cut, NextCut, Ascends, AllBelow, Follows

\* The pieces before and after a step are sequences of samples.
LEMMA PieceTypes ==
  ASSUME TypeOK, TypeOK'
  PROVE  /\ Cuts \in Nat /\ Cuts' \in Nat /\ heard \in Nat /\ heard' \in Nat
         /\ samples \in SampleSeqs /\ samples' \in SampleSeqs
         /\ ring \in SampleSeqs /\ ring' \in SampleSeqs
         /\ \A c \in 1 .. Cuts : Cut(c) \in SampleSeqs
         /\ \A c \in 1 .. Cuts' : NextCut(c) \in SampleSeqs
<1>1. /\ sent \in Seq(Chunk) /\ sent' \in Seq(Chunk) /\ chunks \in Seq(Chunk) /\ chunks' \in Seq(Chunk)
      /\ samples \in SampleSeqs /\ samples' \in SampleSeqs
      /\ ring \in SampleSeqs /\ ring' \in SampleSeqs
  BY DEF TypeOK, Chunk
<1>2. heard \in Nat /\ heard' \in Nat
  BY CaptureAssumption DEF TypeOK
<1>3. Len(sent) \in Nat /\ Len(sent') \in Nat /\ Len(chunks) \in Nat /\ Len(chunks') \in Nat
  BY <1>1, LenProperties
<1>4. \A c \in 1 .. Cuts : Cut(c) \in SampleSeqs
  BY <1>1, CutType, Zenon DEF Cuts, Cut
<1>5. \A c \in 1 .. Cuts' : NextCut(c) \in SampleSeqs
  BY <1>1, CutType, Zenon DEF Cuts, NextCut
<1> QED  BY <1>1, <1>2, <1>3, <1>4, <1>5 DEF Cuts

\* A bound may grow.
LEMMA FewerBelow ==
  ASSUME NEW s \in SampleSeqs, NEW m \in Nat, NEW n \in Nat, m <= n, AllBelow(s, m)
  PROVE  AllBelow(s, n)
BY SampleSeq DEF AllBelow

\* The empty sequence is in any order.
LEMMA EmptyOrder ==
  /\ Ascends(<<>>) /\ \A n : AllBelow(<<>>, n)
  /\ \A s : Follows(s, <<>>) /\ Follows(<<>>, s)
BY DEF Ascends, AllBelow, Follows

\* No step puts a sample before one that the device delivered earlier.
LEMMA NextOrdered == TypeOK /\ TypeOK' /\ Steps /\ Ordered /\ [Next]_vars => Ordered'
<1> SUFFICES ASSUME TypeOK, TypeOK', Steps, Ordered, [Next]_vars  PROVE OrderedNext
  BY OrderedPrimed
<1>0. /\ Cuts \in Nat /\ Cuts' \in Nat /\ heard \in Nat /\ heard' \in Nat
      /\ samples \in SampleSeqs /\ samples' \in SampleSeqs
      /\ ring \in SampleSeqs /\ ring' \in SampleSeqs
      /\ \A c \in 1 .. Cuts : Cut(c) \in SampleSeqs
      /\ \A c \in 1 .. Cuts' : NextCut(c) \in SampleSeqs
  BY PieceTypes
<1>a. /\ \A c \in 1 .. Cuts :
           /\ Ascends(Cut(c)) /\ AllBelow(Cut(c), heard)
           /\ Follows(Cut(c), samples) /\ Follows(Cut(c), ring)
           /\ \A d \in 1 .. Cuts : c < d => Follows(Cut(c), Cut(d))
      /\ Ascends(samples) /\ Ascends(ring) /\ Follows(samples, ring)
      /\ AllBelow(samples, heard) /\ AllBelow(ring, heard)
  BY DEF Ordered
<1>1. CASE Delivers
  <2>1. SameCuts /\ samples' = samples /\ heard' >= heard
    BY <1>1 DEF Delivers
  <2>2. PICK fit : fit \in 0 .. heard' - heard /\ Filled(ring, ring', fit, heard)
    BY <1>1 DEF Delivers
  <2>3. fit \in Nat /\ heard + fit \in Nat /\ heard + fit <= heard'
    <3>1. heard \in Nat /\ heard' \in Nat /\ fit \in 0 .. heard' - heard
      BY <1>0, <2>2
    <3>2. ASSUME NEW m \in Nat, NEW n \in Nat, NEW f \in 0 .. n - m
          PROVE  f \in Nat /\ m + f \in Nat /\ m + f <= n
      OBVIOUS
    <3> QED  BY <3>1, <3>2
  <2>4. /\ Ascends(ring') /\ AllBelow(ring', heard + fit)
        /\ \A s \in SampleSeqs : Follows(s, ring) /\ AllBelow(s, heard) => Follows(s, ring')
    BY <1>0, <1>a, <2>2, <2>3, FilledOrder
  <2>5. AllBelow(ring', heard') /\ AllBelow(samples', heard') /\ \A c \in 1 .. Cuts : AllBelow(Cut(c), heard')
    BY <1>0, <1>a, <2>1, <2>3, <2>4, FewerBelow
  <2>6. Follows(samples', ring') /\ \A c \in 1 .. Cuts : Follows(Cut(c), ring')
    BY <1>0, <1>a, <2>1, <2>4
  <2> QED  BY <1>a, <2>1, <2>4, <2>5, <2>6 DEF OrderedNext, SameCuts
\* A popped sample is after all that was popped before it, and before the others.
<1>p. ASSUME Popped(ring, ring'), ring # <<>>
      PROVE  /\ ring[1] \in Sample /\ ring[1] \in Nat /\ ring[1] < heard
             /\ Ascends(ring') /\ AllBelow(ring', heard) /\ \A i \in DOMAIN ring' : ring[1] < ring'[i]
             /\ AllBelow(samples, ring[1]) /\ Follows(samples, ring')
             /\ \A c \in 1 .. Cuts : AllBelow(Cut(c), ring[1]) /\ Follows(Cut(c), ring')
  <2>1. Len(ring) > 0 /\ 1 \in DOMAIN ring /\ ring[1] \in Sample
    BY <1>0, <1>p, TailPops, SampleSeq
  <2>2. ring[1] \in Nat
    BY <2>1, CaptureAssumption DEF Sample
  <2>3. ring[1] < heard /\ AllBelow(samples, ring[1]) /\ \A c \in 1 .. Cuts : AllBelow(Cut(c), ring[1])
    BY <1>a, <2>1 DEF AllBelow, Follows
  <2> QED  BY <1>0, <1>a, <1>p, <2>1, <2>2, <2>3, PoppedOrder
<1>2. CASE Pops
  <2>1. SameCuts /\ heard' = heard /\ ring # <<>> /\ Popped(ring, ring') /\ Longer(samples, samples', ring[1])
    BY <1>2 DEF Pops
  <2>2. /\ Ascends(samples') /\ AllBelow(samples', heard) /\ Follows(samples', ring')
        /\ \A c \in 1 .. Cuts : Follows(Cut(c), samples')
    BY <1>0, <1>a, <1>p, <2>1, LongerOrder
  <2> QED  BY <1>a, <1>p, <2>1, <2>2 DEF OrderedNext, SameCuts
\* A chunk that ends takes the place of the samples it is made of.
<1>c. ASSUME NEW part \in SampleSeqs, NewCut(part), heard' = heard, samples' = <<>>,
             Ascends(part), AllBelow(part, heard), Follows(part, ring'), Ascends(ring'), AllBelow(ring', heard),
             \A c \in 1 .. Cuts : Follows(Cut(c), part) /\ Follows(Cut(c), ring')
      PROVE  OrderedNext
  <2>1. \A c \in 1 .. Cuts' : c \in 1 .. Cuts \/ c = Cuts + 1
    BY <1>0, <1>c DEF NewCut
  <2>2. /\ Ascends(samples') /\ Follows(samples', ring') /\ AllBelow(samples', heard')
        /\ \A c \in 1 .. Cuts' : Follows(NextCut(c), samples')
    BY <1>c, EmptyOrder
  <2>3. \A c \in 1 .. Cuts' :
          Ascends(NextCut(c)) /\ AllBelow(NextCut(c), heard') /\ Follows(NextCut(c), ring')
    BY <1>a, <1>c, <2>1 DEF NewCut
  <2>4. \A c, d \in 1 .. Cuts' : c < d => Follows(NextCut(c), NextCut(d))
    <3>1. \A c, d \in 1 .. Cuts' : c < d => c \in 1 .. Cuts
      BY <1>0, <2>1
    <3> QED  BY <1>a, <1>c, <2>1, <3>1 DEF NewCut
  <2> QED  BY <1>c, <2>2, <2>3, <2>4 DEF OrderedNext
<1>3. CASE EndsChunk
  <2>1. heard' = heard /\ ring # <<>> /\ Popped(ring, ring') /\ samples' = <<>>
    BY <1>3 DEF EndsChunk
  <2>2. PICK part \in SampleSeqs : NewCut(part) /\ Longer(samples, part, ring[1])
    BY <1>3 DEF EndsChunk
  <2>3. /\ Ascends(part) /\ AllBelow(part, heard) /\ Follows(part, ring')
        /\ \A c \in 1 .. Cuts : Follows(Cut(c), part)
    BY <1>0, <1>a, <1>p, <2>1, <2>2, LongerOrder
  <2> QED  BY <1>c, <1>p, <2>1, <2>2, <2>3
<1>4. CASE EndsRest
  BY <1>0, <1>a, <1>c, <1>4 DEF EndsRest
<1>5. CASE Drops
  <2>1. /\ UNCHANGED <<heard, samples, ring>> /\ Cuts' = Cuts - 1
        /\ \A c \in 1 .. Cuts - 1 : NextCut(c) = IF c <= Len(sent) THEN Cut(c) ELSE Cut(c + 1)
    BY <1>5 DEF Drops
  <2>2. Len(sent) \in Nat
    BY Sequences
  <2>3. ASSUME NEW c \in 1 .. Cuts'
        PROVE  /\ Ascends(NextCut(c)) /\ AllBelow(NextCut(c), heard')
               /\ Follows(NextCut(c), samples') /\ Follows(NextCut(c), ring')
               /\ \A d \in 1 .. Cuts' : c < d => Follows(NextCut(c), NextCut(d))
    <3>1. PICK e \in 1 .. Cuts : NextCut(c) = Cut(e) /\ e = IF c <= Len(sent) THEN c ELSE c + 1
      BY <1>0, <2>1
    <3>2. ASSUME NEW d \in 1 .. Cuts', c < d  PROVE Follows(NextCut(c), NextCut(d))
      <4>1. PICK f \in 1 .. Cuts : NextCut(d) = Cut(f) /\ f = IF d <= Len(sent) THEN d ELSE d + 1
        BY <1>0, <2>1
      <4>2. e < f
        BY <1>0, <2>2, <3>1, <3>2, <4>1
      <4> QED  BY <1>a, <3>1, <4>1, <4>2
    <3> QED  BY <1>a, <2>1, <3>1, <3>2
  <2> QED  BY <1>a, <2>1, <2>3 DEF OrderedNext
<1> QED  BY <1>1, <1>2, <1>3, <1>4, <1>5, Moves

-----------------------------------------------------------------------------
\* Integer division, with the product that it cuts down.
LEMMA Division ==
  ASSUME NEW n \in Nat, NEW d \in Nat, d > 0
  PROVE  n \div d \in Nat /\ n % d \in 0 .. d - 1 /\ d * (n \div d) + (n % d) = n
OBVIOUS

\* The rate conversion of a chunk lengthens it by less than one frame, or by one
\* where the arithmetic rounds up.
LEMMA Resampled ==
  ASSUME NEW n \in Nat, NEW to \in Nat
  PROVE  /\ ResampledLen(n, DeviceRate, to) \in Nat
         /\ ResampledLen(n, DeviceRate, to) * DeviceRate - n * to \in 0 .. DeviceRate
<1> DEFINE p == n * to
           q == p \div DeviceRate
           r == p % DeviceRate
           e == IF r # 0 \/ <<n, DeviceRate, to>> \in Inexact THEN 1 ELSE 0
           l == ResampledLen(n, DeviceRate, to)
<1>1. DeviceRate \in Nat /\ DeviceRate > 0
  BY CaptureAssumption
<1>2. p \in Nat
  BY <1>1
<1>3. q \in Nat /\ r \in 0 .. DeviceRate - 1 /\ DeviceRate * q + r = p
  <2> HIDE DEF p
  <2> QED  BY <1>1, <1>2, Division
<1>4. CASE DeviceRate = to
  <2>1. l = n
    BY <1>4 DEF ResampledLen
  <2> QED  BY <1>1, <1>4, <2>1
<1>5. CASE DeviceRate # to
  <2>1. l = q + e
    BY <1>5 DEF ResampledLen
  <2>2. e \in {0, 1} /\ (e = 0 => r = 0)
    OBVIOUS
  <2> HIDE DEF p, q, r, e, l
  <2>3. l \in Nat
    BY <1>3, <2>1, <2>2
  <2>4. l * DeviceRate = DeviceRate * q + e * DeviceRate
    BY <1>1, <1>3, <2>1, <2>2
  <2>5. e * DeviceRate = IF e = 0 THEN 0 ELSE DeviceRate
    BY <1>1, <2>2
  <2> DEFINE lD == l * DeviceRate
             Dq == DeviceRate * q
             eD == e * DeviceRate
  <2>6. lD = Dq + eD /\ Dq \in Nat /\ Dq + r = p
    BY <1>1, <1>3, <2>4
  <2>7. eD = IF e = 0 THEN 0 ELSE DeviceRate
    BY <2>5
  <2> HIDE DEF lD, Dq, eD
  <2>8. lD - p \in 0 .. DeviceRate
    BY <1>1, <1>2, <1>3, <2>2, <2>6, <2>7
  <2> QED  BY <2>3, <2>8 DEF lD, l, p
<1> QED  BY <1>4, <1>5

\* The rate is a positive number.
LEMMA RateNat == TypeOK => rate \in Nat /\ rate > 0
BY CaptureAssumption DEF TypeOK

\* The duration of a chunk is a number of nanoseconds, at most half of one from the
\* exact duration; a whole chunk has the frames of a whole chunk.
LEMMA DurationOf ==
  ASSUME TypeOK, NEW part \in SampleSeqs, NEW d \in Durations(part)
  PROVE  /\ d \in Nat
         /\ Len(part) = ChunkSize => 2 * (d * rate - WholeTime(rate)) \in -rate .. rate
<1> DEFINE exact == Frames(part) * NanosPerSec
<1>1. Len(part) \in Nat /\ Channels \in Nat /\ Channels > 0 /\ NanosPerSec \in Nat
  BY CaptureAssumption, SampleSeq
<1>2. Len(part) \div Channels \in Nat /\ rate \in Nat /\ rate > 0
  BY <1>1, RateNat
<1>3. Frames(part) \in Nat /\ (Len(part) = ChunkSize => Frames(part) = WholeFrames(rate))
  BY <1>2, Resampled DEF Frames, FramesIn, WholeFrames
<1>4. exact \in Nat /\ (Len(part) = ChunkSize => exact = WholeTime(rate))
  BY <1>1, <1>3 DEF WholeTime
<1>5. d \in exact \div rate .. exact \div rate + 1 /\ 2 * (d * rate - exact) \in -rate .. rate
  BY DEF Durations
<1> HIDE DEF exact
<1>6. exact \div rate \in Nat
  BY <1>2, <1>4
<1> QED  BY <1>4, <1>5, <1>6

\* The time advances by such a duration.
LEMMA Advances ==
  ASSUME TypeOK, NEW part \in SampleSeqs, Advance(part)
  PROVE  \E d \in Nat :
           /\ timestamp' = timestamp + d
           /\ Len(part) = ChunkSize => 2 * (d * rate - WholeTime(rate)) \in -rate .. rate
BY DurationOf DEF Advance

-----------------------------------------------------------------------------
\* The flags, counters and places.
TypeControl ==
  /\ {running, streaming, open} \subseteq BOOLEAN /\ format \in {"I16", "F32"}
  /\ rate \in TargetRates
  /\ heard \in 0 .. MaxSamples /\ burst \in 0 .. MaxSamples - heard
  /\ bridge \in {"check", "poll", "read", "send", "drain", "drainRead", "drainRest", "flush", "done"}
  /\ timestamp \in Nat /\ processed \in Nat
TypePieces ==
  /\ ring \in SampleSeqs /\ Len(ring) <= RingSize /\ samples \in SampleSeqs
  /\ chunks \in Seq(Chunk) /\ sent \in Seq(Chunk)

\* The type invariant in its two parts.
LEMMA TypeParts == TypeOK <=> TypeControl /\ TypePieces
BY DEF TypeOK, TypeControl, TypePieces, Chunk

\* Each step keeps the types of the flags and places.
LEMMA FlagsType ==
  ASSUME TypeOK, Next
  PROVE  /\ {running, streaming, open}' \subseteq BOOLEAN /\ format' \in {"I16", "F32"} /\ rate' \in TargetRates
         /\ bridge' \in {"check", "poll", "read", "send", "drain", "drainRead", "drainRest", "flush", "done"}
<1> USE DEF TypeOK, deviceVars, outVars, BridgeStep
<1>1. CASE Device
  BY <1>1 DEF Device, CallbackI16, CallbackF32, TryPush
<1>2. CASE Stop \/ DropStream \/ RouterExit
  BY <1>2 DEF Stop, DropStream, RouterExit
<1>3. CASE Check \/ HasChunk \/ TryPop
  BY <1>3 DEF Check, HasChunk, TryPop
<1>4. CASE PopRest \/ Send \/ Flush
  BY <1>4 DEF PopRest, Send, Flush
<1> QED  BY <1>1, <1>2, <1>3, <1>4 DEF Next, Bridge

\* Each step keeps the types of the counters: a callback that has begun fits the supply.
LEMMA CountsType ==
  ASSUME TypeOK, Steps, Next
  PROVE  /\ heard' \in 0 .. MaxSamples /\ burst' \in 0 .. MaxSamples - heard'
         /\ timestamp' \in Nat /\ processed' \in Nat
<1> USE DEF deviceVars, outVars, BridgeStep
<1>0. /\ heard \in Nat /\ burst \in Nat /\ heard + burst <= MaxSamples /\ MaxSamples \in Nat
      /\ timestamp \in Nat /\ processed \in Nat /\ \A n \in CallbackSizes : n \in Nat
      /\ heard <= MaxSamples /\ heard \in 0 .. MaxSamples /\ burst \in 0 .. MaxSamples - heard
  BY CaptureAssumption DEF TypeOK
<1>1. ASSUME NEW n \in CallbackSizes, CallbackI16(n)
      PROVE  /\ heard' \in 0 .. MaxSamples /\ burst' \in 0 .. MaxSamples - heard'
             /\ UNCHANGED <<timestamp, processed>>
  <2>1. heard' = heard + n /\ heard + n <= MaxSamples /\ UNCHANGED <<burst, timestamp, processed>> /\ burst = 0
    BY <1>1 DEF CallbackI16, Deliverable, Steps
  <2> QED  BY <1>0, <2>1
<1>2. ASSUME NEW n \in CallbackSizes, CallbackF32(n)
      PROVE  /\ heard' \in 0 .. MaxSamples /\ burst' \in 0 .. MaxSamples - heard'
             /\ UNCHANGED <<timestamp, processed>>
  BY <1>0, <1>2 DEF CallbackF32, Deliverable
<1>3. CASE TryPush
  BY <1>0, <1>3 DEF TryPush
<1>4. CASE Stop \/ DropStream \/ RouterExit \/ Check \/ HasChunk \/ PopRest \/ Send
  BY <1>0, <1>4 DEF Stop, DropStream, RouterExit, Check, HasChunk, PopRest, Send
<1>5. CASE TryPop
  <2>1. UNCHANGED <<heard, burst>>
    BY <1>5 DEF TryPop
  <2>2. ring # <<>> /\ Append(samples, Head(ring)) \in SampleSeqs
    <3>1. ring # <<>>
      BY <1>5, Sequences, CaptureAssumption DEF TryPop, Steps
    <3> QED  BY <3>1, Sequences, TailPops, AppendLengthens
  <2>3. /\ timestamp' = timestamp \/ Advance(Append(samples, Head(ring)))
        /\ processed' = processed \/ processed' = processed + 1
    BY <1>5 DEF TryPop
  <2>4. timestamp' = timestamp \/ \E d \in Nat : timestamp' = timestamp + d
    BY <2>2, <2>3, Advances
  <2> HIDE DEF BridgeStep, deviceVars, outVars
  <2> QED  BY <1>0, <2>1, <2>3, <2>4
<1>6. CASE Flush
  <2>1. UNCHANGED <<heard, burst, processed>>
    BY <1>6 DEF Flush
  <2>2. CASE chunks = <<>>
    BY <1>0, <1>6, <2>1, <2>2 DEF Flush
  <2>3. CASE chunks # <<>>
    <3>1. Head(chunks).samples \in SampleSeqs
      BY <2>3, Sequences, ChunkTail, ChunkFields
    <3>2. Advance(Head(chunks).samples)
      BY <1>6, <2>3 DEF Flush
    <3>3. \E d \in Nat : timestamp' = timestamp + d
      BY <3>1, <3>2, Advances
    <3> QED  BY <1>0, <2>1, <3>3
  <2> QED  BY <2>2, <2>3
<1> QED  BY <1>0, <1>1, <1>2, <1>3, <1>4, <1>5, <1>6 DEF Next, Device, Bridge

\* Each step keeps the types of the chunks.
LEMMA ChunksType ==
  ASSUME TypeOK, Steps, Next
  PROVE  chunks' \in Seq(Chunk) /\ sent' \in Seq(Chunk)
<1> USE DEF deviceVars, outVars, BridgeStep
<1>0. /\ chunks \in Seq(Chunk) /\ sent \in Seq(Chunk) /\ <<>> \in Seq(Chunk) /\ timestamp \in Nat
      /\ samples \in SampleSeqs
  BY Sequences, EmptySeq DEF TypeOK
<1>a. ASSUME NEW s \in Seq(Chunk), NEW x \in Chunk  PROVE Append(s, x) \in Seq(Chunk)
  BY AppendProperties
<1>1. CASE Device \/ Stop \/ DropStream \/ RouterExit \/ Check \/ HasChunk
  <2>1. UNCHANGED <<chunks, sent>>
    BY <1>1 DEF Device, CallbackI16, CallbackF32, TryPush, Stop, DropStream, RouterExit, Check, HasChunk
  <2> QED  BY <1>0, <2>1
<1>2. CASE TryPop
  <2>1. ring # <<>>
    BY <1>2, Sequences, CaptureAssumption DEF TryPop, Steps
  <2>2. PICK part \in SampleSeqs : part = Append(samples, Head(ring))
    BY <2>1, Sequences, TailPops, AppendLengthens
  <2>3. Converted(part, timestamp) \in Chunk /\ Converted(part, 0) \in Chunk
    BY <1>0, ChunkFields
  <2>4. /\ sent' = sent
        /\ \/ chunks' = chunks \/ chunks' = <<Converted(part, timestamp)>>
           \/ chunks' = Append(chunks, Converted(part, 0))
    BY <1>2, <2>2 DEF TryPop
  <2>5. <<Converted(part, timestamp)>> \in Seq(Chunk)
    <3>1. <<Converted(part, timestamp)>> = Append(<<>>, Converted(part, timestamp))
      BY AppendToEmpty
    <3> QED  BY <1>0, <1>a, <2>3, <3>1
  <2>6. Append(chunks, Converted(part, 0)) \in Seq(Chunk)
    BY <1>0, <1>a, <2>3
  <2> QED  BY <1>0, <2>4, <2>5, <2>6
<1>3. CASE PopRest
  <2>1. Converted(samples, 0) \in Chunk
    BY <1>0, ChunkFields
  <2>2. sent' = sent /\ (chunks' = chunks \/ chunks' = Append(chunks, Converted(samples, 0)))
    BY <1>3 DEF PopRest
  <2> QED  BY <1>0, <1>a, <2>1, <2>2
<1>4. CASE Send
  <2>1. chunks' = <<>> /\ (sent' = sent \o chunks \/ sent' = sent)
    BY <1>4 DEF Send
  <2> QED  BY <1>0, <2>1, ConcatProperties
<1>5. CASE Flush
  <2>1. CASE chunks = <<>>
    BY <1>0, <1>5, <2>1 DEF Flush
  <2>2. CASE chunks # <<>>
    <3>1. Head(chunks).samples \in SampleSeqs /\ Tail(chunks) \in Seq(Chunk)
      BY <1>0, <2>2, ChunkTail, ChunkFields
    <3>2. Converted(Head(chunks).samples, timestamp) \in Chunk
      BY <1>0, <3>1, ChunkFields
    <3>3. /\ chunks' = Tail(chunks)
          /\ sent' = sent \/ sent' = Append(sent, Converted(Head(chunks).samples, timestamp))
      BY <1>5, <2>2 DEF Flush
    <3> QED  BY <1>0, <1>a, <3>1, <3>2, <3>3
  <2> QED  BY <2>1, <2>2
<1> QED  BY <1>1, <1>2, <1>3, <1>4, <1>5 DEF Next, Bridge

\* Each step keeps the types of the samples, and the ring its capacity.
LEMMA RingType ==
  ASSUME TypeOK, Steps, Next
  PROVE  ring' \in SampleSeqs /\ Len(ring') <= RingSize /\ samples' \in SampleSeqs
<1> USE DEF deviceVars, outVars, BridgeStep
<1>0. /\ ring \in SampleSeqs /\ samples \in SampleSeqs /\ Len(ring) \in Nat /\ Len(ring) <= RingSize
      /\ RingSize \in Nat /\ heard \in Nat /\ MaxSamples \in Nat /\ \A n \in CallbackSizes : n \in Nat
      /\ <<>> \in SampleSeqs
  <2>1. <<>> \in SampleSeqs
    BY SampleSeqsAre, EmptySeq
  <2> QED  BY <2>1, Sequences, CaptureAssumption DEF TypeOK
<1>1. ASSUME NEW n \in CallbackSizes, CallbackI16(n)
      PROVE  ring' \in SampleSeqs /\ Len(ring') <= RingSize /\ samples' = samples
  <2> DEFINE free == RingSize - Len(ring)
             fit  == IF n < free THEN n ELSE free
  <2>1. n \in Nat /\ heard + n <= MaxSamples /\ samples' = samples
    BY <1>0, <1>1 DEF CallbackI16, Deliverable
  <2>2. fit \in Nat /\ fit <= n /\ Len(ring) + fit <= RingSize
    BY <1>0, <2>1
  <2>3. ring' = ring \o [i \in 1 .. fit |-> heard + i - 1]
    BY <1>1 DEF CallbackI16
  <2> HIDE DEF fit
  <2>4. PICK q : q = [i \in 1 .. fit |-> heard + i - 1]
    OBVIOUS
  <2>5. heard + fit <= MaxSamples
    BY <1>0, <2>1, <2>2
  <2>6. ring' \in SampleSeqs /\ Filled(ring, ring', fit, heard)
    BY <1>0, <2>2, <2>3, <2>4, <2>5, SliceFills
  <2> QED  BY <2>1, <2>2, <2>6 DEF Filled
<1>2. CASE TryPush
  <2>1. heard \in Sample
    BY <1>0, <1>2 DEF TryPush, Sample, TypeOK
  <2>2. samples' = samples /\ ring' = IF Len(ring) < RingSize THEN Append(ring, heard) ELSE ring
    BY <1>2 DEF TryPush
  <2>3. Append(ring, heard) \in SampleSeqs /\ Len(Append(ring, heard)) = Len(ring) + 1
    BY <1>0, <2>1, AppendLengthens DEF Longer
  <2> QED  BY <1>0, <2>2, <2>3
<1>3. CASE (\E n \in CallbackSizes : CallbackF32(n)) \/ Stop \/ DropStream \/ RouterExit \/ Check \/ HasChunk
           \/ Send \/ Flush
  <2>1. UNCHANGED <<ring, samples>>
    BY <1>3 DEF CallbackF32, Stop, DropStream, RouterExit, Check, HasChunk, Send, Flush
  <2> QED  BY <1>0, <2>1
<1>4. CASE TryPop
  <2>1. ring # <<>>
    BY <1>4, Sequences, CaptureAssumption DEF TryPop, Steps
  <2>2. Tail(ring) \in SampleSeqs /\ Len(Tail(ring)) = Len(ring) - 1 /\ Append(samples, Head(ring)) \in SampleSeqs
    BY <1>0, <2>1, TailPops, AppendLengthens DEF Popped
  <2>3. ring' = Tail(ring) /\ (samples' = Append(samples, Head(ring)) \/ samples' = <<>>)
    BY <1>4 DEF TryPop
  <2>4. ring' \in SampleSeqs /\ samples' \in SampleSeqs
    BY <1>0, <2>2, <2>3
  <2>5. Len(ring') = Len(ring) - 1
    BY <2>2, <2>3
  <2> QED  BY <1>0, <2>4, <2>5
<1>5. CASE PopRest
  <2>1. CASE ring = <<>>
    BY <1>0, <1>5, <2>1 DEF PopRest
  <2>2. CASE ring # <<>>
    <3>1. Tail(ring) \in SampleSeqs /\ Len(Tail(ring)) = Len(ring) - 1 /\ Append(samples, Head(ring)) \in SampleSeqs
      BY <1>0, <2>2, TailPops, AppendLengthens DEF Popped
    <3>2. ring' = Tail(ring) /\ samples' = Append(samples, Head(ring))
      BY <1>5, <2>2 DEF PopRest
    <3> QED  BY <1>0, <3>1, <3>2
  <2> QED  BY <2>1, <2>2
<1> QED  BY <1>0, <1>1, <1>2, <1>3, <1>4, <1>5 DEF Next, Device, Bridge

\* Each step keeps the type invariant.
LEMMA NextType == TypeOK /\ Steps /\ Next => TypeOK'
<1> SUFFICES ASSUME TypeOK, Steps, Next  PROVE TypeOK'
  OBVIOUS
<1>1. {running', streaming', open'} \subseteq BOOLEAN
  BY FlagsType
<1> QED  BY <1>1, FlagsType, CountsType, ChunksType, RingType DEF TypeOK, Chunk

-----------------------------------------------------------------------------
\* Each step keeps what is known where the bridge is: a started read finds the
\* samples it needs, because only the bridge pops.
LEMMA NextSteps == TypeOK /\ TypeOK' /\ Steps /\ Next => Steps'
<1> SUFFICES ASSUME TypeOK, TypeOK', Steps, Next  PROVE Steps'
  OBVIOUS
<1> USE DEF deviceVars, outVars, BridgeStep
<1>0. /\ ring \in SampleSeqs /\ samples \in SampleSeqs /\ chunks \in Seq(Chunk)
      /\ Len(ring) \in Nat /\ Len(samples) \in Nat /\ ChunkSize \in Nat /\ ChunkSize > 0
      /\ (ring # <<>> <=> Len(ring) > 0) /\ (samples = <<>> => Len(samples) = 0)
  <2>1. ring # <<>> => Len(ring) > 0
    BY Sequences, TailPops
  <2>2. Len(<<>>) = 0
    BY EmptySeq
  <2> QED  BY <2>1, <2>2, Sequences, CaptureAssumption
<1>1. CASE Stop \/ DropStream \/ RouterExit
  BY <1>1 DEF Stop, DropStream, RouterExit, Steps
<1>2. CASE Device
  <2>1. UNCHANGED <<running, open, bridge, samples, chunks, format>>
    BY <1>2 DEF Device, CallbackI16, CallbackF32, TryPush
  <2>2. format = "I16" => burst' = 0
    BY <1>2 DEF Device, CallbackI16, CallbackF32, TryPush, Steps
  <2>3. ring' \in SampleSeqs /\ Len(ring') \in Nat /\ Len(ring) <= Len(ring') /\ (Len(ring) > 0 => ring' # <<>>)
    <3>1. PICK fit : fit \in 0 .. heard' - heard /\ Filled(ring, ring', fit, heard)
      BY <1>2, DeviceMoves DEF Delivers
    <3>2. ring' \in SampleSeqs
      BY DEF TypeOK
    <3>3. Len(ring') \in Nat /\ fit \in Nat /\ Len(ring') = Len(ring) + fit
      <4>1. \A m, n, f : m \in Nat /\ n \in Nat /\ f \in 0 .. n - m => f \in Nat
        OBVIOUS
      <4>2. heard \in Nat /\ heard' \in Nat
        BY PieceTypes
      <4> QED  BY <3>1, <3>2, <4>1, <4>2, SampleSeq DEF Filled
    <3>4. Len(<<>>) = 0
      BY EmptySeq
    <3> QED  BY <1>0, <3>2, <3>3, <3>4
  <2>4. CASE bridge \in {"read", "drainRead"}
    BY <1>0, <2>1, <2>2, <2>3, <2>4 DEF Steps
  <2>5. CASE bridge \notin {"read", "drainRead"}
    BY <1>0, <2>1, <2>2, <2>3, <2>5 DEF Steps
  <2> QED  BY <2>4, <2>5
<1>3. CASE Check
  BY <1>3 DEF Check, Steps
<1>4. CASE HasChunk
  <2>1. UNCHANGED <<running, open, samples, chunks, format, burst, ring>> /\ samples = <<>>
    BY <1>4 DEF HasChunk, Steps
  <2>2. bridge' \in {"read", "drainRead"} => Len(ring) >= ChunkSize
    BY <1>4 DEF HasChunk
  <2>3. bridge' = "drainRest" => ring # <<>>
    BY <1>4 DEF HasChunk
  <2>4. /\ bridge' \in {"read", "drainRead", "drainRest", "check", "flush"}
        /\ bridge' \in {"read", "check"} => chunks = <<>>
        /\ bridge' \in {"drainRead", "drainRest", "flush"} => ~running
    BY <1>4 DEF HasChunk, Steps
  <2> QED  BY <1>0, <2>1, <2>2, <2>3, <2>4 DEF Steps
<1>5. CASE TryPop
  <2>1. /\ UNCHANGED <<running, open, format, burst>> /\ bridge \in {"read", "drainRead"}
        /\ Len(samples) < ChunkSize /\ ChunkSize <= Len(samples) + Len(ring)
        /\ bridge = "drainRead" => ~running
        /\ bridge = "read" => chunks = <<>>
    BY <1>5 DEF TryPop, Steps
  <2>2. ring # <<>> /\ ring' = Tail(ring)
    BY <1>0, <1>5, <2>1 DEF TryPop
  <2>3. PICK part \in SampleSeqs : part = Append(samples, Head(ring)) /\ Len(part) = Len(samples) + 1
    BY <1>0, <2>2, TailPops, AppendLengthens DEF Longer
  <2>4. Len(ring') = Len(ring) - 1
    BY <1>0, <2>2, TailPops DEF Popped
  <2>5. CASE Len(part) < ChunkSize
    <3>1. samples' = part /\ UNCHANGED <<bridge, chunks>>
      BY <1>5, <2>3, <2>5 DEF TryPop
    <3>2. Len(samples') < ChunkSize /\ ChunkSize <= Len(samples') + Len(ring')
      BY <1>0, <2>1, <2>3, <2>4, <2>5, <3>1
    <3> QED  BY <2>1, <3>1, <3>2 DEF Steps
  <2>6. CASE ~(Len(part) < ChunkSize)
    <3>1. /\ samples' = <<>>
          /\ \/ bridge = "read" /\ bridge' = "send" /\ chunks' = <<Converted(part, timestamp)>>
             \/ bridge = "drainRead" /\ bridge' = "drain"
      BY <1>5, <2>1, <2>3, <2>6 DEF TryPop
    <3>2. bridge' = "send" => Len(chunks') = 1
      BY <3>1
    <3> QED  BY <2>1, <3>1, <3>2 DEF Steps
  <2> QED  BY <2>5, <2>6
<1>6. CASE PopRest
  <2>1. bridge = "drainRest" /\ UNCHANGED <<running, open, format, burst>> /\ ~running
    BY <1>6 DEF PopRest, Steps
  <2>2. CASE ring # <<>>
    <3>1. samples' = Append(samples, Head(ring)) /\ UNCHANGED bridge
      BY <1>6, <2>2 DEF PopRest
    <3>2. samples' # <<>>
      <4>1. Len(samples') = Len(samples) + 1
        BY <1>0, <2>2, <3>1, TailPops, AppendLengthens DEF Longer
      <4>2. Len(<<>>) = 0
        BY EmptySeq
      <4> QED  BY <1>0, <4>1, <4>2
    <3> QED  BY <2>1, <3>1, <3>2 DEF Steps
  <2>3. CASE ring = <<>>
    BY <1>6, <2>1, <2>3 DEF PopRest, Steps
  <2> QED  BY <2>2, <2>3
<1>7. CASE Send
  BY <1>7 DEF Send, Steps
<1>8. CASE Flush
  BY <1>8 DEF Flush, Steps
<1> QED  BY <1>1, <1>2, <1>3, <1>4, <1>5, <1>6, <1>7, <1>8 DEF Next, Bridge

-----------------------------------------------------------------------------
WholeNext ==
  \A c \in 1 .. Cuts' :
    /\ Len(NextCut(c)) > 0
    /\ Len(NextCut(c)) # ChunkSize => c = Cuts' /\ bridge' \in {"flush", "done"}

\* Only the end of the ring makes a chunk that is not whole, and it is the last.
LEMMA NextWhole == TypeOK /\ TypeOK' /\ Steps /\ Whole /\ [Next]_vars => Whole'
<1> SUFFICES ASSUME TypeOK, TypeOK', Steps, Whole, [Next]_vars  PROVE WholeNext
  BY DEF WholeNext, Whole, Cut, NextCut
<1>0. /\ Cuts \in Nat /\ Cuts' \in Nat /\ samples \in SampleSeqs /\ Len(samples) \in Nat
      /\ Len(sent) \in Nat /\ Len(chunks) \in Nat /\ Cuts = Len(sent) + Len(chunks)
      /\ ChunkSize \in Nat /\ ChunkSize > 0
  BY PieceTypes, Sequences, CaptureAssumption DEF Cuts
<1>a. \A c \in 1 .. Cuts :
        /\ Len(Cut(c)) > 0
        /\ Len(Cut(c)) # ChunkSize => c = Cuts /\ bridge \in {"flush", "done"}
  BY DEF Whole
<1>1. CASE Delivers
  BY <1>a, <1>1 DEF Delivers, SameCuts, WholeNext
<1>2. CASE Pops
  BY <1>a, <1>2 DEF Pops, SameCuts, WholeNext
<1>3. CASE EndsChunk
  <2>1. PICK part \in SampleSeqs : NewCut(part) /\ Longer(samples, part, ring[1])
    BY <1>3 DEF EndsChunk
  <2>2. bridge \notin {"flush", "done"} /\ Len(part) = ChunkSize
    BY <1>0, <1>3, <2>1 DEF EndsChunk, Longer
  <2>3. \A c \in 1 .. Cuts' : c \in 1 .. Cuts \/ c = Cuts + 1
    BY <1>0, <2>1 DEF NewCut
  <2> QED  BY <1>0, <1>a, <2>1, <2>2, <2>3 DEF NewCut, WholeNext
<1>4. CASE EndsRest
  <2>1. NewCut(samples) /\ bridge \notin {"flush", "done"} /\ bridge' = "flush" /\ Len(samples) > 0
    <3>1. samples # <<>>
      BY <1>4 DEF EndsRest
    <3> QED  BY <1>0, <1>4, <3>1, TailPops DEF EndsRest
  <2>2. \A c \in 1 .. Cuts' : c \in 1 .. Cuts \/ c = Cuts + 1
    BY <1>0, <2>1 DEF NewCut
  <2> QED  BY <1>0, <1>a, <2>1, <2>2 DEF NewCut, WholeNext
<1>5. CASE Drops
  <2>1. /\ Cuts' = Cuts - 1 /\ (bridge = "flush" => bridge' = "flush") /\ bridge \in {"send", "flush"}
        /\ \A c \in 1 .. Cuts - 1 : NextCut(c) = IF c <= Len(sent) THEN Cut(c) ELSE Cut(c + 1)
        /\ Len(chunks) > 0
    <3>1. chunks # <<>>
      BY <1>5 DEF Drops
    <3> QED  BY <1>5, <3>1, Sequences, ChunkTail DEF Drops
  <2>2. ASSUME NEW c \in 1 .. Cuts'
        PROVE  /\ Len(NextCut(c)) > 0
               /\ Len(NextCut(c)) # ChunkSize => c = Cuts' /\ bridge' \in {"flush", "done"}
    <3>1. CASE c <= Len(sent)
      <4>1. c \in 1 .. Cuts /\ c # Cuts /\ NextCut(c) = Cut(c)
        BY <1>0, <2>1, <3>1
      <4> QED  BY <1>a, <4>1
    <3>2. CASE ~(c <= Len(sent))
      <4>1. c + 1 \in 1 .. Cuts /\ NextCut(c) = Cut(c + 1) /\ (c + 1 = Cuts => c = Cuts')
        BY <1>0, <2>1, <3>2
      <4> QED  BY <1>a, <2>1, <4>1
    <3> QED  BY <3>1, <3>2
  <2> QED  BY <2>2 DEF WholeNext
<1> QED  BY <1>1, <1>2, <1>3, <1>4, <1>5, Moves

-----------------------------------------------------------------------------
\* The sequence of pieces: the chunks, and the last two.
PiecesOf(s, k, m, r) == s \o k \o <<Converted(m, 0), Converted(r, 0)>>
PieceAt(P, n, s, k, m, r) ==
  /\ DOMAIN P = 1 .. n + 2
  /\ \A c \in 1 .. n : P[c].samples = CutOf(s, k, c)
  /\ P[n + 1].samples = m /\ P[n + 2].samples = r

\* The last two pieces, as a sequence of chunks.
LEMMA PairOfChunks ==
  ASSUME NEW x \in Chunk, NEW y \in Chunk
  PROVE  <<x, y>> \in Seq(Chunk) /\ Len(<<x, y>>) = 2 /\ <<x, y>>[1] = x /\ <<x, y>>[2] = y
OBVIOUS

\* Two sequences of chunks, one after the other.
JoinedAt(s, k, t) ==
  /\ t \in Seq(Chunk) /\ Len(t) = Len(s) + Len(k)
  /\ \A i \in 1 .. Len(s) + Len(k) : t[i] = IF i <= Len(s) THEN s[i] ELSE k[i - Len(s)]

\* Concatenation of sequences of chunks, by index.
LEMMA ChunksJoined == \A s, k \in Seq(Chunk) : JoinedAt(s, k, s \o k)
BY ConcatProperties DEF JoinedAt

\* The pieces by number: the chunks, the samples, the ring.
LEMMA PiecesAre ==
  ASSUME NEW s \in Seq(Chunk), NEW k \in Seq(Chunk), NEW m \in SampleSeqs, NEW r \in SampleSeqs,
         NEW P, P = PiecesOf(s, k, m, r), NEW n, n = Len(s) + Len(k)
  PROVE  PieceAt(P, n, s, k, m, r)
<1>1. Len(s) \in Nat /\ Len(k) \in Nat /\ n \in Nat
  BY LenProperties
<1>2. PICK x \in Chunk, y \in Chunk :
        x = Converted(m, 0) /\ y = Converted(r, 0) /\ x.samples = m /\ y.samples = r
  BY ChunkFields
<1>3. PICK e : e = <<x, y>>
  OBVIOUS
<1>4. e \in Seq(Chunk) /\ Len(e) = 2 /\ e[1] = x /\ e[2] = y
  BY <1>3, PairOfChunks, Zenon
<1>5. PICK sk : sk = s \o k
  OBVIOUS
<1>6. JoinedAt(s, k, sk)
  BY <1>5, ChunksJoined
<1>7. P = sk \o e
  BY <1>2, <1>3, <1>5, Zenon DEF PiecesOf
<1>c. sk \in Seq(Chunk)
  BY <1>6, Zenon DEF JoinedAt
<1>d. JoinedAt(sk, e, sk \o e)
  BY <1>4, <1>c, ChunksJoined, Zenon
<1>8. JoinedAt(sk, e, P)
  BY <1>7, <1>d, Zenon
<1>a. /\ sk \in Seq(Chunk) /\ Len(sk) = n
      /\ \A i \in 1 .. n : sk[i] = IF i <= Len(s) THEN s[i] ELSE k[i - Len(s)]
  BY <1>6 DEF JoinedAt
<1>b. /\ P \in Seq(Chunk) /\ Len(P) = n + 2
      /\ \A i \in 1 .. n + 2 : P[i] = IF i <= n THEN sk[i] ELSE e[i - n]
  BY <1>4, <1>8, <1>a DEF JoinedAt
<1>9. DOMAIN P = 1 .. n + 2
  <2>1. \A q \in Seq(Chunk) : DOMAIN q = 1 .. Len(q)
    BY LenProperties
  <2> QED  BY <1>b, <2>1
<1>10. \A c \in 1 .. n : P[c].samples = CutOf(s, k, c)
  <2>1. \A c \in 1 .. n : c \in 1 .. n + 2 /\ c <= n
    BY <1>1
  <2> QED  BY <1>a, <1>b, <2>1 DEF CutOf
<1>11. P[n + 1].samples = m /\ P[n + 2].samples = r
  <2>1. /\ n + 1 \in 1 .. n + 2 /\ n + 2 \in 1 .. n + 2 /\ ~(n + 1 <= n) /\ ~(n + 2 <= n)
        /\ (n + 1) - n = 1 /\ (n + 2) - n = 2
    BY <1>1
  <2> QED  BY <1>2, <1>4, <1>b, <2>1
<1> QED  BY <1>9, <1>10, <1>11 DEF PieceAt

\* What is kept, piece by piece.
KeptOf(s, k, m, r) == UNION {Range(piece.samples) : piece \in Range(PiecesOf(s, k, m, r))}
InPieces(x, s, k, m, r) ==
  \/ \E c \in 1 .. Len(s) + Len(k) : x \in Range(CutOf(s, k, c))
  \/ x \in Range(m) \/ x \in Range(r)

\* The samples kept are those of the pieces.
LEMMA KeptAre ==
  ASSUME NEW s \in Seq(Chunk), NEW k \in Seq(Chunk), NEW m \in SampleSeqs, NEW r \in SampleSeqs, NEW x
  PROVE  x \in KeptOf(s, k, m, r) <=> InPieces(x, s, k, m, r)
<1>0. PICK n : n = Len(s) + Len(k)
  OBVIOUS
<1>1. n \in Nat
  BY <1>0, LenProperties
<1>2. PICK P : P = PiecesOf(s, k, m, r)
  OBVIOUS
<1>a. PieceAt(P, n, s, k, m, r)
  BY <1>0, <1>2, PiecesAre
<1>3. /\ DOMAIN P = 1 .. n + 2
      /\ \A c \in 1 .. n : P[c].samples = CutOf(s, k, c)
      /\ P[n + 1].samples = m /\ P[n + 2].samples = r
  BY <1>a DEF PieceAt
<1>4. x \in KeptOf(s, k, m, r) <=> \E c \in DOMAIN P : x \in Range(P[c].samples)
  BY <1>2 DEF KeptOf, Range
<1>5. InPieces(x, s, k, m, r) <=>
        (\E c \in 1 .. n : x \in Range(CutOf(s, k, c))) \/ x \in Range(m) \/ x \in Range(r)
  BY <1>0 DEF InPieces
<1>6. \A c : c \in DOMAIN P <=> c \in 1 .. n \/ c = n + 1 \/ c = n + 2
  BY <1>1, <1>3
<1> QED  BY <1>3, <1>4, <1>5, <1>6, Zenon

\* A sample is kept where one of the pieces has it, before and after a step.
LEMMA Kept ==
  ASSUME TypeOK, TypeOK'
  PROVE  /\ \A x : x \in KeptSamples <=>
                 (\E c \in 1 .. Cuts : x \in Range(Cut(c))) \/ x \in Range(samples) \/ x \in Range(ring)
         /\ \A x : x \in KeptSamples' <=>
                 (\E c \in 1 .. Cuts' : x \in Range(NextCut(c))) \/ x \in Range(samples') \/ x \in Range(ring')
<1>1. /\ sent \in Seq(Chunk) /\ sent' \in Seq(Chunk) /\ chunks \in Seq(Chunk) /\ chunks' \in Seq(Chunk)
      /\ samples \in SampleSeqs /\ samples' \in SampleSeqs
      /\ ring \in SampleSeqs /\ ring' \in SampleSeqs
  BY DEF TypeOK, Chunk
<1>2. /\ KeptSamples = KeptOf(sent, chunks, samples, ring)
      /\ KeptSamples' = KeptOf(sent', chunks', samples', ring')
  BY DEF KeptSamples, KeptOf, Pieces, PiecesOf, Converted
<1>3. \A x : x \in KeptSamples <=> InPieces(x, sent, chunks, samples, ring)
  BY <1>1, <1>2, KeptAre, Zenon
<1>4. \A x : x \in KeptSamples' <=> InPieces(x, sent', chunks', samples', ring')
  BY <1>1, <1>2, KeptAre, Zenon
<1> QED  BY <1>3, <1>4 DEF InPieces, Cuts, Cut, NextCut

\* What popping, appending and filling do to the set of samples.
LEMMA PoppedRange ==
  ASSUME NEW r \in SampleSeqs, NEW t \in SampleSeqs, Popped(r, t), Len(r) > 0
  PROVE  \A x : x \in Range(r) <=> x = r[1] \/ x \in Range(t)
<1>1. /\ Len(r) \in Nat /\ DOMAIN r = 1 .. Len(r) /\ DOMAIN t = 1 .. Len(r) - 1
      /\ \A i \in DOMAIN t : t[i] = r[i + 1]
  BY SampleSeq DEF Popped
<1>2. \A i \in DOMAIN r : i = 1 \/ (i - 1 \in DOMAIN t /\ t[i - 1] = r[i])
  BY <1>1
<1>3. 1 \in DOMAIN r /\ \A i \in DOMAIN t : i + 1 \in DOMAIN r
  BY <1>1
<1> QED  BY <1>1, <1>2, <1>3 DEF Range

\* What appending does to the set of samples.
LEMMA LongerRange ==
  ASSUME NEW s \in SampleSeqs, NEW t \in SampleSeqs, NEW y, Longer(s, t, y)
  PROVE  \A x : x \in Range(t) <=> x \in Range(s) \/ x = y
<1>1. /\ Len(s) \in Nat /\ DOMAIN s = 1 .. Len(s) /\ DOMAIN t = 1 .. Len(s) + 1
      /\ \A i \in DOMAIN s : t[i] = s[i]
      /\ t[Len(s) + 1] = y
  BY SampleSeq DEF Longer
<1>2. /\ \A i \in DOMAIN t : i \in DOMAIN s \/ i = Len(s) + 1
      /\ \A i \in DOMAIN s : i \in DOMAIN t
      /\ Len(s) + 1 \in DOMAIN t
  BY <1>1
<1> QED  BY <1>1, <1>2 DEF Range

\* What the device's samples add to the set of samples.
LEMMA FilledRange ==
  ASSUME NEW r \in SampleSeqs, NEW t \in SampleSeqs, NEW fit \in Nat, NEW h \in Nat, Filled(r, t, fit, h)
  PROVE  \A x : x \in Range(t) <=> x \in Range(r) \/ x \in h .. h + fit - 1
<1>1. /\ Len(r) \in Nat /\ DOMAIN r = 1 .. Len(r) /\ DOMAIN t = 1 .. Len(r) + fit
      /\ \A i \in DOMAIN r : i \in DOMAIN t /\ t[i] = r[i]
      /\ \A i \in 1 .. fit : t[Len(r) + i] = h + i - 1
  BY SampleSeq DEF Filled
<1>2. \A i \in DOMAIN t : i \notin DOMAIN r =>
        i - Len(r) \in 1 .. fit /\ Len(r) + (i - Len(r)) = i
  BY <1>1
<1>3. \A i \in DOMAIN t : i \notin DOMAIN r => t[i] \in h .. h + fit - 1
  <2> SUFFICES ASSUME NEW i \in DOMAIN t, i \notin DOMAIN r  PROVE t[i] \in h .. h + fit - 1
    OBVIOUS
  <2>1. i - Len(r) \in 1 .. fit /\ t[i] = h + (i - Len(r)) - 1
    BY <1>1, <1>2
  <2> QED  BY <2>1
<1>4. ASSUME NEW x \in h .. h + fit - 1  PROVE x \in Range(t)
  <2>1. PICK j \in 1 .. fit : h + j - 1 = x
    <3>1. x - h + 1 \in 1 .. fit /\ h + (x - h + 1) - 1 = x
      OBVIOUS
    <3> QED  BY <3>1
  <2>2. t[Len(r) + j] = x
    BY <1>1, <2>1
  <2>3. Len(r) + j \in DOMAIN t
    BY <1>1
  <2> QED  BY <2>2, <2>3 DEF Range
<1>5. \A x : x \in Range(t) => x \in Range(r) \/ x \in h .. h + fit - 1
  BY <1>1, <1>3 DEF Range
<1>6. \A x : x \in Range(r) => x \in Range(t)
  BY <1>1 DEF Range
<1> QED  BY <1>4, <1>5, <1>6

\* What a move does to the samples kept.
KeptGrows ==
  \E fit \in 0 .. heard' - heard :
    /\ \A x : x \in KeptSamples' <=> x \in KeptSamples \/ x \in heard .. heard + fit - 1
    /\ fit < heard' - heard => Len(ring') = RingSize
KeptSame == \A x : x \in KeptSamples' <=> x \in KeptSamples

\* The samples in the pieces from the chunk numbered b on, before and after a step.
PiecesFrom(b, x) ==
  (\E c \in b .. Cuts : x \in Range(Cut(c))) \/ x \in Range(samples) \/ x \in Range(ring)
NextFrom(b, x) ==
  (\E c \in b .. Cuts' : x \in Range(NextCut(c))) \/ x \in Range(samples') \/ x \in Range(ring')

GrowsFrom(b) ==
  \E fit \in 0 .. heard' - heard :
    /\ \A x : NextFrom(b, x) <=> PiecesFrom(b, x) \/ x \in heard .. heard + fit - 1
    /\ fit < heard' - heard => Len(ring') = RingSize

\* A delivery adds the samples that fit.
LEMMA DeliversFrom ==
  ASSUME TypeOK, TypeOK', Delivers, NEW b \in Nat \ {0}
  PROVE  GrowsFrom(b)
<1>1. SameCuts /\ samples' = samples
  BY DEF Delivers
<1>2. PICK fit : /\ fit \in 0 .. heard' - heard /\ Filled(ring, ring', fit, heard)
                 /\ fit < heard' - heard => Len(ring') = RingSize
  BY DEF Delivers
<1>3. fit \in Nat /\ heard \in Nat
  <2>1. \A m, n, f : m \in Nat /\ n \in Nat /\ f \in 0 .. n - m => f \in Nat
    OBVIOUS
  <2>2. heard \in Nat /\ heard' \in Nat
    BY PieceTypes
  <2> QED  BY <1>2, <2>1, <2>2
<1>4. \A x : x \in Range(ring') <=> x \in Range(ring) \/ x \in heard .. heard + fit - 1
  BY <1>2, <1>3, PieceTypes, FilledRange
<1>5. \A c \in b .. Cuts : c \in 1 .. Cuts
  BY PieceTypes
<1>6. \A x : NextFrom(b, x) <=> PiecesFrom(b, x) \/ x \in heard .. heard + fit - 1
  BY <1>1, <1>4, <1>5 DEF SameCuts, PiecesFrom, NextFrom
<1> QED  BY <1>2, <1>6 DEF GrowsFrom

\* The popped sample goes on to the samples, or to the chunk they make.
LEMMA PopsFrom ==
  ASSUME TypeOK, TypeOK', Pops \/ EndsChunk \/ EndsRest, NEW b \in 1 .. Cuts + 1
  PROVE  \A x : NextFrom(b, x) <=> PiecesFrom(b, x)
<1>0. /\ samples \in SampleSeqs /\ samples' \in SampleSeqs /\ ring \in SampleSeqs /\ ring' \in SampleSeqs
      /\ Cuts \in Nat /\ Cuts' \in Nat
  BY PieceTypes
<1>e. \A x : x \notin Range(<<>>)
  BY DEF Range
<1>s. \A c \in b .. Cuts : c \in 1 .. Cuts
  BY <1>0
<1>1. CASE Pops
  <2>1. /\ SameCuts /\ ring # <<>> /\ Popped(ring, ring') /\ Longer(samples, samples', ring[1])
    BY <1>1 DEF Pops
  <2>2. \A x : x \in Range(ring) <=> x = ring[1] \/ x \in Range(ring')
    BY <1>0, <2>1, TailPops, PoppedRange
  <2>3. \A x : x \in Range(samples') <=> x \in Range(samples) \/ x = ring[1]
    BY <1>0, <2>1, LongerRange
  <2> QED  BY <1>s, <2>1, <2>2, <2>3 DEF SameCuts, NextFrom, PiecesFrom
<1>n. ASSUME NEW part, NewCut(part)
      PROVE  \A x : (\E c \in b .. Cuts' : x \in Range(NextCut(c))) <=>
                    (\E c \in b .. Cuts : x \in Range(Cut(c))) \/ x \in Range(part)
  <2>1. \A c : c \in b .. Cuts' <=> c \in b .. Cuts \/ c = Cuts + 1
    BY <1>0, <1>n DEF NewCut
  <2> QED  BY <1>n, <1>s, <2>1 DEF NewCut
<1>2. CASE EndsChunk
  <2>1. ring # <<>> /\ Popped(ring, ring') /\ samples' = <<>>
    BY <1>2 DEF EndsChunk
  <2>2. PICK part \in SampleSeqs : NewCut(part) /\ Longer(samples, part, ring[1])
    BY <1>2 DEF EndsChunk
  <2>3. \A x : x \in Range(ring) <=> x = ring[1] \/ x \in Range(ring')
    BY <1>0, <2>1, TailPops, PoppedRange
  <2>4. \A x : x \in Range(part) <=> x \in Range(samples) \/ x = ring[1]
    BY <1>0, <2>2, LongerRange
  <2>5. \A x : (\E c \in b .. Cuts' : x \in Range(NextCut(c))) <=>
               (\E c \in b .. Cuts : x \in Range(Cut(c))) \/ x \in Range(part)
    BY <1>n, <2>2
  <2> QED  BY <1>e, <2>1, <2>3, <2>4, <2>5 DEF NextFrom, PiecesFrom
<1>3. CASE EndsRest
  <2>1. ring' = ring /\ samples' = <<>> /\ NewCut(samples)
    BY <1>3 DEF EndsRest
  <2>2. \A x : (\E c \in b .. Cuts' : x \in Range(NextCut(c))) <=>
               (\E c \in b .. Cuts : x \in Range(Cut(c))) \/ x \in Range(samples)
    BY <1>n, <2>1
  <2> QED  BY <1>e, <2>1, <2>2 DEF NextFrom, PiecesFrom
<1> QED  BY <1>1, <1>2, <1>3

\* The samples kept are those of all pieces.
LEMMA KeptFrom ==
  ASSUME TypeOK, TypeOK'
  PROVE  \A x : (x \in KeptSamples <=> PiecesFrom(1, x)) /\ (x \in KeptSamples' <=> NextFrom(1, x))
BY Kept DEF PiecesFrom, NextFrom

\* What a delivery adds is kept.
LEMMA DeliversKeeps ==
  ASSUME TypeOK, TypeOK', Delivers
  PROVE  KeptGrows
<1>1. 1 \in Nat \ {0}
  OBVIOUS
<1>2. GrowsFrom(1)
  BY <1>1, DeliversFrom
<1> QED  BY <1>2, KeptFrom DEF GrowsFrom, KeptGrows

\* What is popped stays kept.
LEMMA PopsKeeps ==
  ASSUME TypeOK, TypeOK', Pops \/ EndsChunk \/ EndsRest
  PROVE  KeptSame
<1>1. 1 \in 1 .. Cuts + 1
  BY PieceTypes
<1>2. \A x : NextFrom(1, x) <=> PiecesFrom(1, x)
  BY <1>1, PopsFrom
<1> QED  BY <1>2, KeptFrom DEF KeptSame

-----------------------------------------------------------------------------
\* The exact duration of a whole chunk is a number.
LEMMA WholeNat ==
  ASSUME NEW r \in Nat
  PROVE  WholeFrames(r) \in Nat /\ WholeTime(r) \in Nat
<1>1. ChunkSize \in Nat /\ Channels \in Nat /\ Channels > 0 /\ NanosPerSec \in Nat
  BY CaptureAssumption
<1>2. ChunkSize \div Channels \in Nat
  BY <1>1
<1>3. WholeFrames(r) \in Nat
  BY <1>2, Resampled DEF WholeFrames
<1> QED  BY <1>1, <1>3 DEF WholeTime

\* The first chunk is due at once, and one more whole chunk advances what is due.
LEMMA FirstDue == \A r \in Nat : Due(0, 0, r)
BY WholeNat DEF Due

LEMMA NextDue ==
  ASSUME NEW r \in Nat, NEW n \in Nat, NEW t \in Nat, Due(t, n, r),
         NEW d \in Nat, 2 * (d * r - WholeTime(r)) \in -r .. r
  PROVE  Due(t + d, n + 1, r)
<1>1. PICK w \in Nat : w = WholeTime(r)
  BY WholeNat
<1> DEFINE tr == t * r
           dr == d * r
           nw == n * w
           nr == n * r
<1>2. tr \in Nat /\ dr \in Nat /\ nw \in Nat /\ nr \in Nat
  OBVIOUS
<1>3. (t + d) * r = tr + dr /\ (n + 1) * w = nw + w /\ (n + 1) * r = nr + r
  BY <1>1
<1>4. 2 * (tr - nw) \in -nr .. nr /\ 2 * (dr - w) \in -r .. r
  BY <1>1 DEF Due
<1> HIDE DEF tr, dr, nw, nr
<1>5. 2 * ((tr + dr) - (nw + w)) \in -(nr + r) .. nr + r
  BY <1>2, <1>4
<1> QED  BY <1>1, <1>3, <1>5, Zenon DEF Due

\* One more chunk sent, with the stamp that is due.
LEMMA StampsGrow ==
  ASSUME NEW r, NEW s \in Seq(Chunk), NEW x \in Chunk, NEW t, t = Append(s, x),
         \A i \in DOMAIN s : Due(s[i].at, i - 1, r), Due(x.at, Len(s), r)
  PROVE  Len(t) = Len(s) + 1 /\ \A i \in DOMAIN t : Due(t[i].at, i - 1, r)
<1>1. /\ Len(s) \in Nat /\ DOMAIN s = 1 .. Len(s) /\ Len(t) = Len(s) + 1 /\ DOMAIN t = 1 .. Len(s) + 1
      /\ \A i \in 1 .. Len(s) : t[i] = s[i]
      /\ t[Len(s) + 1] = x
  OBVIOUS
<1>2. \A i \in DOMAIN t : i \in DOMAIN s \/ (i = Len(s) + 1 /\ i - 1 = Len(s))
  BY <1>1
<1> QED  BY <1>1, <1>2

\* The rate stays.
LEMMA RateKept == [Next]_vars => rate' = rate
BY DEF Next, Device, Bridge, CallbackI16, CallbackF32, TryPush, Stop, DropStream, RouterExit, Check,
       HasChunk, TryPop, PopRest, Send, Flush, BridgeStep, deviceVars, vars

\* Each step keeps the stamps: only the last drained chunk has another duration,
\* and after it nothing is stamped.
LEMMA NextStamped == TypeOK /\ Steps /\ Whole /\ Stamped /\ [Next]_vars => Stamped'
<1> SUFFICES ASSUME TypeOK, Steps, Whole, Stamped, [Next]_vars  PROVE Stamped'
  OBVIOUS
<1> USE DEF deviceVars, outVars, BridgeStep
<1>r. rate' = rate /\ rate \in Nat
  BY RateKept, RateNat
<1>0. /\ sent \in Seq(Chunk) /\ Len(sent) \in Nat /\ chunks \in Seq(Chunk) /\ samples \in SampleSeqs
      /\ ring \in SampleSeqs /\ timestamp \in Nat /\ ChunkSize \in Nat /\ Len(chunks) \in Nat
  BY Sequences, CaptureAssumption DEF TypeOK
<1>1. CASE Device \/ Stop \/ DropStream \/ RouterExit \/ UNCHANGED vars
  <2>1. UNCHANGED <<sent, chunks, timestamp, bridge>> /\ (open' => open)
    BY <1>1 DEF Device, CallbackI16, CallbackF32, TryPush, Stop, DropStream, RouterExit, vars
  <2> QED  BY <1>r, <2>1 DEF Stamped
\* Where the bridge is neither sending nor finished, the next stamp is due.
<1>s. ASSUME UNCHANGED <<sent, chunks, timestamp, open>>, bridge \notin {"send", "flush", "done"},
             bridge' # "send"
      PROVE  Stamped'
  BY <1>r, <1>s DEF Stamped
<1>2. CASE Check \/ HasChunk
  <2>1. /\ UNCHANGED <<sent, chunks, timestamp, open>> /\ bridge \notin {"send", "flush", "done"}
        /\ bridge' # "send"
    BY <1>2 DEF Check, HasChunk
  <2> QED  BY <1>s, <2>1
<1>3. CASE PopRest
  <2>1. /\ UNCHANGED <<sent, timestamp, open>> /\ bridge \notin {"send", "flush", "done"}
        /\ bridge' # "send"
    BY <1>3 DEF PopRest
  <2> QED  BY <1>r, <2>1 DEF Stamped
<1>4. CASE TryPop
  <2>1. UNCHANGED <<sent, open>> /\ bridge \in {"read", "drainRead"} /\ Len(samples) < ChunkSize
    BY <1>4 DEF TryPop, Steps
  <2>2. ring # <<>>
    BY <1>0, <1>4, Sequences DEF TryPop, Steps
  <2>3. PICK part \in SampleSeqs : part = Append(samples, Head(ring)) /\ Len(part) = Len(samples) + 1
    BY <1>0, <2>2, TailPops, AppendLengthens DEF Longer
  <2>4. CASE Len(part) < ChunkSize
    <3>1. UNCHANGED <<bridge, chunks, timestamp>>
      BY <1>4, <2>3, <2>4 DEF TryPop
    <3> QED  BY <1>r, <2>1, <3>1 DEF Stamped
  <2>5. CASE ~(Len(part) < ChunkSize)
    <3>1. CASE bridge = "read"
      <4>1. /\ bridge' = "send" /\ Advance(part)
            /\ chunks' = <<Converted(part, timestamp)>>
        BY <1>4, <2>3, <2>5, <3>1 DEF TryPop
      <4>2. PICK d \in Nat : /\ timestamp' = timestamp + d
                            /\ 2 * (d * rate - WholeTime(rate)) \in -rate .. rate
        <5>1. Len(part) = ChunkSize
          BY <1>0, <2>1, <2>3, <2>5, SampleSeq
        <5> QED  BY <4>1, <5>1, Advances
      <4>3. open => Due(timestamp, Len(sent), rate) /\ Due(timestamp', Len(sent) + 1, rate)
        <5>1. open => Due(timestamp, Len(sent), rate)
          BY <3>1 DEF Stamped
        <5> QED  BY <1>0, <1>r, <4>2, <5>1, NextDue
      <4>4. chunks'[1].at = timestamp
        <5>1. chunks'[1] = Converted(part, timestamp)
          BY <4>1
        <5> QED  BY <1>0, <5>1, ChunkFields
      <4> QED  BY <1>r, <2>1, <4>1, <4>3, <4>4 DEF Stamped
    <3>2. CASE bridge = "drainRead"
      <4>1. bridge' = "drain" /\ UNCHANGED timestamp
        BY <1>4, <2>3, <2>5, <3>2 DEF TryPop
      <4> QED  BY <1>r, <2>1, <3>2, <4>1 DEF Stamped
    <3> QED  BY <2>1, <3>1, <3>2
  <2> QED  BY <2>4, <2>5
<1>5. CASE Send
  <2>1. bridge = "send" /\ UNCHANGED <<timestamp, open>>
    BY <1>5 DEF Send
  <2>2. CASE ~open
    BY <1>5, <1>r, <2>1, <2>2 DEF Send, Stamped
  <2>3. CASE open
    <3>1. sent' = sent \o chunks /\ bridge' = "poll" /\ Len(chunks) = 1
      BY <1>5, <2>3 DEF Send, Steps
    <3>2. chunks # <<>>
      <4>1. Len(<<>>) = 0
        BY EmptySeq
      <4> QED  BY <3>1, <4>1
    <3>3. chunks[1] \in Chunk
      BY <1>0, <3>2, ChunkTail
    <3>4. PICK x \in Chunk : x = chunks[1] /\ sent' = Append(sent, x)
      BY <1>0, <3>1, <3>3, SentOne
    <3>5. Due(x.at, Len(sent), rate) /\ Due(timestamp, Len(sent) + 1, rate)
      BY <2>1, <2>3, <3>4 DEF Stamped
    <3>6. \A i \in DOMAIN sent : Due(sent[i].at, i - 1, rate)
      BY DEF Stamped
    <3>7. Len(sent') = Len(sent) + 1 /\ \A i \in DOMAIN sent' : Due(sent'[i].at, i - 1, rate)
      BY <1>0, <3>4, <3>5, <3>6, StampsGrow
    <3>8. Due(timestamp', Len(sent'), rate)
      BY <2>1, <3>5, <3>7
    <3> QED  BY <1>r, <3>1, <3>7, <3>8 DEF Stamped
  <2> QED  BY <2>2, <2>3
<1>6. CASE Flush
  <2>1. bridge = "flush" /\ UNCHANGED open
    BY <1>6 DEF Flush
  <2>2. CASE chunks = <<>>
    BY <1>6, <1>r, <2>1, <2>2 DEF Flush, Stamped
  <2>3. CASE chunks # <<>> /\ ~open
    BY <1>6, <1>r, <2>1, <2>3 DEF Flush, Stamped
  <2>4. CASE chunks # <<>> /\ open
    <3>1. Head(chunks) \in Chunk /\ Head(chunks) = chunks[1] /\ Len(Tail(chunks)) = Len(chunks) - 1 /\ Len(chunks) > 0
      BY <1>0, <2>4, ChunkTail
    <3>2. PICK part \in SampleSeqs : part = Head(chunks).samples
      BY <3>1, ChunkFields
    <3>3. PICK x \in Chunk : x = Converted(part, timestamp) /\ x.at = timestamp
      BY <1>0, ChunkFields
    <3>4. /\ chunks' = Tail(chunks) /\ Advance(part) /\ bridge' = bridge
          /\ sent' = Append(sent, x)
      BY <1>6, <2>4, <3>2, <3>3 DEF Flush
    <3>5. Due(timestamp, Len(sent), rate) /\ \A i \in DOMAIN sent : Due(sent[i].at, i - 1, rate)
      BY <2>1, <2>4 DEF Stamped
    <3>6. Len(sent') = Len(sent) + 1 /\ \A i \in DOMAIN sent' : Due(sent'[i].at, i - 1, rate)
      BY <1>0, <3>3, <3>4, <3>5, StampsGrow
    <3>7. chunks' # <<>> => Due(timestamp', Len(sent'), rate)
      <4> SUFFICES ASSUME chunks' # <<>>  PROVE Due(timestamp', Len(sent'), rate)
        OBVIOUS
      <4>1. Len(chunks) # 1
        <5>1. Tail(chunks) \in Seq(Chunk) /\ Tail(chunks) # <<>>
          BY <1>0, <2>4, <3>4, ChunkTail
        <5>2. \A s \in Seq(Chunk) : Len(s) = 0 => s = <<>>
          BY EmptySeq
        <5>3. Len(Tail(chunks)) # 0
          BY <5>1, <5>2, Zenon
        <5> HIDE DEF deviceVars, outVars, BridgeStep
        <5> QED  BY <3>1, <5>3
      <4>2. Cut(Len(sent) + 1) = part
        <5>1. ~(Len(sent) + 1 <= Len(sent)) /\ Len(sent) + 1 - Len(sent) = 1
          BY <1>0
        <5> QED  BY <3>1, <3>2, <5>1 DEF Cut, CutOf
      <4>3. Len(part) = ChunkSize
        <5>1. Len(sent) + 1 \in 1 .. Cuts /\ Len(sent) + 1 # Cuts
          BY <1>0, <3>1, <4>1 DEF Cuts
        <5> QED  BY <4>2, <5>1 DEF Whole
      <4>4. PICK d \in Nat : /\ timestamp' = timestamp + d
                            /\ 2 * (d * rate - WholeTime(rate)) \in -rate .. rate
        BY <3>4, <4>3, Advances
      <4>5. Due(timestamp', Len(sent) + 1, rate)
        BY <1>0, <1>r, <3>5, <4>4, NextDue
      <4> QED  BY <3>6, <4>5
    <3> QED  BY <1>r, <2>1, <3>4, <3>6, <3>7 DEF Stamped
  <2> QED  BY <2>2, <2>3, <2>4
<1> QED  BY <1>1, <1>2, <1>3, <1>4, <1>5, <1>6 DEF Next, Bridge

-----------------------------------------------------------------------------
\* The inductive invariant holds at the start.
LEMMA InitCapture == Init => CaptureInv
<1> SUFFICES ASSUME Init  PROVE CaptureInv
  OBVIOUS
<1> USE DEF Init
<1>1. /\ <<>> \in SampleSeqs /\ <<>> \in Seq(Chunk) /\ Len(<<>>) = 0 /\ DOMAIN <<>> = {}
      /\ MaxSamples \in Nat /\ RingSize \in Nat /\ ChunkSize \in Nat
  BY EmptySeq, SampleSeqsAre, CaptureAssumption
<1>2. TypeOK
  <2>1. TypeControl
    BY <1>1 DEF TypeControl
  <2>2. TypePieces
    BY <1>1 DEF TypePieces
  <2> QED  BY <2>1, <2>2, TypeParts
<1>3. Steps
  BY DEF Steps
<1>4. Cuts = 0 /\ \A c : c \notin 1 .. Cuts
  BY <1>1 DEF Cuts
<1>5. Ordered
  BY <1>4, EmptyOrder DEF Ordered
<1>6. Whole
  BY <1>4 DEF Whole
<1>7. Stamped
  <2>1. Due(0, 0, rate)
    BY CaptureAssumption, FirstDue
  <2> QED  BY <1>1, <2>1 DEF Stamped
<1> QED  BY <1>2, <1>3, <1>5, <1>6, <1>7 DEF CaptureInv

\* Each step keeps the inductive invariant.
LEMMA NextCapture == CaptureInv /\ [Next]_vars => CaptureInv'
<1> SUFFICES ASSUME CaptureInv, [Next]_vars  PROVE CaptureInv'
  OBVIOUS
<1>1. TypeOK /\ Steps /\ Ordered /\ Whole /\ Stamped
  BY DEF CaptureInv
<1>2. TypeOK' /\ Steps'
  <2>1. CASE Next
    BY <1>1, <2>1, NextType, NextSteps
  <2>2. CASE UNCHANGED vars
    BY <1>1, <2>2 DEF vars, deviceVars, outVars, TypeOK, Steps
  <2> QED  BY <2>1, <2>2
<1> QED  BY <1>1, <1>2, NextOrdered, NextWhole, NextStamped DEF CaptureInv

\* Capture keeps its inductive invariant: the pieces, from the chunks sent to the
\* ring, ascend, are whole chunks up to the end of the drain, and are stamped with
\* what is due.
THEOREM CaptureInvariant == Spec => []CaptureInv
BY InitCapture, NextCapture, PTL DEF Spec

\* The ring never exceeds its capacity, nor a callback the device's samples, and
\* the chunks are records of samples: TypeOK, for every reachable state.
THEOREM TypeCorrect == Spec => []TypeOK
<1>1. CaptureInv => TypeOK
  BY DEF CaptureInv
<1> QED  BY <1>1, CaptureInvariant, PTL

-----------------------------------------------------------------------------
\* Through callbacks that race with pops, chunk limits and the drain, the samples
\* pass in the order of the device, none twice.
THEOREM OrderKept == Spec => []SamplesInOrder
<1>1. ASSUME CaptureInv  PROVE SamplesInOrder
  <2>0. /\ TypeOK /\ Ordered /\ sent \in Seq(Chunk) /\ chunks \in Seq(Chunk)
        /\ samples \in SampleSeqs /\ ring \in SampleSeqs
    BY <1>1, Sequences DEF CaptureInv
  <2>1. PICK n : n = Len(sent) + Len(chunks)
    OBVIOUS
  <2>2. n \in Nat /\ n = Cuts
    BY <2>0, <2>1, LenProperties DEF Cuts
  <2>3. PICK P : P = PiecesOf(sent, chunks, samples, ring)
    OBVIOUS
  <2>4. P = Pieces
    BY <2>3 DEF PiecesOf, Pieces
  <2>5. PieceAt(P, n, sent, chunks, samples, ring)
    BY <2>0, <2>1, <2>3, PiecesAre
  <2>6. /\ DOMAIN P = 1 .. n + 2
        /\ \A c \in 1 .. n : P[c].samples = Cut(c)
        /\ P[n + 1].samples = samples /\ P[n + 2].samples = ring
    BY <2>5 DEF PieceAt, Cut
  <2>7. \A c : c \in DOMAIN P <=> c \in 1 .. n \/ c = n + 1 \/ c = n + 2
    BY <2>2, <2>6
  <2>8. \A p \in DOMAIN P : Ascends(P[p].samples) /\ AllBelow(P[p].samples, heard)
    BY <2>0, <2>2, <2>6, <2>7 DEF Ordered
  <2>9. \A p, q \in DOMAIN P : p < q => Follows(P[p].samples, P[q].samples)
    <3> SUFFICES ASSUME NEW p \in DOMAIN P, NEW q \in DOMAIN P, p < q
                 PROVE  Follows(P[p].samples, P[q].samples)
      OBVIOUS
    <3>1. \/ p \in 1 .. n /\ q \in 1 .. n
          \/ p \in 1 .. n /\ q = n + 1
          \/ p \in 1 .. n /\ q = n + 2
          \/ p = n + 1 /\ q = n + 2
      BY <2>2, <2>7
    <3> QED  BY <2>0, <2>2, <2>6, <3>1 DEF Ordered
  <2> QED  BY <2>4, <2>8, <2>9 DEF SamplesInOrder, Ascends, AllBelow, Follows
<1> QED  BY <1>1, CaptureInvariant, PTL

\* A chunk that the router gets has the configured size unless the bridge has
\* stopped and it is the last one.
THEOREM ChunksWhole == Spec => []WholeChunks
<1>1. ASSUME CaptureInv  PROVE WholeChunks
  <2>0. /\ Whole /\ Steps /\ Len(sent) \in Nat /\ Len(chunks) \in Nat /\ DOMAIN sent = 1 .. Len(sent)
    BY <1>1, Sequences DEF CaptureInv
  <2> SUFFICES ASSUME NEW i \in DOMAIN sent, Len(sent[i].samples) # ChunkSize
               PROVE  i = Len(sent) /\ ~running
    BY DEF WholeChunks
  <2>1. i \in 1 .. Cuts /\ Cut(i) = sent[i].samples
    BY <2>0 DEF Cuts, Cut, CutOf
  <2>2. i = Cuts /\ bridge \in {"flush", "done"}
    BY <2>0, <2>1 DEF Whole
  <2>3. i = Len(sent)
    <3>1. i \in 1 .. Len(sent)
      BY <2>0
    <3>2. i = Len(sent) + Len(chunks) /\ Len(sent) \in Nat /\ Len(chunks) \in Nat
      BY <2>0, <2>2, Zenon DEF Cuts
    <3> QED  BY <3>1, <3>2
  <2>4. ~running
    BY <2>0, <2>2 DEF Steps
  <2> QED  BY <2>3, <2>4
<1> QED  BY <1>1, CaptureInvariant, PTL

\* While the router listens, a step keeps all that was kept, and loses samples it
\* takes from the device only by filling the ring.
THEOREM LossMeansFull == Spec => LostOnlyWhenFull
<1> DEFINE Loss == open' => /\ KeptSamples \subseteq KeptSamples'
                            /\ ~((heard .. heard' - 1) \subseteq KeptSamples') => Len(ring') = RingSize
<1>1. ASSUME CaptureInv, CaptureInv', [Next]_vars  PROVE Loss
  <2>0. /\ TypeOK /\ TypeOK' /\ Steps /\ Ordered /\ Whole
    BY <1>1 DEF CaptureInv
  <2> SUFFICES ASSUME open'
               PROVE  /\ KeptSamples \subseteq KeptSamples'
                      /\ ~((heard .. heard' - 1) \subseteq KeptSamples') => Len(ring') = RingSize
    OBVIOUS
  <2>1. Delivers \/ Pops \/ EndsChunk \/ EndsRest
    BY <1>1, <2>0, Moves DEF Drops
  <2>2. CASE Delivers
    <3>1. PICK fit \in 0 .. heard' - heard :
            /\ \A x : x \in KeptSamples' <=> x \in KeptSamples \/ x \in heard .. heard + fit - 1
            /\ fit < heard' - heard => Len(ring') = RingSize
      BY <2>0, <2>2, DeliversKeeps DEF KeptGrows
    <3>2. CASE fit < heard' - heard
      BY <3>1, <3>2
    <3>3. CASE ~(fit < heard' - heard)
      <4>1. heard + fit - 1 = heard' - 1
        <5>1. heard \in Nat /\ heard' \in Nat
          BY <2>0, PieceTypes
        <5>2. \A m, n, f : m \in Nat /\ n \in Nat /\ f \in 0 .. n - m /\ ~(f < n - m) => m + f - 1 = n - 1
          OBVIOUS
        <5> QED  BY <3>3, <5>1, <5>2
      <4>2. \A x : x \in KeptSamples' <=> x \in KeptSamples \/ x \in heard .. heard' - 1
        BY <3>1, <4>1, Zenon
      <4> QED  BY <4>2
    <3> QED  BY <3>2, <3>3
  <2>3. CASE Pops \/ EndsChunk \/ EndsRest
    <3>1. KeptSame
      BY <2>0, <2>3, PopsKeeps
    <3>2. heard' = heard /\ heard \in Nat
      BY <2>0, <2>3, PieceTypes DEF Pops, EndsChunk, EndsRest
    <3>3. heard .. heard' - 1 = {}
      BY <3>2
    <3> QED  BY <3>1, <3>3 DEF KeptSame
  <2> QED  BY <2>1, <2>2, <2>3
<1>2. CaptureInv /\ CaptureInv' /\ [Next]_vars => [Loss]_vars
  BY <1>1
<1> QED  BY <1>2, CaptureInvariant, PTL DEF Spec, LostOnlyWhenFull

-----------------------------------------------------------------------------
\* The arithmetic of the drift: n chunks of w frames from a device of the rate d,
\* which have l frames at the rate r, and the time t after them, with each of them
\* rounded to one of s parts of a second.
LEMMA DriftArithmetic ==
  ASSUME NEW n \in Nat, NEW w \in Nat, NEW l \in Nat, NEW d \in Nat, NEW r \in Nat, r > 0,
         NEW s \in Nat, NEW t \in Nat,
         l * d - w * r \in 0 .. d,
         2 * (t * r - n * (l * s)) \in -(n * r) .. n * r
  PROVE  LET drift == 2 * (t * d - (n * w) * s)
             half  == n * d
         IN  -half <= drift /\ (drift - half) * r <= 2 * half * s
<1> DEFINE late  == l * d - w * r
           off   == 2 * (t * r - n * (l * s))
           drift == 2 * (t * d - (n * w) * s)
           half  == n * d
           ns    == n * s
\* The drift, at the rate r, is what rounding added and what the chunks got longer.
<1>1. r * drift = d * off + 2 * (ns * late)
  OBVIOUS
<1>2. late \in 0 .. d /\ off \in -(n * r) .. n * r /\ late \in Int /\ off \in Int /\ drift \in Int
  OBVIOUS
<1>3. half \in Nat /\ ns \in Nat /\ half * r = d * (n * r) /\ half * s = ns * d
  OBVIOUS
<1> HIDE DEF late, off, drift, ns
<1>4. -(half * r) <= d * off /\ d * off <= half * r
  <2> DEFINE nr == n * r
  <2>1. nr \in Nat /\ off \in -nr .. nr
    BY <1>2
  <2> HIDE DEF nr
  <2>2. PICK u \in Nat, v \in Nat : off = u - nr /\ off = nr - v
    <3>1. off + nr \in Nat /\ nr - off \in Nat /\ off = (off + nr) - nr /\ off = nr - (nr - off)
      BY <1>2, <2>1
    <3> QED  BY <3>1
  <2>3. d * off = d * u - d * nr /\ d * off = d * nr - d * v /\ d * u \in Nat /\ d * v \in Nat
        /\ d * nr \in Nat
    <3>1. d * off = d * u - d * nr
      BY <2>1, <2>2
    <3>2. d * off = d * nr - d * v
      BY <2>1, <2>2
    <3>3. d * u \in Nat /\ d * v \in Nat /\ d * nr \in Nat
      BY <2>1, <2>2
    <3> QED  BY <3>1, <3>2, <3>3
  <2> DEFINE du == d * u
             dv == d * v
             dn == d * nr
  <2>4. d * off = du - dn /\ d * off = dn - dv /\ du \in Nat /\ dv \in Nat /\ dn \in Nat
    BY <2>3
  <2>5. half * r = dn
    BY <1>3 DEF nr
  <2> HIDE DEF du, dv, dn, half
  <2> QED  BY <2>4, <2>5
<1>5. 0 <= ns * late /\ ns * late <= half * s /\ ns * late \in Int
  <2>1. PICK f \in Nat : late + f = d
    <3>1. d - late \in Nat /\ late + (d - late) = d
      BY <1>2
    <3> QED  BY <3>1
  <2>2. late \in Nat
    BY <1>2
  <2>3. ns * d = ns * late + ns * f /\ ns * late \in Nat /\ ns * f \in Nat
    BY <1>3, <2>1, <2>2
  <2> DEFINE a == ns * late
             b == ns * f
             c == ns * d
  <2>4. c = a + b /\ a \in Nat /\ b \in Nat /\ half * s = c
    BY <1>3, <2>3
  <2> HIDE DEF a, b, c, half
  <2> QED  BY <2>4 DEF a
<1> DEFINE rd == r * drift
           hr == half * r
           dof == d * off
           nl == ns * late
           hs == half * s
<1>6. rd = dof + 2 * nl /\ -hr <= dof /\ dof <= hr /\ 0 <= nl /\ nl <= hs
  BY <1>1, <1>4, <1>5
<1>7. rd \in Int /\ hr \in Nat /\ dof \in Int /\ nl \in Int /\ hs \in Nat
  BY <1>2, <1>3, <1>5
<1>8. r * (drift + half) = rd + hr /\ (drift - half) * r = rd - hr /\ 2 * half * s = 2 * hs
  BY <1>2, <1>3
<1> HIDE DEF rd, hr, dof, nl, hs, half
<1>9. r * (drift + half) >= 0
  BY <1>6, <1>7, <1>8
<1>10. drift + half >= 0
  <2> DEFINE x == drift + half
  <2>1. x \in Int /\ r * x >= 0
    BY <1>2, <1>3, <1>9
  <2> HIDE DEF x
  <2>2. x >= 0
    <3> SUFFICES ASSUME x < 0  PROVE FALSE
      BY <2>1
    <3>1. r * x < 0
      BY <2>1
    <3> QED  BY <2>1, <3>1
  <2> QED  BY <2>2 DEF x
<1>11. (drift - half) * r <= 2 * half * s
  BY <1>6, <1>7, <1>8
<1>12. -half <= drift
  BY <1>2, <1>3, <1>10
<1> QED  BY <1>11, <1>12 DEF drift, half

\* A chunk is a whole number of frames, and n chunks are n times as many.
LEMMA ChunkOfFrames ==
  ASSUME NEW n \in Nat
  PROVE  LET w == ChunkSize \div Channels
         IN  w \in Nat /\ (n * ChunkSize) % Channels = 0 /\ (n * ChunkSize) \div Channels = n * w
<1> DEFINE w == ChunkSize \div Channels
<1>1. ChunkSize \in Nat /\ Channels \in {1, 2} /\ ChunkSize % Channels = 0
  BY CaptureAssumption
<1>2. w \in Nat /\ ChunkSize = Channels * w
  <2>1. CASE Channels = 1
    BY <1>1, <2>1
  <2>2. CASE Channels = 2
    BY <1>1, <2>2
  <2> QED  BY <1>1, <2>1, <2>2
<1> HIDE DEF w
<1> DEFINE m == n * w
<1>3. m \in Nat /\ n * ChunkSize = Channels * m
  <2>1. CASE Channels = 1
    BY <1>2, <2>1
  <2>2. CASE Channels = 2
    BY <1>2, <2>2
  <2> QED  BY <1>1, <2>1, <2>2
<1> HIDE DEF m
<1>4. (Channels * m) % Channels = 0 /\ (Channels * m) \div Channels = m
  <2>1. CASE Channels = 1
    BY <1>3, <2>1
  <2>2. CASE Channels = 2
    BY <1>3, <2>2
  <2> QED  BY <1>1, <2>1, <2>2
<1> QED  BY <1>2, <1>3, <1>4 DEF w, m

\* The samples kept that the device delivered before the chunk i are those of the
\* chunks before it.
LEMMA KeptBefore ==
  ASSUME CaptureInv, NEW i \in DOMAIN sent, NEW x
  PROVE  x \in 0 .. Cut(i)[1] - 1 /\ x \in KeptSamples <=>
           \E c \in 1 .. i - 1 : \E j \in DOMAIN Cut(c) : x = Cut(c)[j]
<1>1. /\ sent \in Seq(Chunk) /\ chunks \in Seq(Chunk) /\ samples \in SampleSeqs /\ ring \in SampleSeqs
      /\ Len(sent) \in Nat /\ Len(chunks) \in Nat /\ DOMAIN sent = 1 .. Len(sent)
  BY Sequences DEF CaptureInv
<1>2. \A c \in 1 .. Cuts : Cut(c) \in SampleSeqs
  BY <1>1, CutType, Zenon DEF Cuts, Cut
<1>3. i \in 1 .. Cuts /\ i \in Nat /\ Cuts \in Nat
  BY <1>1 DEF Cuts
<1>4. /\ \A c \in 1 .. Cuts : \A j \in DOMAIN Cut(c) : Cut(c)[j] \in Int /\ Cut(c)[j] >= 0
      /\ 1 \in DOMAIN Cut(i) /\ \A j \in DOMAIN Cut(i) : j = 1 \/ 1 < j
  <2>1. \A c \in 1 .. Cuts : \A j \in DOMAIN Cut(c) : Cut(c)[j] \in 0 .. MaxSamples - 1
    BY <1>2, SampleSeq
  <2>2. Len(Cut(i)) > 0 /\ Len(Cut(i)) \in Nat /\ DOMAIN Cut(i) = 1 .. Len(Cut(i))
    BY <1>2, <1>3, SampleSeq DEF CaptureInv, Whole
  <2>3. MaxSamples \in Nat
    BY CaptureAssumption
  <2>4. 1 \in DOMAIN Cut(i) /\ \A j \in DOMAIN Cut(i) : j = 1 \/ 1 < j
    BY <2>2
  <2> QED  BY <2>1, <2>3, <2>4
<1>5. x \in KeptSamples <=>
        (\E c \in 1 .. Cuts : x \in Range(Cut(c))) \/ x \in Range(samples) \/ x \in Range(ring)
  <2>1. KeptSamples = KeptOf(sent, chunks, samples, ring)
    BY DEF KeptSamples, KeptOf, Pieces, PiecesOf, Converted
  <2>2. x \in KeptSamples <=> InPieces(x, sent, chunks, samples, ring)
    BY <1>1, <2>1, KeptAre, Zenon
  <2> QED  BY <2>2 DEF InPieces, Cuts, Cut
<1>6. /\ \A c \in 1 .. Cuts : c < i => Follows(Cut(c), Cut(i))
      /\ \A c \in 1 .. Cuts : i < c => Follows(Cut(i), Cut(c))
      /\ Ascends(Cut(i)) /\ Follows(Cut(i), samples) /\ Follows(Cut(i), ring)
  BY <1>3 DEF CaptureInv, Ordered
<1>7. ASSUME NEW c \in 1 .. i - 1, NEW j \in DOMAIN Cut(c), x = Cut(c)[j]
      PROVE  x \in 0 .. Cut(i)[1] - 1 /\ x \in KeptSamples
  <2>1. c \in 1 .. Cuts /\ c < i
    BY <1>3
  <2>2. x < Cut(i)[1]
    BY <1>4, <1>6, <1>7, <2>1 DEF Follows
  <2>3. x \in Int /\ x >= 0 /\ Cut(i)[1] \in Int
    BY <1>3, <1>4, <1>7, <2>1
  <2>4. x \in Range(Cut(c))
    BY <1>7 DEF Range
  <2> QED  BY <1>5, <2>1, <2>2, <2>3, <2>4
<1>8. ASSUME x \in 0 .. Cut(i)[1] - 1, x \in KeptSamples
      PROVE  \E c \in 1 .. i - 1 : \E j \in DOMAIN Cut(c) : x = Cut(c)[j]
  <2>1. x < Cut(i)[1] /\ x \in Int /\ Cut(i)[1] \in Int /\ ~(Cut(i)[1] < x)
    <3>1. Cut(i)[1] \in Int
      BY <1>3, <1>4
    <3> QED  BY <1>8, <3>1
  <2>2. x \notin Range(samples) /\ x \notin Range(ring)
    BY <1>4, <1>6, <2>1 DEF Follows, Range
  <2>3. PICK c \in 1 .. Cuts : x \in Range(Cut(c))
    BY <1>5, <1>8, <2>2
  <2>4. PICK j \in DOMAIN Cut(c) : x = Cut(c)[j]
    BY <2>3 DEF Range
  <2>5. ~(i < c)
    BY <1>4, <1>6, <2>1, <2>4 DEF Follows
  <2>6. c # i
    <3> SUFFICES ASSUME c = i  PROVE FALSE
      OBVIOUS
    <3>1. j = 1 \/ Cut(i)[1] < x
      BY <1>4, <1>6, <2>4 DEF Ascends
    <3> QED  BY <2>1, <2>4, <3>1
  <2>7. c \in 1 .. i - 1
    BY <1>3, <2>5, <2>6
  <2> QED  BY <2>4, <2>7
<1> QED  BY <1>7, <1>8

\* They are as many as whole chunks hold.
LEMMA CountBefore ==
  ASSUME CaptureInv, NEW i \in DOMAIN sent
  PROVE  /\ Cut(i)[1] \in Nat
         /\ Cut(i)[1] - Cardinality((0 .. Cut(i)[1] - 1) \ KeptSamples) = (i - 1) * ChunkSize
<1>1. /\ sent \in Seq(Chunk) /\ chunks \in Seq(Chunk)
      /\ Len(sent) \in Nat /\ Len(chunks) \in Nat /\ DOMAIN sent = 1 .. Len(sent)
  BY Sequences DEF CaptureInv
<1>2. /\ i \in 1 .. Cuts /\ i \in Nat /\ i >= 1 /\ Cuts \in Nat /\ i - 1 \in Nat
      /\ \A c \in 1 .. i - 1 : c \in 1 .. Cuts /\ c # Cuts
  BY <1>1 DEF Cuts
<1>3. \A c \in 1 .. Cuts : Cut(c) \in SampleSeqs
  BY <1>1, CutType, Zenon DEF Cuts, Cut
<1>4. \A c \in 1 .. i - 1 : DOMAIN Cut(c) = 1 .. ChunkSize
  <2>1. \A c \in 1 .. i - 1 : Len(Cut(c)) = ChunkSize
    BY <1>2 DEF CaptureInv, Whole
  <2> QED  BY <1>2, <1>3, <2>1, SampleSeq
<1>5. \A c \in 1 .. Cuts : \A j \in DOMAIN Cut(c) : Cut(c)[j] \in Int
  BY <1>3, SampleSeq
<1>6. ChunkSize \in Nat
  BY CaptureAssumption
<1>7. Cut(i)[1] \in Nat
  <2>1. Len(Cut(i)) > 0 /\ Len(Cut(i)) \in Nat /\ DOMAIN Cut(i) = 1 .. Len(Cut(i))
    BY <1>2, <1>3, SampleSeq DEF CaptureInv, Whole
  <2>2. Cut(i)[1] \in 0 .. MaxSamples - 1
    BY <1>2, <1>3, <2>1, SampleSeq
  <2> QED  BY <2>2, CaptureAssumption
<1> DEFINE first == Cut(i)[1]
           N == 1 .. i - 1
           W == 1 .. ChunkSize
           B == {x \in 0 .. first - 1 : x \in KeptSamples}
           f == [p \in N \X W |-> Cut(p[1])[p[2]]]
<1>8. \A x : x \in B <=> \E c \in N : \E j \in W : x = Cut(c)[j]
  <2>1. \A x : x \in B <=> \E c \in N : \E j \in DOMAIN Cut(c) : x = Cut(c)[j]
    BY KeptBefore
  <2> QED  BY <1>4, <2>1
<1>9. ExistsBijection(N \X W, B)
  <2> HIDE DEF B, N, W
  <2>1. \A p \in N \X W : p[1] \in N /\ p[2] \in W /\ f[p] = Cut(p[1])[p[2]]
    OBVIOUS
  <2>2. f \in [N \X W -> B]
    BY <1>8, <2>1
  <2>3. \A p, q \in N \X W : f[p] = f[q] => p = q
    <3> SUFFICES ASSUME NEW p \in N \X W, NEW q \in N \X W, f[p] = f[q]  PROVE p = q
      OBVIOUS
    <3>1. PICK c \in N, j \in W : p = <<c, j>> /\ f[p] = Cut(c)[j]
      BY <2>1
    <3>2. PICK d \in N, k \in W : q = <<d, k>> /\ f[q] = Cut(d)[k]
      BY <2>1
    <3>3. c \in 1 .. Cuts /\ d \in 1 .. Cuts /\ j \in DOMAIN Cut(c) /\ k \in DOMAIN Cut(d)
      BY <1>2, <1>4 DEF N, W
    <3>4. Cut(c)[j] \in Int /\ Cut(d)[k] = Cut(c)[j]
      BY <1>5, <3>1, <3>2, <3>3
    <3>5. ~(c < d) /\ ~(d < c)
      BY <3>3, <3>4 DEF CaptureInv, Ordered, Follows
    <3>6. c = d
      BY <3>3, <3>5
    <3>7. ~(j < k) /\ ~(k < j)
      BY <3>3, <3>4, <3>6 DEF CaptureInv, Ordered, Ascends
    <3>8. j = k
      BY <3>7 DEF W
    <3> QED  BY <3>1, <3>2, <3>6, <3>8
  <2>4. f \in Injection(N \X W, B)
    BY <2>2, <2>3 DEF Injection, IsInjective
  <2>5. \A x \in B : \E p \in N \X W : f[p] = x
    <3> SUFFICES ASSUME NEW x \in B  PROVE \E p \in N \X W : f[p] = x
      OBVIOUS
    <3>1. PICK c \in N, j \in W : x = Cut(c)[j]
      BY <1>8
    <3>2. <<c, j>> \in N \X W /\ f[<<c, j>>] = x
      BY <3>1
    <3> QED  BY <3>2
  <2>6. f \in Surjection(N \X W, B)
    BY <2>2, <2>5 DEF Surjection
  <2> QED  BY <2>4, <2>6 DEF ExistsBijection, Bijection
<1>10. IsFiniteSet(N \X W) /\ Cardinality(N \X W) = (i - 1) * ChunkSize
  <2>1. IsFiniteSet(N) /\ Cardinality(N) = i - 1
    <3>1. PICK n \in Nat : n = i - 1
      BY <1>2
    <3>2. IsFiniteSet(1 .. n) /\ Cardinality(1 .. n) = n
      BY FS_Interval
    <3> QED  BY <3>1, <3>2, Zenon
  <2>2. IsFiniteSet(W) /\ Cardinality(W) = ChunkSize
    BY <1>6, FS_Interval
  <2> QED  BY <2>1, <2>2, FS_Product
<1>11. IsFiniteSet(B) /\ Cardinality(B) = (i - 1) * ChunkSize
  BY <1>9, <1>10, FS_Bijection
<1>12. IsFiniteSet(0 .. first - 1) /\ Cardinality(0 .. first - 1) = first
  BY <1>7, FS_Interval
<1>13. Cardinality((0 .. first - 1) \ KeptSamples) = first - Cardinality(B)
  <2>1. B = (0 .. first - 1) \cap KeptSamples
    OBVIOUS
  <2> HIDE DEF B, first
  <2>2. /\ Cardinality((0 .. first - 1) \ KeptSamples) =
             Cardinality(0 .. first - 1) - Cardinality((0 .. first - 1) \cap KeptSamples)
    BY <1>12, FS_Difference, Zenon
  <2> QED  BY <1>12, <2>1, <2>2, Zenon
<1>14. (i - 1) * ChunkSize \in Nat
  BY <1>2, <1>6
<1> DEFINE m == (i - 1) * ChunkSize
<1> HIDE DEF m, B, first
<1>15. first - Cardinality((0 .. first - 1) \ KeptSamples) = m
  BY <1>7, <1>11, <1>13, <1>14 DEF m, first
<1> QED  BY <1>7, <1>15 DEF m, first

\* A chunk starts with the first channel unless part of a frame was lost before it.
\* Its stamp is the time at which the device delivered its first sample, less the
\* duration of what was lost, early by at most half a nanosecond for each chunk
\* before it, and late by at most that and a frame of the target rate for each.
THEOREM DriftBounded == Spec => []TimestampDrift
<1>1. ASSUME CaptureInv  PROVE TimestampDrift
  <2>0. /\ Whole /\ Stamped /\ TypeOK /\ Len(chunks) \in Nat /\ Len(sent) \in Nat
        /\ DOMAIN sent = 1 .. Len(sent) /\ sent \in Seq(Chunk)
    BY <1>1, Sequences DEF CaptureInv
  <2> SUFFICES ASSUME NEW i \in DOMAIN sent
               PROVE  LET first == sent[i].samples[1]
                          place == first - Cardinality((0 .. first - 1) \ KeptSamples)
                          drift == 2 * (sent[i].at * DeviceRate - (place \div Channels) * NanosPerSec)
                          half  == (i - 1) * DeviceRate
                      IN  /\ place % Channels = 0
                          /\ -half <= drift
                          /\ (drift - half) * rate <= 2 * half * NanosPerSec
    BY DEF TimestampDrift
  <2>1. Cut(i) = sent[i].samples
    BY <2>0 DEF Cut, CutOf
  <2>2. PICK n \in Nat : n = i - 1
    BY <2>0
  <2> DEFINE first == sent[i].samples[1]
             place == first - Cardinality((0 .. first - 1) \ KeptSamples)
             w == ChunkSize \div Channels
             l == WholeFrames(rate)
             t == sent[i].at
  <2>3. place = n * ChunkSize
    BY <1>1, <2>1, <2>2, CountBefore
  <2>4. w \in Nat /\ (n * ChunkSize) % Channels = 0 /\ (n * ChunkSize) \div Channels = n * w
    BY ChunkOfFrames
  <2>5. rate \in Nat /\ rate > 0 /\ DeviceRate \in Nat /\ NanosPerSec \in Nat
    BY <2>0, RateNat, CaptureAssumption
  <2>6. l \in Nat /\ l * DeviceRate - w * rate \in 0 .. DeviceRate
    BY <2>4, <2>5, Resampled DEF WholeFrames
  <2>7. t \in Nat
    <3>1. sent[i] \in Chunk
      BY <2>0, ElementOfSeq
    <3> QED  BY <3>1, ChunkFields
  <2>8. 2 * (t * rate - n * (l * NanosPerSec)) \in -(n * rate) .. n * rate
    <3>1. Due(sent[i].at, i - 1, rate)
      BY <2>0 DEF Stamped
    <3>2. Due(t, n, rate)
      BY <2>2, <3>1
    <3> QED  BY <3>2 DEF Due, WholeTime
  <2> HIDE DEF w, l, t, place
  <2>9. LET drift == 2 * (t * DeviceRate - (n * w) * NanosPerSec)
            half  == n * DeviceRate
        IN  -half <= drift /\ (drift - half) * rate <= 2 * half * NanosPerSec
    BY <2>4, <2>5, <2>6, <2>7, <2>8, DriftArithmetic
  <2>10. place % Channels = 0 /\ place \div Channels = n * w
    BY <2>3, <2>4
  <2>11. /\ place % Channels = 0
         /\ LET drift == 2 * (t * DeviceRate - (place \div Channels) * NanosPerSec)
                half  == (i - 1) * DeviceRate
            IN  -half <= drift /\ (drift - half) * rate <= 2 * half * NanosPerSec
    BY <2>2, <2>9, <2>10, Zenon
  <2> QED  BY <2>11 DEF place, t
<1> QED  BY <1>1, CaptureInvariant, PTL
-----------------------------------------------------------------------------
\* The samples of a chunk that waits to be sent, before and after a step.
Part(i)     == chunks[i].samples
NextPart(i) == chunks'[i].samples

\* What is under way lies in the chunks from the first one not sent.
LEMMA TransitFrom ==
  ASSUME TypeOK, TypeOK'
  PROVE  /\ Len(sent) \in Nat /\ Len(chunks) \in Nat /\ Len(sent') \in Nat /\ Len(chunks') \in Nat
         /\ \A x : x \in InTransit <=>
              (\E i \in 1 .. Len(chunks) : x \in Range(Part(i))) \/ x \in Range(samples) \/ x \in Range(ring)
         /\ \A x : x \in InTransit' <=>
              (\E i \in 1 .. Len(chunks') : x \in Range(NextPart(i)))
                \/ x \in Range(samples') \/ x \in Range(ring')
         /\ \A x : x \in InTransit <=> PiecesFrom(Len(sent) + 1, x)
         /\ \A x : x \in InTransit' <=> NextFrom(Len(sent') + 1, x)
<1>1. /\ Len(sent) \in Nat /\ Len(chunks) \in Nat /\ Len(sent') \in Nat /\ Len(chunks') \in Nat
      /\ DOMAIN chunks = 1 .. Len(chunks) /\ DOMAIN chunks' = 1 .. Len(chunks')
  <2>1. sent \in Seq(Chunk) /\ sent' \in Seq(Chunk) /\ chunks \in Seq(Chunk) /\ chunks' \in Seq(Chunk)
    BY DEF TypeOK, Chunk
  <2> QED  BY <2>1, LenProperties
<1>2. \A x : x \in InTransit <=>
        (\E i \in 1 .. Len(chunks) : x \in Range(Part(i))) \/ x \in Range(samples) \/ x \in Range(ring)
  <2>1. \A x : x \in InTransit <=>
          (\E i \in DOMAIN chunks : x \in Range(Part(i))) \/ x \in Range(samples) \/ x \in Range(ring)
    <3>1. PICK U : U = UNION {Range(chunk.samples) : chunk \in Range(chunks)}
      OBVIOUS
    <3>2. \A x : x \in U <=> \E i \in DOMAIN chunks : x \in Range(Part(i))
      BY <3>1 DEF Part, Range
    <3>3. InTransit = U \cup Range(samples) \cup Range(ring)
      BY <3>1 DEF InTransit
    <3> QED  BY <3>2, <3>3
  <2> QED  BY <1>1, <2>1
<1>3. \A x : x \in InTransit' <=>
        (\E i \in 1 .. Len(chunks') : x \in Range(NextPart(i)))
          \/ x \in Range(samples') \/ x \in Range(ring')
  <2>1. \A x : x \in InTransit' <=>
          (\E i \in DOMAIN chunks' : x \in Range(NextPart(i))) \/ x \in Range(samples') \/ x \in Range(ring')
    <3>1. PICK U : U = UNION {Range(chunk.samples) : chunk \in Range(chunks')}
      OBVIOUS
    <3>2. \A x : x \in U <=> \E i \in DOMAIN chunks' : x \in Range(NextPart(i))
      BY <3>1 DEF NextPart, Range
    <3>3. InTransit' = U \cup Range(samples') \cup Range(ring')
      BY <3>1 DEF InTransit, Range
    <3> QED  BY <3>2, <3>3
  <2> QED  BY <1>1, <2>1
<1>n. ASSUME NEW m \in Nat, NEW n \in Nat
      PROVE  /\ \A i \in 1 .. n : m + i \in m + 1 .. m + n /\ ~(m + i <= m) /\ (m + i) - m = i
             /\ \A c \in m + 1 .. m + n : c - m \in 1 .. n /\ m + (c - m) = c
  OBVIOUS
<1>4. \A x : (\E i \in 1 .. Len(chunks) : x \in Range(Part(i))) <=>
             \E c \in Len(sent) + 1 .. Cuts : x \in Range(Cut(c))
  <2>1. \A i \in 1 .. Len(chunks) : Cut(Len(sent) + i) = Part(i)
    BY <1>1, <1>n DEF Cut, CutOf, Part
  <2>2. \A i \in 1 .. Len(chunks) : Len(sent) + i \in Len(sent) + 1 .. Cuts
    BY <1>1, <1>n DEF Cuts
  <2>3. \A c \in Len(sent) + 1 .. Cuts : \E i \in 1 .. Len(chunks) : Cut(c) = Part(i)
    <3> SUFFICES ASSUME NEW c \in Len(sent) + 1 .. Cuts  PROVE \E i \in 1 .. Len(chunks) : Cut(c) = Part(i)
      OBVIOUS
    <3>1. c - Len(sent) \in 1 .. Len(chunks) /\ Len(sent) + (c - Len(sent)) = c
      BY <1>1, <1>n DEF Cuts
    <3>2. Cut(Len(sent) + (c - Len(sent))) = Part(c - Len(sent))
      BY <2>1, <3>1
    <3> QED  BY <3>1, <3>2
  <2> QED  BY <2>1, <2>2, <2>3
<1>5. \A x : (\E i \in 1 .. Len(chunks') : x \in Range(NextPart(i))) <=>
             \E c \in Len(sent') + 1 .. Cuts' : x \in Range(NextCut(c))
  <2>1. \A i \in 1 .. Len(chunks') : NextCut(Len(sent') + i) = NextPart(i)
    BY <1>1, <1>n DEF NextCut, CutOf, NextPart
  <2>2. \A i \in 1 .. Len(chunks') : Len(sent') + i \in Len(sent') + 1 .. Cuts'
    BY <1>1, <1>n DEF Cuts
  <2>3. \A c \in Len(sent') + 1 .. Cuts' : \E i \in 1 .. Len(chunks') : NextCut(c) = NextPart(i)
    <3> SUFFICES ASSUME NEW c \in Len(sent') + 1 .. Cuts'  PROVE \E i \in 1 .. Len(chunks') : NextCut(c) = NextPart(i)
      OBVIOUS
    <3>1. c - Len(sent') \in 1 .. Len(chunks') /\ Len(sent') + (c - Len(sent')) = c
      BY <1>1, <1>n DEF Cuts
    <3>2. NextCut(Len(sent') + (c - Len(sent'))) = NextPart(c - Len(sent'))
      BY <2>1, <3>1
    <3> QED  BY <3>1, <3>2
  <2> QED  BY <2>1, <2>2, <2>3
<1> QED  BY <1>1, <1>2, <1>3, <1>4, <1>5 DEF PiecesFrom, NextFrom

\* An ascending sequence has as many samples as places, and its first n places are
\* the samples below the next one.
LEMMA CountFirst ==
  ASSUME NEW s \in SampleSeqs, Ascends(s), NEW n \in 0 .. Len(s),
         NEW T, \A x : x \in T <=> \E i \in 1 .. n : x = s[i]
  PROVE  IsFiniteSet(T) /\ Cardinality(T) = n
<1>1. /\ Len(s) \in Nat /\ DOMAIN s = 1 .. Len(s) /\ \A i \in DOMAIN s : s[i] \in Int
  BY SampleSeq
<1>2. n \in Nat /\ 1 .. n \subseteq DOMAIN s
  BY <1>1
<1> DEFINE f == [i \in 1 .. n |-> s[i]]
<1>3. f \in Injection(1 .. n, T)
  <2>1. f \in [1 .. n -> T]
    OBVIOUS
  <2>2. \A i, j \in 1 .. n : f[i] = f[j] => i = j
    <3> SUFFICES ASSUME NEW i \in 1 .. n, NEW j \in 1 .. n, s[i] = s[j]  PROVE i = j
      OBVIOUS
    <3>1. ~(i < j) /\ ~(j < i)
      BY <1>1, <1>2 DEF Ascends
    <3> QED  BY <3>1
  <2> QED  BY <2>1, <2>2 DEF Injection, IsInjective
<1>4. f \in Surjection(1 .. n, T)
  BY DEF Surjection
<1>5. ExistsBijection(1 .. n, T)
  BY <1>3, <1>4 DEF ExistsBijection, Bijection
<1>6. IsFiniteSet(1 .. n) /\ Cardinality(1 .. n) = n
  BY <1>2, FS_Interval
<1> QED  BY <1>5, <1>6, FS_Bijection

\* LossyStream counts as FiniteSets does.
LEMMA SameCount == \A S : Stream!Cardinality(S) = Cardinality(S)
BY Zenon DEF Stream!Cardinality, Cardinality

\* Listing the samples of an ascending sequence in order gives the sequence.
LEMMA InOrderOf ==
  ASSUME NEW s \in SampleSeqs, Ascends(s)
  PROVE  Stream!InOrder(Range(s)) = s
<1>1. /\ Len(s) \in Nat /\ DOMAIN s = 1 .. Len(s) /\ \A i \in DOMAIN s : s[i] \in Int
  BY SampleSeq
<1>2. Cardinality(Range(s)) = Len(s)
  <2>1. \A x : x \in Range(s) <=> \E i \in 1 .. Len(s) : x = s[i]
    BY <1>1 DEF Range
  <2>2. Len(s) \in 0 .. Len(s)
    BY <1>1
  <2> QED  BY <2>1, <2>2, CountFirst
<1> DEFINE Below(x) == {y \in Range(s) : y < x}
<1>3. ASSUME NEW i \in 1 .. Len(s)  PROVE Cardinality(Below(s[i])) = i - 1
  <2>1. i - 1 \in 0 .. Len(s) /\ \A j \in 1 .. i - 1 : j \in 1 .. Len(s) /\ j < i
    BY <1>1
  <2>2. \A j \in 1 .. Len(s) : s[j] < s[i] => j \in 1 .. i - 1
    <3> SUFFICES ASSUME NEW j \in 1 .. Len(s), s[j] < s[i]  PROVE j < i
      BY <1>1
    <3>1. i < j => s[i] < s[j]
      BY <1>1 DEF Ascends
    <3>2. s[i] \in Int /\ s[j] \in Int
      BY <1>1
    <3> QED  BY <1>1, <3>1, <3>2
  <2>3. \A x : x \in Below(s[i]) <=> \E j \in 1 .. i - 1 : x = s[j]
    BY <1>1, <2>1, <2>2 DEF Range, Ascends
  <2> HIDE DEF Below
  <2> QED  BY <2>1, <2>3, CountFirst
<1>4. ASSUME NEW i \in 1 .. Len(s)
      PROVE  (CHOOSE x \in Range(s) : Cardinality(Below(x)) = i - 1) = s[i]
  <2>1. s[i] \in Range(s) /\ Cardinality(Below(s[i])) = i - 1
    BY <1>1, <1>3 DEF Range
  <2>2. ASSUME NEW x \in Range(s), Cardinality(Below(x)) = i - 1  PROVE x = s[i]
    <3>1. PICK j \in 1 .. Len(s) : x = s[j]
      BY <1>1 DEF Range
    <3>2. j - 1 = i - 1
      BY <1>3, <2>2, <3>1
    <3> QED  BY <3>1, <3>2
  <2> HIDE DEF Below
  <2> QED  BY <2>1, <2>2
<1>5. Stream!InOrder(Range(s)) = [i \in 1 .. Len(s) |-> s[i]]
  BY <1>2, <1>4, SameCount DEF Stream!InOrder
<1>6. s = [i \in 1 .. Len(s) |-> s[i]]
  BY <1>1 DEF SampleSeqs
<1> QED  BY <1>5, <1>6

\* A full ring is a whole buffer under way.
LEMMA FullIsWhole ==
  ASSUME TypeOK, TypeOK', Ordered', Len(ring') = RingSize
  PROVE  Cardinality(InTransit') >= RingSize
<1>1. ring' \in SampleSeqs /\ Ascends(ring') /\ Len(ring') \in Nat /\ DOMAIN ring' = 1 .. Len(ring')
  BY PieceTypes, SampleSeq DEF Ordered, Ascends
<1>2. IsFiniteSet(Range(ring')) /\ Cardinality(Range(ring')) = RingSize
  <2>1. \A x : x \in Range(ring') <=> \E i \in 1 .. Len(ring') : x = ring'[i]
    BY <1>1 DEF Range
  <2>2. Len(ring') \in 0 .. Len(ring')
    BY <1>1
  <2> QED  BY <1>1, <2>1, <2>2, CountFirst
<1>3. Range(ring') \subseteq InTransit'
  BY TransitFrom
<1>4. IsFiniteSet(InTransit')
  <2>1. MaxSamples \in Nat /\ IsFiniteSet(0 .. MaxSamples - 1)
    BY CaptureAssumption, FS_Interval
  <2>2. \A s \in SampleSeqs : Range(s) \subseteq 0 .. MaxSamples - 1
    BY SampleSeq DEF Range
  <2>3. \A c \in 1 .. Cuts' : NextCut(c) \in SampleSeqs
    BY PieceTypes
  <2>4. \A c \in Len(sent') + 1 .. Cuts' : c \in 1 .. Cuts'
    BY PieceTypes, TransitFrom
  <2>5. \A x : NextFrom(Len(sent') + 1, x) => x \in 0 .. MaxSamples - 1
    BY <2>2, <2>3, <2>4, PieceTypes DEF NextFrom
  <2>6. InTransit' \subseteq 0 .. MaxSamples - 1
    BY <2>5, TransitFrom
  <2> QED  BY <2>1, <2>6, FS_Subset
<1>5. Cardinality(InTransit') \in Nat /\ RingSize \in Nat
  BY <1>4, FS_CardinalityType, CaptureAssumption
<1>6. Cardinality(Range(ring')) <= Cardinality(InTransit')
  BY <1>3, <1>4, FS_Subset
<1> QED  BY <1>2, <1>5, <1>6

\* The first chunk that waits holds the oldest samples under way; without it, the
\* others are under way.
OldestTaken ==
  \E n \in 1 .. heard :
    /\ Stream!Before(n) = Range(Part(1)) /\ Stream!Before(n) # {}
    /\ InTransit' = InTransit \ Stream!Before(n)

LEMMA TakesOldest ==
  ASSUME TypeOK, TypeOK', Ordered, Whole, chunks # <<>>, chunks' = Tail(chunks),
         UNCHANGED <<heard, samples, ring>>
  PROVE  OldestTaken
<1>0. /\ sent \in Seq(Chunk) /\ chunks \in Seq(Chunk) /\ Len(sent) \in Nat /\ Len(chunks) \in Nat
      /\ Len(chunks) > 0 /\ Cuts = Len(sent) + Len(chunks)
      /\ samples \in SampleSeqs /\ ring \in SampleSeqs /\ heard \in Nat
      /\ Len(chunks') = Len(chunks) - 1 /\ \A i \in 1 .. Len(chunks) - 1 : NextPart(i) = Part(i + 1)
  BY PieceTypes, Sequences, ChunkTail DEF Cuts, Part, NextPart
<1>1. \A i \in 1 .. Len(chunks) : Len(sent) + i \in 1 .. Cuts /\ Cut(Len(sent) + i) = Part(i)
  BY <1>0 DEF Cut, CutOf, Part
<1>p. PICK p \in SampleSeqs : p = Part(1)
  <2>1. Len(sent) + 1 \in 1 .. Cuts /\ Cut(Len(sent) + 1) = Part(1)
    BY <1>0, <1>1
  <2>2. Part(1) \in SampleSeqs
    BY <2>1, PieceTypes
  <2> QED  BY <2>2
<1>2. /\ Len(p) > 0 /\ Ascends(p) /\ AllBelow(p, heard) /\ Follows(p, samples) /\ Follows(p, ring)
      /\ \A i \in 2 .. Len(chunks) : Follows(p, Part(i)) /\ Part(i) \in SampleSeqs
  <2>1. Len(sent) + 1 \in 1 .. Cuts /\ Cut(Len(sent) + 1) = p
    BY <1>0, <1>1, <1>p
  <2>2. Len(p) > 0 /\ Ascends(p) /\ AllBelow(p, heard) /\ Follows(p, samples) /\ Follows(p, ring)
    BY <2>1 DEF Ordered, Whole
  <2>3. ASSUME NEW i \in 2 .. Len(chunks)  PROVE Follows(p, Part(i)) /\ Part(i) \in SampleSeqs
    <3>1. Len(sent) + i \in 1 .. Cuts /\ Cut(Len(sent) + i) = Part(i) /\ Len(sent) + 1 < Len(sent) + i
      BY <1>0, <1>1
    <3> QED  BY <2>1, <3>1, PieceTypes DEF Ordered
  <2> QED  BY <2>2, <2>3
<1>3. PICK l \in Nat \ {0} : Len(p) = l /\ DOMAIN p = 1 .. l /\ \A i \in 1 .. l : p[i] \in Nat
  BY <1>2, SampleSeq, CaptureAssumption
<1> DEFINE n == p[l] + 1
           rest(x) == (\E i \in 2 .. Len(chunks) : x \in Range(Part(i))) \/ x \in Range(samples) \/ x \in Range(ring)
<1>4. p[l] \in Nat /\ l \in DOMAIN p /\ p[l] < heard
  BY <1>2, <1>3 DEF AllBelow
<1>5. n \in 1 .. heard
  BY <1>0, <1>4
<1>6. \A x \in Range(p) : x \in Nat /\ x < n
  <2> SUFFICES ASSUME NEW i \in 1 .. l  PROVE p[i] \in Nat /\ p[i] < n
    BY <1>3 DEF Range
  <2>1. i < l => p[i] < p[l]
    BY <1>2, <1>3, <1>4 DEF Ascends
  <2>2. i = l \/ i < l
    BY <1>3
  <2> QED  BY <1>3, <1>4, <2>1, <2>2
<1>7. \A x : rest(x) => ~(x < n)
  <2>1. ASSUME NEW s \in SampleSeqs, Follows(p, s), NEW x \in Range(s)  PROVE ~(x < n)
    <3>1. PICK j \in DOMAIN s : x = s[j] /\ s[j] \in Int
      BY SampleSeq DEF Range
    <3>2. p[l] < s[j]
      BY <1>4, <2>1 DEF Follows
    <3> QED  BY <1>4, <3>1, <3>2
  <2> HIDE DEF n
  <2> QED  BY <1>0, <1>2, <2>1
<1>8. \A x : x \in InTransit <=> x \in Range(p) \/ rest(x)
  <2>1. \A i : i \in 1 .. Len(chunks) <=> i = 1 \/ i \in 2 .. Len(chunks)
    BY <1>0
  <2> QED  BY <1>p, <2>1, TransitFrom
<1>9. \A x : x \in InTransit' <=> rest(x)
  <2>1. \A i \in 1 .. Len(chunks') : i + 1 \in 2 .. Len(chunks) /\ NextPart(i) = Part(i + 1)
    BY <1>0
  <2>2. \A i \in 2 .. Len(chunks) : \E k \in 1 .. Len(chunks') : NextPart(k) = Part(i)
    <3> SUFFICES ASSUME NEW i \in 2 .. Len(chunks)
                 PROVE  \E k \in 1 .. Len(chunks') : NextPart(k) = Part(i)
      OBVIOUS
    <3>1. i - 1 \in 1 .. Len(chunks') /\ (i - 1) + 1 = i
      BY <1>0
    <3> QED  BY <2>1, <3>1
  <2>3. \A x : (\E i \in 1 .. Len(chunks') : x \in Range(NextPart(i))) <=>
               \E i \in 2 .. Len(chunks) : x \in Range(Part(i))
    BY <2>1, <2>2
  <2> QED  BY <2>3, TransitFrom
<1>10. p[l] \in Range(p)
  BY <1>4 DEF Range
<1> HIDE DEF n, rest
<1>11. Stream!Before(n) = Range(p)
  BY <1>6, <1>7, <1>8 DEF Stream!Before
<1>12. InTransit' = InTransit \ Range(p)
  BY <1>6, <1>7, <1>8, <1>9
<1> QED  BY <1>p, <1>5, <1>10, <1>11, <1>12 DEF OldestTaken

-----------------------------------------------------------------------------
\* A step of which the router and the device see nothing.
LEMMA Unseen ==
  ASSUME TypeOK, TypeOK', UNCHANGED <<sent, heard, open>>,
         UNCHANGED <<chunks, samples, ring>> \/ Pops \/ EndsChunk \/ EndsRest
  PROVE  UNCHANGED Stream!vars
<1>1. InTransit' = InTransit
  <2>1. CASE UNCHANGED <<chunks, samples, ring>>
    BY <2>1 DEF InTransit, Range
  <2>2. CASE Pops \/ EndsChunk \/ EndsRest
    <3>1. Len(sent) + 1 \in 1 .. Cuts + 1
      BY TransitFrom DEF Cuts
    <3>2. \A x : NextFrom(Len(sent) + 1, x) <=> PiecesFrom(Len(sent) + 1, x)
      BY <2>2, <3>1, PopsFrom
    <3>3. Len(sent') + 1 = Len(sent) + 1
      OBVIOUS
    <3>4. \A x : x \in InTransit' <=> x \in InTransit
      BY <3>2, <3>3, TransitFrom
    <3> QED  BY <3>4
  <2> QED  BY <2>1, <2>2
<1> QED  BY <1>1 DEF Stream!vars

\* A delivery of the device supplies samples; what it loses meets a full ring.
LEMMA Supplies ==
  ASSUME TypeOK, TypeOK', Ordered', Delivers, UNCHANGED <<sent, open>>,
         NEW n \in Nat, heard' = heard + n
  PROVE  Stream!Supply(n)
<1>0. heard \in Nat /\ heard' - heard = n /\ Len(sent) + 1 \in Nat \ {0} /\ Len(sent') = Len(sent)
  BY PieceTypes, TransitFrom
<1>1. PICK fit \in 0 .. n :
        /\ \A x : NextFrom(Len(sent) + 1, x) <=> PiecesFrom(Len(sent) + 1, x) \/ x \in heard .. heard + fit - 1
        /\ fit < n => Len(ring') = RingSize
  <2>1. GrowsFrom(Len(sent) + 1)
    BY <1>0, DeliversFrom
  <2> QED  BY <1>0, <2>1 DEF GrowsFrom
<1>2. InTransit' = InTransit \cup (heard .. heard + fit - 1)
  <2>1. \A x : x \in InTransit' <=> x \in InTransit \/ x \in heard .. heard + fit - 1
    BY <1>0, <1>1, TransitFrom
  <2> QED  BY <2>1
<1>3. fit < n => Cardinality(InTransit') >= RingSize
  BY <1>1, FullIsWhole
<1> QED  BY <1>1, <1>2, <1>3, SameCount DEF Stream!Supply

\* The samples of chunks, chunk by chunk.
IsParts(f, s) == f = [i \in DOMAIN s |-> s[i].samples]

\* One more chunk is one more sequence of samples.
LEMMA PartsAppend ==
  ASSUME NEW s \in Seq(Chunk), NEW y \in Chunk, NEW t, t = Append(s, y),
         NEW f, IsParts(f, s), NEW g, IsParts(g, t)
  PROVE  g = Append(f, y.samples)
<1>0. Len(s) \in Nat /\ DOMAIN s = 1 .. Len(s)
  BY LenProperties
<1>1. /\ t \in Seq(Chunk) /\ Len(t) = Len(s) + 1 /\ t[Len(s) + 1] = y
      /\ \A i \in 1 .. Len(s) : t[i] = s[i]
  BY <1>0
<1>2. ASSUME NEW u \in Seq(Chunk), NEW h, IsParts(h, u)
      PROVE  h \in Seq(SampleSeqs) /\ Len(h) = Len(u) /\ \A i \in 1 .. Len(u) : h[i] = u[i].samples
  <2>1. Len(u) \in Nat /\ DOMAIN u = 1 .. Len(u)
    BY LenProperties
  <2>2. \A i \in 1 .. Len(u) : u[i].samples \in SampleSeqs
    BY <2>1, ElementOfSeq, ChunkFields
  <2>3. h \in [1 .. Len(u) -> SampleSeqs]
    BY <1>2, <2>1, <2>2 DEF IsParts
  <2>4. h \in Seq(SampleSeqs)
    BY <2>1, <2>3, SeqDef, Zenon
  <2>5. Len(h) \in Nat /\ DOMAIN h = 1 .. Len(h) /\ DOMAIN h = 1 .. Len(u)
    BY <2>3, <2>4, LenProperties
  <2>6. Len(h) = Len(u)
    BY <2>1, <2>5, SameInterval, Zenon
  <2> QED  BY <1>2, <2>1, <2>4, <2>6 DEF IsParts
<1>3. f \in Seq(SampleSeqs) /\ Len(f) = Len(s) /\ \A i \in 1 .. Len(s) : f[i] = s[i].samples
  BY <1>2
<1>4. g \in Seq(SampleSeqs) /\ Len(g) = Len(s) + 1 /\ \A i \in 1 .. Len(s) + 1 : g[i] = t[i].samples
  <2>1. t \in Seq(Chunk) /\ Len(t) = Len(s) + 1
    BY <1>1
  <2>2. g \in Seq(SampleSeqs) /\ Len(g) = Len(t) /\ \A i \in 1 .. Len(t) : g[i] = t[i].samples
    BY <1>2, <2>1, Zenon
  <2> QED  BY <2>1, <2>2, Zenon
<1>5. PICK z \in SampleSeqs : z = y.samples
  BY ChunkFields
<1>6. /\ Append(f, z) \in Seq(SampleSeqs) /\ Len(Append(f, z)) = Len(s) + 1
      /\ Append(f, z)[Len(s) + 1] = z /\ \A i \in 1 .. Len(s) : Append(f, z)[i] = f[i]
  BY <1>0, <1>3
<1>7. \A i \in 1 .. Len(s) + 1 : g[i] = Append(f, z)[i]
  <2>1. \A i \in 1 .. Len(s) + 1 : i \in 1 .. Len(s) \/ i = Len(s) + 1
    BY <1>0
  <2> QED  BY <1>1, <1>3, <1>4, <1>5, <1>6, <2>1
<1>8. g = Append(f, z)
  BY <1>4, <1>6, <1>7, SeqEqual
<1> QED  BY <1>5, <1>8

\* A chunk sent is a batch delivered; a chunk that finds no router is discarded.
LEMMA SendsOldest ==
  ASSUME TypeOK, TypeOK', Ordered, Whole, chunks # <<>>, chunks' = Tail(chunks),
         UNCHANGED <<heard, samples, ring, open>>,
         \/ open /\ \E y \in Chunk : y.samples = chunks[1].samples /\ sent' = Append(sent, y)
         \/ ~open /\ sent' = sent
  PROVE  \E n \in 1 .. heard : Stream!Deliver(n) \/ Stream!Discard(n)
<1>0. sent \in Seq(Chunk) /\ Len(sent) \in Nat /\ DOMAIN sent = 1 .. Len(sent)
  BY Sequences
<1>1. PICK n \in 1 .. heard : /\ Stream!Before(n) = Range(Part(1)) /\ Stream!Before(n) # {}
                              /\ InTransit' = InTransit \ Stream!Before(n)
  BY TakesOldest DEF OldestTaken
<1>2. CASE ~open /\ sent' = sent
  <2>1. Stream!Discard(n)
    BY <1>1, <1>2 DEF Stream!Discard
  <2> QED  BY <2>1
<1>3. CASE open /\ \E y \in Chunk : y.samples = chunks[1].samples /\ sent' = Append(sent, y)
  <2>1. PICK y \in Chunk : y.samples = Part(1) /\ sent' = Append(sent, y)
    BY <1>3 DEF Part
  <2>2. Stream!InOrder(Stream!Before(n)) = Part(1)
    <3>1. Len(sent) + 1 \in 1 .. Cuts /\ Cut(Len(sent) + 1) = Part(1)
      <4>1. chunks \in Seq(Chunk) /\ Len(chunks) \in Nat /\ Len(chunks) > 0
        BY Sequences, ChunkTail
      <4> QED  BY <1>0, <4>1 DEF Cuts, Cut, CutOf, Part
    <3>2. Part(1) \in SampleSeqs /\ Ascends(Part(1))
      BY <2>1, <3>1, ChunkFields DEF Ordered
    <3> QED  BY <1>1, <3>2, InOrderOf
  <2>3. [i \in DOMAIN sent' |-> sent'[i].samples] = Append([i \in DOMAIN sent |-> sent[i].samples], Part(1))
    <3>1. PICK f, g : /\ f = [i \in DOMAIN sent |-> sent[i].samples] /\ IsParts(f, sent)
                      /\ g = [i \in DOMAIN sent' |-> sent'[i].samples] /\ IsParts(g, sent')
      BY DEF IsParts
    <3>2. g = Append(f, y.samples)
      BY <1>0, <2>1, <3>1, PartsAppend, Zenon
    <3> QED  BY <2>1, <3>1, <3>2, Zenon
  <2>4. Stream!Deliver(n)
    BY <1>1, <1>3, <2>2, <2>3 DEF Stream!Deliver
  <2> QED  BY <2>4
<1> QED  BY <1>2, <1>3

\* Every step is a step of LossyStream, or one of which it sees nothing.
LEMMA StreamStep ==
  ASSUME CaptureInv, CaptureInv', [Next]_vars
  PROVE  [Stream!Next]_(Stream!vars)
<1>0. /\ TypeOK /\ TypeOK' /\ Steps /\ Ordered /\ Ordered' /\ Whole
      /\ sent \in Seq(Chunk) /\ chunks \in Seq(Chunk) /\ timestamp \in Nat /\ Len(chunks) \in Nat
  BY Sequences DEF CaptureInv, TypeOK
<1>1. ASSUME NEW n \in CallbackSizes, CallbackI16(n)  PROVE Stream!Next
  <2>1. Delivers
    BY <1>0, <1>1, DeviceMoves DEF Device
  <2>2. UNCHANGED <<sent, open>> /\ heard' = heard + n /\ n \in Nat
    BY <1>1, CaptureAssumption DEF CallbackI16, outVars
  <2>3. Stream!Supply(n)
    BY <1>0, <2>1, <2>2, Supplies
  <2> QED  BY <2>3 DEF Stream!Next
<1>2. CASE TryPush
  <2>1. Delivers
    BY <1>0, <1>2, DeviceMoves DEF Device
  <2>2. UNCHANGED <<sent, open>> /\ heard' = heard + 1
    BY <1>2 DEF TryPush, outVars
  <2>3. Stream!Supply(1)
    BY <1>0, <2>1, <2>2, Supplies
  <2> QED  BY <2>3 DEF Stream!Next
<1>3. CASE \/ \E n \in CallbackSizes : CallbackF32(n)
           \/ Check \/ HasChunk \/ Stop \/ DropStream \/ (Flush /\ chunks = <<>>) \/ UNCHANGED vars
  <2>1. UNCHANGED <<sent, heard, open, chunks, samples, ring>>
    BY <1>3 DEF CallbackF32, Check, HasChunk, Stop, DropStream, Flush, BridgeStep, vars, deviceVars, outVars
  <2> QED  BY <1>0, <2>1, Unseen
<1>4. CASE TryPop \/ PopRest
  <2>1. Pops \/ EndsChunk \/ EndsRest
    BY <1>0, <1>4, TryPopMoves, PopRestMoves
  <2>2. UNCHANGED <<sent, heard, open>>
    BY <1>4 DEF TryPop, PopRest, BridgeStep, deviceVars, outVars
  <2> QED  BY <1>0, <2>1, <2>2, Unseen
<1>5. CASE Send
  <2>1. /\ bridge = "send" /\ chunks' = <<>> /\ UNCHANGED <<heard, samples, ring, open>> /\ Len(chunks) = 1
        /\ \/ open /\ sent' = sent \o chunks
           \/ ~open /\ sent' = sent
    BY <1>0, <1>5 DEF Send, BridgeStep, deviceVars, Steps
  <2>2. chunks # <<>> /\ chunks[1] \in Chunk /\ chunks' = Tail(chunks)
    <3>1. chunks # <<>>
      BY <2>1, EmptySeq
    <3>2. chunks[1] \in Chunk /\ Tail(chunks) \in Seq(Chunk) /\ Len(Tail(chunks)) = 0
      BY <1>0, <2>1, <3>1, ChunkTail
    <3> QED  BY <2>1, <3>1, <3>2, EmptySeq
  <2>3. sent \o chunks = Append(sent, chunks[1])
    BY <1>0, <2>1, SentOne
  <2>4. \E n \in 1 .. heard : Stream!Deliver(n) \/ Stream!Discard(n)
    BY <1>0, <2>1, <2>2, <2>3, SendsOldest
  <2> QED  BY <2>4 DEF Stream!Next
<1>6. CASE Flush /\ chunks # <<>>
  <2>1. /\ chunks' = Tail(chunks) /\ UNCHANGED <<heard, samples, ring, open>>
        /\ \/ open /\ sent' = Append(sent, Converted(Head(chunks).samples, timestamp))
           \/ ~open /\ sent' = sent
    BY <1>6 DEF Flush, BridgeStep, deviceVars
  <2>2. Head(chunks) = chunks[1] /\ Head(chunks) \in Chunk
    BY <1>0, <1>6, ChunkTail
  <2>3. PICK y \in Chunk : y = Converted(Head(chunks).samples, timestamp) /\ y.samples = chunks[1].samples
    BY <1>0, <2>2, ChunkFields
  <2>4. \E n \in 1 .. heard : Stream!Deliver(n) \/ Stream!Discard(n)
    BY <1>0, <1>6, <2>1, <2>3, SendsOldest
  <2> QED  BY <2>4 DEF Stream!Next
<1>7. CASE RouterExit
  <2>1. open /\ open' = FALSE /\ UNCHANGED <<sent, heard, chunks, samples, ring>>
    BY <1>7 DEF RouterExit, deviceVars
  <2>2. InTransit' = InTransit
    BY <2>1 DEF InTransit, Range
  <2>3. Stream!Close
    BY <2>1, <2>2 DEF Stream!Close
  <2> QED  BY <2>3 DEF Stream!Next
<1> QED  BY <1>1, <1>2, <1>3, <1>4, <1>5, <1>6, <1>7 DEF Next, Device, Bridge

\* Device, ring and bridge implement LossyStream: in the router's view the samples
\* come in order, none twice and none left behind, and are lost only on the way into
\* a full buffer, or after the router has left.
THEOREM StreamImplemented == Spec => ImplementsLossyStream
<1>1. Init => Stream!Init
  <2> SUFFICES ASSUME Init  PROVE Stream!Init
    OBVIOUS
  <2>1. heard = 0 /\ open = TRUE /\ sent = <<>> /\ chunks = <<>> /\ samples = <<>> /\ ring = <<>>
    BY DEF Init
  <2>2. InTransit = {}
    BY <2>1 DEF InTransit, Range
  <2>3. [i \in DOMAIN sent |-> sent[i].samples] = <<>>
    BY <2>1
  <2> QED  BY <2>1, <2>2, <2>3 DEF Stream!Init
<1>2. CaptureInv /\ CaptureInv' /\ [Next]_vars => [Stream!Next]_(Stream!vars)
  BY StreamStep
<1> QED  BY <1>1, <1>2, CaptureInvariant, PTL DEF Spec, ImplementsLossyStream, Stream!Spec
===============================================================================
