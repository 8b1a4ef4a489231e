------------------------------- MODULE Mixing -------------------------------
(***************************************************************************)
(* From samples to samples, for one merge window: the chunks of devices    *)
(* with different formats are converted each by itself (convert_chunk in   *)
(* src/pipeline/capture.rs), and those in the window are averaged          *)
(* (merge_chunks in src/pipeline/merger.rs).  Which chunks meet in a       *)
(* window is the subject of module Merger; here any may.                   *)
(***************************************************************************)
EXTENDS Format, FiniteSets, FiniteSetsExt, Functions

CONSTANTS
  Sources,        \* expected_sources
  DeviceFormats,  \* the native formats a device may have
  Fixed,          \* formats of a preset; the only one now is 16 kHz mono
  Duration,       \* chunk_duration, as a fraction <<numerator, denominator>>
  Short,          \* the rates at which a whole number of frames comes out one short
  Values,         \* the sample values a device delivers
  MaxExtra        \* bound: samples by which the last chunk exceeds a whole one

FormatSet == [rate : Nat \ {0}, channels : {1, 2}]

\* FormatPreset: a format, or none for Native.
Native  == {}
Presets == {{f} : f \in Fixed} \cup {Native}

ASSUME MixingAssumption ==
  /\ IsFiniteSet(Sources) /\ Sources # {} /\ Values \subseteq I16
  /\ DeviceFormats \cup Fixed \subseteq FormatSet
  /\ Duration \in (Nat \ {0}) \X (Nat \ {0}) /\ MaxExtra \in Nat

VARIABLES
  device,  \* per source, the format of its device
  preset,  \* the FormatPreset of the session
  window,  \* the chunks of the window: before and after conversion
  mixed    \* the samples of the merge result, once it is emitted

vars == <<device, preset, window, mixed>>

\* resolve_source_device: with FormatPreset::Native each source keeps its format.
Target(s) == IF preset = Native THEN device[s] ELSE CHOOSE f \in preset : TRUE

\* frames_per_chunk of AudioBuffer::new: an f64 product, truncated, which may come
\* out just below a whole number (48000 Hz for 290 ms give 13919 frames).
ComesOutShort(format) ==
  (format.rate * Duration[1]) % Duration[2] = 0 /\ format.rate \in Short

ChunkFrames(format) ==
  (format.rate * Duration[1]) \div Duration[2] - (IF ComesOutShort(format) THEN 1 ELSE 0)

WholeLen(s) == ChunkFrames(device[s]) * device[s].channels

Init ==
  /\ device \in [Sources -> DeviceFormats] /\ preset \in Presets
  /\ window = [s \in {} |-> <<>>] /\ mixed = <<>>

\* convert_chunk.  A chunk is whole, or the last one, which has what drain found
\* in the ring: it may end in the middle of a frame, and is longer than a whole one
\* if the device goes on while drain pops.
ConvertChunk(s) ==
  /\ s \notin DOMAIN window /\ mixed = <<>>
  /\ \E n \in 1 .. WholeLen(s) + MaxExtra : \E in \in [1 .. n -> Values] :
       \E out \in Conversions(in, device[s], Target(s)) :
         window' = [t \in DOMAIN window \cup {s} |->
                      IF t = s THEN [in |-> in, out |-> out] ELSE window[t]]
  /\ UNCHANGED <<device, preset, mixed>>

\* What the sources in P have at place i; a chunk that is shorter has nothing.
SumAt(i, P) ==
  FoldFunctionOnSet(+, 0, [s \in P |-> IF i <= Len(window[s].out) THEN window[s].out[i] ELSE 0], P)

Clamp(v) == IF v < -32768 THEN -32768 ELSE IF v > 32767 THEN 32767 ELSE v

\* A plausible bug: only the sources that are present count.
AveragedPresent(i) == Clamp(Trunc(SumAt(i, DOMAIN window), Cardinality(DOMAIN window)))

\* average_and_clamp; the divisor is the number of expected sources.
Averaged(i) ==
  LET divisor == Max({Cardinality(Sources), Cardinality(DOMAIN window)})
  IN  Clamp(Trunc(SumAt(i, DOMAIN window), divisor))

\* merge_chunks.  The length is that of the chunk that the HashMap yields first.
MergeChunks ==
  /\ DOMAIN window # {} /\ mixed = <<>>
  /\ \E first \in DOMAIN window : mixed' = [i \in DOMAIN window[first].out |-> Averaged(i)]
  /\ UNCHANGED <<device, preset, window>>

Next == MergeChunks \/ \E s \in Sources : ConvertChunk(s)

Spec == Init /\ [][Next]_vars

-----------------------------------------------------------------------------
\* Samples keep to 16 bits through interpolation and averaging.
TypeOK ==
  /\ device \in [Sources -> DeviceFormats] /\ preset \in Presets
  /\ DOMAIN window \subseteq Sources /\ mixed \in Seq(I16)
  /\ \A s \in DOMAIN window : window[s].in \in Seq(Values) /\ window[s].out \in Seq(I16)

\* The doubled sound of the device of s at frame i (from 0), in channel c of its
\* target; the last frame of a chunk is held.
Sound(s, c, i) ==
  LET in     == window[s].in
      native == device[s].channels
      last   == FramesIn(in, native) - 1
      frame  == IF i < last THEN i ELSE last
      sample(d) == in[native * frame + d]
  IN  IF native = 1 THEN 2 * sample(1)
      ELSE IF Target(s).channels = 1 THEN sample(1) + sample(2)
      ELSE 2 * sample(c)

FramesOut(s) == FramesIn(window[s].out, Target(s).channels)

\* Every converted sample is within one and a half units of the straight line
\* between the two frames of its own channels around its time: no channel leaks
\* into another, no frame is skipped, and truncation adds up to no more.
ConvertedSound ==
  \A s \in DOMAIN window : \A j \in 1 .. FramesOut(s), c \in 1 .. Target(s).channels :
    LET rate  == Target(s).rate
        idx   == ((j - 1) * device[s].rate) \div rate
        frac  == ((j - 1) * device[s].rate) % rate
        exact == Sound(s, c, idx) * (rate - frac) + Sound(s, c, idx + 1) * frac
        error == window[s].out[Target(s).channels * (j - 1) + c] * 2 * rate - exact
    IN  error \in -3 * rate .. 3 * rate

IsWhole(s) == Len(window[s].in) = WholeLen(s)

\* A whole chunk of a device at least as fast as a fixed preset.
Shortened(s) == IsWhole(s) /\ preset # Native /\ device[s].rate >= Target(s).rate

\* With a fixed preset, whole chunks of devices at least as fast as it have the
\* same length after conversion but for one frame, so that it matters by no more
\* than a frame which of them gives the merge result its length; by two if the
\* preset's own rate is one at which a whole number of frames comes out short.
LengthsAgree ==
  \A s, t \in DOMAIN window :
    LET slack == IF ComesOutShort(Target(s)) THEN 2 ELSE 1
    IN  Shortened(s) /\ Shortened(t) => FramesOut(s) - FramesOut(t) \in -slack .. slack

\* Each sample of the result is the average over all sources of the session, one
\* that is missing or has ended counting as silence; the clamp changes nothing.
MixIsAverage ==
  \A i \in DOMAIN mixed :
    LET sound == [s \in Sources |->
                    IF s \in DOMAIN window /\ i \in DOMAIN window[s].out THEN window[s].out[i] ELSE 0]
    IN  mixed[i] = Trunc(FoldFunction(+, 0, sound), Cardinality(Sources))
=============================================================================
