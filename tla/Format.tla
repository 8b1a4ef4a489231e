------------------------------- MODULE Format -------------------------------
(***************************************************************************)
(* The conversion of one chunk from the device's format to that of the     *)
(* sinks (src/format): channels first, then the rate, by linear            *)
(* interpolation; each chunk is converted by itself.  A sequence of samples *)
(* is interleaved.  The rate is converted with f64 arithmetic, in which    *)
(* two results that are whole numbers may be missed: the product that      *)
(* gives the length may come out just above one and is then rounded up     *)
(* (Inexact), and an interpolated value may come out just below one in     *)
(* magnitude and is then truncated.  What is not whole is far enough from  *)
(* the next whole number for f64.                                          *)
(***************************************************************************)
EXTENDS Integers, SequencesExt

CONSTANT Inexact   \* the <<frames, from, to>> whose length is rounded up

I16 == -32768 .. 32767

\* Integer division and `as i16` truncate towards zero.
Trunc(n, d) == IF n >= 0 THEN n \div d ELSE -((-n) \div d)

\* chunks_exact(2): a last sample without its partner is dropped.
FramesIn(samples, channels) == Len(samples) \div channels

\* One channel of interleaved samples.
ChannelOf(samples, channels, c) ==
  [i \in 1 .. FramesIn(samples, channels) |-> samples[channels * (i - 1) + c]]

\* A plausible bug: the channels are added.
StereoToMonoSum(stereo) ==
  [i \in 1 .. FramesIn(stereo, 2) |-> stereo[2 * i - 1] + stereo[2 * i]]

StereoToMono(stereo) ==
  [i \in 1 .. FramesIn(stereo, 2) |-> Trunc(stereo[2 * i - 1] + stereo[2 * i], 2)]

\* zip and flat_map: one frame after the other.
Stereo(left, right) ==
  [k \in 1 .. 2 * Min({Len(left), Len(right)}) |->
     IF k % 2 = 1 THEN left[(k + 1) \div 2] ELSE right[(k + 1) \div 2]]

MonoToStereo(mono) == Stereo(mono, mono)

\* A plausible bug: the ratio is upside down.
ResampledLenInverse(n, from, to) == IF from = to THEN n ELSE (n * from) \div to

\* output_len.
ResampledLen(n, from, to) ==
  IF from = to THEN n
  ELSE (n * to) \div from
         + (IF (n * to) % from # 0 \/ <<n, from, to>> \in Inexact THEN 1 ELSE 0)

\* A plausible bug: the next sample is taken for the present one.
InterpolatedNext(samples, i, from, to) ==
  LET idx  == (i * from) \div to
      frac == (i * from) % to
  IN  IF idx + 2 < Len(samples)
        THEN samples[idx + 2] * to + (samples[idx + 3] - samples[idx + 2]) * frac
        ELSE Last(samples) * to

\* The value of output sample i (from 0), multiplied by the target rate; past the
\* last sample there is nothing to interpolate with.
Interpolated(samples, i, from, to) ==
  LET idx  == (i * from) \div to
      frac == (i * from) % to
  IN  IF idx + 1 < Len(samples)
        THEN samples[idx + 1] * to + (samples[idx + 2] - samples[idx + 1]) * frac
        ELSE Last(samples) * to

\* The interpolations whose result is a whole number, which may be missed; the
\* first is at position 0, and past the last sample nothing is computed.
MayBeMissed(samples, i, from, to) ==
  /\ i # 0 /\ i * from <= (Len(samples) - 1) * to
  /\ Interpolated(samples, i, from, to) % to = 0

TowardsZero(v) == IF v > 0 THEN v - 1 ELSE IF v < 0 THEN v + 1 ELSE 0

\* resample: the outputs it can have.
Resamplings(samples, from, to) ==
  IF from = to \/ samples = <<>> THEN {samples}
  ELSE LET exact  == [i \in 1 .. ResampledLen(Len(samples), from, to) |->
                        Trunc(Interpolated(samples, i - 1, from, to), to)]
           missed == {i \in DOMAIN exact : MayBeMissed(samples, i - 1, from, to)}
       IN  {[i \in DOMAIN exact |-> IF i \in M THEN TowardsZero(exact[i]) ELSE exact[i]] :
              M \in SUBSET missed}

\* resample_stereo: the two channels separately.
StereoResamplings(samples, from, to) ==
  IF from = to \/ samples = <<>> THEN {samples}
  ELSE {Stereo(l, r) : l \in Resamplings(ChannelOf(samples, 2, 1), from, to),
                       r \in Resamplings(ChannelOf(samples, 2, 2), from, to)}

\* The channel conversion of FormatConverter::convert.
Rechannelled(samples, from, to) ==
  IF from = 2 /\ to = 1 THEN StereoToMono(samples)
  ELSE IF from = 1 /\ to = 2 THEN MonoToStereo(samples)
  ELSE samples

\* FormatConverter::convert, from a source format to a target format.
Conversions(samples, source, target) ==
  LET data == Rechannelled(samples, source.channels, target.channels)
  IN  IF target.channels = 2 THEN StereoResamplings(data, source.rate, target.rate)
                             ELSE Resamplings(data, source.rate, target.rate)
=============================================================================
