------------------------------- MODULE Capture -------------------------------
(***************************************************************************)
(* One source, sample by sample: the device callback (src/source/device.rs)*)
(* pushes into a bounded ring while the capture bridge                     *)
(* (src/pipeline/capture.rs), through AudioBuffer                          *)
(* (src/pipeline/ring_buffer.rs), pops from it, cuts chunks, stamps them   *)
(* and sends them.  A sample is named by its index in the device's stream, *)
(* its channel is the index modulo Channels.  The lock-free ring comes     *)
(* from a library; each of its operations is one step here.  A chunk is    *)
(* recorded by the device samples in it; of its conversion to the target   *)
(* rate (module Format) only the length matters here.  A Duration is a     *)
(* number of nanoseconds; AudioChunk::duration rounds to the nearest one.  *)
(***************************************************************************)
EXTENDS Format

CONSTANTS
  Channels,       \* device_channels
  DeviceRate,     \* device_sample_rate
  TargetRates,    \* the values of target_sample_rate
  NanosPerSec,    \* 10^9
  ChunkSize,      \* AudioBuffer.chunk_size, in samples
  RingSize,       \* DeviceConfig.buffer_capacity, in samples
  CallbackSizes,  \* how many samples one callback may deliver
  MaxSamples      \* bound: samples the device delivers

\* A callback delivers whole frames, and a chunk is a whole number of frames.
\* FormatConverter converts between one and two channels only.  A
\* chunk_duration below one frame gives a chunk_size of 0, with which drain does
\* not end; the builder does not reject it.
ASSUME CaptureAssumption ==
  /\ DeviceRate \in Nat \ {0} /\ TargetRates \subseteq Nat \ {0} /\ NanosPerSec \in Nat \ {0}
  /\ Channels \in {1, 2} /\ RingSize \in Nat \ {0} /\ MaxSamples \in Nat
  /\ ChunkSize \in Nat \ {0} /\ ChunkSize % Channels = 0
  /\ CallbackSizes \subseteq Nat \ {0} /\ \A n \in CallbackSizes : n % Channels = 0

VARIABLES
  running,    \* SessionState.running
  processed,  \* SessionState.chunks_processed
  streaming,  \* whether the CaptureStream is held
  format,     \* sample format of the device
  rate,       \* target_sample_rate: that of the preset, or the device's own
  heard,      \* samples the device has handed to the ring, kept or not
  burst,      \* samples of the callback in progress still to be handed over
  ring,       \* the ring buffer
  bridge,     \* where CaptureBridge::run is
  samples,    \* the samples vector of try_read_chunk or drain
  chunks,     \* chunks read and not yet sent
  timestamp,  \* output_timestamp
  open,       \* whether the router still holds the receiver
  sent        \* history: the chunks sent

deviceVars == <<streaming, format, rate, heard, burst>>
outVars    == <<open, sent>>
vars == <<running, processed, deviceVars, ring, bridge, samples, chunks, timestamp, outVars>>

Init ==
  /\ running = TRUE /\ streaming = TRUE /\ open = TRUE
  /\ format \in {"I16", "F32"} /\ rate \in TargetRates
  /\ heard = 0 /\ burst = 0 /\ ring = <<>>
  /\ bridge = "check" /\ samples = <<>> /\ chunks = <<>> /\ sent = <<>>
  /\ timestamp = 0 /\ processed = 0

-----------------------------------------------------------------------------
Deliverable(n) == n \in CallbackSizes /\ heard + n <= MaxSamples

\* A plausible bug: a callback that does not fit is dropped as a whole.
CallbackAllOrNothing(n) ==
  /\ streaming /\ format = "I16" /\ Deliverable(n)
  /\ ring' = IF Len(ring) + n <= RingSize THEN ring \o [i \in 1 .. n |-> heard + i - 1] ELSE ring
  /\ heard' = heard + n
  /\ UNCHANGED <<running, processed, streaming, format, rate, burst, bridge, samples, chunks, timestamp, outVars>>

\* The i16 callback: push_slice copies what fits and drops the rest.
CallbackI16(n) ==
  /\ streaming /\ format = "I16" /\ Deliverable(n)
  /\ LET free == RingSize - Len(ring)
         fit  == IF n < free THEN n ELSE free
     IN  ring' = ring \o [i \in 1 .. fit |-> heard + i - 1]
  /\ heard' = heard + n
  /\ UNCHANGED <<running, processed, streaming, format, rate, burst, bridge, samples, chunks, timestamp, outVars>>

\* The f32 callback pushes its samples one by one.
CallbackF32(n) ==
  /\ streaming /\ format = "F32" /\ burst = 0 /\ Deliverable(n)
  /\ burst' = n
  /\ UNCHANGED <<running, processed, streaming, format, rate, heard, ring, bridge, samples, chunks, timestamp, outVars>>

\* A plausible bug: the capacity is not checked.
PushAlways ==
  /\ burst > 0
  /\ ring' = Append(ring, heard)
  /\ heard' = heard + 1 /\ burst' = burst - 1
  /\ UNCHANGED <<running, processed, streaming, format, rate, bridge, samples, chunks, timestamp, outVars>>

\* try_push; a sample that finds the ring full is dropped.
TryPush ==
  /\ burst > 0
  /\ ring' = IF Len(ring) < RingSize THEN Append(ring, heard) ELSE ring
  /\ heard' = heard + 1 /\ burst' = burst - 1
  /\ UNCHANGED <<running, processed, streaming, format, rate, bridge, samples, chunks, timestamp, outVars>>

\* Session::stop or drop clears the flag, and the router leaves at any time after
\* it.  The streams are dropped (a running callback is waited for) after a stop, or
\* by a start that fails, and then the flag stays.
Stop ==
  /\ running' = FALSE /\ running
  /\ UNCHANGED <<processed, deviceVars, ring, bridge, samples, chunks, timestamp, outVars>>

DropStream ==
  /\ streaming /\ burst = 0
  /\ streaming' = FALSE
  /\ UNCHANGED <<running, processed, format, rate, heard, burst, ring, bridge, samples, chunks, timestamp, outVars>>

RouterExit ==
  /\ ~running /\ open
  /\ open' = FALSE
  /\ UNCHANGED <<running, processed, deviceVars, ring, bridge, samples, chunks, timestamp, sent>>

-----------------------------------------------------------------------------
BridgeStep == UNCHANGED <<running, deviceVars>>

\* A plausible bug: the flag is not looked at again.
CheckNever ==
  /\ bridge = "check"
  /\ bridge' = "poll"
  /\ BridgeStep /\ UNCHANGED <<processed, ring, samples, chunks, timestamp, outVars>>

\* The loop condition of run, then interval.tick().
Check ==
  /\ bridge = "check"
  /\ bridge' = IF running THEN "poll" ELSE "drain"
  /\ BridgeStep /\ UNCHANGED <<processed, ring, samples, chunks, timestamp, outVars>>

\* has_chunk, in process_next_chunk and in drain; drain goes on to read what
\* remains, if anything does.
HasChunk ==
  /\ bridge \in {"poll", "drain"}
  /\ bridge' = IF Len(ring) >= ChunkSize
                 THEN IF bridge = "poll" THEN "read" ELSE "drainRead"
                 ELSE IF bridge = "poll" THEN "check"
                 ELSE IF ring # <<>> THEN "drainRest" ELSE "flush"
  /\ BridgeStep /\ UNCHANGED <<processed, ring, samples, chunks, timestamp, outVars>>

\* A plausible bug: the duration counts samples.
FramesAsSamples(part) == ResampledLen(Len(part), DeviceRate, rate)

\* convert_chunk: stamped with the duration of all chunks before it.  What drain
\* has read is stamped when it is sent; until then it has the stamp 0.
Converted(part, at) == [at |-> at, samples |-> part]
Frames(part) == ResampledLen(FramesIn(part, Channels), DeviceRate, rate)

\* AudioChunk::duration of the converted chunk: the nanosecond nearest to the exact
\* duration, whose numerator over the rate is exact; either one if two are.
Durations(part) ==
  LET exact == Frames(part) * NanosPerSec
  IN  {d \in exact \div rate .. exact \div rate + 1 : 2 * (d * rate - exact) \in -rate .. rate}

\* output_timestamp += chunk.duration().
Advance(part) == \E d \in Durations(part) : timestamp' = timestamp + d

\* try_pop in try_read_chunk, ChunkSize times; the last one completes the chunk.
\* Only process_next_chunk converts at once and counts the chunk.
TryPop ==
  /\ bridge \in {"read", "drainRead"}
  /\ ring' = Tail(ring)
  /\ LET part == Append(samples, Head(ring))
     IN  IF Len(part) < ChunkSize
           THEN samples' = part /\ UNCHANGED <<bridge, chunks, timestamp, processed>>
         ELSE /\ samples' = <<>>
              /\ IF bridge = "read"
                   THEN /\ chunks' = <<Converted(part, timestamp)>>
                        /\ Advance(part)
                        /\ processed' = processed + 1 /\ bridge' = "send"
                   ELSE /\ chunks' = Append(chunks, Converted(part, 0))
                        /\ bridge' = "drain" /\ UNCHANGED <<timestamp, processed>>
  /\ BridgeStep /\ UNCHANGED outVars

\* A plausible bug: after the rest, drain starts again.
PopRestAgain ==
  /\ bridge = "drainRest"
  /\ IF ring # <<>>
       THEN /\ ring' = Tail(ring) /\ samples' = Append(samples, Head(ring))
            /\ UNCHANGED <<bridge, chunks>>
       ELSE /\ chunks' = Append(chunks, Converted(samples, 0)) /\ samples' = <<>>
            /\ bridge' = "drain" /\ UNCHANGED ring
  /\ BridgeStep /\ UNCHANGED <<processed, timestamp, outVars>>

\* A plausible bug: what does not fill a chunk is thrown away.
PopRestForgets ==
  /\ bridge = "drainRest"
  /\ IF ring # <<>>
       THEN ring' = Tail(ring) /\ samples' = Append(samples, Head(ring)) /\ UNCHANGED bridge
       ELSE samples' = <<>> /\ bridge' = "flush" /\ UNCHANGED ring
  /\ BridgeStep /\ UNCHANGED <<processed, chunks, timestamp, outVars>>

\* The last loop of drain pops until it finds the ring empty.
PopRest ==
  /\ bridge = "drainRest"
  /\ IF ring # <<>>
       THEN /\ ring' = Tail(ring) /\ samples' = Append(samples, Head(ring))
            /\ UNCHANGED <<bridge, chunks>>
       ELSE /\ chunks' = Append(chunks, Converted(samples, 0)) /\ samples' = <<>>
            /\ bridge' = "flush" /\ UNCHANGED ring
  /\ BridgeStep /\ UNCHANGED <<processed, timestamp, outVars>>

\* chunk_tx.send in run: it fails when the router is gone, and run returns.
Send ==
  /\ bridge = "send"
  /\ chunks' = <<>>
  /\ IF open THEN sent' = sent \o chunks /\ bridge' = "poll"
             ELSE bridge' = "done" /\ UNCHANGED sent
  /\ BridgeStep /\ UNCHANGED <<processed, ring, samples, timestamp, open>>

\* A plausible bug: the drained chunks are taken from the end of the vector.
FlushFromEnd ==
  /\ bridge = "flush"
  /\ IF chunks = <<>> THEN bridge' = "done" /\ UNCHANGED <<chunks, timestamp, sent>>
     ELSE LET part == Last(chunks).samples
          IN  /\ chunks' = Front(chunks)
              /\ Advance(part)
              /\ sent' = IF open THEN Append(sent, Converted(part, timestamp)) ELSE sent
              /\ UNCHANGED bridge
  /\ BridgeStep /\ UNCHANGED <<processed, ring, samples, open>>

\* drain_remaining converts and sends the drained chunks one by one, and ignores
\* failures.
Flush ==
  /\ bridge = "flush"
  /\ IF chunks = <<>> THEN bridge' = "done" /\ UNCHANGED <<chunks, timestamp, sent>>
     ELSE LET part == Head(chunks).samples
          IN  /\ chunks' = Tail(chunks)
              /\ Advance(part)
              /\ sent' = IF open THEN Append(sent, Converted(part, timestamp)) ELSE sent
              /\ UNCHANGED bridge
  /\ BridgeStep /\ UNCHANGED <<processed, ring, samples, open>>

Bridge == Check \/ HasChunk \/ TryPop \/ PopRest \/ Send \/ Flush
Device == TryPush \/ \E n \in CallbackSizes : CallbackI16(n) \/ CallbackF32(n)

Next == Device \/ Bridge \/ Stop \/ DropStream \/ RouterExit

\* The bridge's task runs on, and a callback that has begun ends.  The router
\* takes chunks (each Send succeeds in the end) or leaves.
Spec == Init /\ [][Next]_vars /\ WF_vars(Bridge) /\ WF_vars(TryPush)

-----------------------------------------------------------------------------
SampleSeqs == Seq(0 .. MaxSamples - 1)

\* The state has the shape of the code's data, and the ring its capacity.
TypeOK ==
  /\ {running, streaming, open} \subseteq BOOLEAN /\ format \in {"I16", "F32"} /\ rate \in TargetRates
  /\ heard \in 0 .. MaxSamples /\ burst \in 0 .. MaxSamples - heard
  /\ ring \in SampleSeqs /\ Len(ring) <= RingSize
  /\ bridge \in {"check", "poll", "read", "send", "drain", "drainRead", "drainRest", "flush", "done"}
  /\ samples \in SampleSeqs
  /\ {chunks, sent} \subseteq Seq([at : Nat, samples : SampleSeqs])
  /\ timestamp \in Nat /\ processed \in Nat

\* All that the ring accepted and the bridge has not thrown away, oldest first: the
\* chunks sent, those to be sent, the one being read, the ring.
Pieces == sent \o chunks \o <<Converted(samples, 0), Converted(ring, 0)>>
KeptSamples == UNION {Range(piece.samples) : piece \in Range(Pieces)}

\* The samples pass in the order in which the device delivered them, none twice,
\* through callbacks that race with pops, chunk limits and the drain.
SamplesInOrder ==
  \A p, q \in DOMAIN Pieces :
    \A i \in DOMAIN Pieces[p].samples, j \in DOMAIN Pieces[q].samples :
      /\ Pieces[p].samples[i] < heard
      /\ p < q \/ (p = q /\ i < j) => Pieces[p].samples[i] < Pieces[q].samples[j]

\* Until the router leaves, nothing is lost except samples that arrive when the
\* ring is full: a step that hands over samples and loses one leaves it full.
LostOnlyWhenFull ==
  [][open' => /\ KeptSamples \subseteq KeptSamples'
              /\ ~((heard .. heard' - 1) \subseteq KeptSamples') => Len(ring') = RingSize]_vars

\* A timestamp is the device's time of the first sample, less the duration of all
\* that was lost before it, up to rounding: for each chunk before it half a
\* nanosecond early, or that and one frame of the target rate late.  A chunk starts
\* with the first channel unless part of a frame was lost.
TimestampDrift ==
  \A i \in DOMAIN sent :
    LET first == sent[i].samples[1]
        place == first - Cardinality((0 .. first - 1) \ KeptSamples)
        drift == 2 * (sent[i].at * DeviceRate - (place \div Channels) * NanosPerSec)
        half  == (i - 1) * DeviceRate
    IN  /\ place % Channels = 0
        /\ -half <= drift
        /\ (drift - half) * rate <= 2 * half * NanosPerSec

\* Every chunk has the configured size, except the last one of the drain.
WholeChunks ==
  \A i \in DOMAIN sent : Len(sent[i].samples) # ChunkSize => i = Len(sent) /\ ~running

\* After a stop, the bridge ends, and what it took out of the ring has been sent
\* unless the router left first.
DrainEnds == ~running ~> bridge = "done" /\ samples = <<>> /\ chunks = <<>>

-----------------------------------------------------------------------------
\* What is under way: in the ring, in the hands of the bridge, in chunks not sent.
InTransit ==
  (UNION {Range(chunk.samples) : chunk \in Range(chunks)}) \cup Range(samples) \cup Range(ring)

Stream ==
  INSTANCE LossyStream WITH
    Amounts <- CallbackSizes \cup {1}, Capacity <- RingSize,
    supplied <- heard, transit <- InTransit, delivered <- [i \in DOMAIN sent |-> sent[i].samples]

\* Device, ring and bridge together do what LossyStream promises: the f32 callback
\* supplies sample by sample, the i16 callback all it has, and a batch is a chunk.
ImplementsLossyStream == Stream!Spec
=============================================================================
