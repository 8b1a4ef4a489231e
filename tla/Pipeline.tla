------------------------------ MODULE Pipeline ------------------------------
(***************************************************************************)
(* A session: StreamAudioBuilder::start (src/builder.rs) starts the sinks,  *)
(* the router and the sources one by one; the devices fill a ring buffer   *)
(* per source; a capture bridge per source (src/pipeline/capture.rs) turns *)
(* the ring into chunks and sends them into one bounded channel; the       *)
(* router task (src/pipeline/router.rs) takes the chunks, routes them and  *)
(* the merger's results to the sinks, and retries failed writes; a channel *)
(* sink (src/sink/channel.rs) waits for room in the user's channel; the    *)
(* session (src/session.rs) stops all of it.  The unit here is the chunk:  *)
(* the k-th chunk of source s.  What happens inside a ring is in module    *)
(* Capture; here a ring never overflows.                                   *)
(***************************************************************************)
EXTENDS MergeWindows

CONSTANTS
  Sinks,            \* indices of the sinks
  Route,            \* the SinkRoute of each sink
  ChannelCapacity,  \* CHUNK_CHANNEL_CAPACITY
  RetryAttempts,    \* sink_retry_attempts
  Unreliable,       \* the sinks whose write may return an error
  ChannelSinks,     \* the sinks that are a ChannelSink
  InboxCapacity,    \* capacity of the user's channels behind them
  StartFails,       \* the sinks and sources that may fail to start
  Supply            \* bound: chunks each device captures

INSTANCE Routing

ASSUME PipelineAssumption ==
  /\ ValidRoutes /\ ValidSession
  /\ ChannelCapacity \in Nat \ {0} /\ RetryAttempts \in Nat
  /\ Unreliable \subseteq Sinks /\ Supply \in [Sources -> Nat]
  /\ ChannelSinks \subseteq Sinks \ Unreliable /\ InboxCapacity \in Nat \ {0}
  /\ StartFails \subseteq Sinks \cup Sources

VARIABLES
  running,   \* SessionState.running
  session,   \* where start, Session::stop or Session::drop is
  toStart,   \* the sinks start_sinks has still to start, in order
  toOpen,    \* the sources start has still to open, in order
  streams,   \* the sources whose CaptureStream is held
  toJoin,    \* the capture handles stop still has to wait for, in order
  timedOut,  \* whether a wait of stop gave up after SHUTDOWN_TIMEOUT
  captured,  \* per source, chunks the device has put into the ring
  read,      \* per source, chunks the bridge has taken out of the ring
  hand,      \* per source, how many of those it has still to send
  bridge,    \* where CaptureBridge::run is
  chan,      \* the chunk channel
  cmd,       \* whether a Stop is in the command channel
  router,    \* where Router::run is
  work,      \* what it still has to do for the chunk or tick in hand
  attempts,  \* per sink, failed attempts of the write in progress
  toStop,    \* the sinks stop_sinks has still to stop, in order
  pending,   \* the merger's table
  inbox,     \* per channel sink, chunks in the user's channel
  reading,   \* the channel sinks whose receiver is not dropped
  taken,     \* history: per source, chunks the router has received
  written,   \* history: per sink, the successful writes
  gaveUp,    \* history: the writes the router gave up on, as <<sink, item>>
  stops,     \* history: per sink, the calls of on_stop
  merged     \* history: the merger's results, in order

startVars   == <<toStart, toOpen, streams>>
sessionVars == <<running, session, toJoin, timedOut, startVars>>
bridgeVars  == <<read, hand, bridge>>
inboxVars   == <<inbox, reading>>
sinkVars    == <<written, gaveUp, attempts, inboxVars>>
mergerVars  == <<pending, merged>>
routerVars  == <<router, work, toStop, mergerVars, taken, stops, sinkVars>>
vars == <<sessionVars, captured, bridgeVars, chan, cmd, routerVars>>

Chunk(s, k) == [source |-> s, seq |-> k]

\* The steps of the router for one chunk: writes, each to a set of sinks at once
\* (join_all), and the call of the merger.
WriteTo(item, sinks) == [op |-> "write", item |-> item, sinks |-> sinks]
Feed(s, k) == [op |-> "feed", source |-> s, seq |-> k]

\* write_to_indices, for sinks that are not none.
WritesOf(item, sinks) == IF sinks = {} THEN <<>> ELSE <<WriteTo(item, sinks)>>

FeedOf(s, k) == IF HasMergeRoutes THEN <<Feed(s, k)>> ELSE <<>>

\* route_chunk: broadcast sinks, then direct sinks, then the merger.
RouteChunk(s, k) ==
  WritesOf(Chunk(s, k), BroadcastSinks) \o WritesOf(Chunk(s, k), DirectSinks(s)) \o FeedOf(s, k)

\* write_merged_chunk for each result: one group of sinks after the other.
WriteResults(results) ==
  LET groups == SetToSeq(MergeGroups)
      n      == Len(groups)
  IN  [i \in 1 .. Len(results) * n |->
         WriteTo(results[((i - 1) \div n) + 1], groups[((i - 1) % n) + 1])]

Init ==
  /\ running = TRUE /\ session = "starting" /\ timedOut = FALSE /\ toJoin = <<>>
  /\ toStart = SetToSeq(Sinks) /\ toOpen = SetToSeq(Sources) /\ streams = {}
  /\ captured = [s \in Sources |-> 0]
  /\ read = captured /\ hand = captured /\ taken = captured
  /\ bridge = [s \in Sources |-> "none"]
  /\ chan = <<>> /\ cmd = FALSE
  /\ router = "none" /\ work = <<>> /\ toStop = <<>>
  /\ pending = [w \in {} |-> NewWindow] /\ merged = <<>>
  /\ written = [k \in Sinks |-> <<>>] /\ gaveUp = {}
  /\ attempts = [k \in Sinks |-> 0] /\ stops = attempts
  /\ inbox = [k \in ChannelSinks |-> 0] /\ reading = ChannelSinks

-----------------------------------------------------------------------------
\* A plausible bug: the router is spawned and the sources opened while sinks are
\* still being started.
SpawnRouterEarly ==
  /\ session = "starting" /\ router = "none"
  /\ router' = "select"
  /\ UNCHANGED <<sessionVars, captured, bridgeVars, chan, cmd, work, toStop, mergerVars, taken, stops, sinkVars>>

\* start_sinks: on_start of the next sink; the first error is the result of start.
StartSink ==
  /\ session = "starting" /\ toStart # <<>>
  /\ \/ toStart' = Tail(toStart) /\ UNCHANGED session
     \/ Head(toStart) \in StartFails /\ session' = "failed" /\ UNCHANGED toStart
  /\ UNCHANGED <<running, toJoin, timedOut, toOpen, streams, captured, bridgeVars, chan, cmd, routerVars>>

SpawnRouter ==
  /\ session = "starting" /\ toStart = <<>> /\ router = "none"
  /\ router' = "select"
  /\ UNCHANGED <<sessionVars, captured, bridgeVars, chan, cmd, work, toStop, mergerVars, taken, stops, sinkVars>>

\* The next source: its device is opened and its stream started, then its bridge
\* is spawned; after the last one start returns the session.
OpenSource ==
  /\ session = "starting" /\ router # "none" /\ toOpen # <<>>
  /\ streams' = streams \cup {Head(toOpen)}
  /\ bridge' = [bridge EXCEPT ![Head(toOpen)] = "check"]
  /\ toOpen' = Tail(toOpen)
  /\ session' = IF toOpen' = <<>> THEN "live" ELSE session
  /\ UNCHANGED <<running, toJoin, timedOut, toStart, captured, read, hand, chan, cmd, routerVars>>

\* An error of the device is the result of start.  The streams opened before and
\* the sender of the command channel are dropped; the tasks spawned before are
\* detached, and the flag they look at stays set.
OpenFails ==
  /\ session = "starting" /\ router # "none" /\ toOpen # <<>>
  /\ Head(toOpen) \in StartFails
  /\ session' = "failed" /\ streams' = {}
  /\ UNCHANGED <<running, toJoin, timedOut, toStart, toOpen, captured, bridgeVars, chan, cmd, routerVars>>

Start == StartSink \/ SpawnRouter \/ OpenSource \/ OpenFails

-----------------------------------------------------------------------------
\* The device callback, for as long as the CaptureStream is held.
Capture(s) ==
  /\ s \in streams /\ captured[s] < Supply[s]
  /\ captured' = [captured EXCEPT ![s] = @ + 1]
  /\ UNCHANGED <<sessionVars, bridgeVars, chan, cmd, routerVars>>

\* The loop condition of CaptureBridge::run, then interval.tick().
BridgeCheck(s) ==
  /\ bridge[s] = "check"
  /\ bridge' = [bridge EXCEPT ![s] = IF running THEN "poll" ELSE "drain"]
  /\ UNCHANGED <<sessionVars, captured, read, hand, chan, cmd, routerVars>>

\* A plausible bug: an empty ring is taken for the end of the stream.
BridgePollEnds(s) ==
  /\ bridge[s] = "poll"
  /\ read' = [read EXCEPT ![s] = IF @ < captured[s] THEN @ + 1 ELSE @]
  /\ hand' = [hand EXCEPT ![s] = read'[s] - read[s]]
  /\ bridge' = [bridge EXCEPT ![s] = IF read'[s] = read[s] THEN "done" ELSE "send"]
  /\ UNCHANGED <<sessionVars, captured, chan, cmd, routerVars>>

\* process_next_chunk.
BridgePoll(s) ==
  /\ bridge[s] = "poll"
  /\ IF read[s] < captured[s]
       THEN /\ read' = [read EXCEPT ![s] = @ + 1]
            /\ hand' = [hand EXCEPT ![s] = 1]
            /\ bridge' = [bridge EXCEPT ![s] = "send"]
       ELSE /\ bridge' = [bridge EXCEPT ![s] = "check"]
            /\ UNCHANGED <<read, hand>>
  /\ UNCHANGED <<sessionVars, captured, chan, cmd, routerVars>>

\* drain_remaining empties the ring before it sends anything.
BridgeDrain(s) ==
  /\ bridge[s] = "drain"
  /\ read' = [read EXCEPT ![s] = captured[s]]
  /\ hand' = [hand EXCEPT ![s] = captured[s] - read[s]]
  /\ bridge' = [bridge EXCEPT ![s] = IF hand'[s] = 0 THEN "done" ELSE "flush"]
  /\ UNCHANGED <<sessionVars, captured, chan, cmd, routerVars>>

\* A plausible bug: the channel is unbounded.
BridgeSendUnbounded(s) ==
  /\ bridge[s] \in {"send", "flush"} /\ router # "exited"
  /\ chan' = Append(chan, Chunk(s, read[s] - hand[s]))
  /\ hand' = [hand EXCEPT ![s] = @ - 1]
  /\ bridge' = [bridge EXCEPT ![s] =
                  IF @ = "send" THEN "poll" ELSE IF hand'[s] = 0 THEN "done" ELSE "flush"]
  /\ UNCHANGED <<sessionVars, captured, read, cmd, routerVars>>

\* chunk_tx.send(chunk).await succeeds once the channel has room.
BridgeSend(s) ==
  /\ bridge[s] \in {"send", "flush"}
  /\ router # "exited" /\ Len(chan) < ChannelCapacity
  /\ chan' = Append(chan, Chunk(s, read[s] - hand[s]))
  /\ hand' = [hand EXCEPT ![s] = @ - 1]
  /\ bridge' = [bridge EXCEPT ![s] =
                  IF @ = "send" THEN "poll" ELSE IF hand'[s] = 0 THEN "done" ELSE "flush"]
  /\ UNCHANGED <<sessionVars, captured, read, cmd, routerVars>>

\* A plausible bug: try_send, which drops the chunk when the channel is full.
BridgeTrySend(s) ==
  /\ bridge[s] \in {"send", "flush"} /\ (router = "exited" \/ Len(chan) >= ChannelCapacity)
  /\ hand' = [hand EXCEPT ![s] = @ - 1]
  /\ bridge' = [bridge EXCEPT ![s] = IF @ = "send" THEN "poll" ELSE IF hand'[s] = 0 THEN "done" ELSE @]
  /\ UNCHANGED <<sessionVars, captured, read, chan, cmd, routerVars>>

\* It fails once the receiver is dropped: run returns, drain_remaining goes on.
BridgeSendFails(s) ==
  /\ bridge[s] \in {"send", "flush"} /\ router = "exited"
  /\ hand' = [hand EXCEPT ![s] = @ - 1]
  /\ bridge' = [bridge EXCEPT ![s] =
                  IF @ = "send" \/ hand'[s] = 0 THEN "done" ELSE "flush"]
  /\ UNCHANGED <<sessionVars, captured, read, chan, cmd, routerVars>>

Bridge(s) ==
  BridgeCheck(s) \/ BridgePoll(s) \/ BridgeDrain(s) \/ BridgeSend(s) \/ BridgeSendFails(s)

-----------------------------------------------------------------------------
\* A plausible bug: the writes of a chunk are not awaited before the next chunk.
RouterReceiveNoWait ==
  /\ router \in {"select", "draining"} /\ chan # <<>>
  /\ LET c == Head(chan)
     IN  /\ work' = RouteChunk(c.source, c.seq) \o work
         /\ taken' = [taken EXCEPT ![c.source] = @ + 1]
  /\ chan' = Tail(chan)
  /\ UNCHANGED <<sessionVars, captured, bridgeVars, cmd, router, toStop, mergerVars, stops, sinkVars>>

\* select!'s chunk_rx.recv(), or try_recv() in drain_and_finalize.
RouterReceive ==
  /\ router \in {"select", "draining"} /\ work = <<>> /\ chan # <<>>
  /\ LET c == Head(chan)
     IN  /\ work' = RouteChunk(c.source, c.seq)
         /\ taken' = [taken EXCEPT ![c.source] = @ + 1]
  /\ chan' = Tail(chan)
  /\ UNCHANGED <<sessionVars, captured, bridgeVars, cmd, router, toStop, mergerVars, stops, sinkVars>>

\* check_merge_timeouts, up to the writes of its results.
CheckMergeTimeouts ==
  \E o \in CheckTimeoutsOutcomes(pending) :
    pending' = o.table /\ merged' = merged \o o.results /\ work' = WriteResults(o.results)

\* A plausible bug: the tick cancels the handling of the chunk in hand.
RouterTickCancels ==
  /\ router = "select" /\ HasMergeRoutes
  /\ CheckMergeTimeouts
  /\ UNCHANGED <<sessionVars, captured, bridgeVars, chan, cmd, router, toStop, taken, stops, sinkVars>>

\* The interval of select!, which exists only with merge routes.
RouterTick ==
  /\ router = "select" /\ work = <<>> /\ HasMergeRoutes
  /\ CheckMergeTimeouts
  /\ UNCHANGED <<sessionVars, captured, bridgeVars, chan, cmd, router, toStop, taken, stops, sinkVars>>

\* A plausible bug: run goes on after handle_command.
RouterStopIgnored ==
  /\ router = "select" /\ work = <<>> /\ cmd
  /\ cmd' = FALSE /\ router' = router
  /\ CheckMergeTimeouts
  /\ UNCHANGED <<sessionVars, captured, bridgeVars, chan, toStop, taken, stops, sinkVars>>

\* handle_command(Stop): drain_and_finalize begins with check_merge_timeouts.
RouterStop ==
  /\ router = "select" /\ work = <<>> /\ cmd
  /\ cmd' = FALSE /\ router' = "draining"
  /\ CheckMergeTimeouts
  /\ UNCHANGED <<sessionVars, captured, bridgeVars, chan, toStop, taken, stops, sinkVars>>

\* merger.add_chunk; its results are written next.
RouterFeed ==
  /\ work # <<>> /\ Head(work).op = "feed"
  /\ LET f == Head(work)
     IN  \E o \in AddChunkOutcomes(pending, f.source, f.seq) :
           /\ pending' = o.table /\ merged' = merged \o o.results
           /\ work' = WriteResults(o.results) \o Tail(work)
  /\ UNCHANGED <<sessionVars, captured, bridgeVars, chan, cmd, router, toStop, taken, stops, sinkVars>>

\* A plausible bug: the first sink that returns ends the step for all.
ReturnedForAll(k) ==
  /\ work' = Tail(work)
  /\ attempts' = [attempts EXCEPT ![k] = 0]

\* write_to_sink returned for sink k; the next step starts when all sinks of
\* this one have returned.
Returned(k) ==
  /\ work' = WritesOf(Head(work).item, Head(work).sinks \ {k}) \o Tail(work)
  /\ attempts' = [attempts EXCEPT ![k] = 0]

Writing(k) == work # <<>> /\ Head(work).op = "write" /\ k \in Head(work).sinks

\* ChannelSink::write waits for room in the user's channel.
HasRoom(k) == k \in ChannelSinks => k \in reading /\ inbox[k] < InboxCapacity

WriteOk(k) ==
  /\ Writing(k) /\ HasRoom(k)
  /\ inbox' = [c \in ChannelSinks |-> IF c = k THEN inbox[c] + 1 ELSE inbox[c]]
  /\ written' = [written EXCEPT ![k] = Append(@, Head(work).item)]
  /\ Returned(k)
  /\ UNCHANGED <<sessionVars, captured, bridgeVars, chan, cmd, router, toStop, mergerVars, taken, stops, gaveUp, reading>>

\* A write that fails is tried again after a delay, or given up; that to a channel
\* fails when the receiver is dropped.
WriteFails(k) ==
  /\ Writing(k) /\ k \in Unreliable \cup (ChannelSinks \ reading)
  /\ IF attempts[k] + 1 >= RetryAttempts
       THEN gaveUp' = gaveUp \cup {<<k, Head(work).item>>} /\ Returned(k)
       ELSE attempts' = [attempts EXCEPT ![k] = @ + 1] /\ UNCHANGED <<work, gaveUp>>
  /\ UNCHANGED <<sessionVars, captured, bridgeVars, chan, cmd, router, toStop, mergerVars, taken, stops, written, inboxVars>>

\* The user's side of a channel sink: reads a chunk, or drops the receiver.
Receive(k) ==
  /\ k \in reading /\ inbox[k] > 0
  /\ inbox' = [inbox EXCEPT ![k] = @ - 1]
  /\ UNCHANGED <<sessionVars, captured, bridgeVars, chan, cmd, router, work, toStop, mergerVars, taken, stops, written, gaveUp, attempts, reading>>

DropReceiver(k) ==
  /\ k \in reading
  /\ reading' = reading \ {k} /\ inbox' = [inbox EXCEPT ![k] = 0]
  /\ UNCHANGED <<sessionVars, captured, bridgeVars, chan, cmd, router, work, toStop, mergerVars, taken, stops, written, gaveUp, attempts>>

\* try_recv() found the channel empty: the loop of run ends, stop_sinks begins.
RouterDrained ==
  /\ router = "draining" /\ work = <<>> /\ chan = <<>>
  /\ router' = "stopping" /\ toStop' = SetToSeq(Sinks)
  /\ UNCHANGED <<sessionVars, captured, bridgeVars, chan, cmd, work, mergerVars, taken, stops, sinkVars>>

\* on_stop of the next sink; an error is reported and ignored.
StopSink ==
  /\ router = "stopping" /\ toStop # <<>>
  /\ stops' = [stops EXCEPT ![Head(toStop)] = @ + 1]
  /\ toStop' = Tail(toStop)
  /\ UNCHANGED <<sessionVars, captured, bridgeVars, chan, cmd, router, work, mergerVars, taken, sinkVars>>

\* run returns and drops the receiver with what is left in the channel.
RouterExit ==
  /\ router = "stopping" /\ toStop = <<>>
  /\ router' = "exited" /\ chan' = <<>>
  /\ UNCHANGED <<sessionVars, captured, bridgeVars, cmd, work, toStop, mergerVars, taken, stops, sinkVars>>

\* Time passes for the merger's windows.
Tick ==
  /\ \E w \in DOMAIN pending : pending[w].age < Timeout
  /\ pending' = Aged(pending)
  /\ UNCHANGED <<merged, sessionVars, captured, bridgeVars, chan, cmd, router, work, toStop, taken, stops, sinkVars>>

-----------------------------------------------------------------------------
\* stop_internal: running.swap(false).
StopBegin ==
  /\ session = "live"
  /\ running' = FALSE /\ session' = "stopping"
  /\ UNCHANGED <<toJoin, timedOut, startVars, captured, bridgeVars, chan, cmd, routerVars>>

\* router_cmd_tx.send(Stop), at once: the channel of capacity 1 is empty.
StopSend ==
  /\ session = "stopping"
  /\ cmd' = TRUE /\ session' = "joining" /\ toJoin' = SetToSeq(Sources)
  /\ UNCHANGED <<running, timedOut, startVars, captured, bridgeVars, chan, routerVars>>

\* A plausible bug: only the first capture task is waited for.
JoinFirstCapture ==
  /\ session = "joining" /\ toJoin # <<>>
  /\ toJoin' = <<>>
  /\ \/ bridge[Head(toJoin)] = "done" /\ UNCHANGED timedOut
     \/ bridge[Head(toJoin)] # "done" /\ timedOut' = TRUE
  /\ UNCHANGED <<running, session, startVars, captured, bridgeVars, chan, cmd, routerVars>>

\* The waits for the capture tasks, one after the other, and for the router; each
\* ends when the task is done or after SHUTDOWN_TIMEOUT.
JoinCapture ==
  /\ session = "joining" /\ toJoin # <<>>
  /\ toJoin' = Tail(toJoin)
  /\ \/ bridge[Head(toJoin)] = "done" /\ UNCHANGED timedOut
     \/ bridge[Head(toJoin)] # "done" /\ timedOut' = TRUE
  /\ UNCHANGED <<running, session, startVars, captured, bridgeVars, chan, cmd, routerVars>>

\* A plausible bug: the router is waited for without a timeout.
JoinRouterForEver ==
  /\ session = "joining" /\ toJoin = <<>> /\ router = "exited"
  /\ session' = "returned"
  /\ UNCHANGED <<running, toJoin, timedOut, startVars, captured, bridgeVars, chan, cmd, routerVars>>

JoinRouter ==
  /\ session = "joining" /\ toJoin = <<>>
  /\ \/ router = "exited" /\ UNCHANGED timedOut
     \/ router # "exited" /\ timedOut' = TRUE
  /\ session' = "returned"
  /\ UNCHANGED <<running, toJoin, startVars, captured, bridgeVars, chan, cmd, routerVars>>

\* The caller drops the future of stop while it waits: the session is dropped
\* with running already false, so Session::drop does nothing more.
CancelStop ==
  /\ session = "joining"
  /\ session' = "gone" /\ streams' = {}
  /\ UNCHANGED <<running, toJoin, timedOut, toStart, toOpen, captured, bridgeVars, chan, cmd, routerVars>>

\* Session::drop without stop: spawn_cleanup sets the flag and sends Stop with
\* try_send; its waits are in a detached task that changes nothing.
DropSession ==
  /\ session = "live"
  /\ running' = FALSE /\ cmd' = TRUE /\ session' = "dropped"
  /\ UNCHANGED <<toJoin, timedOut, startVars, captured, bridgeVars, chan, routerVars>>

\* The fields of the session are dropped, the capture streams among them: only
\* now do the devices stop.
DropStreams ==
  /\ session \in {"returned", "dropped"}
  /\ session' = "gone" /\ streams' = {}
  /\ UNCHANGED <<running, toJoin, timedOut, toStart, toOpen, captured, bridgeVars, chan, cmd, routerVars>>

Session ==
  \/ StopBegin \/ StopSend \/ JoinCapture \/ JoinRouter
  \/ CancelStop \/ DropSession \/ DropStreams

RouterStep ==
  RouterReceive \/ RouterTick \/ RouterStop \/ RouterFeed \/ RouterDrained \/ StopSink \/ RouterExit

Next ==
  \/ \E s \in Sources : Capture(s) \/ Bridge(s)
  \/ \E k \in Sinks : WriteOk(k) \/ WriteFails(k)
  \/ \E k \in ChannelSinks : Receive(k) \/ DropReceiver(k)
  \/ Start \/ RouterStep \/ Tick \/ Session

\* Every task runs on; select! picks at random among what is ready, so a Stop is
\* not passed over for ever; a sink answers each write; a stop once begun goes on.
Fairness ==
  /\ \A s \in Sources : WF_vars(Bridge(s))
  /\ \A k \in Sinks : WF_vars(WriteOk(k) \/ WriteFails(k))
  /\ WF_vars(RouterStep) /\ SF_vars(RouterStop) /\ SF_vars(RouterReceive) /\ WF_vars(Tick)
  /\ WF_vars(Start) /\ WF_vars(StopSend \/ JoinCapture \/ JoinRouter \/ DropStreams)

Spec == Init /\ [][Next]_vars /\ Fairness
-----------------------------------------------------------------------------
MaxCaptured == Max({Supply[s] : s \in Sources})

ChunkItems == [source : Sources, seq : 0 .. MaxCaptured - 1]
MergedItems == [window : Nat, chunks : ChunkMaps(MaxCaptured)]
Items == ChunkItems \cup MergedItems

RouterSteps ==
  [op : {"write"}, item : Items, sinks : (SUBSET Sinks) \ {{}}]
    \cup [op : {"feed"}, source : Sources, seq : 0 .. MaxCaptured - 1]

\* The state has the shape of the code's data, and the channel its capacity.
TypeOK ==
  /\ running \in BOOLEAN /\ timedOut \in BOOLEAN /\ cmd \in BOOLEAN
  /\ session \in {"starting", "failed", "live", "stopping", "joining", "returned", "dropped", "gone"}
  /\ {toJoin, toOpen} \subseteq Seq(Sources) /\ {toStart, toStop} \subseteq Seq(Sinks)
  /\ streams \subseteq Sources
  /\ {captured, read, hand, taken} \subseteq [Sources -> 0 .. MaxCaptured]
  /\ bridge \in [Sources -> {"none", "check", "poll", "send", "drain", "flush", "done"}]
  /\ chan \in Seq(ChunkItems) /\ Len(chan) <= ChannelCapacity
  /\ router \in {"none", "select", "draining", "stopping", "exited"}
  /\ work \in Seq(RouterSteps)
  /\ IsTable(pending, ChunkMaps(MaxCaptured)) /\ merged \in Seq(MergedItems)
  /\ written \in [Sinks -> Seq(Items)] /\ gaveUp \subseteq Sinks \X Items
  /\ attempts \in [Sinks -> 0 .. RetryAttempts] /\ stops \in [Sinks -> Nat]
  /\ inbox \in [ChannelSinks -> 0 .. InboxCapacity] /\ reading \subseteq ChannelSinks

\* While the router lives, what the bridge of s has sent and the router has not
\* received is in the channel, in order: contention for the channel, its bound,
\* the drain of the ring and a stop lose and reorder nothing before the exit.
ChannelLossless ==
  router # "exited" =>
    \A s \in Sources :
      LET waiting == taken[s] .. read[s] - hand[s] - 1
      IN  /\ \A n \in waiting : \E i \in DOMAIN chan : chan[i] = Chunk(s, n)
          /\ \A i \in DOMAIN chan : chan[i].source = s => chan[i].seq \in waiting
          /\ \A i, j \in DOMAIN chan :
               i < j /\ chan[i].source = s /\ chan[j].source = s => chan[i].seq < chan[j].seq

WritesLeft(k, item) ==
  {i \in DOMAIN work : work[i].op = "write" /\ work[i].item = item /\ k \in work[i].sinks}
Writes(k, item) == {i \in DOMAIN written[k] : written[k][i] = item}

\* Where an item is accounted for at sink k.
Accounts(k, item) ==
  {<<"left", i>> : i \in WritesLeft(k, item)} \cup {<<"written", i>> : i \in Writes(k, item)}
    \cup {<<"given up", 0>> : g \in {<<k, item>>} \cap gaveUp}

\* A chunk the router received is, for each sink that wants it and for no other,
\* exactly one of: written once, given up, or still to be written once.  Retries
\* duplicate nothing and the failures of one sink cost another sink nothing.
EachAccounted ==
  \A k \in Sinks, s \in Sources : \A n \in 0 .. taken[s] - 1 :
    LET accounts == Accounts(k, Chunk(s, n))
    IN  IF WantsEach(k, s) THEN \E a \in accounts : accounts = {a} ELSE accounts = {}

\* A sink that is no merged sink gets the chunks of each source in the order in
\* which they were captured, whatever was retried or given up in between.
InOrder ==
  \A k \in Sinks \ MergedSinks : \A i, j \in DOMAIN written[k] :
    i < j /\ written[k][i].source = written[k][j].source
      => written[k][i].seq < written[k][j].seq

\* When stop returns without having timed out, the tasks are gone, every sink was
\* stopped exactly once, and no write was left unfinished.
StopMeansStopped ==
  session = "returned" /\ ~timedOut =>
    /\ router = "exited" /\ work = <<>>
    /\ \A s \in Sources : bridge[s] = "done"
    /\ \A k \in Sinks : stops[k] = 1

\* A sink gets no audio before every sink's on_start has returned, none after its
\* own on_stop, and it is stopped at most once and only if it was started.
WrittenBetweenStartAndStop ==
  [][\A k \in Sinks :
       /\ toStart # <<>> \/ stops[k] > 0 => written'[k] = written[k]
       /\ stops'[k] # stops[k] => stops[k] = 0 /\ toStart = <<>>]_vars

\* A write waits for room in the channel of a user who does not read.
Blocked == \E k \in reading : Writing(k) /\ inbox[k] = InboxCapacity

\* Until the session is stopped or dropped, a captured chunk reaches every sink
\* that wants it, or that sink failed all its attempts, unless a user stops
\* reading from a channel sink: neither a full chunk channel nor another source
\* nor the merger's ticks can hold it back for ever.  A failed start holds back
\* nothing either: it leaves the router running (FailedStartIsQuiet).
EventuallyWritten ==
  \A k \in Sinks \ MergedSinks, s \in Sources : \A n \in 0 .. MaxCaptured - 1 :
    WantsEach(k, s) /\ captured[s] > n
      ~> \/ Writes(k, Chunk(s, n)) # {} \/ <<k, Chunk(s, n)>> \in gaveUp
         \/ ~running \/ []Blocked

\* Once the running flag is cleared, by stop or by drop, every task ends, unless a
\* user stops reading: no bridge stays blocked on the channel of a router that
\* has stopped receiving.
TasksEnd == router = "exited" /\ \A s \in Sources : bridge[s] = "done"
ShutsDown == ~running ~> TasksEnd \/ []Blocked

\* A stop that is not cancelled returns, whatever the sinks and their users do.
StopReturns == session = "stopping" ~> session \in {"returned", "gone"}

\* A merged sink that never fails and never waits has got a prefix of the merger's
\* results, and the rest of them, in order, are exactly what is left to write to
\* it: with ImplementsMerger, what is proved of Merger holds of what it gets.
SureMerged == MergedSinks \ (Unreliable \cup ChannelSinks)
LeftFor(k) == {i \in DOMAIN work : work[i].op = "write" /\ k \in work[i].sinks}

MergedInOrder ==
  \A k \in SureMerged :
    /\ \A j \in DOMAIN written[k] : j <= Len(merged) /\ written[k][j] = merged[j]
    /\ \E place \in [Len(written[k]) + 1 .. Len(merged) -> LeftFor(k)] :
         /\ \A i \in LeftFor(k) : \E j \in DOMAIN place : place[j] = i
         /\ \A j \in DOMAIN place : work[place[j]].item = merged[j]
         /\ \A i, j \in DOMAIN place : i < j => place[i] < place[j]

\* What such a sink gets is sound audio: no chunk of a source is mixed in twice, the
\* results that combine all sources come in the order of their windows, and when
\* the router has nothing left to do, a chunk it received has been mixed in or is
\* in a pending window, unless its successor replaced it in their common window.
Carries(window, s, n) == s \in DOMAIN window.chunks /\ window.chunks[s] = n

MergedAudioSound ==
  \A k \in SureMerged :
    /\ \A i, j \in DOMAIN written[k] : i < j =>
         /\ \A s \in DOMAIN written[k][i].chunks :
              ~Carries(written[k][j], s, written[k][i].chunks[s])
         /\ Missing(written[k][i]) = {} /\ Missing(written[k][j]) = {}
              => written[k][i].window <= written[k][j].window
    /\ work = <<>> => \A s \in Sources : \A n \in 0 .. taken[s] - 1 :
         \/ \E i \in DOMAIN written[k] : Carries(written[k][i], s, n)
         \/ \E w \in DOMAIN pending : Carries(pending[w], s, n)
         \/ n + 1 < taken[s] /\ WindowId(s, n + 1) = WindowId(s, n)

\* The router drives the merger as module Merger says: a chunk counts as sent to
\* it when the router has handed it over, ticks and chunks come one by one.
ToFeed(s) == \E i \in DOMAIN work : work[i].op = "feed" /\ work[i].source = s

Fed ==
  [s \in Sources |-> IF ~HasMergeRoutes THEN 0 ELSE IF ToFeed(s) THEN taken[s] - 1 ELSE taken[s]]

TheMerger ==
  INSTANCE Merger WITH sent <- Fed, emitted <- merged, MaxChunks <- MaxCaptured

ImplementsMerger == TheMerger!Init /\ [][TheMerger!Next]_(TheMerger!vars)

-----------------------------------------------------------------------------
\* Not so: session.rs says that stop drains "any remaining audio in the buffer to
\* sinks"; then, when a stop that waited for every task returns, all that the
\* bridges drained from their buffers has reached the router.
StopDrainsToSinks ==
  session = "returned" /\ ~timedOut => taken = read

\* Not so: router.rs says that shutdown "drains remaining chunks and finalizes
\* merge windows"; then no window is left in the table when the router is gone.
FinalizesMergeWindows == router = "exited" => DOMAIN pending = {}

\* Not so: builder.rs says that a merged sink gets audio combined "from the
\* specified sources".
MergedOnlyNamedSources ==
  \A k \in MergedSinks : \A i \in DOMAIN written[k] :
    DOMAIN written[k][i].chunks \subseteq Route[k].sources

\* Not so: error.rs calls the errors of start errors "that prevent an audio stream
\* from starting"; then, once start has failed, the sinks get no audio.
FailedStartIsQuiet == [][session = "failed" => written' = written]_vars
=============================================================================
