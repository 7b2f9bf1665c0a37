# A TLA+ model of 0xFEC, QUIC with forward erasure correction

0xFEC is quic-go with a forward erasure correction (FEC) extension: the frames
of a stream or datagram that asks for it travel in SOURCE_SYMBOL frames, blocks
of source symbols are complemented by REPAIR frames, and the receiver recovers
lost payloads without waiting for a retransmission. This directory models the
FEC extension, the QUIC transport around it, and the HTTP/3 layer on top.

Paths below are relative to the repository. `PROJECT.json` maps every
definition to the lines it models and lists components, runs, findings and
hazards.

## 1. Inventory

| Component | State | Operations | Interacts with |
|---|---|---|---|
| FEC manager (`internal/fec/manager.go`, `block.go`) | `nextSID`, `blockStatuses` (held source and repair symbols, `isProcessed`) | `NextSSID`, `AddSourceSymbolFrame`, `HandleSourceSymbolFrame`, `HandleRepairFrame` | called by the packer when packing and by `handleFrames` when receiving |
| Erasure codes (`xor.go`, `reed_solomon.go`) | none (a block in, symbols out) | `repairSymbols`, `recoverSymbolPayloads` | the manager |
| Repair queue (`repair_queue.go`) | up to 32 REPAIR frames | `Add`, `Peek`, `Pop`, `CloseWithError` | filled and drained by the packer |
| Packet packer, framer (`packet_packer.go`, `framer.go`) | active streams, control frames, counters of ACK-only packets | `AppendPacket`, `PackCoalescedPacket`, `PackAckOnlyPacket`, probes | streams, datagram queue, repair queue, FEC manager, sent packet handler |
| Send stream (`send_stream.go`) | data for writing, retransmission queue, `numOutstandingFrames`, FIN and reset flags | `Write`, `Close`, `CancelWrite`, `popStreamFrame`, `OnAcked`, `OnLost` | application goroutines, framer, flow control, sent packet handler |
| Receive stream, frame sorter (`receive_stream.go`, `frame_sorter.go`) | gaps and queued data, read position, final offset | `handleStreamFrame`, `Read`, `CancelRead`, deadlines | application goroutines, run loop, flow control |
| Stream maps (`streams_map*.go`) | open streams, limits, waiting openers | `OpenStream[Sync][WithFEC]`, `AcceptStream`, `DeleteStream`, `SetMaxStream` | application goroutines, run loop |
| Flow control (`internal/flowcontrol`, `window_update_queue.go`) | windows, bytes sent, received and read, window size | `AddBytesSent`, `UpdateHighestReceived`, `AddBytesRead`, `GetWindowUpdate` | streams, connection |
| Sent packet handler (`internal/ackhandler/sent_packet_*.go`, `ecn.go`) | history, bytes in flight, loss time, PTO count, probes to send, per packet number space; ECN state | `SentPacket`, `ReceivedAck`, `OnLossDetectionTimeout`, `QueueProbePacket`, `SendMode`, `DropPackets`, `ResetForRetry` | run loop, congestion controller, frame handlers |
| Received packet handler (`received_packet_*.go`) | ranges, ACK alarm, deletion bound | `ReceivedPacket`, `GetAckFrame`, `IsPotentiallyDuplicate` | run loop, packer |
| Congestion control, pacing (`internal/congestion`) | window, slow start threshold, `largestSentAtLastCutback`, pacing budget | `OnPacketSent`, `OnPacketAcked`, `OnCongestionEvent`, `TimeUntilSend` | sent packet handler |
| Path MTU discovery (`mtu_discoverer.go`) | current size, bound, probe in flight | `ShouldSendProbe`, `GetPing`, `OnAcked`, `OnLost` | sent packet handler, packer, pacer |
| Run loop and send queue (`connection.go`, `send_queue.go`) | channels, timer, pacing deadline, `closeOnce` | `run`, `triggerSending`, `closeLocal`/`closeRemote`/`destroyImpl`, `Send`, `Run`, `Close` | a goroutine each for the loop, the writer, the socket reader and the application |
| DATAGRAM queues (`datagram_queue.go`) | a send and a receive queue, two notification channels | `Add`, `Peek`, `Pop`, `HandleDatagramFrame`, `Receive`, `CloseWithError` | application goroutines, run loop |
| Connection IDs (`conn_id_*.go`) | issued, retired and queued IDs | `Add`, `Retire`, `Get`, `SetMaxActiveConnIDs` | run loop, packet handler map |
| Handshake, keys (`connection.go`, `internal/handshake`) | encryption levels, key phases, undecryptable packets | `handlePacketImpl`, `handleHandshakeEvents`, `dropEncryptionLevel`, `Open`/`Seal` | TLS, run loop |
| Transport, server (`transport.go`, `server.go`, `packet_handler_map.go`) | handlers by connection ID, accept queue, 0-RTT queues | `Dial`, `Listen`, `Accept`, `Close`, packet routing | sockets, connections |
| HTTP/3 (`http3/`) | cached clients, a connection's SETTINGS, buffered response, listeners | `RoundTrip`, `Close`, `Read`, `Write`, `ServeListener` | QUIC streams, one goroutine per request, body and stream |
| Containers (`internal/utils/ringbuffer`, `token_store.go`) | an array with head and tail; tokens per origin | `PushBack`, `PopFront`; `Put`, `Pop` | queues, client |

What is hard in this code, and where a unit test hardly goes: REPAIR frames and
source symbols that overtake each other; frames that share a packet although
one of them has no length; queues at their limits while the packer has no room;
the agreement between what the packer puts into a packet and what it tells the
sent packet handler about it; retransmission after a loss the FEC extension was
meant to repair; goroutines that signal each other over one-slot channels with
an unlock in between; closing from several goroutines at once; packets that
come before their keys, after them, or after the IDs, ranges and key phases they
belong to are gone. The hazards in `PROJECT.json` name the lines.

What makes each part correct: the erasure code hands up every payload at most
once, none that was never sent, and all it could recover; a packet fits, and
parses back into the frames that were put in; what is lost and not repaired is
sent again; windows and limits are kept and agreed on; nobody sleeps beside
work; every call, request and close ends, and the first close wins; what is
counted (bytes in flight, outstanding frames) is what is there; a packet finds
its connection and its key; limits hold without a panic.

## 2. Modules

| Module | Models | State and actions |
|---|---|---|
| `FECDelivery` | what the erasure code promises | how many payloads were protected, which arrived themselves, how often each was handed up |
| `FECManager` | both managers, the repair queue, a network that loses, duplicates and reorders | `PackPacket`, `Lose`, `Deliver`; blocks as sets of symbols, a payload is its symbol ID |
| `FECManagerProofs`, `RunLoopProofs`, `KeyUpdateProofs` | proofs about the module each is named after (section 5) | |
| `CallersProofs` | proofs about `DatagramQueue`, `SendStream` and `RingBuffer` | |
| `SendingLimitsProofs` | proofs about `FlowControl`, `PathMTU` and `PacketPacker` | |
| `LossRecoveryProofs` | proofs about `StreamTransfer` and `AckExchange` | |
| `StreamsProofs` | proofs about `StreamsMap`, `ReceiveStream` and `FrameSorter` | |
| `RegistryProofs` | proofs about `ConnectionIDs`, `Server` and `HTTP3Client` | |
| `XorScheme` | the XOR code, position by position, with its length bytes | operators only, used by `FECRecovery` |
| `FECRecovery` | one block with the frames in its payloads: packed, lost, recovered under the XOR or the Reed-Solomon scheme, and parsed | `PackSourceSymbol`, `HandleSourceSymbolFrame`, `HandleRepairFrame` |
| `PacketPacker` | `composeNextPacket`, `appendPacketPayload`, framer, repair queue, FEC sender, lengths as small numbers | one action per packing function, with writes, `CancelWrite`, datagrams and ACKs as inputs; streams with and without a `fec.Sender`; history `heldBack` counts the packets whose ACK left no room for the REPAIR frame at the head of the queue |
| `StreamTransfer` | the composition of a send stream, the packer, the 1-RTT sent packet handler, the path and the receiver | send, probe, ACK, loss timeout, PTO, loss, delivery |
| `RunLoop` | run loop, send queue with writer goroutine, sending path, closing | one action per step between two channel operations |
| `DatagramQueue` | both DATAGRAM queues with concurrent callers | one action per step between lock and channel operations |
| `FlowControl` | the controllers of sender and receiver at both levels, the window update queue | one action per method; frames in any order, updates late and repeated |
| `SendStream` | one send stream with its writer, other callers and the run loop | one action per call, `Write` split where it releases the mutex |
| `ReceiveStream`, `FrameSorter` | one receive stream byte by byte | STREAM and RESET_STREAM frames, `Read` split where it waits, cancel, deadline, shutdown |
| `StreamsMap` | the outgoing map of one endpoint, the incoming map of the other | open, accept, delete, MAX_STREAMS in any order, the reset after rejected 0-RTT |
| `SentPackets` | the sent packet handler of one endpoint with three packet number spaces, and the retransmission queue | every method of the handler, history slice included |
| `AckExchange` | received packet tracker and ECN tracker on two ends of a path | packets and ACKs lost, repeated, reordered and marked |
| `Congestion` | `cubicSender` with Reno, `HybridSlowStart` | driven in the order of `ReceivedAck` and `detectLostPackets` |
| `PathMTU` | MTU discoverer and pacer | probe, acknowledgement, loss; send and wait |
| `ConnectionIDs` | generator, manager and handler map of issuer and peer | NEW_CONNECTION_ID and RETIRE_CONNECTION_ID in any order, close |
| `KeyUpdate` | `updatableAEAD` of two endpoints | seal, open, drop, with every packet kept on the path |
| `Handshake` | two endpoints from the first Initial to HANDSHAKE_DONE | Retry, version negotiation, 0-RTT, undecryptable packets, key drops; the path keeps what was sent, and what of it may be lost is a matter of fairness (section 4) |
| `Server` | Transport, server loop, accept and the ways to close | one action per step between locks and channels |
| `HTTP3Body` | response bytes from `responseWriter` to `stream.Read` | writes, flushes and reads of any sizes |
| `HTTP3Client` | `RoundTripper` and its clients, for one host | requests that share a dial, with an own `Dial` or the `RoundTripper`'s transport, failures before and after the handshake, removal, retry, close |
| `HTTP3Stream` | the goroutines of one request at client and server | one action per step between two blocking operations |
| `HTTP3Control` | unidirectional streams and SETTINGS | one goroutine per stream |
| `HTTP3Server` | listeners, `Serve*` and `Close` | lock by lock |
| `RingBuffer`, `TokenStore` | the containers, beside a reference without positions | their methods |

Which modules compose which: `FECManager` is shown to implement `FECDelivery`;
`FECRecovery` uses `XorScheme`, `ReceiveStream` uses `FrameSorter`;
`StreamTransfer`, `FECManager`, `FlowControl`, `StreamsMap`, `ConnectionIDs`,
`KeyUpdate`, `AckExchange`, `Handshake`, `HTTP3Body` and `HTTP3Stream` each have
both ends of a connection, with the path between them.

`MCCore`, `MCTransfer`, `MCConnection`, `MCRecovery` and `MCEndpoints`
bring the modules together for the passing runs, by the kind of question that is
asked. Components in one of them share no state: variable `part` chooses which
of them a behaviour is about, the others stay in one fixed initial state, and a
property speaks of the component it names. One such run checks exactly what
separate runs of its components would. A module with proofs is extended by one of
them, so that the run checks the very definition that is proved, with constants
from the cfg; for that, modules that share an MC module have their own names for
what a specification is made of (`LoopInit`, `LoopNext`, `LoopSpec` in `RunLoop`,
and in the same way `Flow...`, `Pack...`, `Datagram...`, `Send...`, `Recv...`, `Map...`,
`Keys...`, `ID...`, `Ack...`, `MTU...`, `Server...` and `Client...`). The other components
are instantiated, with their constants in the MC module.

How the state corresponds to the code. `FECManager` keeps `blockStatuses` of
both endpoints as functions from block numbers, which a block enters as if it
existed from the start (a block that is in the map and empty behaves like one
that is not). `passedUp` is a history variable. `PacketPacker` measures frames
in units that keep the order of the code's sizes: a SOURCE_SYMBOL header is
larger than `RepairOverhead`, `MaxFECHeaderOverhead` is what the packer reserves
for it. `StreamTransfer` keeps the sent packet history as a set of tracked
packet numbers and one packet's worth of data per chunk; `SentPackets` keeps the
slice itself. `RunLoop` counts packets and leaves free what the handlers decide.
A channel with one slot is a Boolean; a send on a channel somebody is blocked on
wakes that goroutine. Go's `select` is a disjunction over its ready cases. A
method that holds a mutex is one step; a method that releases it is split there.

## 3. Runs

Passing runs:

| Run | Question | Components and bounds |
|---|---|---|
| `core` | payloads are handed up at most once, never invented, never forgotten, as `FECDelivery` says; the run loop does not sleep beside work unwoken (with one exception, below), never fills the send queue over its capacity, ends with the first close and always ends | `FECManager`: two XOR blocks of 2+1, three losses, so that a symbol of one block meets the end of another; the proofs remove the bound. `RunLoop`: a queue of two (the code: 8), one slot for received packets, two packets' worth of frames, two packets received, at most two probes waiting: a full queue, a dropped packet and a packet reported without frames all happen |
| `transfer` | what is written arrives | `PacketPacker`: packets fit, REPAIR frames pile up only behind ACKs, the STREAM frame without a length is last, nothing stays queued; two streams, both plain or both FEC protected, with and without a `fec.Sender`, sizes up to 8, four inputs, and a repair queue of one, which ACKs do fill. `StreamTransfer`: no chunk is forgotten and all arrives, four chunks, window 2, reordering threshold 3, two losses, a spurious probe. `FECManager` in order: two blocks of 2+2 with two losses each. `FlowControl`: two streams of two bytes, windows 1 and 2 that grow. `DatagramQueue`: two callers of `Add` for a queue of one, one of `Receive` |
| `connection` | the streams, maps, IDs, keys, handshake, server, HTTP/3 and containers keep their safety properties | `SendStream` four bytes in buffers of two, one loss; `ReceiveStream` four bytes framed in every way; `StreamsMap` two openers, limits to 4; `ConnectionIDs` sequence numbers to 4; `KeyUpdate` three phases, enough for the phase bit to repeat; `Handshake` with 0-RTT, an old version and one Retry; `Server` two clients, queues of one; `HTTP3Body` up to four bytes, a buffer of four, three writes; `HTTP3Control` three streams, four SETTINGS frames; `HTTP3Server` three listeners; `RingBuffer` sizes 0, 2, 3; `TokenStore` three origins, room for two |
| `recovery` | what is kept about packets and payloads is right | `FECRecovery`: three payloads of up to a datagram and two STREAM frames, one XOR parity. `SentPackets`: 1, 1 and 4 packet numbers, limits 2 and 3, so that a skipped number, a full history and a Retry occur. `AckExchange`: three packets, two ACKs, CE marks. `Congestion`: five packets. `PathMTU`: three path MTUs, three bandwidths |
| `endpoints` | everything that must end ends | `Server` with three closers and two connections; `HTTP3Client` two requests and two connections; `HTTP3Stream` a window of one byte, bodies of two; `Handshake` with coalesced packets on a path that may lose each packet once its sender cannot send it again |

Bounds are chosen so that every queue is filled, every counter passes its
threshold and every action of every component happens; all actions fire in
these runs.

Several properties of a bundle are conjunctions over its components, or join two
properties of one component that fail for related reasons (they are named in
the comments of the MC modules). `PROJECT.json` lists one mutant for each; these
further mutants of single conjuncts were checked in the same way and are
defined beside the definitions they replace:

- `NoWorkIsStuck` (core): `RunLoop!WouldBlockNever` for `WouldBlock`, `RunLoop!SentPacketLate` for `SentPacket`;
- `CloseIsClean` (core): `RunLoop!WriterReturnsAtOnce` for `WriterReturns`;
- `TransferIsTracked` (transfer): `StreamTransfer!OnAckedSilent` for `OnAcked`;
- `BlockedCallsAreWoken` (transfer): `DatagramQueue!notifyRcvdNever` for `notifyRcvd`;
- `PacketFits` (transfer): `PacketPacker!biggestSourceSymbolSum` for `biggestSourceSymbol`;
- `WaitingCallsAreBlocked` (connection): `ReceiveStream!signalsReadOnProgress` for `signalsRead`, `StreamsMap!unblockAtLowest` for `unblockOpenSync`;
- `StreamsEndOnce` (connection): `ReceiveStream!resetCompletesAlways` for `resetCompletes`, `ReceiveStream!AbandonNothing` for `Abandon`;
- `BodyArrives` (connection): `HTTP3Body!toReadUnlimited` for `toRead`;
- `EndpointStateIsKept` (connection): `HTTP3Control!isFirstAlways` for `isFirstControlStr`, `HTTP3Server!refusesNever` for `refusesListener`;
- `ContainersKeepContent` (connection): `TokenStore!PopUncounted` for `PopSingle`;
- `RecoveredIsWritten` (recovery): `FECRecovery!isCompleteEarly` for `isComplete`, `FECRecovery!biggestAfterRepairKept` for `biggestAfterRepair`;
- `FlightIsCounted` (recovery): `SentPackets!clearedSlotsKept` for `clearedSlots`;
- `AlarmsAreSet` (recovery): `AckExchange!confirmedBelowOneMore` for `confirmedBelow`, `PathMTU!delayForRoundedDown` for `delayFor`;
- `SignalsHaveCause` (recovery): `AckExchange!ecnMarkingAll` for `ecnMarking`;
- `CallsReturn` (endpoints): `Server!notifyOnCloseAlways` for `notifyOnClose`, `HTTP3Client!settingsNeverFail` for `settingsFail`.

Runs in which the code does not do what a comment, test or document of the
repository says (each has a finding in `PROJECT.json` with the quote):

| Run | Violated | What happens |
|---|---|---|
| `fec_reordered_repair` | `WaitingIsNotRecoverable` | a REPAIR frame overtakes a source symbol; the source symbol makes the block recoverable, and nothing tries to |
| `recovered_payloads_rs` | `HandedUpIsWritten` | two recovered payloads are concatenated; the STREAM frame without a length at the end of the first swallows the second |
| `packer_mixed_streams` | `NothingFollowsUndelimitedFrame` | a plain STREAM frame lost its length as the last frame of the list, and the SOURCE_SYMBOL frame is written after it |
| `transfer_fec_loss` | `StreamDataArrives` | the packer does not report FEC protected frames to the sent packet handler; what the code does not repair is never sent again |
| `run_loop_room` | `RoomIsNoticed` | the writer takes a packet between two calls of `WouldBlock`; the run loop stops listening and sleeps with data, window and room, until an ACK or the loss timer; after a packet with nothing but FEC data, which `SentPacket` gets without frames, the loss timer is not set either |
| `streams_open_wakeup` | `OpenerIsWoken` | an `OpenStreamSync` that is canceled after it was signalled takes the signal with it; the next one waits beside a stream it could open |
| `http3_informational` | `BodyArrives` | after an informational response the second HEADERS frame is skipped without its payload, and the body is not read |

They differ from the passing runs of the same modules only in their constants:
the violated property is one that holds without FEC, without reordering, for one
kind of stream at a time, with one repair symbol, without late cancellation or
without informational responses. `run_loop_room` checks a stronger form of a
property that `core` shows to hold: `NoWorkIsStuck` says that the loop that sleeps
beside work has a loss timer set, unless its last packet was reported without
frames (history variable `unreported`).

Further configurations reproduce disagreements with the code's own comments that
were met with the same modules. They are not in the list of runs, which has one
for each question; each violates the one property it names:

| Configuration | Violated | What happens |
|---|---|---|
| `MCPacketPackerCoalesced.cfg` | `PacketFits` | before the handshake is confirmed `PackCoalescedPacket` offers only what the Initial and Handshake packets leave, and no ACK: a REPAIR frame does not fit and the packer panics, where the comment says this "shouldn't be possible" (`packet_packer.go`, `composeNextPacket`) |
| `MCPacketPackerQueue.cfg` | `RepairQueueHasRoom` | a full-size REPAIR frame does not fit beside an ACK, so ACKs keep it at the head until the queue is full; `repair_queue.go` says "Add blocks until the queue size has reduced", and `Add` panics |
| `MCPacketPackerDatagram.cfg` | `PacketFits` | the size check of a FEC datagram does not count the SOURCE_SYMBOL header, and `appendShortHeaderPacket` fails with "PacketPacker BUG: packet too large" |
| `MCStreamTransferWindow.cfg` | `CongestionWindowRespected` | a packet whose only data is in a SOURCE_SYMBOL frame does not count as in flight, so `SendMode` never finds it congestion limited |
| `MCDatagramQueueTwoReceivers.cfg` | `BlockedReceiverIsWoken` | one signal in channel `rcvd` stands for two datagrams; of two `Receive` calls one stays blocked beside the second |

Others show in a passing run's constants with one of them changed:

- `StreamEndsOnce` of `ReceiveStream` with `ResetAfterFin = TRUE`: a
  RESET_STREAM that follows the FIN.
- `CloseClosesConnections` of `HTTP3Client`, with an own `Dial`: connections that
  are no longer cached.
- `RequestsHaveReturned` of `HTTP3Client` without `awaitsFailedHandshake`: a request
  waits for `HandshakeComplete` of an early connection (`http3/client.go:305`) that
  ends before its handshake is complete. `interface.go:240` says that the channel
  is closed when the handshake "completes (or fails)", but only
  `handleHandshakeComplete` (`connection.go:763`) closes it, so the request returns
  only when its own context ends. `CallsReturn` is stated with this exception, and
  with no other one for requests.
- `pc # "panicked"` of `HTTP3Client`: a request that found its client before
  `RoundTripper.Close` and dials after it calls a method of `r.transport`, which
  `Close` has set to nil (`http3/roundtrip.go:255-263`, `:302`).
- `SingleLossEvent` of `Congestion` with `PNSpaces = {"Handshake", "AppData"}`:
  one controller compares packet numbers of all spaces; after a cutback in one
  space, losses of another are taken for old ones, or old ones for new.
- `UndecryptableAreProcessed` of `Handshake` with `Coalesced = TRUE` and
  `MaxUndecryptablePackets = 1`: when two encryption levels get their keys in one
  go, the second assignment of `undecryptablePacketsToProcess` drops the packets
  queued by the first ("Queue all packets for decryption that have been
  undecryptable so far", `handleHandshakeEvents`).
- `ListenerCloseClosesConns` of `Server` with `SingleUse = TRUE`: `Close` of a
  listener made with `Listen` ends the socket's reader, but tells no accepted
  connection to close ("all established connection will be closed immediately",
  `server.go`).
- `RequestEnds` of `HTTP3Stream` with `BadResponses = TRUE`: after a malformed
  response the client cancels only writing; a handler that still writes blocks on
  flow control, and the request's stream is never completed.

Deadlock is not checked where inputs are bounded: when all of them are used up
the system is quiescent. The liveness properties say what must have happened
by then.

## 4. Fairness

Fairness is on steps the code takes by itself, and weak except for one:

- `FECManager`: a packet is packed while a REPAIR frame is queued (`hasData`
  calls `scheduleSending`), and a packet that is not lost arrives.
- `PacketPacker`: the run loop packs while it has something to pack.
- `StreamTransfer`: the run loop sends when `SendMode` lets it, timers fire when
  they are set, a packet that is not lost arrives, and so does its ACK (a lost
  ACK is one that never arrives before the next). No fairness is assumed of
  losses or spurious timeouts.
- `FlowControl`: the sender sends when it may, the application reads what
  arrived, the run loop packs queued updates, frames arrive (what is lost is
  sent again).
- `RunLoop`: the run loop and the writer goroutine are scheduled, `conn.Write`
  returns. Nothing is assumed of the application, the peer or the order in
  which `select` chooses.
- `DatagramQueue`: goroutines that are awake are scheduled, and the run loop
  pops while frames are queued (`hasData`). A caller need not call again.
- `Server`: the server's loop, the goroutines that wait for connections, and
  Close calls that have begun are scheduled; a connection told to close ends
  (`CloseCompletes` of `RunLoop`). Nobody need call Accept or Close.
- `HTTP3Client`: the goroutine of a request is scheduled; a handshake ends,
  successfully or not (the handshake timeout); SETTINGS arrive on a connection
  that does not fail; all this as long as the program has not panicked.
- `HTTP3Stream`: each goroutine of the request is scheduled, the stream
  transports what is written within its window, and a request's context ends.
  Strong fairness is assumed of one step, the handler's return: a handler that
  can return again and again does so in the end.
- `Handshake`: a packet that its sender keeps sending again arrives in the end,
  where sending again takes the keys of its level (`isRepeated`: what a sender's
  queues and keys let it send in its present state); the client sends what it can,
  and a connection processes packets that waited for their keys. Any other packet
  may be lost for good, so an endpoint that drops keys too early gets stuck: with
  the mutant `droppedBySendingFinished`, a client that drops its Handshake keys
  once it has sent its Finished, the run fails.

## 5. Proofs

Eight modules hold proofs, for every value of the constants of the modules they
extend. What a proof needs of the constants is an `ASSUME` of the module
that declares them, or a definition of the proof module (`Limits`, `Sizes`, `Plain`,
...) that is a hypothesis of the theorem. Bounds that only keep TLC's state
space small (losses, packets, calls) are left arbitrary. Every inductive
invariant was checked with TLC on the bounds of section 3 before it was proved.
The proofs have one lemma per action, or per group of actions of one goroutine,
and lemmas of their own for the arithmetic, the cardinalities and the loops.

| Module | Theorem | States | Hypotheses |
|---|---|---|---|
| `FECManagerProofs` | `TypeCorrect`, `AtMostOnce`, `DroppedBlocksAreComplete`, `NothingInvented` | `TypeOK`, `PassedUpAtMostOnce`, `ProcessedMeansPassedUp`, `PassedUpWasSent` | `NumSource` positive, the other constants natural numbers |
| | `Implements` | `Spec` implies the specification of `FECDelivery` | the same |
| `RunLoopProofs` | `TypeCorrect`, `LoopKeepsSending`, `CloseIsOrderly` | `LoopTypeOK`; `NoWorkIsStuck`, that is `SleepIsWoken` (with its exception, a last packet reported without frames) and `SendHasRoom`; `CloseIsClean`, that is `FirstCloseWins` and `QueueIsFlushed` | the send queue holds at least one packet |
| `KeyUpdateProofs` | `UpdatesFitTogether` | `KeysAreFound` | there are two endpoints |
| `StreamsProofs` | `MapsAgree` | `LimitsAgree` | the accepter allows a stream; one goroutine calls `AcceptStream` |
| | `NoOpenerForgotten` | `OpenerIsWoken` | the accepter allows a stream; no context ends after its call was signalled |
| | `ReadsAreInOrder`, `ReadersAreWoken` | `ReadInOrder`, `WaitingReadHasNothing` of `ReceiveStream` | sizes are natural numbers, the stream's below `MaxByteCount` |
| | `ReceiveStreamEnds` | `StreamEndsOnce` of `ReceiveStream` | also: no RESET_STREAM follows the FIN (`~ResetAfterFin`) |
| `CallersProofs` | `TypeCorrect`, `AddersAreWoken` | `DatagramTypeOK` (with both limits), `BlockedAdderIsWoken` | the send queue holds at least one frame |
| | `NoWakeupLost` | `BlockedCallsAreWoken` | also: one goroutine calls `Receive` |
| | `SendableStreamsAreActive`, `WritersAreWoken`, `SendStreamEnds` | `SendableIsActive`, `WaitingWriteIsBlocked`, `EndOfStream` of `SendStream` | sizes are natural numbers |
| | `RingBufferIsQueue` | `RingIsQueue` of `RingBuffer` | sizes are natural numbers |
| `SendingLimitsProofs` | `TypeCorrect`, `PeersKeepWindows` | the types of `FlowControl`, `WindowsAreKept` | sizes are natural numbers; no order of initial and maximal windows is assumed |
| | `PathMTUIsFound`, `PacingTimerSuffices` | `MTUIsFound`, `PacingTimerHasBudget` | every path carries the initial packet size; bandwidth, burst and resolution are positive |
| | `PackerTypeCorrect` | `PackTypeOK` of `PacketPacker`, with the capacity of the repair queue | headers fit in what the packer reserves for them |
| | `PacketsFit` | `PacketFits` | also: datagrams are not FEC protected (`PlainDatagrams`), FEC data waits for the end of the handshake (`FECAfterHandshake`) |
| | `RepairsOnlyLagBehindACKs` | `RepairsLagBehindACKs` | a block has no more repair than source symbols (`FewRepairSymbols`) |
| | `UndelimitedFrameIsLast` | `NothingFollowsUndelimitedFrame` | `PlainDatagrams`; the streams are all plain or all FEC protected (`StreamsOfOneKind`) |
| `LossRecoveryProofs` | `TypeCorrect`, `NothingIsForgotten`, `CompletedIsDelivered` | `TypeOK`, `TransferIsTracked`, a completed stream has been delivered | the stream is not FEC protected |
| | `AcksAreScheduled`, `AcksAreTrue` | `AckIsScheduled` and `HistoryIsConsistent` of `AckExchange` | the history may hold a range |
| | `PacketsAreHandledOnce` | `DuplicatesAreRecognised` | also: there is always room for a range (`[]FewRanges`) |
| `RegistryProofs` | `PacketsReachConnection` | `PacketsAreRouted` of `ConnectionIDs` | both limits on IDs are positive |
| | `NoConnectionForgotten`, `EarlyPacketsExpire`, `CloseCallsOrderLocks` | `NoConnForgotten`, `EarlyDataExpires`, `LocksAreOrdered` of `Server` | limits and durations are natural numbers |
| | `ClientTypeCorrect`, `FailedClientsLeave`, `IdleClientsAreUnused` | `ClientTypeOK`, `FailedClientIsRemoved`, `IdleClientIsUnused` of `HTTP3Client` | the requests are finitely many |

Some hypotheses leave out what the code also does, and each is needed: without
it TLC has a counterexample. They are the FEC protection of the stream
(run `transfer_fec_loss`), a RESET_STREAM after the FIN (`ResetAfterFin`, section
3), a second receiver
(`MCDatagramQueueTwoReceivers.cfg`), a late cancellation (run
`streams_open_wakeup`), and those of the packer: `PlainDatagrams`
(`MCPacketPackerDatagram.cfg`), `FECAfterHandshake`
(`MCPacketPackerCoalesced.cfg`) and
`StreamsOfOneKind` (run `packer_mixed_streams`). `[]FewRanges` is one more: with
`MaxNumAckRanges = 1` in `MCRecovery.cfg` the run violates
`DuplicatesAreRecognised`, since `maybeDeleteOldRanges` drops a range without
raising `deletedBelow`. With a second accepter one call of `AcceptStream` may
take the signal another waits for (section 7). The other hypotheses hold of
every configuration of the code: no stream has `MaxByteCount` (2^62 - 1) bytes,
which also stands for a final size that is not known; `sendQueueCapacity` is 8, the datagram queues
hold 32 and 128 frames, the block codes have no more repair than source symbols,
and a remembered limit of one stream, with which the
model of 0-RTT starts, may not be lowered by a server that accepts it.

The invariants, and why what the runs check is not inductive by itself:

- **FECManager.** `IInv` adds: the sender holds only symbols it has given out,
  and a processed block was given out completely (`SenderBlocksInv`); a REPAIR
  frame exists only for a processed block (`RepairInv`), without which recovery
  could invent a symbol; every source symbol travels in at most one packet
  (`SourceInv`), without which a second arrival would be handed up again; and a
  payload was handed up exactly once if the receiver holds it or has processed
  its block, and never otherwise (`ReceiverInv`), the fact that makes
  `SourcesOf(b) \ sources` the right set to hand up at recovery. The arithmetic of
  block numbers is in lemmas of its own (`SourcesInRange`, `SidInItsBlock`,
  `BlocksDisjoint`, `CompleteMeansAll`). The refinement counts how
  often each payload was handed up, so that a second time is a step `FECDelivery`
  does not have. A `Deliver` step hands up symbols below `nextSID` whose count
  was zero, among them the one that the packet carries unless it was recovered
  earlier (`OwnPayloadIsHandedUp`); every other step protects one payload or
  stutters.
- **RunLoop.** `SleepIsWoken` speaks of the `select` only. `WakeInv` follows queued
  frames back from there through every place of the loop: after sending, a
  deadline, an alarm or a scheduled send is left behind, or the last packet was
  reported without frames; while packets are handled, the loop either has what it
  had at the `select` or has processed one and will trigger sending. Packets
  waiting to be received do not count as a wakeup, since all of them may be
  ignored. `AlarmInv` says that a full congestion window means an outstanding
  packet and with it an alarm: a packet without frames fills no window. `RoomInv` says that between the look
  at the send queue and the packet put into it only the writer touches the queue,
  which can only make room. `CloseInv` ties the first error to the channel until
  the run loop has taken it, `FlushInv` orders the ends of loop, writer and IDs.
- **KeyUpdate.** An endpoint accepts a phase only when it is one ahead and its
  own current keys have been used in both directions. So the invariant has to
  say that the endpoints are at most one phase apart and what the one behind has
  sent and received (`OnePhaseApart`). That rests on how phases are laid out over
  packet numbers (`SealedInOrder`: they rise, and `firstSent` is where the current
  one starts), on `OpenedWereSealed`, and on `AcksAreInPhase`: an ACK travels
  under keys at least as new as those of the packet it is for, which is why an
  endpoint that may update knows that its peer has followed. All but the types
  and packet numbers is stated of one endpoint and its peer (`Half`), and proved
  for a change of either.
- **DatagramQueue.** A caller between its look at the queue and its wait is not
  yet blocked, and what it saw may be stale. `SentInv` covers this window: who
  has found the queue full has a signal, a frame that is still to be popped, or
  another caller that holds the lock next and will push one. `RcvdInv` is the
  same for `Receive`, where only the signal helps; hence one receiver.
- **FlowControl.** The receiver checks what arrives against its windows, while
  the sender keeps to windows it heard of. `SenderInv` says that the sender's
  windows, and those in updates that are on their way, are never larger than the
  receiver's, so that late and repeated updates do no harm; `ReceiverInv` that
  what arrived had been sent. For the connection, sums have to be compared:
  `CountInv` counts bytes as pairs of a stream and an offset (`Bytes`), and a
  lemma (`BytesGrow`) gives what a longer stream adds to it. `WindowInv` bounds
  windows by what was read.
- **StreamTransfer.** An ACK takes packets out of the history in one step and
  then declares others lost, packet by packet. `Tracked(st, left)` states
  `TransferIsTracked` of a stream in the midst of that, with the packets `left`;
  one lemma takes acknowledged packets away, another lost ones. It needs that
  received packets were handed to the receive stream (`ReceivedInv`), because an
  acknowledged chunk is only known to have been received. `CompletedIsDelivered`
  then follows from the definition of completion: no outstanding frame and
  nothing to retransmit leaves only delivered chunks.
- **StreamsMap.** `LimitsAgree` compares the opener's count with the accepter's
  limit; `LinkInv` adds the opener's own limit and the MAX_STREAMS frames between
  them. `RoomInv` says that the accepter's limit leaves exactly the room for
  `maxNumStreams` streams, also counting streams that are complete and not yet
  accepted. `QueueInv` describes the queue of waiting calls: places between
  `lowestInQueue` and `highestInQueue`, each with its goroutine, and only the
  first holds a signal; this is what one signal for many waiters relies on.
- **ReceiveStream.** Of the frame sorter `SorterOK` says that the entries of the
  queue do not overlap and hold the bytes of their offsets (`Tiles`, `Content`),
  that the gaps are sorted and do not touch (`Ordered`), and that beyond `readPos` a
  byte is in a gap exactly when it is not queued (`Exact`). The proof that `push`
  keeps this has two halves. `StartsInGap`, `StartsAtEntry` and `StartsAfterGap` show
  that in each of the cases of the code the data, after being cut, covers whole
  entries and meets the gaps where it should, so that the entries it deletes are
  exactly the ones it covers (`Inserts`); `Spliced` and `GapsAfter` show that the
  cases of the code on the first and the last gap cut exactly this interval out of
  the list. `readImpl` is a loop; `ReadOK` holds after every round: what was read
  so far, the rest of the current frame and the sorter follow each other without a
  gap (`ReadTo`), and a stretch that ends in a wait has found nothing to read.
  `EndInv` and `CompletedInv` say how a stream may have ended, and that it is
  completed exactly when it was read to its end, or given up with its size known.
- **SendStream.** `Write` gives up the mutex while it waits. `BlockedInv` says of a
  call that waits, or is about to, and that no signal and no timer will wake: its
  data does not fit into the next frame and nothing it should return for has
  happened. `BytesInv` says where the bytes are at each place of `Write` (sent,
  buffered, still with the call), `FramesInv` that `numOutstandingFrames` is the
  number of frames in flight and that the stream was completed exactly when
  nothing of it is left.
- **RingBuffer.** `RingPositions` ties the tail to the head and the length of the
  queue, and `full` to a queue as long as the array. `Slot` gives the place of the
  k-th element without a remainder; that slots are different, and that those of
  the next head are the following ones (`Slots`), is what storing and removing rest
  on. `Grown` says that `grow` puts the elements in order at the start.
- **PathMTU.** `MTUIsFound` is about the end of a search. `SearchInv` says of every
  state that what was found passes the path and that the upper end is the limit or
  is more than the path carries, unless a probe was lost for another reason; the
  history variable `mtuLimit` remembers the limit given to `Start`.
  `PacerInv` ties the pacer's packet size to the search; the rest is arithmetic:
  the delay is rounded up, the budget down.
- **PacketPacker.** The packer collects frames in loops, and what is packed is known
  only at their ends. Loops are written as recursive functions, and proved by
  induction in the form of a least counterexample: `LeastOf` finds the first round
  in which a property fails, `RoundsKeep` and `LoopRuns` conclude that it never
  does, and `LoopsAgree` that a loop depends only on what its rounds read. Between
  packets, `SymbolsFit` bounds every symbol of the open block, and so every REPAIR
  frame made from it, by what an empty packet holds; `RepairsLag` says that
  queued REPAIR frames and symbols of the open block together are no more than the
  repair symbols of a block and the packets that an ACK held back (`heldBack`),
  since every other packet that adds a source symbol takes a REPAIR frame with it.
- **AckExchange.** The history is a sequence of ranges. `AckType` includes that they
  are sorted and do not touch; that inserting a number (extend, join or insert a
  range) and cutting at `IgnoreBelow` keep this, and which numbers they cover
  afterwards, are lemmas of their own. `SeenInv` orders the packets of the two
  directions: what an ACK reports was sent before the packet that acknowledges the
  ACK, so that a packet received late is not cut off unreported. `RangesInv` says
  that ranges cover only packets that were handled, and `Remembered`, which needs
  `FewRanges`, the converse.
- **ConnectionIDs.** Frames and packets come in any order. `OrderInv` is what they
  have in common: IDs that are retired lie below the one in use, IDs that are
  kept above, and no packet retires the ID it is sent to. So the issuer still has
  every ID from the one in use on, and no more than it may have (`IssuedInv`), and
  the handler map has these and the ones with a timer (`HandlersInv`). `TokenInv`
  keeps the one registered stateless reset token.
- **Server.** `ServerInv` adds to `NoConnForgotten` that queues of early packets are
  few, none belongs to an ID with a handler, and the next cleanup is no later than
  the first expiration (`Early`), and which place of a close call holds
  which mutex (`LocksInv`).
- **HTTP3Client.** `UseInv` says that `useCount` of a client is at least the number
  of requests that have it and have not returned, `ClientOfRequest` that a request
  under way has a client; with them, a failed client stays cached only while
  somebody is about to remove it.

Only model-checked: all liveness properties (fairness is out of the prover's
reach); FEC protected streams (their data can be lost, section 3); the XOR code
and the parsing of recovered payloads in `FECRecovery` (folds over sets and
sequences need induction over data); `FlightIsCounted` (a sum over the history of
`SentPackets`); and the modules without a theorem: `Handshake`, `Congestion`, the ECN validation in `AckExchange`,
`HTTP3Body`, `HTTP3Stream`, `HTTP3Control`, `HTTP3Server` and `TokenStore`.

## 6. Plan

Done: the modules above, checked, and the proofs of section 5. Next, in this
order, theorems about modules that are only model-checked so far:

1. `Handshake`: `HandshakeHasNoError`.
2. `SentPackets`: what is in flight is in the history, without the sum.

## 7. Observations

Met while modelling, and not stated as properties because no text of the
repository is contradicted, or because they are harmless:

- FEC: `blockStatuses` keeps an entry for every block of the connection.
  `OpenStreamSyncWithFEC` does not ask whether FEC was negotiated, and the
  packer panics at the first frame (`PacketPacker`, status "no fec.Sender").
- Flow control: two readers that race can make the connection send MAX_DATA
  with limit 0, which the peer ignores.
- Streams: two callers of `AcceptStream` share a channel of one slot.
  `CancelWrite` on a stream from before a 0-RTT rejection deletes in the new map.
- Sent packets: a client whose Initials are all acknowledged and that has only
  0-RTT data in flight lets the PTO pass without a probe. `numProbesToSend` and
  `ptoMode` survive `ResetForRetry`, harmlessly. Control frames of rejected
  0-RTT packets are sent again.
- Received packets: `maybeDeleteOldRanges` does not raise `deletedBelow`, so
  that beyond `MaxNumAckRanges` ranges a duplicate is accepted.
- Server: `sendRetry` does not release its buffer. When two connections draw the
  same connection ID (`Collisions = TRUE` in `Server`) the server's loop is
  stuck. The goroutine of a client's dial blocks on `recreateChan` for good when
  the dial has returned. `Accept` chooses at random between a queued connection
  and an error.
- HTTP/3 client: a retry sends a request body that was read already. An expired
  deadline counts as a timeout, removes a healthy client and retries. A dial
  fails with the context of the first request, also for the others. `useCount`
  drops when `RoundTrip` returns, while the body is still being read.
  `removeClient` may remove a client newer than the one that failed. With an own
  `Dial`, `Close` leaves connections open that are no longer cached. (Requests that
  meet `Close` or a failing early connection: section 3.)
- HTTP/3 server: Content-Length 0 is treated as not set by `responseWriter`. A
  body that is too short ends with a regular EOF. `serveConn` leaks the listener
  it opened when `Close` came first.

## 8. Not modelled

- Byte formats of frames, headers and transport parameters: covered by the
  repository's fuzzers, and without state. Where a format matters to a property
  (the STREAM frame without a length, the length bytes of XOR, HTTP/3 frames) it
  is modelled.
- Cryptography and TLS: libraries; `Handshake` takes TLS to finish when both
  sides have the other's messages.
- Socket access, logging and qlog, examples, interop and fuzzing programs: I/O
  and output without state of the protocol.
- Round trip times (`rtt_stats.go`): times are open where they decide something.
  `cubic.go` is floating point and not used: `newSentPacketHandler` asks for
  Reno.
- `SendMode`'s pacing is a free choice in `RunLoop` and absent in
  `StreamTransfer`. GSO batches several packets into one send queue entry and
  asks `WouldBlock` at the same places; `RunLoop` models the path without it.
- Stateless resets, the multiplexer, a second `Listen` after `Close`, preferred
  addresses, timeouts of the handshake; HTTP/3 capsules, gzip, header fields and
  hijacked streams.
