# A verification of node-dmr-lib

node-dmr-lib is a Node.js library that joins Motorola MotoTRBO radio systems:
it registers with a repeater as a peer, sends and receives DMR data, turns it
into IP packets and serves the registration, location and battery protocols of
the radios.  This directory holds TLA+ models of it, translated from the code in
`src/src` (short paths below are relative to that directory), TLC
configurations that check them and TLAPS proofs about them.

`PROJECT.json` lists the components, runs, theorems and hazards, and for each
definition the lines of code it stands for.

## 1. The system

The library is one Node.js process.  A handler, a timer callback or the stretch
of an `async` function between two `await`s runs to its end; everything else may
happen between two of them.  The state below lives in objects that several
handlers, timers and coroutines share, and that is where half of it is hard; the
other half is the codecs, a dozen of them written bit by bit, which must agree
with each other and with what radios do.

```
        ARS, LRRP, BMS                    user
              |                            |
         DMRServices                       |
              |  sendIPPacket / 'data'     |
      +-------+--------+-------------------+
      |                |
 DMRIPGateway      WLIPGateway          AMBEClient --- vocoder server (UDP)
      | sendDMRData    | send
      | 'dmrdata'      | 'wlpacket'
      +-------+--------+
           IPSCPeer            or HBDMRGateway, below DMRIPGateway
              |  UDP                |  UDP
        master repeater,        HomeBrew repeater:
        wireline, XNL           frames with bursts of
                                Encoders/* and DMR/*
```

| component | state it keeps | operations | what makes it correct |
|---|---|---|---|
| `Services/IPSCPeer.js`, connection | `state`, `interval`, `lostPings`, options; the XNL address | `connect`, `close`, the 15 s interval, `onData` for 9 kinds of packet, `onXNLData`, `initXNL`, `initWireline`, `initDone` | events agree with the state; the handshakes that are enabled have been passed; a handshake ends; an open connection is kept alive; a lost master is noticed |
| `Services/IPSCPeer.js`, sender | `sendDataBuffer`, `dmrSeq`, `streamId`, `lastDataPacket`, `isTXActive` | `sendDMRData`, `dataPacketSender` | datagrams stay whole and in order, what is announced is what comes, nothing waits for ever |
| `Services/HBDMRGateway.js` | `state`, `peerInfo`, `sendDataBuffer`, `streamId`, `packetSeq`, `lastDataPacket` | `onData`, `sendDMRData`, `dataPacketSender` | as the sender above; the application knows the repeater that is sent to |
| `Services/DMRIPGateway.js` | `dataBuffer[src_id]`: one `DataBlock` per source | `onDMRPacket`, `sendIPPacket` | only whole, undamaged datagrams are decoded, under their own header; a broken one does not spoil the next; an exception ends the process only for what a datagram is by itself |
| `Services/WLIPGateway.js` | `packetsQueue`, `pendingCount`, `packetSeq` | `sendIPPacket`, `packetSender`, `onWLPacket` | the window, the number of transmissions, slots given back once, every packet confirmed or given up |
| `Services/DMRServices.js` | per radio `ars`, `lrrp`, `bms` with states, retry counts, times | `onARSPacket`, `onLRRPPacket`, `onBMSPacket`, the setters, `serviceWorker` | the registration follows the radio; requests are bounded and end; radios that left are left alone |
| `Services/AMBEClient.js` | `isBusy`, `currentPromise`, `currentTimeout` | `encode`, `decode`, `run`, `ready` | a call gets its own answer, every call is resolved |
| `Encoders/*`, `BitUtils.js` | none | Hamming, BPTC 196/96, Golay 20/8, QR 16/7, RS 12/9, trellis, CRC 9/16/32, AMBE | decoding inverts encoding, as many errors as promised are corrected |
| `DMR/*` | none (`DataBlock`: the blocks collected) | headers, CSBKs, link control, data blocks | what is written is what is read; damage is refused, never read as something else |
| `Protocols/HomeBrew/*` | none | the dispatch on a type, frames and their bursts | a packet is read as what it is, or not at all |
| `IP/IPUDPPacket.js`, `Motorola/Network.js` | none | header compression and decompression, UDP checksum | a round trip gives the datagram back |
| `IP/IP4Packet.js`, TCP, ICMP | none | parse, build, checksum | round trip; damage is noticed |
| `Protocols/*`, the others | none | parse and build IPSC, wireline, XNL, XCMP, ARS, LRRP, TMS, BMS, NMEA | round trip, dispatch on opcodes |
| `Encryption/ARC4.js` | the cipher's permutation | `setIV`, `processBuffer` | as published |

How they interact: `DMRIPGateway` and `WLIPGateway` are listeners of
`IPSCPeer`'s events and call its `sendDMRData` and `send`; `DMRServices` is a
listener of a gateway and calls its `sendIPPacket`.  Emitting an event calls the
listeners at once, inside the handler.  None of them waits for another: what a
gateway hands to the peer while it is not connected is dropped by `send`, or
waits in `sendDataBuffer`.  No state is persisted, so there is no recovery to
speak of.

The hard behaviours, each listed in `PROJECT.json` with its line:

- a check before an `await` and a use after it (`packetSender`,
  `dataPacketSender`, `serviceWorker`, `onARSPacket`);
- answers that come after their timeout, twice, or for an earlier connection;
- listeners that call `close()` and `connect()` inside a handler;
- counters that a timeout, a status and a send change in any order;
- blocks on the air that name neither datagram nor slot;
- a shared sender behind a gate that traffic keeps closing;
- decoders that guess, and may put in more errors than they take out; what they
  hand on is told from the truth by a checksum further up;
- the same layout written by hand twice, for reading and for writing.

## 2. The modules

| module | models |
|---|---|
| `RetryDelivery` | abstract: what a retrying gateway promises |
| `DatagramLine` | abstract: what the sender of a gateway promises who listens to it |
| `WLIPGateway` (`MCWLIPGateway`, `WLIPGatewayProofs`) | the retry queue of `Services/WLIPGateway.js`; implements `RetryDelivery` |
| `IPSCPeer` (`MCIPSCPeer`, `IPSCPeerProofs`) | the connection of `Services/IPSCPeer.js` with the XNL handshake |
| `DMRSender` (`DMRSenderProofs`) | `DMRIPGateway.sendIPPacket`, `DataBlock.createDataBlock`, `IPSCPeer.sendDMRData` and `dataPacketSender`, composed; implements `DatagramLine` |
| `HBDMRGateway` (`HBDMRGatewayProofs`) | `Services/HBDMRGateway.js`: registration, channel and sender; implements `DatagramLine` |
| `DMRReassembly` (`MCDMRReassembly`, `DMRReassemblyProofs`) | `DMRIPGateway.onDMRPacket` with `DataBlock`, the radios and the air |
| `AMBEClient` (`AMBEClientProofs`) | `Services/AMBEClient.js` and the network to the vocoder server |
| `DMRServices` (`MCDMRServices`, `DMRServicesProofs`) | `Services/DMRServices.js` and the radios |
| `BPTC19696` | `Encoders/BPTC19696.js`, `Hamming.js` |
| `CyclicCodes` | `Encoders/Golay2087.js`, `QR1676.js` |
| `RS129` | `Encoders/RS129.js` |
| `Trellis` | `Encoders/Trellis.js` |
| `Checksums` | `Encoders/CRC9.js`, `CRC16.js`, `CRC32.js` |
| `AMBECodec` | `Encoders/AMBE.js` |
| `DMRPackets` | `DMR/*`: the classes of headers, CSBKs and link control, `Packet.from`, and the octets of `DMR/Util/DataBlock.js` |
| `HomeBrew` | `Protocols/HomeBrew/Packet.js`, `VoiceData.js`, `VoicePayload.js` |
| `UDPCompression` | header compression of `IP/IPUDPPacket.js` with `Motorola/Network.js` |
| `Link` (`MCLink`, `LinkProofs`) | one transmission through the ten codec modules, and the noise on the air |

Definitions are named after the code where TLA+ allows it.  A definition whose
comment begins with "mutant of" is no part of the model: it is a version of the
definition with a plausible mistake in it, and each property is broken by one.

An environment that may be mild or wild (does the network double answers? do
listeners reconnect?) is a variable that `Init` chooses and no step changes, so
one run covers all of them and a property names the environment it needs.

### WLIPGateway

`packetsQueue` is the set of call ids in the queue, its entries' fields are
functions on call ids.  The clock is abstracted to `expired[p]`: has the timeout
of the last transmission passed?  `pc` says where the coroutine `packetSender`
is: between timers (`idle`), running (`loop`), in the 500 ms wait before a retry
(`retryWait`), in the 100 ms pause after a send (`paceWait`), or stopped by an
exception (`dead`).  Handlers run at every place but `loop`.  The loop visits a
snapshot of the keys in ascending order, as `Object.keys` gives them for
integers.

`strays` is a history variable: the statuses that took a slot of the window that
no transmission held or that is taken back once more by the timeout.  The
properties are stated relative to it: without strays the accounting is exact;
with them it is off by exactly as many.  `late`, another, holds the ids whose
confirmation came after the timeout in this pass of the loop.

### IPSCPeer

A received packet first calls the listeners of `EVENT_DATA` (`Receive`, the
packet is in `handling`), then goes through the handler (`Handle`).  Between the
two a listener may `connect` and `close`.  The far end answers what it was
asked: in the same connection (`asked`), or also an earlier one (`askedBefore`)
where the environment has `staleReplies`; `duplicates` lets an answer come again.
Another peer of the site speaks up unasked.
`STATE_XNL_INIT` and `STATE_WL_INIT` are both 3, as in the code.

### DMRSender

A burst is built and queued in one step because the loop in `sendIPPacket` has
no `await`.  The connection and the traffic on the channel change between any
two turns of `dataPacketSender`.  `Line` is the last packet sent followed by
those that wait; what holds for each such window of the queue holds for all
neighbours on the air.

`DatagramLine` says the same to a listener who does not see the queue: datagrams
are accepted whole and heard frame by frame, in order, none lost or heard twice,
numbered without a gap and under one stream id each.  It keeps only how many
frames wait and where datagrams end among them; what the next frame is numbered
follows from the last one heard.  Both senders implement it; here neighbouring
datagrams have different streams, below they need not.

### HBDMRGateway

The gateway of a HomeBrew repeater has a sender of the same kind, but the
repeater comes to it: `Registration` may arrive from any address and port at any
time, also while `dataPacketSender` is in its loop (`pc = "drain"`).  A stream id
is not a counter: it is the second, `now`, in which the last frame of the datagram
before was queued.  `now` is the wall clock, a variable here, and may be set back; so
nothing is claimed of the stream ids of two datagrams, and what a listener has to
tell them apart by are the sequence numbers.  `announced` is what an
application has heard through `EVENT_CONNECTED`.  A registration never ends
(`lastPing` is written and read by nobody), and that is what keeps the frames of
the drain loop, which does not look, from being dropped by `send`.

### DMRReassembly

Radios send header and blocks in order; the air loses, damages, duplicates and
reorders.  A payload is the block it came from: what CRC9 and CRC32 tell is
whether the blocks are the blocks of one datagram, in order and undamaged, with the
exception `getBuffer` makes: behind a second header its CRC32 leaves out one octet,
and damage to that octet alone (`beforeCRC`) passes unless the block has a CRC9.  That
a checksum fails to notice damage it covers is left out here; `Link` has the
checksums themselves.

What the decoders do (`IP4Packet.from`, `fromCompressedUDPDMRStandart`,
`fromCompressedUDPAdvantage`) is their verdict: a packet, null or an exception.
None of them looks at the length of what it reads, so a payload that pad count and
block count leave too short makes it throw, out of the handler and the process
(`crashed`).  A shape of datagram says how many octets its decoder reads and what it
makes of them; where blocks come under another datagram's header, which the air may
bring about, `Verdicts` leaves open what is not known.

### AMBEClient

`network` holds the requests that are under way or whose answers are.
`late` lets an answer come after the timeout of its request.

### DMRServices

`worker` is the service worker between its awaits; `pending` counts the
continuations of handlers (a second after a registration, two seconds before a
battery registration) and timers.  Delays are left out: pending steps come in any
order.  So the model has more behaviours than the code, and what it shows holds
of the code.

### The codecs and Link

The codec modules have no variables; they are functions on words.  A word (a
block, a burst, a register) is the set of the places of its ones, so that sending
is a union of sets, damage is a symmetric difference, and "at most two errors" is
a cardinality.  What differs from the code is only the form:

- `BPTC19696` repairs columns and rows in turn, up to five times, as the code does;
  a Hamming code is the table of what each parity bit sums up.
- `CyclicCodes` has one encoder and one decoder for both codes.  The tables of the
  code are modelled by what they hold: an encoding table the codewords, a decoding
  table a lightest pattern for each syndrome.  For a heavier pattern any choice the
  table may hold is left undecided, and no property relies on it.
- `RS129` has the Berlekamp-Massey steps, the search for roots and the magnitudes
  of the code, over tables of GF(256).
- `Trellis` follows the state of the encoder; where it fails it tries every point
  and goes on with the one that gets furthest, up to twenty times.
- `Checksums` are shift registers.  The register of a long message is that of its
  first half run through the second.
- `DMRPackets` has one layout table per class, and one reader and one writer for all
  of them; where the code's reader and writer differ the table has both places.
  `BlockAccepted`, `CreateDataBlock` and `GetBuffer` are the octets that
  `DMRReassembly` and `DMRSender` leave out.
- `HomeBrew` puts a slot type and a block, or embedded signalling and three vocoder
  frames, into a burst; control packets are the names the dispatch compares.
- `UDPCompression`: a 16-bit number is the pair of its octets, and reading one is
  reading two octets at an offset or throwing.

`Link` composes them.  A behaviour is one transmission: `Init` chooses a message,
`Transmit` encodes it, `Disturb` inverts a set of places in the burst, `Receive`
decodes it.  What the library never encodes (rate 3/4 bursts, confirmed blocks, a
datagram behind a second header) is encoded by a radio, from the standard; these
definitions are marked external in `PROJECT.json`.

## 3. What is checked

States are distinct states; each run takes about two minutes or less.

| run | bounds | states | shows |
|---|---|---|---|
| `WL` | 3 call ids, 3 transmissions, window 1, 2 strays | 453,290 | slots, window, retries before giving up, early death of the sender; every packet is confirmed or given up; implements `RetryDelivery` |
| `Peer` | 8 option settings, 3 environments | 72,034 | events, interval and handshakes |
| `PeerMasterLoss`, `PeerRefused` | orderly environment | | two findings, see 5 |
| `DMRSender` | streams mod 6, sequence mod 2, 2 blocks, 2 preambles, 5 packets waiting | 54,832 | whole datagrams, true announcements, everything leaves; implements `DatagramLine` |
| `HB` | 2 addresses with 2 ports, sequence mod 3, 2 seconds, 2 frames, 3 frames waiting | 84,212 | numbers, one stream id per datagram, the peer announced, every frame leaves; implements `DatagramLine` |
| `Reassembly` | 1 source, 2 packets in the air, 5 shapes, 2 channels | 3,940,740 | what is decoded, under which header and when; what ends the process |
| `AMBE` | 3 calls, 4 networks | 4,520 | busy flag, timer, own answers, resolution |
| `Services` | 1 radio, 1 location request, 2 retries, 2 registrations, 1 deregistration, 1 refusal, 4 configurations | 803,537 | bounded sends, the registration, requests and discoveries end |
| `Link` | 13 classes of PDU with 4 patterns, and the other five kinds of message; see below | 53,465 | what survives which damage, and what is refused |
| `CompressionAnyPort`, `LCCorrected` | datagrams and voice headers of `Link` | | two findings, see 5 |

Why the bounds are enough:

- Three call ids let `packetSeq` come round while older packets wait, and let a
  packet be skipped before and after the one in flight.  Three transmissions and a
  window of one are what the code has; a stray opens the window while a packet is in
  flight.  Two strays are a late confirmation after a failure, or two in a row, and
  leave a packet a transmission it must have before it is given up.
- The peer needs no bound: its state space is finite but for the history of
  connects, which is capped at two.
- Two blocks and two preambles give a middle and both ends of a burst; five
  packets waiting are a longest burst, or two or three short ones in a row.
- Two frames are a first and a last one; three waiting let a datagram join while
  another one is half sent.  Sequence numbers run over the end of their range
  while frames wait; two seconds let neighbours share a stream id, have a later or,
  after the clock is set back, an earlier one.
- Sources do not share a `DataBlock`, so one source is the general case; two
  packets in the air are what reordering and duplication need.  Shapes are an
  empty one (a header that announces no blocks), an IP packet in one block, too short
  for its header, a confirmed one, a compressed one and one with a second header: each
  decoder, and each way to a verdict.
- A late answer shifts the answers of all calls after it; three calls are the one
  that timed out, the one that gets its answer, and the next.
- Radios share only the worker, which treats each in turn and returns to none
  before the next pass; one radio with everything else in any order covers what
  another radio's visit would put in between, because every wait may be as long
  as it likes.
- In `Link` the four patterns are all zeros, all ones, alternating and mixed, so that
  a field that is moved by a bit, cut, or read from its neighbour shows. All codes but
  the trellis are linear: whether a pattern of errors is corrected does not depend on
  the message (section 4 proves it for `DataSurvives` and `VoiceSurvives`, and for the
  trellis that one wrong bit is corrected whatever the block). One CSBK
  therefore carries the damage (every run of up to 24 bits, pairs with three fixed
  places, slot types with three wrong bits, turning into other blocks and other data
  types), and a sample of it is tried on every class. The other kinds have theirs:
  every single bit, all runs of six and pairs for three blocks of rate 3/4; runs of 1,
  8 and 16 and pairs at every place of a datagram; pairs in the embedded signalling
  and in the vocoder frames.
- Four ports are two well known and two that are not; payloads shorter than,
  equal to and longer than a port are what the offsets can tell apart.

Where `CHECK_DEADLOCK FALSE` is given the system may stop: the sender of
`WLIPGateway` dead and the queue at its bound, all calls of `AMBEClient` resolved,
the process gone in `DMRReassembly`, the transmission received in `Link`.

### Fairness

- `WLIPGateway`: weak fairness of `packetSender`, whose timers fire, and of the
  clock.  Nothing of the repeater or the user.
- `IPSCPeer`: a handler that was entered goes on; strong fairness of the
  interval, since it is not enabled while a handler runs, again and again, but an
  event loop does not put off a due timer for ever.
- `DMRSender`, `HBDMRGateway`: weak fairness of the sender's timers.  That the gate
  comes to stay open is a premise of the property, not an assumption.
- `AMBEClient`: timers fire; an answer under way arrives or is lost.
- `DMRServices`: the worker runs, retry delays pass, and strong fairness of the
  handlers' continuations, which the worker delays but does not stop.  The radios
  do as they like.

## 4. What is proved

TLAPS proves, for every value of the constants that satisfies the named
assumptions:

- `WLIPGatewayProofs`: all safety properties of the run, that no packet is
  transmitted more often than `retryCount` says, and that the gateway
  implements `RetryDelivery`.  From
  `SeqMaxAssumption`, `RetryLimitAssumption`, `MaxPendingAssumption`,
  `MaxStraysAssumption`: at least one id, one transmission and one slot.
  None of the properties is inductive by itself.  `IInv` holds the types, the
  properties and two facts more:
  `RetriesPaidFor`, that retries and transmissions differ by at most the strays,
  and `RetryWaitSafe`, that what `packetSender` saw before its 500 ms wait is
  still true after it, unless a late confirmation came between.  The second is
  why `packetSender` dies of nothing else (`DiesOnlyOfLateConfirmation`), and
  why the window holds although it is tested half a second early: during the wait
  slots are only given back, never taken.  The cardinality of the packets in
  flight has lemmas of its own (one more, one less, the same), because the
  arithmetic of `SlotsAccounted` is on it.
- `IPSCPeerProofs`: types and all safety properties of the run, in every
  environment.  For `KeepAliveArmed`, `ListenersAgree` and `ConnectedOnce` the
  strengthening is: a handler that goes on in `STATE_NONE` was closed under its
  listeners (`HandlerInNone`), and a peer whom a `RegistrationReply` cannot connect
  has not been connected yet while a handshake is under way (`NotYetConnected`).
  `HandshakeComplete` has an invariant of its own, `Handshake`, with two parts.
  `StagesPassed` says where the handshake must have got to when a state is reached
  or a registration request is unanswered: the handler of `RegistrationReply` does
  not look at the state, so what protects it is that the request was not sent
  before the rest was done.  `OneInFlight` counts, for the environment without
  duplicates: of the four requests of the handshake at most one is unanswered, none
  while an answer is handled, and none is left once the peer is connected, so
  nothing can connect it again.
- `AMBEClientProofs`: types, `TimerGuardsRequest`, `OwnAnswer` for any set of
  calls.  `OwnAnswer` needs `NothingLeftOver`: without late or doubled answers
  nothing is under way but what the current call waits for.
  `MixedOnlyAfterTimeout`, of any network, needs `History`: requests are sent once,
  only they are under way, and the last of them is current until it is resolved;
  and `NothingLeftYet`, which is `NothingLeftOver` until the first timeout.
- `DMRSenderProofs`: types, `Contiguous`, `AnnouncementsTrue`, for any number of
  blocks and preambles up to 127, any ranges of the counters above one and any
  length of the queue.  Both are properties of neighbours in the line, so the
  strengthening says what its end is (`EndOfLine`): the last packet of a stream,
  with `dmrSeq` and the stream before `streamId`.  A line grows by a burst, of a
  datagram or a response (`LineGrows`), and shrinks at its front (`LineShrinks`).
  And that the sender implements `DatagramLine` (`LineSpec`), for
  which the packet sent last must stand before the first that waits, and the first
  one ever must open a burst with number 1 (`StartOfLine`).
- `HBDMRGatewayProofs`: types, `FramesContiguous`, `AnnouncedIsPeer`, and that the gateway implements `DatagramLine`, for any
  repeaters, any range of the sequence numbers, any clock and any length of the
  queue.  Beside the end of the line the invariant has `DrainHasPeer`: who drains
  has a repeater, because nothing ever takes `STATE_OK` back; so a frame that is
  shifted out of the queue is sent.
- `DMRReassemblyProofs`: types, `DecodedWhole`, `CrashesOnlyOfItself`, `OwnHeader`
  and the action property `Resynchronises`, for any sources, any shapes of datagrams
  and any number of packets in the air.  The invariant adds `Accounted` (the blocks
  a `DataBlock` misses and those it has add up to what its header announced, and those
  it has are of its own source) and `TidyInOrder` (in an orderly channel packets are in the
  air in the order they were sent, and the blocks collected since a header are those
  of its datagram).  `Resynchronises` follows from it: with the last block of a
  datagram heard in a row the collected blocks are the whole of it, whatever was
  abandoned before; what its own decoder makes of its own payload is one verdict
  (`WorthIsOne`), and that is what comes of it.
- `DMRServicesProofs`: types, `LRRPSendsBounded`, `DiscoveriesBounded`,
  `RegistrationFollowsRadio` and `FewSentToTheGone`, for any radios, number of
  requests, retry counts and configurations.  A retry count by itself bounds nothing,
  because registrations and refusals clear it.  `LRRPCounted` and `BMSCounted` say
  what the sends so far have used up: each earlier clearing at most the retry count
  of them, and the count since the last clearing the rest; and that a request that
  may still be sent is below its bound.  `Admitted`: a radio that is registered or
  visited has registered before; `Waiting`: no registration waits in its second behind
  a deregistration that was not hasty; `VisitCounted` bounds the sends
  to a radio that has left by the items the worker's visit has still to go.
- `LinkProofs`: `DataSurvives`, `Rate34Survives`, `VoiceSurvives`, `UndamagedArrives` and
  `OnlyDestinationPortLost`, for any messages and any damage that satisfy
  `MessagesAssumption` (a field holds a value of its width and the fields tell the
  class, or whether a voice burst has the sync pattern; a datagram has the octets it is
  said to have; the air inverts bits of the burst, and none of control and UDP
  datagrams) and
  `OutcomesAssumption` (null and the exception are no values).  The state machine only
  carries the message (`Carried`: what is on the air is what was encoded with the
  places inverted that were hit, and what was received is what that decodes to); the
  work is in the lemmas on the codecs:
  - Compressed datagrams: ids of ports and networks are read back, what is inline is
    found behind the header, and where the code looks in the wrong place it still finds
    some port or throws, and the payload does not move.
  - Checksums: only that writer and reader run the same register over the same bits,
    also where the datagram has pad octets or a second header.
  - `PacketReadBack`: the rows of a layout do not overlap, so each is read as it was
    written, and the checksum beside them is the one they were written with.  Voice
    headers and terminators need `ChecksumPasses` as well.
  - `ChecksumPasses`: the code's tables hold the powers of 2 in a field and their
    logarithms (`TableTwice`, `TableExp`).  Multiplication by a power of 2 is repeated
    doubling, and doubling adds over exclusive or, so multiplication does
    (`EveryPowerAdds`); it commutes and associates as logarithms add.  Each of the
    decoder's three points is a root of the encoder's polynomial (`Roots`), therefore
    one step of the encoder's register keeps its value at a root in balance with that
    of the octets so far (`ShiftBalanced`), and at the end the decoder's three sums
    are 0.
  - `GolayDecodes`: the remainder by the generator is additive (`RemAdds`), so that of
    a received word is that of its errors; and no word of one to six bits has
    remainder 0 (`Distance`), so two patterns of up to three never share one.
  - `BPTCSurvives`: a Hamming decoder leaves a consistent line alone and repairs one
    wrong bit (`NoneWrong`, `OneWrong`).  Correctable errors put more than one into at
    most one column (`OneColumn`, by the arithmetic of the interleaving); whatever the
    first pass makes of that column, no row has more than one of it, and the rows
    repair it (`SweepRepairs`).  The parity rows may stay wrong, and the further sweeps
    never make more of it (`LeftIsSpoilt`, `SweepsRepair`).
  - `DataSurvives` puts them together: slot type, sync and block have places of their
    own in the burst, and the burst in the frame.
  - `QRDecodes`: the same argument as for the Golay code, for the 16 bits of the
    embedded signalling and up to two errors.
  - `VoiceSurvives`: the places of the interleaved vocoder words are apart
    (`PlaceApart`, `WordPlaceApart`), so a wrong bit on the air is one wrong bit of one
    word.  The second word is scrambled with a key made of the first one (`KeyIs`),
    which is the same at both ends while none of its twelve bits was hit (`KeySame`);
    scrambling twice with one key is the identity, hence the wrong bits of the frame
    are among those that hit it (`NoMoreWrong`).
  - `Rate34Survives`: all points that leave one state of the trellis are odd, or all are
    even, and one wrong bit changes the parity of its point (`PointHit`), so the path fails
    exactly there (`WrongPath`).  From two states the same point leads to two tribits;
    therefore a path that has left the one that was sent never joins it again
    (`NeverJoins`) and does not end in state 0, and of the sixteen values tried only the
    right one completes the path (`OtherPath`, `FirstTry`).  The later tries and the
    second search, from the point before, are not needed.

Only model-checked:

- liveness (`EveryPacketSettles`, `HandshakeEnds`, `EveryDatagramLeaves`,
  `EveryCallResolves`, `EveryRequestEnds`, `EveryFrameLeaves`): it needs ENABLED, which is out
  of the prover's reach;
- one property of `Link`: `NeverAnother` is true of the patterns of errors the run
  tries.  Enough damage turns any burst into any other, so there is no theorem for all
  of them; what of it concerns no damage is `UndamagedArrives`.  Nor is it proved what
  the Reed-Solomon decoder corrects, since the code reads the octets as they came
  (finding 4), or what the trellis decoder guesses beyond one wrong bit.

The recursions of the decoders run over an interval or have a fixed number of steps;
`IntervalInduction` derives what is needed of them from the well-foundedness of the
naturals.

## 5. Findings

1. `Services/IPSCPeer.js:451`: a master that stops answering is never noticed.
   `lostPings` is compared with 2 and set to 0, but never incremented (line 27
   has a TODO).  Run `PeerMasterLoss`.
2. `Services/IPSCPeer.js:350`: the result code of the XNL connection reply, which
   `Protocols/XNL.js:12` documents, is not read: a refused device goes on and is
   reported as connected.  Run `PeerRefused`.
3. `IP/IPUDPPacket.js:82` and `:137`: an inline destination port is read from the
   wrong place.  With both ports inline it becomes the source port; with only the
   destination inline it is the first two octets of the payload, or the read
   throws.  The payload itself survives.  Run `CompressionAnyPort`.
4. `DMR/VoiceBase.js:41`: the Reed-Solomon code of voice headers and terminators
   corrects a copy, and the link control is then read from the octets as received:
   a header with one wrong octet is accepted with the error in it.  Run
   `LCCorrected`.

Behaviour the models show that nothing in the repository rules out:

- `STATUS_GRANT` is above `STATUS_TRANSMIT_OK` and counts as a failure in
  `WLIPGateway`: it costs a slot and a retry.
- A confirmation that arrives in the 500 ms before a retry deletes the entry that
  `packetSender` uses next: it throws, and the sender never runs again.
- `STATE_XNL_INIT` and `STATE_WL_INIT` are one value: a `PeerRegReq` during the XNL
  handshake of a Capacity Plus wireline peer completes the connection.
- `IPSCPeer`'s `dataPacketSender` looks at the connection and the channel before
  its first packet only; so does that of `HBDMRGateway`.
- Datagrams queued for a HomeBrew repeater within a second share a stream id, and
  a repeater that has gone is sent to for ever.
- A late answer of the vocoder resolves the next call, and every one after it; a
  caller that asks again at once can keep others waiting for as long as it does.
- A deregistration within a second of a registration is overwritten by it.
- An answer to a location request from before a re-registration counts as the
  answer to the new one.
- A header that announces no blocks makes the next packet throw out of the
  handler; so does a datagram shorter than the header of its protocol
  (`IP4Packet.js:97`), or one with an OP bit (`IPUDPPacket.js:122`).
- The header field for the number of blocks has 7 bits; a longer datagram
  announces too few.
- An address of an unknown network is compressed as one of the radio network.
- `RPTCL` is taken for `RPTC` by the dispatch of HomeBrew packets and then refused
  for its length; `RPTK` has no branch.
- Of the colour code only the lowest bit is written into the embedded signalling
  (`VoicePayload.js:62`), and `Unified` reads its count of appended blocks as 3 or 0
  (`Unified.js:60`).
- Behind a second header the checksum of a datagram leaves out one octet
  (`DataBlock.js:67`); damage there is not noticed, and is what `DecodedWhole` excepts.
- The Golay checks of a vocoder frame are dropped unused: a wrong bit in the first
  word garbles the second, whose scrambling it keys.
- Three or more wrong octets are often accepted by the Reed-Solomon decoder, which
  reports three roots as no error (`RS129.js:245`).
- A frame is always encoded with the rate 1/2 code and decoded by its data type
  (`VoiceData.js:151`).

## 6. What is not modelled

- Time: delays are steps, and only whether a deadline has passed is kept.
- Voice in `IPSCPeer`: `EVENT_VOICEDATA` passes frames on and keeps the link control
  of a call; nothing depends on it.
- `DMRServices`: the counter of IP identifications (8 bits, wraps) and the
  texts and values kept for display.
- The packets of the services as octets: their handlers take decoded packets.
  Parsers return null for what they do not know, and handlers ignore null.
- What the decoding tables of `Golay2087` and `QR1676` make of uncorrectable
  patterns, which is as good as arbitrary.
- The texts of `GatewayRegReq` and `RepeaterConfig`: only gateways of other makers
  send these; that they are read by their length is modelled.
- Encryption of wireline payloads and of the XNL authentication key.
- Plain IP, and the codecs of IPSC, wireline, XNL, XCMP, LRRP, ARS, TMS, BMS and
  NMEA: readers and writers of fields, like those of `DMRPackets`, that share no
  state with anything.
- ARC4 is left out because its states are permutations of 256 octets.
- `dev/` and `examples/` are captures and scripts that use the library.

## 7. Plan

What is left, the behaviour that matters most first:

1. The internet checksum of `IP4Packet` and UDP, in `Link` as another kind of
   message; the dispatch and the length loops of LRRP, TMS and BMS; the IPSC,
   wireline, XNL and XCMP codecs.
