# Verification of digris-edi-zmq-bridge

TLA+ models of the EDI tools of this repository, the TLC runs that check them
and TLAPS proofs about them. Paths such as `src/EDISender.cpp:174` are relative
to the repository.

## 1. The system

The repository builds converters for DAB ensembles. The main one is
`digris-edi2edi`, which receives the same EDI/TCP stream from several servers and
sends it on as EDI (UDP or TCP, with or without PFT) and as ETI over ZeroMQ.
`digris-zmq-converter` (zmq2edi below) converts ETI over ZeroMQ to EDI. `digris-edimcast2edi` extracts EDI
from multicast, GSE or MPE.

| Component | State | Operations | Interacts with |
|---|---|---|---|
| Main loop (`src/edi2edi.cpp`) | mode, enabled and active inputs, switch delay, `running` | select, tick, poll, handle; remote control; signals | calls `Receiver`, asks `EDISender::is_running_ok()` |
| `Receiver` (`src/receiver.cpp`) | socket, decoder, `reconnect_at`, time of the last packet, fields of the frame being collected | `tick`, `receive`, `update_*`, `assemble` | called by the loop, pushes frames to `EDISender` and `ETI2ZMQ` |
| `EDISender` (`src/EDISender.cpp`) | ordered queue, timestamp handed off last, late score, end of backoff, counters, settings | `push_tagpacket`, `update_settings`, `reset_counters`, destructor; process thread | main thread and process thread share it, partly outside the mutex |
| `edi::Sender` (`lib/edioutput/Transport.cpp`) | AF and PFT sequence numbers, map of pending fragments | `write`; sender thread | called by the process thread; owns sockets and dispatchers |
| `TCPDataDispatcher`, `TCPConnection`, `TCPSendClient` (`lib/Socket.cpp`) | list of clients, a queue and a thread for each, preroll | `write`, listener thread, sender threads, destructors | called by `edi::Sender` |
| `ThreadsafeQueue` (`lib/ThreadsafeQueue.h`) | queue, wakeup flag | `push`, `push_overflow`, `wait_and_pop`, `trigger_wakeup` | connections, send client, log |
| PFT decoder (`lib/edi/PFT.cpp`) | fragments per Pseq, next Pseq | `pushPFTFrag`, `getNextAFPacket` | fed by `TagDispatcher` |
| `TagDispatcher`, `ETIDecoder` (`lib/edi`) | bytes not yet consumed, last sequence number | `push_bytes`, `push_packet`, `decode_*` | calls back into `Receiver` |
| `ETI2ZMQ`, `dabOutputZMQ` (`src/zmq`) | expected phase, message of four frames | `encode_zmq_frame`, `Write` | called by `Receiver` |
| zmq2edi converter (`src/zmq/main.cpp`, `Sender.cpp`) | pending frames, error count | receive loop, sender thread | ZeroMQ |
| Reed-Solomon, checksums, TAG encoders (`lib/fec`, `lib/crc.c`, `lib/edioutput`) | none | encode, decode, `Assemble` | `edi::Sender`, PFT decoder |
| Option parsers (`src/edi2edi.cpp`, `src/zmq/main.cpp`, `src/edimcast2edi.cpp`) | destination under construction and a flag per option | one per option, checks before the start | configure all others |
| Deframers (`src/gse_deframer.cpp`, `src/mpe_deframer.cpp`) | fragment buffers, continuity counters | packet handlers | feed `EDIReceiver` |

What is hard in it:

* two threads share `EDISender`; `inhibit()` announces the backoff before it takes
  the mutex, and lateness is decided before the mutex is taken;
* the same frames arrive from several inputs, late, early, twice, or with holes;
* the choice of the input reacts to time, to the output and to the operator, and
  the reaction itself (closing a connection) changes what arrives;
* queues and counters at their limits: 1000 frames, late score, frame counter
  modulo 5000, 16-bit sequence numbers;
* several threads are ended by a flag, a marker or a closed socket, and joined;
* UDP loses, repeats and reorders fragments, TCP cuts packets anywhere, transport
  streams lose packets, and every decoder keeps state from one packet to the next;
* the same frame is laid out three times (ETI, EDI, ETI again), with counters and
  lengths that are split over bytes.

`PROJECT.json` lists these hazards line by line, with the properties that watch
over them.

What makes the parts correct: the queue of `EDISender` is ordered, bounded and
free of frames that were already sent; the output is in order, silent during a
backoff, and no frame is lost without being counted; every thread ends; the
selection polls only what the operator has enabled, falls over to an input that
delivers, and never mixes two connections; a client of the dispatcher receives a
contiguous stream; the PFT decoder delivers every packet that can be completed,
once and in order; what was lost or damaged on the way is recovered or dropped but
never passed on as something else; and a frame leaves as it came.

## 2. Modules

| Module | Models | Kind |
|---|---|---|
| `EDISender` | `EDISender`, both threads | specification, properties |
| `OutputBuffer` | what `EDISender` promises | abstract specification |
| `MCEDISender` | small instances | model values |
| `EDISender_proofs` | | theorems |
| `InputSelect` | main loop, `Receiver::tick` and `receive` | specification, properties |
| `InputSelect_proofs` | | theorems |
| `InputTenure` | `InputSelect` with a history variable | specification, property |
| `TCPDispatcher` | `TCPDataDispatcher`, `TCPConnection`, their queues | specification, properties |
| `ThreadsafeQueue` | `ThreadsafeQueue` | operators |
| `TCPSendClient` | `TCPSendClient`, with `ThreadsafeQueue` | specification, properties |
| `ZMQConverter` | main loop and `Sender` thread of zmq2edi, with `ThreadsafeQueue` | specification, properties |
| `MCOutputs` | `TCPDispatcher`, `TCPSendClient`, `ZMQConverter` in one run | small instances, fairness |
| `MCOutputs_proofs` | the three outputs and their composition | theorems |
| `PFTFragments` | fragments and their headers | operators |
| `EDITransport` | `edi::Sender` with PFT | actions |
| `PFTDecoder` | `EdiDecoder::PFT` | operators |
| `EDILink` | `EDITransport`, a network and `PFTDecoder`, composed | specification, properties |
| `EDILink_proofs` | | theorems |
| `ReedSolomon` | libfec | operators |
| `PFTCoding` | what is in the fragments: CRC, chunks, parity, padding | specification, properties |
| `FrameDecoder` | `TagDispatcher`, `ETIDecoder`, `Receiver`, `ETI2ZMQ` | specification, properties |
| `FrameDecoder_proofs` | | theorems |
| `ETICodec` | the bytes of a frame through zmq2edi and edi2edi | specification, properties |
| `MulticastInput` | edimcast2edi, both deframers, `EDIReceiver` | specification, properties |
| `MulticastInput_proofs` | | theorems |
| `Options` | the option parsers of the three programs | specification, property |
| `Options_proofs` | | theorems |
| `MCCoding`, `MCDecoder`, `MCCodec`, `MCInputs` | the modules from `EDILink` on, each and in one run | small instances |
| `NumberFacts` | least elements, induction, recursion, order and remainders of numbers | lemmas for the proofs |

Definitions under the comment "Seeded fault" are not part of the
specifications. Each is the mutation of the definition that follows it, and shows
that a property would notice such a mistake.

### EDISender

Every critical section under `_mutex` is one action, and each access outside it
is an action of its own: `PushBegin` decides lateness, the five `Push...`
actions are the branches of the critical section of `push_tagpacket`;
`InhibitUntil` and `InhibitClear` are the two halves of `inhibit()`;
`ResetCounter` clears one atomic counter at a time. The process thread is
`Loop`, `Pop` or `PopNothing`, `Check...`, `Inhibit...`, `Send...`.
`SendWait` fixes the release time with the delay of that moment; the thread
wakes when the clock has reached it. `SendCrash` and `SendWrite` are the two outcomes
of the copy at `src/EDISender.cpp:276`, which is undefined behaviour
(`CopyOutcomes`).

A frame is its timestamp and its frame counter (DLFC); a timestamp is an integer
on the same axis as the clock, and an invalid one (`TSTA = 0xFFFFFF`) is a member
of `InvalidTimestamps`. `mostRecent` starts as the default, invalid one. The
system and the steady clock are one clock. The histories `output`, `resync`
and `excused` serve the properties only.

`OutputBuffer` has neither threads nor clock: a bounded set of frames, one per
timestamp, ahead of the last one taken. Under the mapping in `EDISender` the
queue becomes a set, and the frame in the hands of the process thread is
`held`.

### InputSelect

One pass through the loop is a `Select...` action (the branches of the `switch`
at `src/edi2edi.cpp:336`), `Tick` (all receivers), `Clock` and a return from
`poll()`, `Receive...` for each ready input in order, a remote control request,
and `Repeat`. Only `poll()` takes time, counted in its timeouts of 240 ms;
`age` and `wait` are differences to the clock, so that the model needs no
absolute time. A frame needs `Chunks` calls of `recv()`, each in another pass of
the loop. The servers may start and stop sending at any moment (`ServerChanges`).
Of the output only the late score is left, and `queued`: while the output holds
a frame it may find a discontinuity, which clears the score. Statistics counters are
left out. Two inputs with the same host and port are not modelled (a request then reaches the
first one only).

SIGTERM exits at once (`Terminate`); the other signals clear `running`
(`Signal`) and the loop ends by itself.

`InputTenure` adds the time for which the present choice has stood.

### TCPDispatcher

The TCP server output. The owner thread is a call of `write()` or the destructor:
`Write` is the part under the mutex up to `remove_if`, which then looks at one
connection after the other (`KeepConnection`, `RemoveConnection`) and waits in
`JoinConnection` for the sender thread of each one it removes, still under the mutex.
`Destroy`, `ClearConnection`, `ClearReturns`, `JoinListener` and `MembersGone` are
the destructor; the list member is destroyed after its body, which matters because
the listener may add a client between `clear()` and its own end. `ClearRaces` is the
unlocked `clear()` meeting the listener inside the list, a data race; the model lets the
program die there, or pass. The listener is `ListenerLoop`, `Accept...`,
`AddBegin`, `AddEnd`; a sender thread is `SenderLoop`, `Take...`, `Send...`,
`Abandon`. Buffers are numbered as they are written, the termination marker is 0,
and a buffer has `Parts` parts. `TCPSocket::send()` polls and then calls `::send()`: a poll
that times out changes nothing, and after one that does not (`SendBegins`) the thread is
inside `::send()` on a blocking socket (`"block"`), where it stays until the client has made
room for all of it (`SendPart`, `SendRest`), a signal comes (`SendInterrupted`) or the connection
fails (`SendFails`). No client ever has to read. `WriteCompletes` and `DestroyCompletes`
therefore state the condition `SendsReturn`, that no thread stays in `::send()` for ever;
`WriteNeverStalls` is `WriteCompletes` without it, and is violated (finding 6).
A client connects once: one that comes back is another.
Of the programs, only `edimcast2edi` configures such an output
(`src/edimcast2edi.cpp:148`); it catches the exception of `write()` and then destroys
the dispatcher.

### ThreadsafeQueue, TCPSendClient and ZMQConverter

A queue is the record of its elements and the wakeup flag. `TCPSendClient` has the
caller, whose `sendall()` pushes, reads the size and discards in three critical sections,
and the thread, which pops, sends and connects. The peer stalls, breaks the
connection and refuses a new one as it likes. A send that fails has lost its
buffer; a new socket replaces the old one without closing it, which is what `fds`
counts. `ZMQConverter` has the main loop with its socket, error count and frame
counter, and the thread of `Sender`. The publisher loses and damages messages; a
frame is late or not. Metadata in an unknown format makes the loop spin
(`"hung"`), missing metadata ends the program.

### EDILink: EDITransport and PFTDecoder

`Write` fragments a frame and puts the fragments into the map by the time they are
due; `Transmit` is one pass of the thread `run()`. The network is a sequence of
datagrams: `Arrive`, `Overtake`, `Duplicate`, `Lose` and `Garble`. `PushPacket`
gives one to the decoder and asks it for an AF packet, as `push_packet()` does.
A damaged datagram is refused by `loadData()`, or its payload is damaged and reaches its builder:
the code may then correct it, and if not the CRC of the AF packet refuses the whole.
Damage to the header is only refused with FEC (`lib/edi/PFT.cpp:172`); a header that is
damaged, passes the checksum of UDP and is accepted without FEC is not modelled.
The decoder is a record of its builders and `m_next_pseq`; an incomplete
packet is decoded or not, as the code may succeed or fail. `overrides` tells a
sender that keeps the sequence numbers of its source (edi2edi) from one that
counts (zmq2edi). `latest` is the packet delivered last; `skipped`, `repeated`, `newest`,
`astray`, `waited`, `stalled`, `lossy`, `reordered` and the sender's `gap` and `overlapped`
are histories. While the decoder is without a builder for its next
Pseq it may hold more than `MaxDelay` others directly after it has moved on; the next
call that finds none clears them, which is what `stalled` is for.

What the decoder can promise about the order is limited by two things in the code, and
`astray` records when either is used up. A fragment of a packet it has passed, behind one of
a newer packet, may reopen the builder and make `m_next_pseq` go back: so a datagram may
be repeated or exchanged within a packet, but not come after one of a newer packet. And
Pseq is all that tells packets apart: when nothing was delivered for more than `PseqMod`
packets, a builder left from the last round may be completed in this one. Short of both,
`OrderKept` holds however many datagrams are lost, damaged or repeated.
`NoneGivenUp` says that the decoder completes every packet, also when fragments are repeated, exchanged within
their packet or mixed with those of the next one. It excepts what really
loses something: a datagram that is lost or damaged, a fragment that replaces another with the
same key in the map (`Replaces`, recorded in `lossy`), a fragment that comes after one of a newer packet
(`astray`), and more repetitions than the life of a builder has room for. `LosslessDelivery`, which is proved,
is the same for a perfect link whose packets do not overlap, without bounds on their number.

### ReedSolomon and PFTCoding

`ReedSolomon` is libfec with the width of a symbol, the polynomial and the number of roots as
constants: generator, encoder, syndromes, erasure locator, Berlekamp-Massey,
Chien search and Forney. `PFTCoding` protects and fragments a packet, loses some
fragments, damages a symbol, and does what `canAttemptToDecode()` and
`extractAF()` do. A chunk with more erasures than parity symbols
overruns `eras_pos` and `lambda`: the outcome is `"undefined"`.

### FrameDecoder

Each input is a byte stream of AF packets, in two pieces each, that `recv()` returns
in chunks. `DropByte`, `RefuseAF`, `AssembleAF` and `ThrowAF` are one turn of the
loop in `push_bytes()`, up to the callbacks into `Receiver` and, with all inputs,
the ZeroMQ message. `OddTags` are packets whose TAGs are unknown, too long, of another
protocol or missing. The history variables compare a frame with the packet that
completed it. `FrameExact` says what can be in a frame besides: only what packets
refused for a TAG since the last frame have left (`left`), and only in places the frame's own packet does not
fill. `FrameOwn` says that there is nothing besides, and is violated (finding 7).

### ETICodec

One frame in four steps, byte by byte and with the real lengths: message and
metadata, TAG packet and AF packet, decoded TAGs, ETI frame. `Layout` is the ETI frame
as `lib/edi/eti.hpp` declares it, and serves as the source and as the reference.
`FrameSurvives` compares every field, the bytes of every subchannel and the frame that edi2edi
publishes with the reference, for frames of any length, except the bytes of `Separate`: MID and
FL, the two of MNSC, the upper byte of TIST, and in the byte of each SCID the upper bits of the start
address. `HeaderKept` is about those, but for TIST, and is violated (finding 8).

### MulticastInput

The transport stream is cut into TS packets, some of which are lost. `ReceiveMPE`
is `MPEDeframer::process_packet` for one of them with pointer field, continuity
counter and section buffer; `ReceiveGSE` collects a BBFrame and appends its
fragments to the PDU with the same fragment id. Bytes that do not belong together give an
arbitrary result (`Misread`), which only the CRC of the AF packet can refuse. The loop of
`main()` then pushes what was extracted.

### Options

The options of all destinations are one list, in any order; the value of an option
is its place in it. The parsers of edi2edi and zmq2edi are the same but for the
order of the checks and for a last destination without address; edimcast2edi
has one option per destination. Options with a single value are not
kept, and a wrong value is `RefuseOption`.

## 3. Runs

| Run | Checks | Result |
|---|---|---|
| `sender` | `TypeOK`, `PendingOrdered`, `QueueBounded`, `QuietDuringBackoff`, `OutputInOrder`, `JumpsAccounted`, `FramesLeaveQueue`, `StopCompletes`, `ImplementsBuffer` | hold |
| `sender_payload` | `PayloadDelivered` | violated, finding 1 |
| `input` | `TypeOK`, `OneActive`, `OnlySelectedPolled`, `DecoderPerConnection`, `FailOver`, `AllMerged`, `SignalStops` | hold |
| `input_enable` | `SomeActive` | violated, finding 2 |
| `input_hasty` | `SwitchDelayHonoured` | violated, finding 3 |
| `input_recover` | `OutputRecovers` | violated, finding 4 |
| `outputs` | `TypeOK`, `UnbrokenStream`, `NothingMissing`, `OverflowDisconnects`, `ClientStream`, `FramesInStep`, `WriteCompletes`, `DestroyCompletes`, `ClientStops`, `ClientResumes`, `OutputResumes` | hold |
| `inputs` | `TypeOK`, `DeliveredIntact`, `OrderKept`, `AbandonsInTime`, `NoneGivenUp`, `FecCorrects`, `MessagePhases`, `FrameExact`, `NoPacketLost`, `FrameSurvives`, `ForwardedIntact`, `LossBounded`, `OptionsGrouped` | hold |
| `fec_recovers` | `FecRecovers` | violated, finding 5 |
| `outputs_stalled` | `WriteNeverStalls` | violated, finding 6 |
| `frame_own` | `FrameOwn` | violated, finding 7 |
| `codec_header` | `HeaderKept` | violated, finding 8 |

Bounds. `sender` pushes three frames out of five within four clock ticks: a
stream of three timestamps whose counter wraps after two, one frame without
timestamp, and one that contradicts the stream at the same timestamp. With a queue of two this
reaches overruns, duplicates, late frames before and after queueing, a discontinuity and
pushes that overlap every step of `inhibit()`. All frames are
released before the clock stops, so that waiting for the clock never decides a
liveness property. `input` has two inputs, all choices of enabled ones, and one request at
any time; delays are one poll timeout or none. The invariants of both are proved for
any number of frames, inputs and requests, so that the bounds decide about the liveness properties only.

`outputs` and `inputs` check modules that share no state in one run each; the
variable `output` or `input` says which one moves. In `outputs` the server has two
clients, so that one is added or served while the other is removed; queues of one
and a preroll of two, so that a new client can be too slow from the start; buffers
in two parts, so that a removal can meet a half-sent one; and three writes, which
overflow a queue and then write again. The TCP client has a queue of two, four
buffers, two breaks and three descriptors: it overflows, reconnects and runs out. The
converter has messages of two frames, a counter modulo 5 that wraps within the run,
a limit of two errors and two faults.

In `inputs` the link sends six packets of one fragment, the second and the fifth of three,
of which one may be missing. Pseq is taken modulo 3, so that it wraps twice; the decoder
waits for two packets and keeps one builder (`MaxDelay = 2`, `Keep = 1`; the code has
10 and 10 of 65536, and `Keep < PseqMod` and `Keep <= MaxDelay` are all the proofs need). Up to three
datagrams are in flight, any of them lost, one repeated or damaged, and a frame may be missing in
the source. The bounds are sharp: with `latest + 1` for `latest + PseqMod` in `astray`, or without its
first condition, `OrderKept` fails within them. `PFTCoding` has symbols of 4 bits, 6 parity symbols and
chunks of up to 9, so that one chunk with and without padding and two chunks
occur, with up to four fragments lost and one symbol damaged. `FrameDecoder`
has two inputs with three packets each, one of them odd, chunks of up to three pieces
and a disconnection: a message of two frames is completed from both inputs. `ETICodec`
takes all combinations of counters at their limits (0, 250, 4999), both FIC
lengths, two time stamps, the three kinds of alignment and four sets of subchannels: none, one,
two of different sizes, and two of which the first makes the frame longer than FL can say in bytes. `MulticastInput` has six sections of 2 to 7 pieces in packets of 3,
with the continuity counter modulo 3, or five PDUs with two fragment ids, and up to four losses.
`Options` has the address and two more options, six in all, for up to six destinations.

Deadlock is not checked: the threads end, the program exits, and the bounded
clock stops.

Fairness. `EDISender`: the host runs the process thread, and the clock runs (weak
fairness of both); no receiver has to push and no operator to act. `InputSelect`:
weak fairness of the main thread; strong fairness of the clock, because it is
only visible inside `poll()`, which is left and entered again while time adds up;
strong fairness of the report of an input that has data, because `poll()` reports
every readable descriptor and unread data stays readable. `MCOutputs`, server: weak
fairness of what a call of the owner does once it has begun, of the listener
(whose `accept()` times out after a second) and of the steps of each sender
thread that do not depend on its client; nobody has to write, connect or read, so that
`::send()` may block for ever.
`MCOutputs`, client: weak fairness of its thread and of a call once begun, and strong
fairness of `ClientSend`, which says that a peer that reads again and again takes a buffer in
the end; `ClientStops` and `ClientResumes` except a peer that never reads again. `MCOutputs`,
converter: weak fairness of the main loop, of the sender thread and of the
publisher. `inputs` states no liveness: what must happen in time is `AbandonsInTime`
and `NoneGivenUp`, which count packets. The servers, the
operator and the signals are never obliged to do anything; `FailOver`,
`AllMerged` and `OutputRecovers` state what they assume of them.

### Findings

1. `src/EDISender.cpp:276` copies the received packet to the beginning of an
   empty vector. Compiled with g++ at -O0, -O2 and -O3 such a copy ends the
   program; the other outcome is an empty TAG packet on the air.
2. In switching mode with no enabled input, at the start or after remote
   control requests, no input ever becomes active again (`src/edi2edi.cpp:348`).
3. In switching mode the switch delay counts from the last packet an input
   delivered, also when that was before it became active (`src/edi2edi.cpp:359`):
   a new input has a single `poll()` to deliver, and a remote control request
   can end that one early.
4. In switching mode with several enabled inputs a late score of 100 is final
   (`src/edi2edi.cpp:361`): every pass switches and discards at most 32 bytes
   received, no frame is completed, and the score can fall only through a
   complete frame, a discontinuity or `reset counters`.
5. With FEC, fewer lost fragments than configured can be too many
   (`lib/edi/PFT.cpp:390`): erasures are numbered as in the transmitted chunk of `RSk + 48`
   bytes, and the decoder looks for them in the chunk padded to 255, where the
   parity is elsewhere. Unless `RSk` is 207, lost parity bytes are errors at unknown
   places, which cost twice as much. `FecCorrects` says what holds: a packet
   is recovered when erasures and twice the errors fit in the parity.
6. `TCPSocket::send()` has a timeout for its `poll()` only (`lib/Socket.cpp:832`): a client
   that stops reading in the middle of a buffer keeps the sender thread in
   `::send()`, and the `write()` that removes the connection waits for that thread
   with the mutex, for as long as the client likes.
7. An AF packet that is refused for a TAG, such as a second `*ptr` of wrong length, leaves the
   subchannels before that TAG in the `Receiver`, and the next frame has them in front of its own
   (`src/receiver.cpp:194`).
8. The header of edi2edi's ETI frame: FL counts bytes instead of words (`src/receiver.cpp:235`) and is
   or-ed into FP and MID without being cut to 11 bits, which changes the mode of an ensemble of
   usual size; the upper two bits of a start address are lost (line 247); and the bytes of MNSC change
   places in zmq2edi on a little-endian host (`src/zmq/Sender.cpp:161`). Each of the four parts of `HeaderKept`
   is violated by itself.

Smaller differences seen while modelling, without a run: `README.md:66` calls the
late score a number "between 0 and 100", and its maximum is 200
(`src/EDISender.h:105`); `README.md:63` says that `num_dropped_frames` includes
late frames, but a frame that is late when it is pushed is not counted there
(`src/EDISender.cpp:138`), nor are the frames that `inhibit()` removes; a jump
directly after a discontinuity is not counted (`src/EDISender.cpp:316`), which is
why `JumpsAccounted` excepts it; `backoff_milliseconds_remaining()` subtracts the later time from
the earlier (`src/EDISender.cpp:197`), so that the statistics never say `in_backoff`.

The same from the modules behind `inputs` and `outputs`:

* PFT. `rxmin` rounds so that decoding is tried with more fragments missing than the
  code can bear; a chunk then has more than 48 erasures and overruns the arrays of
  libfec (`lib/edi/PFT.cpp:388`). The test that skips the last, shorter
  fragment compares the count of fragments instead of the index (`lib/edi/PFT.cpp:290`)
  and never holds. A fragment of the past makes `m_next_pseq` go back. While no fragment of the next Pseq has come,
  the decoder drops all builders as soon as it has more than `m_max_delay` (`lib/edi/PFT.cpp:559`); ten of them are
  of packets already delivered and ten is the limit, so that one fragment of a later packet is enough to
  abandon the missing one, and the later packet goes with it, where `lib/edi/PFT.hpp:157` speaks of a delay
  in number of AF packets.
  Two fragments due at the same time have the same key in the map of pending
  fragments, and the later one replaces the earlier.
* ETI. The upper byte of TIST is lost between zmq2edi and edi2edi, since TSTA has 24 bits.
* Frames. `Ignoring unknown TAG` ignores all TAGs that follow as well; if deti is among them,
  the missing field ends edi2edi. Complete packets behind a refused one wait for more bytes
  and are lost if the connection ends. Merging mode with a ZeroMQ output ends with
  "Unexpected frame phase" as soon as two inputs deliver.
* zmq2edi resets after ten timeouts in total, where its usage says ten seconds without data;
  an invalid frame shifts the metadata of those after it; the ZeroMQ message of edi2edi has no
  metadata, so that zmq2edi cannot read it. It drops a last destination without
  address where edi2edi throws.
* `TCPSendClient` never closes the socket it replaces. A lost BBFrame joins the fragments of
  two PDUs with the same id; only the CRC of the AF packet finds out. `-i 0` leaves edi2edi at the
  default spreading.

## 4. Proofs

`EDISender_proofs` proves, for every set of frames, delays, backoffs, queue limit,
counter modulus and bound that satisfies `ConstantsAssumption`:

* `TypeCorrect`: `TypeOK`, which every other proof uses;
* `PendingIsOrdered`, `QueueIsBounded`: the critical sections of the push and of
  the process thread preserve the order; the insertion lemma says where
  `SearchEnds` puts a frame and that the list stays sorted;
* `BackoffIsQuiet`: with `TypeOK` the property is inductive, since it promises
  nothing between `InhibitUntil` and `InhibitClear` and a push adds to the queue only when
  `Inhibited` is false at that moment;
* `OutputIsInOrder`: not inductive alone. `OrderInv` relates three places, the
  last frame written, the frame in the hands of the process thread, and the queue,
  each strictly ahead of the one before (`HoldingInv`, `FrontierInv`), and the
  argument of the push (`ArgInv`). It needs `InvalidIsLate`, because an
  invalid `mostRecent` switches the duplicate check off (a frame with a
  seconds field and `TSTA = 0xFFFFFF` is the case that the hypothesis excludes);
* `JumpsAreAccounted`: `JumpInv` follows the chain from the last frame
  written over `prevDlfc` and the history `excused` to the current frame.

`EDISender_proofs` also proves `BufferIsImplemented`: `Spec` implements `OutputBuffer`.
Under the mapping the list becomes a set, so the lemmas are about the set of
an ordered list: its cardinality is its length, its head is its oldest frame, and
an insertion adds one member. Then `Pop` is `Take`; an insertion is `Accept`,
with an overrun `AcceptFull`; `InhibitClear` is `Discard`; the four ways in which a
frame is given up, and a write with the output disabled, are `Drop`; a write is `Emit`;
every other step leaves the buffer alone. The abstract specification has no fairness,
so this is the whole refinement.

`MCOutputs_proofs` proves the three outputs in one module, and `PartsAreIndependent`: the
composition implements the specification of each part, so that their theorems hold of the
composition. From it, `TypeCorrect` is `TypeOK` of the whole.

The server, for every set of clients, queue limit, preroll,
length of the buffers and number of writes (`DispatcherAssumption`):

* `ServerTypeCorrect`, with `ServerTypeInv`: the connection being destroyed is not among those
  still to be looked at, an accepted client is new, and the preroll is
  what was written last;
* `StreamsAreUnbroken`, `NothingIsMissing`: neither is inductive alone. `StreamInv`
  says of a client that is served that it is in the list and not being destroyed,
  that the buffer being sent and then the queue continue what it has received,
  number by number, and that they end with the last buffer written. `Write`
  extends such a run, `Take` moves its head, `AddEnd` starts one with the preroll,
  and everything that could break it ends the service for good. What a thread inside
  `::send()` is sending is the next buffer of its client (`Blocked`), also when its connection is being
  destroyed;
* `OverflowIsDisconnected`: `QueueInv` holds for the connections `remove_if` has
  already looked at, and for new ones.

The client, for every limit, number of descriptors, buffers and
breaks (`ClientAssumption`): `ClientTypeCorrect` and `StreamIsKept`. `OrderInv` puts what
was sent, the buffer in hand and the queue in one order, `AccountInv` says where
each buffer is, `LossInv` that a break not yet noticed will cost at most one, and
`LimitInv` that the queue is one too long only inside `sendall()`.

The converter, for every number of frames per message, counter, limit
and bound (`ConverterAssumption`): `ConverterTypeCorrect` and `FramesAreInStep`. `ConverterLine` is
everything from the sender's hand over the queue to the message, oldest first; `InStep` says
that neighbours in it follow each other, and `EndInv` that it ends with the end of a
message and with the frame whose counter the next one is compared with.

`InputSelect_proofs`, for every set of inputs, delays, scores and number of requests
(`InputConstantsAssumption`): `TypeCorrect`, `AtMostOneActive`, `PolledAreSelected`,
`DecodersHaveSockets`. The properties hold at different places of the loop, so the invariant
says what is true from one place to the next: what `poll()` reported is consumed
before the loop goes on and its sockets stay open until then (`ReportInv`), the active
inputs are enabled from the choice to the next request (`SelectedInv`), and sockets
belong to active inputs from `tick()` on (`SocketInv`).

`FrameDecoder_proofs`, for every set of inputs and packets, number of phases
and bound (`FrameAssumption`): `PhasesAreKept` needs that the message under construction
has as many frames as the phase expected (`PhaseInv`). `PacketsAreKept` needs to know
how the buffer and the rest of the stream fit together: the two pieces of a packet are
neighbours (`Paired`) or on both sides of the cut (`Joined`), and a tail without its
head belongs to a packet already judged (`HeadJudged`).

`FramesAreExact` needs `FieldInv`: between two packets the fields of a `Receiver` hold nothing but
what packets refused for a TAG since the last frame have put there, which is what `spoiled`
records; without any they are as `assemble()` left them. It says nothing about frames after such a packet beyond
this: that they can hold its subchannels is finding 7. The loop over the TAGs is a recursive function; `LoopExists` builds it
from `Recursion` of `NumberFacts`, and `DecodeFacts` follows it one TAG at a time
(`OneTag`) by `Induction`. `TypeCorrect` comes with it.

`MulticastInput_proofs`, for every multiplex of sections and PDUs, size of packets and number of losses
(`McastAssumption`): `TypeCorrect`; `NothingIsForged`, because what is
handed out ends, in the order of the stream, before the place up to which it was read, in each of the three modes
(`MpeInv`, `GseInv`, `UdpInv`), so that nothing is handed out twice and only the CRC has
to tell whole packets from others; and `LossIsBounded`, where `LossInv` follows a section through the
losses: the section buffer holds the beginning of one section, the one the
continuity counter fits (`Partial`); of the section that the stream is in the middle of, all that was sent is there
unless a loss touched it (`Pending`); and those before were handed out, again unless a loss touched
them (`Complete`). It holds while fewer than
`CcMod` packets (16) are lost in a row, since after `CcMod` the counter fits again.

`EDILink_proofs`, for every range of Pseq, number of fragments, delay, spreading and
bound (`FragmentAssumption`, `DecoderAssumption`, `KeepAssumption`, `TransportAssumption`), on a network that
loses, damages, repeats and reorders:

* `TypeCorrect`; `PacketsAreIntact`, because all that is
  pending, in flight or in a builder are fragments of packets that were written;
* `PseqIsAbandoned`, because the calls a Pseq has been tried for and the life its builder
  has left are together at most the longest life (`WaitInv`). The proof showed that an
  earlier form of `AbandonsInTime`, which bounded the number of builders in every state, holds
  only for small ranges of Pseq; it now bounds them after each call that finds no
  builder. That a long packet has no fewer fragments than a short one is assumed;
* `OrderIsKept`: `OrderInv` gives every packet a number that does not wrap round
  (`Numbered`), of which Pseq is the remainder, and says that the decoder waits for a number above that of the
  packet delivered last, and that of the builders within `PseqMod - Keep` of it each holds fragments
  of the packet of exactly its number (`InStep`). The others are of the past and are dropped
  one by one as the decoder goes on, before it can reach their Pseq again. When the decoder
  clears its builders and starts anew with the next fragment, that fragment must be of a packet after the one
  delivered last. `KeepAssumption` gives this: the builders it keeps of the past are
  not enough to make it clear them, so it has seen a newer packet (`OneAhead`);
* `NothingIsLost`: `LosslessInv` describes the link as one line of fragments. The decoder is ready
  for fragment c with the ones before it in its builder (`Ready`), the network holds the
  fragments from c to e in their order (`InLine`), and the map those from e to the end of
  the packet (`Pending`). Each step moves c or e on by one fragment.

Looking for these two invariants showed that the properties first stated held only because of
the bounds of the run: Pseq never came round while the decoder lacked packets, and spreading never
interleaved two packets. With larger bounds TLC found both cases; `OrderKept` and
`LosslessDelivery` now say what holds, `NoneGivenUp` covers packets that interleave, and the run has bounds that reach the cases.

`Options_proofs`, for every set of options and every number of them
(`OptionsAssumption`): `TypeCorrect` and `DestinationsAreGrouped`. The property compares
neighbours; the invariant compares any two destinations (`Sorted`), says that every option is in
one (`Covers`), that the flags are those of the destination under construction (`FlagInv`),
and that it is not empty between the first option and the end (`StageInv`).

Where a proof needs an induction over numbers it takes the least counterexample instead:
`Minimum` in `NumberFacts` gives every nonempty set of natural numbers a least element, from the
well-foundedness of inclusion between finite sets. It serves for the first input that
qualifies, for the k-th valid frame of a message and for the k-th pending fragment, and
`Induction` and `Recursion` rest on it. Sequence numbers and continuity counters need the lemmas on
remainders at its end.

Only model-checked:

* liveness (`FramesLeaveQueue`, `StopCompletes`, `FailOver`, `AllMerged`, `SignalStops` and
  the temporal properties of `outputs`), which rests on fairness;
* `FecCorrects`: that the decoder of libfec corrects what the distance of the code allows is algebra over a
  finite field, whose symbols are added with the exclusive or of `Bitwise`, a
  recursive operator that the provers cannot use;
* `NoneGivenUp`: with packets that overlap the link is no longer one line of fragments, and the
  argument would have to count, for each builder, what is still to come of its packet;
* `FrameSurvives`, which follows the bytes of a frame through four layouts with their lengths: what its recursive
  functions compute for every input is an induction over data;
* `TypeOK` of `MCInputs`, since its module contains the last two; `TypeCorrect` of `EDILink_proofs`,
  `FrameDecoder_proofs`, `MulticastInput_proofs` and `Options_proofs` are its other parts.

## 5. Plan

Done: all modules, and a proof of every invariant but the four above, with the refinement of
`OutputBuffer`.

What would come next:

1. A proof of `NoneGivenUp`, from an invariant with one line of fragments per packet in place
   of the one of `LosslessInv`.
2. A theorem of `PFTCoding` about the places of chunks in fragments, apart from the code itself.

### Not modelled

* The ZeroMQ binding (`lib/zmq.hpp`, `src/zmq/zmq.hpp`, a quarter of the lines of the
  repository) and libfec's generic variants: third-party code. The
  part of libfec that PFT uses is `ReedSolomon`.
* Logging, usage texts, the answers of remote control, statistics and their
  datagram: text that nothing else depends on. Logging is one more user of a queue that a thread drains.
* Code that no program uses: `TCPReceiveServer`, `TCPClient`, `push_overflow` and
  `push_wait_if_full`, crc8 and crc32, the TAGs for DSTI, streams and ODR, arithmetic on
  `frame_timestamp_t`.
* Socket wrappers (address resolution, multicast options, keepalive): they are what their
  calls return. PF packets on a TCP connection, a damaged length field of an AF
  packet, a damaged header of a fragment without FEC, a synchronisation byte inside a BBFrame and duplicated TS packets are left out
  of the modules that would meet them.
* The Python client and the build system.
