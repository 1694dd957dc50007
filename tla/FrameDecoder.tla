---------------------------- MODULE FrameDecoder ----------------------------
(***************************************************************************)
(* The frame path of edi2edi: the bytes of each TCP input go through       *)
(* TagDispatcher::push_bytes (lib/edi/common.cpp) and ETIDecoder, whose    *)
(* TAG handlers fill the fields of the Receiver; a complete AF packet is   *)
(* assembled into an ETI frame, and the frames of all inputs go into the   *)
(* ZeroMQ messages of one ETI2ZMQ.                                         *)
(*                                                                         *)
(* An AF packet is two pieces of stream: the header with the TAGs, and     *)
(* the CRC.  It is its number on its input, which is also its DLFC, its    *)
(* TAGs, and whether it has a CRC that holds.                              *)
(***************************************************************************)
EXTENDS Integers, Sequences, FiniteSets

CONSTANTS
  Inputs,         \* the sources
  FrameTags,      \* the TAGs of an AF packet that carries a frame
  OddTags,        \* other sequences of TAGs, to be refused, thrown at or cut short
  Phases,         \* NUM_FRAMES_PER_ZMQ_MESSAGE (4)
  MaxSubchannels, \* 64
  MaxPackets,     \* bound: AF packets per input
  MaxOdd,         \* bound: AF packets that are not intact with FrameTags
  MaxChunk,       \* bound: pieces one recv() returns
  MaxDisconnects  \* bound: connections that end

(* The TAGs a handler tells apart; every other name is unknown.            *)
TagNames == {"*ptr", "*ptr too long", "*ptr other", "deti", "deti no fic", "est", "*dmy", "unknown"}

ASSUME FrameAssumption ==
  /\ IsFiniteSet(Inputs) /\ {FrameTags} \cup OddTags \subseteq Seq(TagNames)
  /\ Phases \in Nat \ {0} /\ MaxSubchannels \in Nat
  /\ MaxPackets \in Nat /\ MaxOdd \in Nat /\ MaxChunk \in Nat /\ MaxDisconnects \in Nat

VARIABLES
  upstream,      \* per input: number of the next AF packet, rest of the one begun
  m_input_data,  \* per input: the bytes its decoder holds
  fields,        \* per input: what the TAG handlers stored in the Receiver
  decoding,      \* the input whose push_bytes() runs, or NoInput
  m_expected_next_fp,
  zmq_message,   \* the frames of the message that is being filled
  published,     \* the message last sent
  ended,         \* an exception has ended the main loop
  assembled,     \* history, per input: the frame last assembled
  arrived,       \* history, per input: packets received whole on one connection
  decoded,       \* history, per input: packets decode_afpacket() has judged
  spoiled,       \* history, per input: packets refused for a TAG since the last frame
  odd,           \* history: AF packets begun that are not plain frames
  disconnects    \* history: connections that ended

decoderHistory == <<assembled, arrived, decoded, spoiled, odd, disconnects>>
zmqVars == <<m_expected_next_fp, zmq_message, published>>
decoderVars == <<upstream, m_input_data, fields, decoding, ended, zmqVars, decoderHistory>>

NoInput == "none"
NoPacket == 0
Numbers == 1 .. MaxPackets
Plain == [kind |-> "good", tags |-> FrameTags]
Odd == [kind : {"damaged", "no_crc"}, tags : {FrameTags}] \cup [kind : {"good"}, tags : OddTags]
Pieces(pk) == << <<pk, "tags">>, <<pk, "crc">> >>

(* The fields as assemble() leaves them.  The fc, the fic and each         *)
(* subchannel are the number of the AF packet they came from.              *)
Cleared == [proto |-> FALSE, fc |-> NoPacket, fic |-> NoPacket, subchannels |-> <<>>]
NoFrame == [n |-> NoPacket, tags |-> <<>>, f |-> Cleared, left |-> {}]

DecoderInit ==
  /\ upstream = [i \in Inputs |-> [n |-> 1, rest |-> <<>>]]
  /\ m_input_data = [i \in Inputs |-> <<>>]
  /\ fields = [i \in Inputs |-> Cleared]
  /\ decoding = NoInput
  /\ m_expected_next_fp = 0 /\ zmq_message = <<>> /\ published = <<>>
  /\ ended = FALSE
  /\ assembled = [i \in Inputs |-> NoFrame]
  /\ arrived = [i \in Inputs |-> {}] /\ decoded = [i \in Inputs |-> {}]
  /\ spoiled = [i \in Inputs |-> {}] /\ odd = 0 /\ disconnects = 0

-----------------------------------------------------------------------------
(* The TAG handlers of ETIDecoder with the update functions of the Receiver: *)
(* r.st says how decode_tagpacket() goes on after the TAG.                 *)

Starptr(r, tag) ==
  CASE tag = "*ptr"          -> [r EXCEPT !.f.proto = TRUE]
    [] tag = "*ptr too long" -> [r EXCEPT !.st = "error"]
    [] tag = "*ptr other"    -> [r EXCEPT !.f.proto = FALSE, !.st = "throw"]

Deti(r, tag, n) ==
  IF ~r.f.proto THEN [r EXCEPT !.st = "throw"]
  ELSE IF tag = "deti no fic" THEN [r EXCEPT !.f.fc = NoPacket, !.st = "throw"]
  ELSE [r EXCEPT !.f.fic = n, !.f.fc = n]

Estn(r, n) ==
  IF ~r.f.proto THEN [r EXCEPT !.st = "throw"]
  ELSE [r EXCEPT !.f.subchannels = Append(@, n),
                 !.st = IF Len(r.f.subchannels) >= MaxSubchannels THEN "throw" ELSE "go"]

(* A TAG without handler ends the loop over the TAGs with success.         *)
HandleTag(r, tag, n) ==
  IF r.st /= "go" THEN r
  ELSE CASE tag \in {"deti", "deti no fic"} -> Deti(r, tag, n)
         [] tag = "est"                     -> Estn(r, n)
         [] tag = "*dmy"                    -> r
         [] tag = "unknown"                 -> [r EXCEPT !.st = "stop"]
         [] OTHER                           -> Starptr(r, tag)

DecodeTagpacket(f, pk) ==
  LET after[k \in 0 .. Len(pk.tags)] ==
        IF k = 0 THEN [st |-> "go", f |-> f] ELSE HandleTag(after[k - 1], pk.tags[k], pk.n)
  IN after[Len(pk.tags)]

(* assemble() throws unless protocol, fc and fic are there.                *)
Assemblable(f) == f.proto /\ f.fc /= NoPacket /\ f.fic /= NoPacket

\* Seeded fault: the subchannels of a frame are not removed.
SubchannelsKept(f) == [Cleared EXCEPT !.subchannels = f.subchannels]

AfterAssemble(f) == Cleared

-----------------------------------------------------------------------------
(* Receiver::receive(): recv() returns the next pieces of the stream, with *)
(* the end of one AF packet and the next one at once if it likes.          *)

Connected(i) == decoding = NoInput /\ ~ended

BeginPacket(i) == \E shape \in {Plain} \cup Odd :
  /\ Connected(i)
  /\ Len(upstream[i].rest) < MaxChunk /\ upstream[i].n <= MaxPackets
  /\ upstream' = [upstream EXCEPT ![i] =
       [n |-> @.n + 1, rest |-> @.rest \o Pieces([n |-> @.n, kind |-> shape.kind, tags |-> shape.tags])]]
  /\ odd' = odd + (IF shape = Plain THEN 0 ELSE 1) /\ odd' <= MaxOdd
  /\ UNCHANGED <<m_input_data, fields, decoding, ended, zmqVars, assembled, arrived,
                 decoded, spoiled, disconnects>>

TakeBytes(i) == \E k \in 1 .. MaxChunk :
  /\ Connected(i)
  /\ k <= Len(upstream[i].rest)
  /\ LET buf == SubSeq(upstream[i].rest, 1, k) IN
       /\ m_input_data' = [m_input_data EXCEPT ![i] = @ \o buf]
       /\ arrived' = [arrived EXCEPT ![i] = @ \cup {buf[j][1].n : j \in {j \in 1 .. k : buf[j][2] = "crc"}}]
  /\ upstream' = [upstream EXCEPT ![i].rest = SubSeq(@, k + 1, Len(@))]
  /\ decoding' = i
  /\ UNCHANGED <<fields, ended, zmqVars, assembled, decoded, spoiled, odd, disconnects>>

(* The connection ends: the decoder is deleted, the Receiver's fields      *)
(* stay.  A new connection begins with a whole packet; what a broken       *)
(* connection had delivered and nobody has decoded is gone.                *)
NoBytes(i) == <<>>

Disconnect(i) ==
  /\ Connected(i)
  /\ disconnects < MaxDisconnects
  /\ m_input_data' = [m_input_data EXCEPT ![i] = NoBytes(i)]
  /\ upstream' = [upstream EXCEPT ![i].rest = <<>>]
  /\ arrived' = [arrived EXCEPT ![i] = @ \cap decoded[i]]
  /\ disconnects' = disconnects + 1
  /\ UNCHANGED <<fields, decoding, ended, zmqVars, assembled, decoded, spoiled, odd>>

-----------------------------------------------------------------------------
(* The loop of push_bytes(), one packet or one unknown piece at a time.    *)

HasSync(data) == data /= <<>> /\ data[1][2] = "tags"
Complete(data) == HasSync(data) /\ Len(data) >= 2
PacketOf(data) == data[1][1]
CrcHolds(data) == PacketOf(data).kind = "good" /\ data[2] = <<PacketOf(data), "crc">>

(* decode_afpacket(): a packet without CRC counts for its header and TAGs  *)
(* only; what follows is then looked at byte by byte.                      *)
Consumed(data) == IF PacketOf(data).kind = "no_crc" THEN 1 ELSE 2

\* Seeded fault: the whole buffer goes with a refused packet.
AllRefused(data, k) == <<>>

AfterRefused(data, k) == SubSeq(data, k + 1, Len(data))

LeaveLoop ==
  /\ decoding /= NoInput
  /\ ~Complete(m_input_data[decoding])
  /\ m_input_data[decoding] = <<>> \/ HasSync(m_input_data[decoding])
  /\ decoding' = NoInput
  /\ UNCHANGED <<upstream, m_input_data, fields, ended, zmqVars, decoderHistory>>

DropByte ==
  /\ decoding /= NoInput
  /\ m_input_data[decoding] /= <<>> /\ ~HasSync(m_input_data[decoding])
  /\ m_input_data' = [m_input_data EXCEPT ![decoding] = Tail(@)]
  /\ UNCHANGED <<upstream, fields, decoding, ended, zmqVars, decoderHistory>>

Judged(i, n) ==
  decoded' = [decoded EXCEPT ![i] = @ \cup {n}]

(* The packet is refused (no CRC, wrong CRC, or a handler returned false): *)
(* it is consumed and the loop is left, whatever else the buffer holds.    *)
RefuseAF == LET i == decoding IN
  /\ i /= NoInput /\ Complete(m_input_data[i])
  /\ LET data == m_input_data[i]
         pk == PacketOf(data)
         r == DecodeTagpacket(fields[i], pk)
     IN
       /\ ~CrcHolds(data) \/ r.st = "error"
       /\ fields' = IF CrcHolds(data) THEN [fields EXCEPT ![i] = r.f] ELSE fields
       /\ m_input_data' = [m_input_data EXCEPT ![i] = AfterRefused(data, Consumed(data))]
       /\ spoiled' = [spoiled EXCEPT ![i] = IF CrcHolds(data) THEN @ \cup {pk.n} ELSE @]
       /\ Judged(i, pk.n)
  /\ decoding' = NoInput
  /\ UNCHANGED <<upstream, ended, zmqVars, assembled, arrived, odd, disconnects>>

(* ETI2ZMQ::encode_zmq_frame() with DabOutputZMQ::Write().                 *)
PhaseOf(n) == n % Phases

\* Seeded fault: the phase is not compared.
AnyPhase(n) == TRUE

InPhase(n) == PhaseOf(n) = m_expected_next_fp
Unexpected(n) == ~InPhase(n) /\ m_expected_next_fp /= 0

EncodeZmqFrame(i, n) ==
  IF InPhase(n)
    THEN LET msg == Append(zmq_message, <<i, n>>) IN
      /\ m_expected_next_fp' = (m_expected_next_fp + 1) % Phases
      /\ zmq_message' = IF Len(msg) = Phases THEN <<>> ELSE msg
      /\ published' = IF Len(msg) = Phases THEN msg ELSE published
    ELSE UNCHANGED zmqVars

AcceptsAF(i) ==
  /\ Complete(m_input_data[i]) /\ CrcHolds(m_input_data[i])
  /\ DecodeTagpacket(fields[i], PacketOf(m_input_data[i])).st \in {"go", "stop"}

(* The packet completes a frame.                                           *)
AssembleAF == LET i == decoding IN
  /\ i /= NoInput /\ AcceptsAF(i)
  /\ LET data == m_input_data[i]
         pk == PacketOf(data)
         f == DecodeTagpacket(fields[i], pk).f
     IN
       /\ Assemblable(f)
       /\ ~Unexpected(f.fc)
       /\ EncodeZmqFrame(i, f.fc)
       /\ fields' = [fields EXCEPT ![i] = AfterAssemble(f)]
       /\ assembled' = [assembled EXCEPT ![i] =
            [n |-> pk.n, tags |-> pk.tags, f |-> f, left |-> spoiled[i]]]
       /\ m_input_data' = [m_input_data EXCEPT ![i] = SubSeq(@, 3, Len(@))]
       /\ spoiled' = [spoiled EXCEPT ![i] = {}]
       /\ Judged(i, pk.n)
  /\ UNCHANGED <<upstream, decoding, ended, arrived, odd, disconnects>>

(* A handler, assemble() or the phase check throws: the program ends.      *)
ThrowAF == LET i == decoding IN
  /\ i /= NoInput /\ Complete(m_input_data[i]) /\ CrcHolds(m_input_data[i])
  /\ LET r == DecodeTagpacket(fields[i], PacketOf(m_input_data[i])) IN
       /\ \/ r.st = "throw"
          \/ AcceptsAF(i) /\ (Assemblable(r.f) => Unexpected(r.f.fc))
       /\ fields' = [fields EXCEPT ![i] = r.f]
  /\ ended' = TRUE /\ decoding' = NoInput
  /\ UNCHANGED <<upstream, m_input_data, zmqVars, decoderHistory>>

DecoderNext ==
  \/ \E i \in Inputs : BeginPacket(i) \/ TakeBytes(i) \/ Disconnect(i)
  \/ LeaveLoop \/ DropByte \/ RefuseAF \/ AssembleAF \/ ThrowAF

DecoderSpec == DecoderInit /\ [][DecoderNext]_decoderVars

-----------------------------------------------------------------------------
DecoderTypeOK ==
  /\ \A i \in Inputs : /\ upstream[i].n \in 1 .. MaxPackets + 1
                       /\ Len(upstream[i].rest) <= MaxChunk + 1
                       /\ fields[i].proto \in BOOLEAN
                       /\ {fields[i].fc, fields[i].fic} \subseteq Numbers \cup {NoPacket}
                       /\ Len(fields[i].subchannels) <= MaxSubchannels + 1
                       /\ arrived[i] \cup decoded[i] \cup spoiled[i] \subseteq Numbers
  /\ decoding \in Inputs \cup {NoInput} /\ ended \in BOOLEAN
  /\ m_expected_next_fp \in 0 .. Phases - 1 /\ disconnects \in 0 .. MaxDisconnects
  /\ odd \in 0 .. MaxOdd

(* Each ZeroMQ message published is one frame of every phase, in order, so *)
(* that the receiver never breaks the phase of the transmission frame      *)
(* (src/zmq/dabOutputZMQ.h:42-44), whichever inputs the frames came from   *)
(* and whatever was refused or ignored in between.                         *)
MessagePhases ==
  /\ published = <<>> \/ [k \in 1 .. Len(published) |-> PhaseOf(published[k][2])] = [k \in 1 .. Phases |-> k - 1]
  /\ Len(zmq_message) = m_expected_next_fp

(* The TAGs of a packet that are looked at.                                *)
Known(tags) == {k \in 1 .. Len(tags) : \A j \in 1 .. k : tags[j] /= "unknown"}
EstTags(tags) == Cardinality({k \in Known(tags) : tags[k] = "est"})
HasDeti(tags) == \E k \in Known(tags) : tags[k] = "deti"

(* Frame a consists of the packet that completed it: the fc and the FIC    *)
(* are the packet's if it has any, and the subchannels end with all those  *)
(* of the packet, up to the first unknown TAG.  What else is in it is from *)
(* a packet of the set left.                                               *)
Consists(a, left) ==
  LET subs == a.f.subchannels
      old  == Len(subs) - EstTags(a.tags)
  IN  /\ {a.f.fc, a.f.fic} \subseteq IF HasDeti(a.tags) THEN {a.n} ELSE left \cup {a.n}
      /\ old >= 0
      /\ \A k \in 1 .. Len(subs) : IF k > old THEN subs[k] = a.n ELSE subs[k] \in left

(* Receiver::assemble() leaves nothing behind: of earlier packets, only    *)
(* those refused for one of their TAGs since the last frame have left      *)
(* anything in a frame, in front of its own subchannels and in place of    *)
(* what its packet does not have.  With none refused the frame is exactly  *)
(* its packet, also when connections broke or packets were damaged in      *)
(* between (receiver.cpp:323-327).                                         *)
FrameExact == \A i \in Inputs :
  assembled[i].n /= NoPacket => Consists(assembled[i], assembled[i].left)

(* "Tell the ETIWriter that the AFPacket is complete" (receiver.h:106):    *)
(* a frame is the AF packet that is complete, and nothing of another one.  *)
FrameOwn == \A i \in Inputs :
  assembled[i].n /= NoPacket => Consists(assembled[i], {})

(* Every AF packet that arrived whole on its connection has been decoded   *)
(* or refused, or is still whole in the decoder's buffer: a packet that    *)
(* was refused, one without CRC and one cut off by the end of the          *)
(* connection do not take the packets behind them along.                   *)
NoPacketLost == \A i \in Inputs : \A n \in arrived[i] \ decoded[i] :
  LET data == m_input_data[i] IN
    \E k \in 1 .. Len(data) - 1 :
      data[k][1].n = n /\ data[k][2] = "tags" /\ data[k + 1] = <<data[k][1], "crc">>
=============================================================================
