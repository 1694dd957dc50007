------------------------------ MODULE ETICodec ------------------------------
(***************************************************************************)
(* An ETI frame on its way through both programs: out of a ZeroMQ message  *)
(* of the multiplexer, converted to the TAGs of an AF packet by zmq2edi    *)
(* (src/zmq/Sender.cpp, lib/edioutput), decoded by edi2edi (lib/edi), and  *)
(* assembled to an ETI frame for its ZeroMQ output (src/receiver.cpp).     *)
(*                                                                         *)
(* Frames and packets are sequences of bytes, of the real lengths.  The    *)
(* checksums are left 0 in both (PFTCoding has them), and so is the        *)
(* padding of an ETI frame to 6144 bytes left out.                         *)
(***************************************************************************)
EXTENDS Integers, Sequences

CONSTANTS
  SourceFrames,   \* the frames of the multiplexer, records like SourceFrame
  Alignments      \* values of the option for the alignment of TAG packets

VARIABLES
  original,    \* the frame that is looked at
  alignment,   \* edi_conf.tagpacket_alignment
  stage,       \* "published", "received", "sent", "decoded" or "assembled"
  metadata,    \* the metadata of the ZeroMQ message, then of frame_t
  eti,         \* the ETI frame of the message
  t_frame,     \* the time of the frame for zmq2edi: seconds and ms
  af_packet,   \* the AF packet between the programs
  tags,        \* what the TAG handlers have stored
  frame_out    \* the ETI frame that edi2edi publishes

codecVars == <<original, alignment, stage, metadata, eti, t_frame, af_packet, tags, frame_out>>

-----------------------------------------------------------------------------
(* Bytes.  push_back of a shifted value, read_16b, read_24b, read_32b.     *)

Bytes(v, n) == [i \in 1 .. n |-> (v \div 256 ^ (n - i)) % 256]
Slice(b, at, n) == SubSeq(b, at + 1, at + n)
Read(b, at, n) ==
  LET v[i \in 0 .. n] == IF i = 0 THEN 0 ELSE 256 * v[i - 1] + b[at + i] IN v[n]

\* op(1) \o ... \o op(n)
Joined(op(_), n) == LET j[i \in 0 .. n] == IF i = 0 THEN <<>> ELSE j[i - 1] \o op(i) IN j[n]

FicLen(mid) == IF mid = 3 THEN 32 * 4 ELSE 24 * 4
Fct(dlfc) == dlfc % 250

-----------------------------------------------------------------------------
(* The frame of the multiplexer in the layout of ETI(NI), lib/edi/eti.hpp. *)

MstSize(streams) ==
  LET size[i \in 0 .. Len(streams)] == IF i = 0 THEN 0 ELSE size[i - 1] + 8 * streams[i].stl
  IN  size[Len(streams)]

FSYNC(fct) == IF fct % 2 = 1 THEN <<248, 197, 73>> ELSE <<7, 58, 182>>

Layout(f, fl) ==
  LET s == f.streams
      Stc(i) == <<4 * s[i].scid + s[i].sad \div 256, s[i].sad % 256,
                  4 * s[i].tpl + s[i].stl \div 256, s[i].stl % 256>>
      Mst(i) == [k \in 1 .. 8 * s[i].stl |-> (i + k) % 256]
  IN  <<f.err>> \o FSYNC(Fct(f.dlfc))
      \o <<Fct(f.dlfc), 128 + Len(s), 32 * f.fp + 8 * f.mid + fl \div 256, fl % 256>>
      \o Joined(Stc, Len(s)) \o f.mnsc \o <<0, 0>>
      \o [k \in 1 .. FicLen(f.mid) |-> k] \o Joined(Mst, Len(s))
      \o <<0, 0>> \o <<255, 255>> \o f.tist

\* FL counts words of four bytes (EN 300 799).
Words(f) == Len(f.streams) + 1 + (FicLen(f.mid) + MstSize(f.streams)) \div 4

-----------------------------------------------------------------------------
(* Metadata: written by metadata.cpp, read by get_md_one_frame.            *)

SeparationMarker == 0
UtcOffset == 1
EdiTime == 2
Dlfc == 3

WriteMeta(id, len, value) == <<id>> \o Bytes(len, 2) \o Bytes(value, len)
WriteMetadata(f) ==
  WriteMeta(UtcOffset, 2, f.utco) \o WriteMeta(EdiTime, 4, f.seconds)
    \o WriteMeta(Dlfc, 2, f.dlfc) \o WriteMeta(SeparationMarker, 0, 0)

\* The size of a field follows from its id, the length field is not used.
FieldSize(id) == IF id = EdiTime THEN 4 ELSE 2
ReadMetadata(buf) ==
  LET md[at \in 0 .. Len(buf)] ==
        IF buf[at + 1] = SeparationMarker THEN [i \in {} |-> 0]
        ELSE LET id == buf[at + 1]
                 n  == FieldSize(id)
                 rest == md[at + 3 + n]
             IN  [i \in DOMAIN rest \cup {id} |->
                    IF i = id THEN Read(buf, at + 3, n) ELSE rest[i]]
  IN  md[0]

-----------------------------------------------------------------------------
(* Sender::send_eti_frame.                                                 *)

Nst(p) == Read(p, 5, 1) % 128
Fp(p) == Read(p, 6, 1) \div 32
Mid(p) == (Read(p, 6, 1) \div 8) % 4
StlOf(p, i) == (Read(p, 10 + 4 * i, 1) % 4) * 256 + Read(p, 11 + 4 * i, 1)

\* Seeded fault: the lengths of the streams are added up in words of 8 bytes.
MstAtInWords(p, i) ==
  LET at[k \in 0 .. i] == IF k = 0 THEN 12 + 4 * Nst(p) + FicLen(Mid(p))
                          ELSE at[k - 1] + StlOf(p, k - 1)
  IN  at[i]

\* The beginning of the data of stream i, counted from 0.
MstAt(p, i) ==
  LET at[k \in 0 .. i] == IF k = 0 THEN 12 + 4 * Nst(p) + FicLen(Mid(p))
                          ELSE at[k - 1] + 8 * StlOf(p, k - 1)
  IN  at[i]
TistAt(p) == MstAt(p, Nst(p)) + 4

\* lrint(a / b): to the nearest integer, halves to the even one.
Round(a, b) ==
  LET q == a \div b
      r == a % b
  IN  IF 2 * r > b \/ (2 * r = b /\ q % 2 = 1) THEN q + 1 ELSE q

PosixJan2000 == 946684800

FrameTime(md, p) ==
  [s  |-> PosixJan2000 + md[EdiTime] - md[UtcOffset],
   ms |-> Round(Read(p, TistAt(p) + 1, 3), 16384)]

-----------------------------------------------------------------------------
(* TAG items, TAG packet and AF packet.                                    *)

Tag(name, value) == name \o Bytes(8 * Len(value), 4) \o value

PtrName  == <<42, 112, 116, 114>>
DmyName  == <<42, 100, 109, 121>>
DetiName == <<100, 101, 116, 105>>
EstName  == <<101, 115, 116>>
DETI     == <<68, 69, 84, 73>>

TagStarPTR == Tag(PtrName, DETI \o <<0, 0>> \o <<0, 0>>)

Fcth(dlfc) == dlfc \div 250

\* rfa, rfu and rfudf are 0, atstf and ficf are 1.
TagDETI(md, p) ==
  LET nst  == Nst(p)
      mnsc == Slice(p, 8 + 4 * nst, 2)
  IN  Tag(DetiName,
        <<128 + 64 + Fcth(md[Dlfc]), Fct(md[Dlfc])>>
        \o <<p[1], 64 * Mid(p) + 8 * Fp(p)>>
        \o <<mnsc[2], mnsc[1]>>                         \* memcpy of a host integer
        \o <<md[UtcOffset] % 256>> \o Bytes(md[EdiTime], 4) \o Slice(p, TistAt(p) + 1, 3)
        \o Slice(p, 12 + 4 * nst, FicLen(Mid(p))))

\* scid, sad, tpl and rfa are 6, 10, 6 and 2 bits; the data follows.
TagESTn(p, i) ==
  LET scid == Read(p, 8 + 4 * i, 1) \div 4
      sad  == (Read(p, 8 + 4 * i, 1) % 4) * 256 + Read(p, 9 + 4 * i, 1)
      tpl  == Read(p, 10 + 4 * i, 1) \div 4
  IN  Tag(Append(EstName, i + 1),
          Bytes(scid * 2 ^ 18 + sad * 2 ^ 8 + tpl * 2 ^ 2, 3)
          \o Slice(p, MstAt(p, i), 8 * StlOf(p, i)))

Padding(items, align) ==
  CASE align = 8 -> [k \in 1 .. (-Len(items)) % 8 |-> 0]
    [] align > 8 -> Tag(DmyName, [k \in 1 .. align - 8 |-> 0])
    [] OTHER     -> <<>>

TagPacket(md, p, align) ==
  LET Est(i) == TagESTn(p, i - 1)
      items  == TagStarPTR \o TagDETI(md, p) \o Joined(Est, Nst(p))
  IN  items \o Padding(items, align)

\* The sequence number counts the packets of a sender; for one packet any will do.
AFPacket(payload, seq) ==
  <<65, 70>> \o Bytes(Len(payload), 4) \o Bytes(seq, 2) \o <<128 + 16, 84>> \o payload \o <<0, 0>>

-----------------------------------------------------------------------------
(* decode_afpacket and decode_tagpacket, then the handlers.                *)

Payload(af) == Slice(af, 10, Read(af, 2, 4))

TagsOf(payload) ==
  LET from[at \in 0 .. Len(payload)] ==
        LET bits == Read(payload, at + 4, 4)
            next == at + 8 + bits \div 8
        IN  IF ~(at + 8 < Len(payload)) THEN <<>>
            ELSE IF bits % 8 # 0 \/ next > Len(payload) THEN <<>>
            ELSE <<[name |-> Slice(payload, at, 4), value |-> Slice(payload, at + 8, bits \div 8)]>>
                 \o from[next]
  IN  from[0]

DecodeDeti(v) ==
  [dlfc |-> (v[1] % 32) * 250 + v[2], err |-> v[3],
   mid |-> v[4] \div 64, fp |-> (v[4] \div 8) % 8, mnsc |-> Read(v, 4, 2),
   utco |-> v[7], seconds |-> Read(v, 7, 4), tsta |-> Read(v, 11, 3),
   fic |-> Slice(v, 14, FicLen(v[4] \div 64))]

DetiLength(v) == 2 + 4 + (1 + 4 + 3) + FicLen(v[4] \div 64)

DecodeEstn(v) ==
  LET sstc == Read(v, 0, 3)
  IN  [scid |-> (sstc \div 2 ^ 18) % 64, sad |-> (sstc \div 2 ^ 8) % 1024,
       tpl |-> (sstc \div 4) % 64, mst |-> Slice(v, 3, Len(v) - 3)]

DecodeTags(af) ==
  LET all == TagsOf(Payload(af))
      IsDeti(t) == t.name = DetiName
      IsEst(t) == SubSeq(t.name, 1, 3) = EstName
      ests == SelectSeq(all, IsEst)
  IN  [fc |-> DecodeDeti(SelectSeq(all, IsDeti)[1].value),
       subchannels |-> [i \in 1 .. Len(ests) |-> DecodeEstn(ests[i].value)]]

\* decode_deti throws unless the lengths agree.
WellFormed(af) ==
  \A i \in 1 .. Len(TagsOf(Payload(af))) : LET t == TagsOf(Payload(af))[i]
    IN  t.name = DetiName => Len(t.value) = DetiLength(t.value)

ToUnixEpoch(fc) == PosixJan2000 + fc.seconds - fc.utco

\* frame_timestamp_t::to_system_clock, seconds and microseconds.
ToSystemClock(fc) ==
  [s |-> ToUnixEpoch(fc), us |-> Round(fc.tsta * 125, 2048)]

-----------------------------------------------------------------------------
(* Receiver::assemble.                                                     *)

SumOfMst(subs) ==
  LET sum[i \in 0 .. Len(subs)] == IF i = 0 THEN 0 ELSE sum[i - 1] + Len(subs[i].mst)
  IN  sum[Len(subs)]
FL(t) == Len(t.subchannels) + 1 + Len(t.fc.fic) + SumOfMst(t.subchannels)

\* A bitwise or of two bytes.
OrByte(a, b) ==
  LET or[k \in 0 .. 8] ==
        IF k = 0 THEN 0
        ELSE or[k - 1] + (IF (a \div 2 ^ (k - 1)) % 2 = 1 \/ (b \div 2 ^ (k - 1)) % 2 = 1
                          THEN 2 ^ (k - 1) ELSE 0)
  IN  or[8]

\* The bits of SAD & 0x300 are beyond the byte they are put into.
StcBytes(c) ==
  LET stl == Len(c.mst) \div 8
  IN  <<(4 * c.scid) % 256, c.sad % 256, 4 * c.tpl + ((stl \div 256) % 4), stl % 256>>

EtiOf(t) ==
  LET fc == t.fc
      Stc(i) == StcBytes(t.subchannels[i])
      Mst(i) == t.subchannels[i].mst
      n == Len(t.subchannels)
  IN  <<fc.err>> \o FSYNC(Fct(fc.dlfc))
      \o <<Fct(fc.dlfc), 128 + n, OrByte(32 * fc.fp + 8 * fc.mid, FL(t) \div 256), FL(t) % 256>>
      \o Joined(Stc, n) \o Bytes(fc.mnsc, 2) \o <<0, 0>>
      \o fc.fic \o Joined(Mst, n) \o <<0, 0>> \o <<255, 255>> \o Bytes(fc.tsta, 4)

-----------------------------------------------------------------------------
CodecInit ==
  /\ original \in SourceFrames /\ alignment \in Alignments
  /\ stage = "published"
  /\ eti = Layout(original, Words(original)) /\ metadata = WriteMetadata(original)
  /\ t_frame = [s |-> 0, ms |-> 0] /\ af_packet = <<>> /\ tags = <<>> /\ frame_out = <<>>

ReceiveMessage ==
  /\ stage = "published"
  /\ metadata' = ReadMetadata(metadata)
  /\ stage' = "received"
  /\ UNCHANGED <<original, alignment, eti, t_frame, af_packet, tags, frame_out>>

SendFrame ==
  /\ stage = "received"
  /\ t_frame' = FrameTime(metadata, eti)
  /\ af_packet' = AFPacket(TagPacket(metadata, eti, alignment), original.dlfc)
  /\ stage' = "sent"
  /\ UNCHANGED <<original, alignment, metadata, eti, tags, frame_out>>

DecodeFrame ==
  /\ stage = "sent"
  /\ WellFormed(af_packet)
  /\ tags' = DecodeTags(af_packet)
  /\ stage' = "decoded"
  /\ UNCHANGED <<original, alignment, metadata, eti, t_frame, af_packet, frame_out>>

AssembleFrame ==
  /\ stage = "decoded"
  /\ frame_out' = EtiOf(tags)
  /\ stage' = "assembled"
  /\ UNCHANGED <<original, alignment, metadata, eti, t_frame, af_packet, tags>>

CodecNext == ReceiveMessage \/ SendFrame \/ DecodeFrame \/ AssembleFrame

-----------------------------------------------------------------------------
IsBytes(b) == \A i \in DOMAIN b : b[i] \in 0 .. 255

\* Type invariant of the codec: what goes through it is bytes at every stage.
CodecTypeOK ==
  /\ stage \in {"published", "received", "sent", "decoded", "assembled"}
  /\ stage = "published" => IsBytes(metadata) /\ IsBytes(eti)
  /\ stage = "sent" => IsBytes(af_packet)
  /\ stage = "assembled" => IsBytes(frame_out)

-----------------------------------------------------------------------------
(* What the two programs do to a frame, compared with the one that the     *)
(* multiplexer published.                                                  *)

Streams == original.streams

\* The bytes of frame_out that HeaderKept below looks at, or that an EDI packet does
\* not carry: FP, MID and FL, the MNSC, and the first byte of TIST, which is padding in front of the 24 bits of the time stamp.
Separate == {7, 8, 9 + 4 * Len(Streams), 10 + 4 * Len(Streams), Len(frame_out) - 3}

\* The first byte of the characterisation of a stream: SCID and, in the lower two
\* bits, the upper bits of the start address.
StcFirst == {9 + 4 * i : i \in 0 .. Len(Streams) - 1}

\* However many subchannels of whatever sizes a frame has, edi2edi decodes from the
\* AF packet the fields, the FIC and the subchannels that zmq2edi found in the frame
\* (TagItems.cpp:81, ETIDecoder.cpp:80); the frame it publishes has the length of that
\* one and its bytes, but for those of Separate; and both programs release the
\* frame at the same time, up to the rounding to milliseconds in one and to
\* microseconds in the other.
FrameSurvives ==
  /\ stage = "sent" => WellFormed(af_packet)
  /\ stage \in {"decoded", "assembled"} =>
       LET fc    == tags.fc
           subs  == tags.subchannels
           clock == ToSystemClock(fc)
       IN  /\ fc.err = original.err /\ fc.dlfc = original.dlfc
           /\ fc.fp = original.fp /\ fc.mid = original.mid
           /\ fc.utco = original.utco /\ fc.seconds = original.seconds
           /\ fc.tsta = Read(original.tist, 1, 3)
           /\ clock.s = t_frame.s
           /\ clock.us - 1000 * t_frame.ms \in -500 .. 500
           /\ Len(subs) = Len(Streams)
           /\ \A i \in DOMAIN Streams :
                /\ subs[i].scid = Streams[i].scid /\ subs[i].sad = Streams[i].sad
                /\ subs[i].tpl = Streams[i].tpl
                /\ Len(subs[i].mst) = 8 * Streams[i].stl
  /\ stage = "assembled" =>
       LET reference == Layout(original, Words(original))
       IN  /\ Len(frame_out) = Len(reference)
           /\ Fp(frame_out) = original.fp
           /\ \A k \in DOMAIN frame_out \ Separate :
                IF k \in StcFirst THEN frame_out[k] \div 4 = reference[k] \div 4
                ELSE frame_out[k] = reference[k]

\* The header of the frame that edi2edi publishes says what that of the frame that
\* zmq2edi received says: the mode, of which "FP 3 bits, MID 2 bits, FL 11 bits"
\* (receiver.cpp:229-232) are packed; the length in words of "FL: EN 300 799 5.3.6"
\* (receiver.cpp:234); the ten bits of every start address, startAddress_high:2 and
\* startAddress_low:8 (eti.hpp:52-54); and the MNSC, which "is valid" (TagItems.h:68).
HeaderKept ==
  stage = "assembled" =>
    /\ Mid(frame_out) = original.mid
    /\ (Read(frame_out, 6, 1) % 8) * 256 + Read(frame_out, 7, 1) = Words(original)
    /\ \A i \in DOMAIN Streams :
         (Read(frame_out, 4 + 4 * i, 1) % 4) * 256 + Read(frame_out, 5 + 4 * i, 1) = Streams[i].sad
    /\ Slice(frame_out, 8 + 4 * Len(Streams), 2) = original.mnsc
=============================================================================
