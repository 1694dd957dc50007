--------------------------- MODULE MulticastInput ---------------------------
(***************************************************************************)
(* digris-edimcast2edi: UDP packets with EDI packets, or with MPEG         *)
(* transport stream (TS) packets from which MPEDeframer or GSEDeframer     *)
(* takes the EDI packets, are received, deframed and handed to EDIReceiver,*)
(* which forwards each AF packet whose CRC holds to edi::Sender.  TS and   *)
(* UDP packets get lost.                                                   *)
(*                                                                         *)
(* An EDI packet is its number and comes in pieces <<number, k>>: the      *)
(* pieces of an MPE section, or the fragments of a GSE PDU.  What the      *)
(* deframers make of bytes that do not belong together is arbitrary.       *)
(***************************************************************************)
EXTENDS Integers, Sequences, FiniteSets

CONSTANTS
  Modes,       \* the deframers: subset of {"mpe", "gse", "udp"}
  SectionLen,  \* pieces of each MPE section
  OtherAddress,\* the sections for another address or port
  TsBody,      \* pieces in a TS packet (TS_BODY_SIZE)
  PsiHeader,   \* pieces that hold the header of a section (PSI_HEADER_SIZE)
  CcMod,       \* values of the continuity counter (16)
  PduLen,      \* fragments of each GSE PDU
  BBFrames,    \* the fragments in each BBFrame, in the order they are sent
  FrameLen,    \* fragments in a BBFrame
  OtherStream, \* BBFrames of another input stream (mis)
  FragIds,     \* values of FragID
  MaxLost      \* bound: TS or UDP packets lost

(* A section has a header, which fits in a TS packet, and a fragment is    *)
(* sent once.                                                              *)
ASSUME McastAssumption ==
  /\ TsBody \in Nat /\ PsiHeader \in 1 .. TsBody /\ CcMod \in Nat \ {0}
  /\ FrameLen \in Nat \ {0} /\ FragIds \in Nat \ {0} /\ MaxLost \in Nat
  /\ SectionLen \in Seq(Nat) /\ \A a \in 1 .. Len(SectionLen) : SectionLen[a] >= PsiHeader
  /\ PduLen \in Seq(Nat \ {0}) /\ BBFrames \in Seq(Seq(Nat \X Nat))
  /\ \A b \in 1 .. Len(BBFrames) :
       /\ Len(BBFrames[b]) = FrameLen
       /\ \A k \in 1 .. FrameLen : LET g == BBFrames[b][k] IN
            /\ g[1] \in 1 .. Len(PduLen) /\ g[2] \in 1 .. PduLen[g[1]]
            /\ \A c \in 1 .. Len(BBFrames), j \in 1 .. FrameLen :
                 BBFrames[c][j] = g => c = b /\ j = k

VARIABLES
  mode,        \* the deframer in use
  mux,         \* what the multiplexer has sent: pieces, and packets modulo CcMod,
               \* or for GSE BBFrames, and pieces of the one under way
  m_psi,       \* MPE: the section being collected
  m_bbframe,   \* GSE: the pieces of the BBFrame being collected
  fragments,   \* GSE: the PDU of each FragID being collected
  extracted,   \* m_extracted_frames
  mcast_loop,  \* where main() is
  forwarded,   \* history: the AF packets written to edi::Sender
  lossRun,     \* history: packets lost in a row: at the moment, and at most
  losses,      \* history: packets lost
  marred       \* history: MPE sections that a loss may cost

mcastVars == <<mode, mux, m_psi, m_bbframe, fragments, extracted, mcast_loop,
               forwarded, lossRun, losses, marred>>
mcastHistory == <<lossRun, losses, marred>>

Junk == <<0, 0>>
Lens == IF mode = "gse" THEN PduLen ELSE SectionLen
Whole(a) == [k \in 1 .. Lens[a] |-> <<a, k>>]
IsWhole(d) == d[1] /= Junk /\ d = Whole(d[1][1])
NoSection == [cc |-> 0, size |-> 0, buffer |-> <<>>]

McastInit ==
  /\ mode \in Modes
  /\ mux = [pos |-> 0, cc |-> 0]
  /\ m_psi = NoSection /\ m_bbframe = <<>>
  /\ fragments = [f \in 0 .. FragIds - 1 |-> <<>>]
  /\ extracted = <<>> /\ mcast_loop = "receive" /\ forwarded = <<>>
  /\ lossRun = [now |-> 0, max |-> 0] /\ losses = 0 /\ marred = {}

-----------------------------------------------------------------------------
(* The multiplexer: TS packets with the sections one after the other.  It  *)
(* may fill up a packet in which a section ends.                           *)

SectionEnd[a \in 0 .. Len(SectionLen)] == IF a = 0 THEN 0 ELSE SectionEnd[a - 1] + SectionLen[a]
StreamEnd == SectionEnd[Len(SectionLen)]
SectionAt(p) == CHOOSE a \in 1 .. Len(SectionLen) : SectionEnd[a - 1] < p /\ p <= SectionEnd[a]
PieceAt(p) == <<SectionAt(p), p - SectionEnd[SectionAt(p) - 1]>>
EndsSection(c) == c[2] = SectionLen[c[1]]

PacketEnds ==
  {e \in mux.pos + 1 .. StreamEnd :
     e <= mux.pos + TsBody /\ (e = mux.pos + TsBody \/ EndsSection(PieceAt(e)))}

(* The TS packet that ends at piece e.  start is the payload unit start    *)
(* indicator, ptr the pointer field: pieces before the first new section.  *)
TSPacket(e) ==
  LET body == [k \in 1 .. e - mux.pos |-> PieceAt(mux.pos + k)]
      starts == {k \in 1 .. Len(body) : body[k][2] = 1}
  IN [cc |-> mux.cc, body |-> body, start |-> starts /= {},
      ptr |-> IF starts = {} THEN 0 ELSE (CHOOSE k \in starts : \A j \in starts : k <= j) - 1]

Passed(e) == [pos |-> e, cc |-> (mux.cc + 1) % CcMod]

-----------------------------------------------------------------------------
(* MPEDeframer::process_ts().  A section is collected in m_psi.buffer; its *)
(* size is 0 until its header is there.  A header whose pieces do not      *)
(* belong together says an arbitrary size, 0 when it is out of range.      *)

SizeOf(buffer, any) ==
  LET h == buffer[PsiHeader] IN
    IF h[2] = PsiHeader /\ buffer[1] = <<h[1], 1>> THEN SectionLen[h[1]] ELSE any

Dropped(psi) == [psi EXCEPT !.buffer = <<>>]

\* Seeded fault: the continuity counter is not compared.
AnyCc(psi, ts) == TRUE

NextCc(psi, ts) == (psi.cc + 1) % CcMod = ts.cc

(* A packet in which no section starts.                                    *)
Continue(psi, ts, any) ==
  LET buffer == psi.buffer \o ts.body
      size == IF psi.size > 0 THEN psi.size ELSE IF Len(buffer) < PsiHeader THEN any ELSE SizeOf(buffer, any)
  IN IF psi.buffer = <<>> THEN [psi |-> psi, out |-> <<>>]
     ELSE IF ~NextCc(psi, ts) \/ size = 0 THEN [psi |-> Dropped(psi), out |-> <<>>]
     ELSE IF Len(buffer) >= size
       THEN [psi |-> [cc |-> ts.cc, size |-> size, buffer |-> <<>>], out |-> <<SubSeq(buffer, 1, size)>>]
       ELSE [psi |-> [cc |-> ts.cc, size |-> size, buffer |-> buffer], out |-> <<>>]

(* The end of a section before the first one that starts in the packet.    *)
Finish(psi, ts, any) ==
  LET buffer == psi.buffer \o SubSeq(ts.body, 1, ts.ptr)
      size == IF psi.size > 0 THEN psi.size ELSE IF Len(buffer) < PsiHeader THEN any ELSE SizeOf(buffer, any)
  IN [ok |-> NextCc(psi, ts) /\ size = Len(buffer), section |-> buffer]

(* The sections that start in the packet, the last one maybe unfinished.   *)
Starting(ts) ==
  LET first == ts.body[ts.ptr + 1][1]
      end == ts.body[Len(ts.body)]
      of(a) == [k \in 1 .. (IF a = end[1] THEN end[2] ELSE SectionLen[a]) |-> <<a, k>>]
      whole == IF EndsSection(end) THEN end[1] ELSE end[1] - 1
  IN [psi |-> [cc |-> ts.cc,
               size |-> IF end[2] < PsiHeader THEN 0 ELSE SectionLen[end[1]],
               buffer |-> IF EndsSection(end) THEN <<>> ELSE of(end[1])],
      out |-> [i \in 1 .. whole - first + 1 |-> of(first + i - 1)]]

ProcessTS(psi, ts, any) ==
  IF ~ts.start THEN Continue(psi, ts, any)
  ELSE IF ts.ptr = 0 \/ psi.buffer = <<>> THEN Starting(ts)
  ELSE LET end == Finish(psi, ts, any) IN
    IF ~end.ok THEN [psi |-> Dropped(psi), out |-> <<>>]
    ELSE [psi |-> Starting(ts).psi, out |-> <<end.section>> \o Starting(ts).out]

(* extract_edi() skips what is for another address or port.                *)
ExtractEdi(sections) ==
  LET edi[k \in 0 .. Len(sections)] ==
        IF k = 0 THEN <<>>
        ELSE IF sections[k][1][1] \in OtherAddress THEN edi[k - 1]
        ELSE Append(edi[k - 1], sections[k])
  IN edi[Len(sections)]

Receiving == mcast_loop = "receive"
SectionsIn(ts) == {ts.body[k][1] : k \in 1 .. Len(ts.body)}
PacketReceived == lossRun' = [lossRun EXCEPT !.now = 0]
PacketLost ==
  /\ losses < MaxLost
  /\ losses' = losses + 1
  /\ lossRun' = [now |-> lossRun.now + 1,
                 max |-> IF lossRun.now = lossRun.max THEN lossRun.max + 1 ELSE lossRun.max]

ReceiveMPE == \E e \in PacketEnds, any \in 0 .. TsBody + 1 :
  /\ Receiving /\ mode = "mpe"
  /\ LET r == ProcessTS(m_psi, TSPacket(e), any) IN
       /\ m_psi' = r.psi
       /\ extracted' = extracted \o ExtractEdi(r.out)
  /\ mux' = Passed(e)
  /\ PacketReceived
  /\ marred' = IF lossRun.now > 0 THEN marred \cup SectionsIn(TSPacket(e)) ELSE marred
  /\ UNCHANGED <<mode, m_bbframe, fragments, mcast_loop, forwarded, losses>>

(* Lost on the network, or in a UDP packet of the wrong size.              *)
LoseMPE == \E e \in PacketEnds :
  /\ Receiving /\ mode = "mpe"
  /\ mux' = Passed(e)
  /\ PacketLost
  /\ marred' = marred \cup SectionsIn(TSPacket(e))
  /\ UNCHANGED <<mode, m_psi, m_bbframe, fragments, extracted, mcast_loop, forwarded>>

-----------------------------------------------------------------------------
(* GSEDeframer.  A TS packet carries piece <<b, k>> of BBFrame b; piece 0  *)
(* begins with the synchronisation byte and the BBFrame header.            *)

BBPiece == <<mux.pos + 1, mux.cc>>
InStep(f) == {k \in 1 .. FrameLen : \A j \in 1 .. k : f[j + 1] = <<f[1][1], j>>}
GsePacket(c) == BBFrames[c[1]][c[2]]
FragId(g) == g[1] % FragIds

(* process_bbframe() on one GSE packet: r.f are the fragments, r.out the   *)
(* PDUs.  A PDU that starts does not clear an unfinished one with its id.  *)
ProcessGSE(r, g) ==
  LET id == FragId(g)
      pdu == Append(r.f[id], g)
  IN CASE PduLen[g[1]] = 1 -> [r EXCEPT !.out = Append(@, <<g>>)]
       [] PduLen[g[1]] > 1 /\ g[2] = 1 -> [r EXCEPT !.f[id] = pdu]
       [] g[2] > 1 /\ r.f[id] = <<>> -> r
       [] g[2] > 1 /\ r.f[id] /= <<>> /\ g[2] < PduLen[g[1]] -> [r EXCEPT !.f[id] = pdu]
       [] OTHER -> [f |-> [r.f EXCEPT ![id] = <<>>], out |-> Append(r.out, pdu)]

(* What the rest of a BBFrame may do after a gap.                          *)
Misread(r, how, id) ==
  CASE how = "break" -> r
    [] how = "start" -> [r EXCEPT !.f[id] = Append(@, Junk)]
    [] how = "end"   -> IF r.f[id] = <<>> THEN r
                        ELSE [f |-> [r.f EXCEPT ![id] = <<>>], out |-> Append(r.out, Append(r.f[id], Junk))]
    [] how = "full"  -> [r EXCEPT !.out = Append(@, <<Junk>>)]

(* prepare_bbframe() once the frame is complete.                           *)
ProcessBBFrame(f, how, id) ==
  LET after[k \in 0 .. FrameLen] ==
        IF k = 0 THEN [f |-> fragments, out |-> <<>>]
        ELSE IF k \in InStep(f) THEN ProcessGSE(after[k - 1], GsePacket(f[k + 1]))
        ELSE after[k - 1]
  IN IF f[1][1] \in OtherStream THEN [f |-> fragments, out |-> <<>>]
     ELSE IF FrameLen \in InStep(f) THEN after[FrameLen]
     ELSE Misread(after[FrameLen], how, id)

(* prepare_bbframe(): pieces are skipped until a BBFrame header comes.     *)
Collected ==
  IF m_bbframe = <<>> /\ BBPiece[2] /= 0 THEN <<>> ELSE Append(m_bbframe, BBPiece)

PassedBB == IF mux.cc < FrameLen THEN [mux EXCEPT !.cc = @ + 1] ELSE [pos |-> mux.pos + 1, cc |-> 0]
MoreBB == Receiving /\ mode = "gse" /\ mux.pos < Len(BBFrames)

ReceiveGSE == \E how \in {"break", "start", "end", "full"}, id \in 0 .. FragIds - 1 :
  /\ MoreBB
  /\ IF Len(Collected) < FrameLen + 1
       THEN m_bbframe' = Collected /\ UNCHANGED <<fragments, extracted>>
       ELSE LET r == ProcessBBFrame(Collected, how, id) IN
         /\ m_bbframe' = <<>>
         /\ fragments' = r.f
         /\ extracted' = extracted \o r.out
  /\ mux' = PassedBB
  /\ PacketReceived
  /\ UNCHANGED <<mode, m_psi, mcast_loop, forwarded, losses, marred>>

LoseGSE ==
  /\ MoreBB
  /\ mux' = PassedBB
  /\ PacketLost
  /\ UNCHANGED <<mode, m_psi, m_bbframe, fragments, extracted, mcast_loop, forwarded, marred>>

-----------------------------------------------------------------------------
(* Without deframer the UDP packet is the EDI packet, or something else.   *)

ReceiveUDP ==
  /\ Receiving /\ mode = "udp" /\ mux.pos < Len(SectionLen)
  /\ mux' = [mux EXCEPT !.pos = @ + 1]
  /\ \E d \in {Whole(mux.pos + 1), <<Junk>>} : extracted' = Append(extracted, d)
  /\ UNCHANGED <<mode, m_psi, m_bbframe, fragments, mcast_loop, forwarded, mcastHistory>>

-----------------------------------------------------------------------------
(* The loop of main(): what was received is deframed, then every EDI       *)
(* packet is pushed.  A signal ends the loop after the packets at hand.    *)

StartPush == \E stop \in BOOLEAN :
  /\ Receiving
  /\ mcast_loop' = IF stop THEN "last push" ELSE "push"
  /\ extracted /= <<>> \/ stop
  /\ UNCHANGED <<mode, mux, m_psi, m_bbframe, fragments, extracted, forwarded, mcastHistory>>

Pushing == mcast_loop \in {"push", "last push"}

\* Seeded fault: the CRC is not looked at.
CrcAssumed(d) == TRUE

(* decode_afpacket(): the packet is not all there, or its CRC is wrong.    *)
CrcMatches(d) == IsWhole(d)

(* push_packet(), with handle_afpacket() before the TAGs are looked at.    *)
PushExtracted ==
  /\ Pushing /\ extracted /= <<>>
  /\ Head(extracted)[1] /= Junk
  /\ forwarded' = IF CrcMatches(Head(extracted)) THEN Append(forwarded, Head(extracted)) ELSE forwarded
  /\ extracted' = Tail(extracted)
  /\ UNCHANGED <<mode, mux, m_psi, m_bbframe, fragments, mcast_loop, mcastHistory>>

(* Bytes that begin like neither AF nor PF packet end the program; others  *)
(* are dropped for their CRC.                                              *)
PushJunk ==
  /\ Pushing /\ extracted /= <<>>
  /\ Head(extracted)[1] = Junk
  /\ extracted' = Tail(extracted)
  /\ mcast_loop' \in {mcast_loop, "thrown"}
  /\ UNCHANGED <<mode, mux, m_psi, m_bbframe, fragments, forwarded, mcastHistory>>

PushedAll ==
  /\ Pushing /\ extracted = <<>>
  /\ mcast_loop' = IF mcast_loop = "push" THEN "receive" ELSE "done"
  /\ UNCHANGED <<mode, mux, m_psi, m_bbframe, fragments, extracted, forwarded, mcastHistory>>

McastNext ==
  \/ ReceiveMPE \/ LoseMPE \/ ReceiveGSE \/ LoseGSE \/ ReceiveUDP
  \/ StartPush \/ PushExtracted \/ PushJunk \/ PushedAll

McastSpec == McastInit /\ [][McastNext]_mcastVars

-----------------------------------------------------------------------------
McastTypeOK ==
  /\ mode \in Modes /\ mux.cc \in 0 .. (IF mode = "gse" THEN FrameLen ELSE CcMod - 1)
  /\ m_psi.cc \in 0 .. CcMod - 1
  /\ Len(m_bbframe) <= FrameLen
  /\ mcast_loop \in {"receive", "push", "last push", "thrown", "done"}
  /\ losses \in 0 .. MaxLost /\ marred \subseteq 1 .. Len(SectionLen)

(* EDIReceiver forwards only AF packets as they were sent, each at most    *)
(* once, and those of an MPE stream in their order, whatever TS packets    *)
(* were lost and whatever the deframers put together from the rest.        *)
ForwardedIntact ==
  /\ \A k \in 1 .. Len(forwarded) : IsWhole(forwarded[k])
  /\ \A j, k \in 1 .. Len(forwarded) : j < k =>
       IF mode = "mpe" THEN forwarded[j][1][1] < forwarded[k][1][1] ELSE forwarded[j] /= forwarded[k]

(* Unless as many TS packets as the continuity counter has values are lost *)
(* in a row, MPEDeframer hands out whole sections only, and a loss costs   *)
(* only sections that had a piece in a lost packet or in the first packet  *)
(* after it: all others have been handed out once they were sent.          *)
LossBounded ==
  mode = "mpe" /\ lossRun.max < CcMod =>
    /\ \A k \in 1 .. Len(extracted) : IsWhole(extracted[k])
    /\ \A a \in (1 .. Len(SectionLen)) \ (marred \cup OtherAddress) : SectionEnd[a] <= mux.pos =>
         \/ \E k \in 1 .. Len(extracted) : extracted[k] = Whole(a)
         \/ \E k \in 1 .. Len(forwarded) : forwarded[k] = Whole(a)
=============================================================================
