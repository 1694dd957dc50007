------------------------ MODULE FrameDecoder_proofs ------------------------
(***************************************************************************)
(* The frame path of edi2edi, for every set of inputs, every number of     *)
(* frames per ZeroMQ message, every set of AF packets and every bound of   *)
(* the model: what the ZeroMQ messages hold, that the decoder's buffer     *)
(* loses no packet, and what a frame is assembled from.  The first two     *)
(* hold whatever the TAG handlers make of a packet.                        *)
(***************************************************************************)
EXTENDS FrameDecoder, SequenceTheorems, NumberFacts

-----------------------------------------------------------------------------
(* The ZeroMQ messages.                                                    *)

\* s is a sequence of n elements, of whatever kind.
OfLength(s, n) == s = [k \in 1 .. n |-> s[k]]

\* The frames of the message under construction have the phases from 0 up,
\* and the phase expected is the next one.
PhaseInv ==
  /\ m_expected_next_fp \in 0 .. Phases - 1
  /\ OfLength(zmq_message, m_expected_next_fp)
  /\ \A k \in 1 .. m_expected_next_fp : PhaseOf(zmq_message[k][2]) = k - 1
  /\ MessagePhases

-----------------------------------------------------------------------------
(* The bytes.                                                              *)

Packet == [n : Numbers, kind : {"good", "damaged", "no_crc"}, tags : {FrameTags} \cup OddTags]
Piece == Packet \X {"tags", "crc"}

\* The two pieces of a packet stay next to each other.
Paired(s) ==
  /\ \A k \in 1 .. Len(s) - 1 : s[k][2] = "tags" => s[k + 1] = <<s[k][1], "crc">>
  /\ \A k \in 2 .. Len(s) : s[k][2] = "crc" => s[k - 1] = <<s[k][1], "tags">>

\* rest continues data: a packet is cut between them or none is.
Joined(data, rest) ==
  /\ rest # <<>> => rest[Len(rest)][2] = "crc"
  /\ rest # <<>> /\ rest[1][2] = "crc" =>
       data # <<>> /\ data[Len(data)] = <<rest[1][1], "tags">>
  /\ data # <<>> /\ data[Len(data)][2] = "tags" =>
       rest # <<>> /\ rest[1] = <<data[Len(data)][1], "crc">>

\* A packet whose header is no longer there has been judged.
HeadJudged(data, done) == data # <<>> /\ data[1][2] = "crc" => data[1][1].n \in done

Whole(data, n) ==
  \E k \in 1 .. Len(data) - 1 :
    data[k][1].n = n /\ data[k][2] = "tags" /\ data[k + 1] = <<data[k][1], "crc">>

Kept(data, came, done) == \A n \in came \ done : Whole(data, n)

\* What holds of the buffer of one input, the rest of its stream, and the
\* packets that arrived and that were judged.
BytesInv(data, rest, came, done) ==
  /\ data \in Seq(Piece) /\ rest \in Seq(Piece)
  /\ Paired(data) /\ Paired(rest) /\ Joined(data, rest)
  /\ HeadJudged(data, done) /\ Kept(data, came, done)

Upstream == [n : 1 .. MaxPackets + 1, rest : Seq(Piece)]

StreamType ==
  /\ upstream \in [Inputs -> Upstream]
  /\ m_input_data \in [Inputs -> Seq(Piece)]
  /\ DOMAIN arrived = Inputs /\ DOMAIN decoded = Inputs
  /\ decoding \in Inputs \cup {NoInput}

StreamInv ==
  /\ StreamType
  /\ \A i \in Inputs :
       BytesInv(m_input_data[i], upstream[i].rest, arrived[i], decoded[i])
-----------------------------------------------------------------------------
(* A message is filled phase by phase.                                     *)

LEMMA AppendAny ==
  ASSUME NEW n \in Nat, NEW s, OfLength(s, n), NEW e
  PROVE  /\ Len(s) = n /\ Len(Append(s, e)) = n + 1
         /\ OfLength(Append(s, e), n + 1)
         /\ \A k \in 1 .. n : Append(s, e)[k] = s[k]
         /\ Append(s, e)[n + 1] = e
<1> DEFINE S == {s[k] : k \in 1 .. n} \cup {e}
<1>1. \A k \in 1 .. n : s[k] \in S
  OBVIOUS
<1>2. e \in S
  OBVIOUS
<1> HIDE DEF S
<1>3. s \in Seq(S) /\ Len(s) = n
  BY <1>1 DEF OfLength
<1>4. /\ Append(s, e) \in Seq(S) /\ Len(Append(s, e)) = n + 1
      /\ \A k \in 1 .. n : Append(s, e)[k] = s[k]
      /\ Append(s, e)[n + 1] = e
  BY <1>2, <1>3, AppendProperties
<1>5. OfLength(Append(s, e), n + 1)
  <2>1. DOMAIN Append(s, e) = 1 .. n + 1 /\ Append(s, e) \in [1 .. n + 1 -> S]
    BY <1>4, LenProperties
  <2> QED
    BY <2>1 DEF OfLength
<1> QED
  BY <1>3, <1>4, <1>5

LEMMA EncodePhase ==
  ASSUME PhaseInv, NEW i, NEW n, EncodeZmqFrame(i, n)
  PROVE  PhaseInv'
<1>1. Phases \in Nat \ {0} /\ m_expected_next_fp \in 0 .. Phases - 1
  BY FrameAssumption DEF PhaseInv
<1>2. CASE ~InPhase(n)
  BY <1>2 DEF EncodeZmqFrame, PhaseInv, MessagePhases, zmqVars, OfLength
<1>3. CASE InPhase(n)
  <2> DEFINE fp == m_expected_next_fp
             msg == Append(zmq_message, <<i, n>>)
  <2>1. /\ Len(msg) = fp + 1 /\ OfLength(msg, fp + 1)
        /\ \A k \in 1 .. fp : msg[k] = zmq_message[k]
        /\ msg[fp + 1] = <<i, n>>
    <3>1. OfLength(zmq_message, fp) /\ fp \in Nat
      BY <1>1 DEF PhaseInv
    <3> HIDE DEF fp
    <3> QED
      BY <3>1, AppendAny
  <2>2. /\ m_expected_next_fp' = (fp + 1) % Phases
        /\ zmq_message' = IF Len(msg) = Phases THEN <<>> ELSE msg
        /\ published' = IF Len(msg) = Phases THEN msg ELSE published
    BY <1>3 DEF EncodeZmqFrame
  <2>3. PhaseOf(n) = fp
    BY <1>3 DEF InPhase
  <2>4. \A k \in 1 .. fp : PhaseOf(zmq_message[k][2]) = k - 1
    BY DEF PhaseInv
  <2> HIDE DEF fp, msg
  <2>5. \A k \in 1 .. fp + 1 : PhaseOf(msg[k][2]) = k - 1
    <3> TAKE k \in 1 .. fp + 1
    <3>1. CASE k \in 1 .. fp
      BY <2>1, <2>4, <3>1
    <3>2. CASE k \notin 1 .. fp
      <4>1. k = fp + 1 /\ k - 1 = fp
        BY <1>1, <3>2 DEF fp
      <4>2. msg[k][2] = n
        BY <2>1, <4>1
      <4> QED
        BY <2>3, <4>1, <4>2
    <3> QED
      BY <3>1, <3>2
  <2>6. CASE fp + 1 = Phases
    <3>1. m_expected_next_fp' = 0 /\ zmq_message' = <<>> /\ published' = msg
      BY <1>1, <2>1, <2>2, <2>6
    <3>2. [k \in 1 .. Len(msg) |-> PhaseOf(msg[k][2])] = [k \in 1 .. Phases |-> k - 1]
      BY <2>1, <2>5, <2>6
    <3>3. MessagePhases'
      BY <3>1, <3>2 DEF MessagePhases, PhaseOf
    <3> QED
      BY <1>1, <3>1, <3>3 DEF PhaseInv, OfLength, PhaseOf
  <2>7. CASE fp + 1 # Phases
    <3>1. fp + 1 \in 0 .. Phases - 1 /\ (fp + 1) % Phases = fp + 1
      BY <1>1, <2>7 DEF fp
    <3>2. /\ m_expected_next_fp' = fp + 1 /\ zmq_message' = msg
          /\ published' = published
      BY <2>1, <2>2, <2>7, <3>1
    <3>3. MessagePhases'
      BY <2>1, <3>2 DEF MessagePhases, PhaseInv, PhaseOf
    <3> QED
      BY <2>1, <2>5, <3>1, <3>2, <3>3 DEF PhaseInv, PhaseOf
  <2> QED
    BY <2>6, <2>7
<1> QED
  BY <1>2, <1>3

\* The messages change only where a frame is encoded.
LEMMA MessageSteps ==
  [DecoderNext]_decoderVars => UNCHANGED zmqVars \/ \E i, n : EncodeZmqFrame(i, n)
<1> SUFFICES ASSUME [DecoderNext]_decoderVars
             PROVE  UNCHANGED zmqVars \/ \E i, n : EncodeZmqFrame(i, n)
  OBVIOUS
<1>1. CASE AssembleAF
  <2>1. PICK i, n : EncodeZmqFrame(i, n)
    BY <1>1 DEF AssembleAF, EncodeZmqFrame, InPhase
  <2> QED
    BY <2>1
<1>2. CASE ~AssembleAF
  BY <1>2
  DEF DecoderNext, decoderVars, BeginPacket, TakeBytes, Disconnect, LeaveLoop,
      DropByte, RefuseAF, ThrowAF
<1> QED
  BY <1>1, <1>2

LEMMA InitPhase == DecoderInit => PhaseInv
BY FrameAssumption DEF DecoderInit, PhaseInv, OfLength, MessagePhases

LEMMA NextPhase == PhaseInv /\ [DecoderNext]_decoderVars => PhaseInv'
<1> SUFFICES ASSUME PhaseInv, [DecoderNext]_decoderVars PROVE PhaseInv'
  OBVIOUS
<1>1. CASE UNCHANGED zmqVars
  BY <1>1 DEF PhaseInv, MessagePhases, OfLength, zmqVars
<1>2. CASE \E i, n : EncodeZmqFrame(i, n)
  BY <1>2, EncodePhase
<1> QED
  BY <1>1, <1>2, MessageSteps

\* Every ZeroMQ message that is published holds one frame of each phase, in
\* order (dabOutputZMQ.cpp, Write): whatever the inputs deliver, the receiver
\* of the messages never has to resynchronise.
THEOREM PhasesAreKept == DecoderSpec => []MessagePhases
<1>1. PhaseInv => MessagePhases
  BY DEF PhaseInv
<1> QED
  BY <1>1, InitPhase, NextPhase, PTL DEF DecoderSpec
-----------------------------------------------------------------------------
(* The buffer of one input.                                                *)

LEMMA PieceFacts ==
  ASSUME NEW s \in Seq(Piece)
  PROVE  /\ Len(s) \in Nat /\ (s # <<>> <=> Len(s) > 0)
         /\ \A k \in 1 .. Len(s) : s[k] \in Piece /\ s[k][2] \in {"tags", "crc"}
<1>1. Len(s) \in Nat /\ (s # <<>> => Len(s) \in Nat \ {0}) /\ Len(<<>>) = 0
  BY LenProperties, EmptySeq
<1>2. \A k \in 1 .. Len(s) : s[k] \in Piece
  BY ElementOfSeq, Zenon
<1> QED
  BY <1>1, <1>2 DEF Piece

LEMMA SuffixFacts ==
  ASSUME NEW s \in Seq(Piece), NEW m \in 0 .. Len(s)
  PROVE  /\ SubSeq(s, m + 1, Len(s)) \in Seq(Piece)
         /\ Len(SubSeq(s, m + 1, Len(s))) = Len(s) - m
         /\ \A j \in 1 .. Len(s) - m : SubSeq(s, m + 1, Len(s))[j] = s[m + j]
<1>1. Len(s) \in Nat /\ \A k \in 1 .. Len(s) : s[k] \in Piece
  BY PieceFacts
<1>2. \A k \in m + 1 .. Len(s) : s[k] \in Piece
  BY <1>1
<1> QED
  BY <1>1, <1>2, SubSeqProperties

LEMMA PrefixFacts ==
  ASSUME NEW s \in Seq(Piece), NEW m \in 1 .. Len(s)
  PROVE  /\ SubSeq(s, 1, m) \in Seq(Piece)
         /\ Len(SubSeq(s, 1, m)) = m
         /\ \A j \in 1 .. m : SubSeq(s, 1, m)[j] = s[j]
<1>1. Len(s) \in Nat /\ \A k \in 1 .. Len(s) : s[k] \in Piece
  BY PieceFacts
<1>2. \A k \in 1 .. m : s[k] \in Piece
  BY <1>1
<1> QED
  BY <1>1, <1>2, SubSeqProperties

\* The stream is continued by a whole packet.
LEMMA BeginBytes ==
  ASSUME NEW d, NEW u, NEW came, NEW done, BytesInv(d, u, came, done),
         NEW pk \in Packet
  PROVE  BytesInv(d, u \o Pieces(pk), came, done)
<1> DEFINE t == u \o Pieces(pk)
           n == Len(u)
<1>1. /\ d \in Seq(Piece) /\ u \in Seq(Piece) /\ n \in Nat
      /\ u # <<>> <=> n > 0
      /\ \A k \in 1 .. n : u[k][2] \in {"tags", "crc"}
  BY PieceFacts DEF BytesInv
<1>2. /\ Pieces(pk) \in Seq(Piece) /\ Len(Pieces(pk)) = 2
      /\ Pieces(pk)[1] = <<pk, "tags">> /\ Pieces(pk)[2] = <<pk, "crc">>
  BY DEF Pieces, Piece
<1>3. /\ t \in Seq(Piece) /\ Len(t) = n + 2
      /\ \A k \in 1 .. n + 2 : t[k] = IF k <= n THEN u[k] ELSE Pieces(pk)[k - n]
  <2>1. /\ t \in Seq(Piece) /\ Len(t) = n + Len(Pieces(pk))
        /\ \A k \in 1 .. n + Len(Pieces(pk)) :
             t[k] = IF k <= n THEN u[k] ELSE Pieces(pk)[k - n]
    BY <1>1, <1>2, ConcatProperties, Zenon
  <2> QED
    BY <1>2, <2>1
<1> HIDE DEF t
<1>4. /\ t # <<>> /\ t[n + 1] = <<pk, "tags">> /\ t[n + 2] = <<pk, "crc">>
      /\ \A k \in 1 .. n : t[k] = u[k]
  <2>1. (n + 1) - n = 1 /\ (n + 2) - n = 2 /\ n + 1 \in 1 .. n + 2
        /\ n + 2 \in 1 .. n + 2 /\ ~(n + 1 <= n) /\ ~(n + 2 <= n)
    BY <1>1
  <2>2. \A k \in 1 .. n : k \in 1 .. n + 2 /\ k <= n
    BY <1>1
  <2>3. t # <<>>
    BY <1>1, <1>3, PieceFacts
  <2> QED
    BY <1>2, <1>3, <2>1, <2>2, <2>3
<1>5. n > 0 => u[n][2] = "crc"
  BY <1>1 DEF BytesInv, Joined, n
<1>6. Paired(u) /\ Joined(d, u)
  BY DEF BytesInv
<1>7. Paired(t)
  <2>1. ASSUME NEW k \in 1 .. Len(t) - 1, t[k][2] = "tags"
        PROVE  t[k + 1] = <<t[k][1], "crc">>
    <3>1. CASE k < n
      <4>1. k \in 1 .. n - 1 /\ k \in 1 .. n /\ k + 1 \in 1 .. n
        BY <1>1, <3>1
      <4> QED
        BY <1>4, <1>6, <2>1, <4>1 DEF Paired, n
    <3>2. CASE k = n
      <4>1. n > 0 /\ k \in 1 .. n
        BY <1>1, <3>2
      <4> QED
        BY <1>4, <1>5, <2>1, <3>2, <4>1
    <3>3. CASE k > n
      <4>1. k = n + 1 /\ k + 1 = n + 2
        BY <1>1, <1>3, <3>3
      <4> QED
        BY <1>4, <4>1
    <3> QED
      BY <1>1, <3>1, <3>2, <3>3
  <2>2. ASSUME NEW k \in 2 .. Len(t), t[k][2] = "crc"
        PROVE  t[k - 1] = <<t[k][1], "tags">>
    <3>1. CASE k <= n
      <4>1. k \in 2 .. n /\ k \in 1 .. n /\ k - 1 \in 1 .. n
        BY <1>1, <3>1
      <4> QED
        BY <1>4, <1>6, <2>2, <4>1 DEF Paired, n
    <3>2. CASE k = n + 1
      BY <1>4, <2>2, <3>2
    <3>3. CASE k > n + 1
      <4>1. k = n + 2 /\ k - 1 = n + 1
        BY <1>1, <1>3, <3>3
      <4> QED
        BY <1>4, <4>1
    <3> QED
      BY <1>1, <3>1, <3>2, <3>3
  <2> QED
    BY <2>1, <2>2 DEF Paired
<1>8. Joined(d, t)
  <2>1. t[Len(t)][2] = "crc"
    BY <1>3, <1>4
  <2>2. t[1] = IF n > 0 THEN u[1] ELSE <<pk, "tags">>
    <3>1. CASE n > 0
      <4>1. 1 \in 1 .. n
        BY <1>1, <3>1
      <4> QED
        BY <1>4, <3>1, <4>1
    <3>2. CASE ~(n > 0)
      BY <1>1, <1>4, <3>2
    <3> QED
      BY <3>1, <3>2
  <2> QED
    BY <1>1, <1>4, <1>6, <2>1, <2>2 DEF Joined
<1> QED
  BY <1>3, <1>7, <1>8 DEF BytesInv, t

\* The first m pieces leave the buffer, which are the rest of a packet, or a
\* packet, or the header of one that has been judged.
LEMMA ConsumeBytes ==
  ASSUME NEW d, NEW u, NEW came, NEW old, NEW done, BytesInv(d, u, came, old),
         old \subseteq done,
         NEW m \in 1 .. 2, m <= Len(d), d[1][1].n \in done,
         m = 2 => d[1][2] = "tags",
         m = 1 /\ d[1][2] = "tags" => Len(d) > 1
  PROVE  BytesInv(SubSeq(d, m + 1, Len(d)), u, came, done)
<1> DEFINE t == SubSeq(d, m + 1, Len(d))
           n == Len(d)
<1>1. /\ d \in Seq(Piece) /\ u \in Seq(Piece) /\ n \in Nat
      /\ \A k \in 1 .. n : d[k][2] \in {"tags", "crc"}
  BY PieceFacts DEF BytesInv
<1>2. m \in 0 .. n
  BY <1>1
<1>3. /\ t \in Seq(Piece) /\ Len(t) = n - m
      /\ \A j \in 1 .. n - m : t[j] = d[m + j]
  BY <1>1, <1>2, SuffixFacts
<1> HIDE DEF t
<1>4. t # <<>> <=> n > m
  BY <1>1, <1>2, <1>3, PieceFacts
<1>5. /\ Paired(d) /\ Paired(u) /\ Joined(d, u)
      /\ Kept(d, came, old) /\ HeadJudged(d, old)
  BY DEF BytesInv
<1>6. m = 2 => d[2] = <<d[1][1], "crc">>
  <2>1. m = 2 => 1 \in 1 .. n - 1
    BY <1>1
  <2> QED
    BY <1>5, <2>1 DEF Paired, n
<1>7. n = m => d[n][2] = "crc"
  <2>1. CASE m = 2
    BY <1>6, <2>1
  <2>2. CASE m = 1
    <3>1. 1 \in 1 .. n
      BY <1>1
    <3> QED
      BY <1>1, <2>2, <3>1
  <2> QED
    BY <2>1, <2>2
<1>8. Paired(t)
  <2>1. ASSUME NEW k \in 1 .. Len(t) - 1, t[k][2] = "tags"
        PROVE  t[k + 1] = <<t[k][1], "crc">>
    <3>1. /\ k \in 1 .. n - m /\ k + 1 \in 1 .. n - m /\ m + k \in 1 .. n - 1
          /\ m + (k + 1) = (m + k) + 1
      <4>1. n \in Nat /\ Len(t) = n - m
        BY <1>1, <1>3
      <4> HIDE DEF n
      <4> QED
        BY <4>1
    <3>2. t[k] = d[m + k] /\ t[k + 1] = d[(m + k) + 1]
      BY <1>3, <3>1
    <3> QED
      BY <1>5, <2>1, <3>1, <3>2 DEF Paired, n
  <2>2. ASSUME NEW k \in 2 .. Len(t), t[k][2] = "crc"
        PROVE  t[k - 1] = <<t[k][1], "tags">>
    <3>1. /\ k \in 1 .. n - m /\ k - 1 \in 1 .. n - m /\ m + k \in 2 .. n
          /\ m + (k - 1) = (m + k) - 1
      <4>1. n \in Nat /\ Len(t) = n - m
        BY <1>1, <1>3
      <4> HIDE DEF n
      <4> QED
        BY <4>1
    <3>2. t[k] = d[m + k] /\ t[k - 1] = d[(m + k) - 1]
      BY <1>3, <3>1
    <3> QED
      BY <1>5, <2>2, <3>1, <3>2 DEF Paired, n
  <2> QED
    BY <2>1, <2>2 DEF Paired
<1>9. Joined(t, u)
  <2>1. n > m => t[Len(t)] = d[n]
    <3>1. n > m => n - m \in 1 .. n - m /\ m + (n - m) = n
      BY <1>1
    <3> QED
      BY <1>3, <3>1
  <2>2. n > m => d # <<>>
    BY <1>1, PieceFacts
  <2>3. u # <<>> /\ u[1][2] = "crc" => n > m
    <3>1. u # <<>> /\ u[1][2] = "crc" => d[n][2] = "tags"
      BY <1>5 DEF Joined, n
    <3> QED
      BY <1>1, <1>7, <3>1
  <2> QED
    BY <1>4, <1>5, <2>1, <2>2, <2>3 DEF Joined, n
<1>10. HeadJudged(t, done)
  <2> SUFFICES ASSUME n > m, t[1][2] = "crc" PROVE t[1][1].n \in done
    BY <1>4 DEF HeadJudged
  <2>1. 1 \in 1 .. n - m /\ m + 1 \in 2 .. n /\ (m + 1) - 1 = m
    BY <1>1
  <2>2. t[1] = d[m + 1]
    BY <1>3, <2>1
  <2>3. d[m] = <<t[1][1], "tags">>
    BY <1>5, <2>1, <2>2 DEF Paired, n
  <2>4. m = 1
    BY <1>6, <2>3
  <2> QED
    BY <2>3, <2>4
<1>11. Kept(t, came, done)
  <2> SUFFICES ASSUME NEW x \in came \ done PROVE Whole(t, x)
    BY DEF Kept
  <2>1. PICK k \in 1 .. n - 1 :
          d[k][1].n = x /\ d[k][2] = "tags" /\ d[k + 1] = <<d[k][1], "crc">>
    BY <1>5 DEF Kept, Whole, n
  <2>2. k # 1
    BY <2>1
  <2>3. ~(m = 2 /\ k = 2)
    BY <1>6, <2>1
  <2>4. /\ k - m \in 1 .. (n - m) - 1 /\ k - m \in 1 .. n - m
        /\ (k - m) + 1 \in 1 .. n - m
        /\ m + (k - m) = k /\ m + ((k - m) + 1) = k + 1
    BY <1>1, <2>2, <2>3
  <2>5. t[k - m] = d[k] /\ t[(k - m) + 1] = d[k + 1]
    BY <1>3, <2>4
  <2> QED
    BY <1>3, <2>1, <2>4, <2>5 DEF Whole
<1> QED
  BY <1>1, <1>3, <1>5, <1>8, <1>9, <1>10, <1>11 DEF BytesInv, t

\* recv() hands over the first m pieces of the stream; with a CRC its packet
\* has arrived.
LEMMA TakenBytes ==
  ASSUME NEW d, NEW u, NEW came, NEW done, BytesInv(d, u, came, done),
         NEW m \in 1 .. Len(u), NEW came2,
         \A x \in came2 : \/ x \in came
                          \/ \E j \in 1 .. m : u[j][2] = "crc" /\ u[j][1].n = x
  PROVE  BytesInv(d \o SubSeq(u, 1, m), SubSeq(u, m + 1, Len(u)), came2, done)
<1> DEFINE v == SubSeq(u, 1, m)
           w == SubSeq(u, m + 1, Len(u))
           e == d \o v
           a == Len(d)
           b == Len(u)
<1>1. /\ d \in Seq(Piece) /\ u \in Seq(Piece) /\ a \in Nat /\ b \in Nat
      /\ (d # <<>> <=> a > 0) /\ (u # <<>> <=> b > 0)
      /\ \A k \in 1 .. b : u[k][2] \in {"tags", "crc"}
  BY PieceFacts DEF BytesInv
<1>2. m \in 0 .. b /\ m \in Nat \ {0} /\ m <= b
  BY <1>1
<1>3. /\ v \in Seq(Piece) /\ Len(v) = m /\ \A j \in 1 .. m : v[j] = u[j]
  BY <1>1, PrefixFacts
<1>4. /\ w \in Seq(Piece) /\ Len(w) = b - m
      /\ \A j \in 1 .. b - m : w[j] = u[m + j]
  BY <1>1, <1>2, SuffixFacts
<1> HIDE DEF v, w
<1>5. /\ e \in Seq(Piece) /\ Len(e) = a + m
      /\ \A k \in 1 .. a + m : e[k] = IF k <= a THEN d[k] ELSE v[k - a]
  <2>1. /\ e \in Seq(Piece) /\ Len(e) = a + Len(v)
        /\ \A k \in 1 .. a + Len(v) : e[k] = IF k <= a THEN d[k] ELSE v[k - a]
    BY <1>1, <1>3, ConcatProperties, ZenonT(60)
  <2> QED
    BY <1>3, <2>1
<1> HIDE DEF e
<1>6. /\ \A k \in 1 .. a : e[k] = d[k]
      /\ \A j \in 1 .. m : e[a + j] = u[j]
  <2>1. \A k \in 1 .. a : k \in 1 .. a + m /\ k <= a
    BY <1>1, <1>2
  <2>2. \A j \in 1 .. m : a + j \in 1 .. a + m /\ ~(a + j <= a) /\ (a + j) - a = j
    BY <1>1, <1>2
  <2>3. \A k \in 1 .. a : e[k] = d[k]
    BY <1>5, <2>1
  <2>4. \A j \in 1 .. m : e[a + j] = v[j]
    BY <1>5, <2>2
  <2> QED
    BY <1>3, <2>3, <2>4
<1>7. /\ Paired(d) /\ Paired(u) /\ Joined(d, u)
      /\ Kept(d, came, done) /\ HeadJudged(d, done)
  BY DEF BytesInv
<1>8. b > 0 /\ u[b][2] = "crc" /\ u # <<>>
  BY <1>1, <1>2, <1>7 DEF Joined, b
<1>9. Paired(e)
  <2>1. ASSUME NEW k \in 1 .. Len(e) - 1, e[k][2] = "tags"
        PROVE  e[k + 1] = <<e[k][1], "crc">>
    <3>1. CASE k < a
      <4>1. k \in 1 .. a - 1 /\ k \in 1 .. a /\ k + 1 \in 1 .. a
        BY <1>1, <3>1
      <4> QED
        BY <1>6, <1>7, <2>1, <4>1 DEF Paired, a
    <3>2. CASE k = a
      <4>1. a > 0 /\ k \in 1 .. a /\ 1 \in 1 .. m /\ k + 1 = a + 1
        BY <1>1, <1>2, <3>2
      <4>2. e[k] = d[a] /\ e[k + 1] = u[1]
        BY <1>6, <3>2, <4>1
      <4> QED
        BY <1>1, <1>7, <2>1, <4>1, <4>2 DEF Joined, a
    <3>3. CASE k > a
      <4>1. /\ k - a \in 1 .. b - 1 /\ k - a \in 1 .. m /\ (k - a) + 1 \in 1 .. m
            /\ a + (k - a) = k /\ a + ((k - a) + 1) = k + 1
        BY <1>1, <1>2, <1>5, <3>3
      <4>2. e[k] = u[k - a] /\ e[k + 1] = u[(k - a) + 1]
        BY <1>6, <4>1, SMTT(30)
      <4> QED
        BY <1>7, <2>1, <4>1, <4>2 DEF Paired, b
    <3> QED
      BY <1>1, <3>1, <3>2, <3>3
  <2>2. ASSUME NEW k \in 2 .. Len(e), e[k][2] = "crc"
        PROVE  e[k - 1] = <<e[k][1], "tags">>
    <3>1. CASE k <= a
      <4>1. k \in 2 .. a /\ k \in 1 .. a /\ k - 1 \in 1 .. a
        BY <1>1, <3>1
      <4> QED
        BY <1>6, <1>7, <2>2, <4>1 DEF Paired, a
    <3>2. CASE k = a + 1
      <4>1. 1 \in 1 .. m /\ k - 1 = a /\ a \in 1 .. a
        BY <1>1, <1>2, <3>2
      <4>2. e[k] = u[1] /\ e[k - 1] = d[a]
        BY <1>6, <3>2, <4>1
      <4> QED
        BY <1>7, <1>8, <2>2, <4>2 DEF Joined, a
    <3>3. CASE k > a + 1
      <4>1. /\ k - a \in 2 .. b /\ k - a \in 1 .. m /\ (k - a) - 1 \in 1 .. m
            /\ a + (k - a) = k /\ a + ((k - a) - 1) = k - 1
        BY <1>1, <1>2, <1>5, <3>3
      <4>2. e[k] = u[k - a] /\ e[k - 1] = u[(k - a) - 1]
        BY <1>6, <4>1
      <4> QED
        BY <1>7, <2>2, <4>1, <4>2 DEF Paired, b
    <3> QED
      BY <1>1, <3>1, <3>2, <3>3
  <2> QED
    BY <2>1, <2>2 DEF Paired
<1>10. Paired(w)
  <2>1. ASSUME NEW k \in 1 .. Len(w) - 1, w[k][2] = "tags"
        PROVE  w[k + 1] = <<w[k][1], "crc">>
    <3>1. /\ k \in 1 .. b - m /\ k + 1 \in 1 .. b - m /\ m + k \in 1 .. b - 1
          /\ m + (k + 1) = (m + k) + 1
      BY <1>1, <1>2, <1>4
    <3>2. w[k] = u[m + k] /\ w[k + 1] = u[(m + k) + 1]
      BY <1>4, <3>1, SMTT(30)
    <3> QED
      BY <1>7, <2>1, <3>1, <3>2 DEF Paired, b
  <2>2. ASSUME NEW k \in 2 .. Len(w), w[k][2] = "crc"
        PROVE  w[k - 1] = <<w[k][1], "tags">>
    <3>1. /\ k \in 1 .. b - m /\ k - 1 \in 1 .. b - m /\ m + k \in 2 .. b
          /\ m + (k - 1) = (m + k) - 1
      BY <1>1, <1>2, <1>4
    <3>2. w[k] = u[m + k] /\ w[k - 1] = u[(m + k) - 1]
      BY <1>4, <3>1
    <3> QED
      BY <1>7, <2>2, <3>1, <3>2 DEF Paired, b
  <2> QED
    BY <2>1, <2>2 DEF Paired
<1>11. Joined(e, w)
  <2>1. e # <<>> /\ e[Len(e)] = u[m] /\ (w # <<>> <=> b > m)
    <3>1. m \in 1 .. m /\ a + m > 0 /\ (b - m > 0 <=> b > m)
      BY <1>1, <1>2
    <3> QED
      BY <1>4, <1>5, <1>6, <3>1, PieceFacts
  <2>2. b > m => w[Len(w)] = u[b] /\ w[1] = u[m + 1]
    <3>1. b > m => b - m \in 1 .. b - m /\ m + (b - m) = b /\ 1 \in 1 .. b - m
      BY <1>1, <1>2
    <3> QED
      BY <1>4, <3>1
  <2>3. b > m /\ u[m + 1][2] = "crc" => u[m] = <<u[m + 1][1], "tags">>
    <3>1. b > m => m + 1 \in 2 .. b /\ (m + 1) - 1 = m
      BY <1>1, <1>2
    <3> QED
      BY <1>7, <3>1 DEF Paired, b
  <2>4. u[m][2] = "tags" => b > m /\ u[m + 1] = <<u[m][1], "crc">>
    <3>1. u[m][2] = "tags" => m # b
      BY <1>8
    <3>2. m # b => b > m /\ m \in 1 .. b - 1
      BY <1>1, <1>2
    <3> QED
      BY <1>7, <3>1, <3>2 DEF Paired, b
  <2> HIDE DEF b
  <2> QED
    BY <1>8, <2>1, <2>2, <2>3, <2>4 DEF Joined
<1>12. HeadJudged(e, done)
  <2>1. CASE a > 0
    <3>1. 1 \in 1 .. a
      BY <1>1, <2>1
    <3> QED
      BY <1>1, <1>6, <1>7, <2>1, <3>1 DEF HeadJudged
  <2>2. CASE ~(a > 0)
    <3>1. a + 1 = 1 /\ 1 \in 1 .. m
      BY <1>1, <1>2, <2>2
    <3>2. e[1] = u[1]
      BY <1>6, <3>1
    <3> QED
      BY <1>1, <1>7, <1>8, <2>2, <3>2 DEF HeadJudged, Joined
  <2> QED
    BY <2>1, <2>2
<1>13. Kept(e, came2, done)
  <2> SUFFICES ASSUME NEW x \in came2 \ done PROVE Whole(e, x)
    BY DEF Kept
  <2>1. CASE x \in came
    <3>1. PICK k \in 1 .. a - 1 :
            d[k][1].n = x /\ d[k][2] = "tags" /\ d[k + 1] = <<d[k][1], "crc">>
      BY <1>7, <2>1 DEF Kept, Whole, a
    <3>2. k \in 1 .. a /\ k + 1 \in 1 .. a /\ k \in 1 .. (a + m) - 1
      BY <1>1, <1>2
    <3> QED
      BY <1>5, <1>6, <3>1, <3>2 DEF Whole
  <2>2. CASE x \notin came
    <3>1. PICK j \in 1 .. m : u[j][2] = "crc" /\ u[j][1].n = x
      BY <2>2
    <3>2. /\ a + j \in 2 .. Len(e) => (a + j) - 1 \in 1 .. Len(e) - 1
          /\ ((a + j) - 1) + 1 = a + j
      BY <1>1, <1>2, <1>5
    <3>3. e[a + j] = u[j]
      BY <1>6
    <3>4. a + j # 1
      <4>1. a + j = 1 => ~(a > 0) /\ j = 1
        BY <1>1
      <4> QED
        BY <1>1, <1>7, <1>8, <3>1, <4>1 DEF Joined
    <3>5. a + j \in 2 .. Len(e)
      BY <1>1, <1>2, <1>5, <3>4
    <3>6. e[(a + j) - 1] = <<u[j][1], "tags">>
      BY <1>9, <3>1, <3>3, <3>5 DEF Paired
    <3>7. e[a + j] = <<u[j][1], "crc">>
      <4>1. (a + j) - 1 \in 1 .. Len(e) - 1 /\ e[(a + j) - 1][2] = "tags"
        BY <3>2, <3>5, <3>6
      <4>2. e[((a + j) - 1) + 1] = <<e[(a + j) - 1][1], "crc">>
        BY <1>9, <4>1 DEF Paired
      <4> QED
        BY <3>2, <3>6, <4>2
    <3> QED
      BY <3>1, <3>2, <3>5, <3>6, <3>7 DEF Whole
  <2> QED
    BY <2>1, <2>2
<1> QED
  BY <1>4, <1>5, <1>9, <1>10, <1>11, <1>12, <1>13 DEF BytesInv, e, v, w
-----------------------------------------------------------------------------
(* The steps of the inputs and of the decoder.                             *)

InputInv(i) == BytesInv(m_input_data[i], upstream[i].rest, arrived[i], decoded[i])

LEMMA BeginStream ==
  ASSUME StreamInv, NEW i \in Inputs, BeginPacket(i)
  PROVE  StreamInv'
<1> DEFINE u == upstream[i].rest
<1>1. PICK pk \in Packet :
        upstream' = [upstream EXCEPT ![i] = [n |-> @.n + 1, rest |-> @.rest \o Pieces(pk)]]
  <2>1. PICK shape \in {Plain} \cup Odd :
          upstream' = [upstream EXCEPT ![i] =
            [n |-> @.n + 1,
             rest |-> @.rest \o Pieces([n |-> @.n, kind |-> shape.kind, tags |-> shape.tags])]]
    BY DEF BeginPacket
  <2>2. /\ shape.kind \in {"good", "damaged", "no_crc"}
        /\ shape.tags \in {FrameTags} \cup OddTags
    BY DEF Plain, Odd
  <2>3. upstream[i].n \in Numbers /\ upstream[i].n + 1 \in 1 .. MaxPackets + 1
    BY FrameAssumption DEF StreamInv, StreamType, Upstream, Numbers, BeginPacket
  <2>4. [n |-> upstream[i].n, kind |-> shape.kind, tags |-> shape.tags] \in Packet
    BY <2>2, <2>3 DEF Packet
  <2> QED
    BY <2>1, <2>4
<1>2. UNCHANGED <<m_input_data, arrived, decoded, decoding>>
  BY DEF BeginPacket
<1>3. /\ upstream \in [Inputs -> Upstream]
      /\ upstream'[i] = [n |-> upstream[i].n + 1, rest |-> u \o Pieces(pk)]
      /\ \A j \in Inputs \ {i} : upstream'[j] = upstream[j]
      /\ DOMAIN upstream' = Inputs
  BY <1>1 DEF StreamInv, StreamType
<1>4. BytesInv(m_input_data[i], u \o Pieces(pk), arrived[i], decoded[i])
  BY BeginBytes DEF StreamInv
<1>5. upstream' \in [Inputs -> Upstream]
  <2>1. u \o Pieces(pk) \in Seq(Piece)
    BY <1>4 DEF BytesInv
  <2>2. upstream'[i] \in Upstream
    <3>1. upstream[i].n + 1 \in 1 .. MaxPackets + 1
      BY FrameAssumption DEF StreamInv, StreamType, Upstream, Numbers, BeginPacket
    <3> QED
      BY <1>3, <2>1, <3>1 DEF Upstream
  <2> QED
    BY <1>1, <1>3, <2>2
<1>6. upstream'[i].rest = u \o Pieces(pk)
  BY <1>3
<1>7. InputInv(i)'
  BY <1>2, <1>4, <1>6 DEF InputInv
<1>8. \A j \in Inputs \ {i} : InputInv(j)'
  BY <1>2, <1>3 DEF InputInv, StreamInv
<1> QED
  BY <1>2, <1>5, <1>7, <1>8 DEF StreamInv, StreamType, InputInv

LEMMA TakeStream ==
  ASSUME StreamInv, NEW i \in Inputs, TakeBytes(i)
  PROVE  StreamInv'
<1> DEFINE u == upstream[i].rest
           d == m_input_data[i]
<1>1. PICK m \in 1 .. MaxChunk :
        /\ m <= Len(u)
        /\ m_input_data' = [m_input_data EXCEPT ![i] = @ \o SubSeq(u, 1, m)]
        /\ arrived' = [arrived EXCEPT ![i] = @ \cup
             {SubSeq(u, 1, m)[j][1].n : j \in {j \in 1 .. m : SubSeq(u, 1, m)[j][2] = "crc"}}]
        /\ upstream' = [upstream EXCEPT ![i].rest = SubSeq(@, m + 1, Len(@))]
  BY DEF TakeBytes
<1>2. UNCHANGED decoded /\ decoding' = i
  BY DEF TakeBytes
<1>3. /\ StreamType /\ BytesInv(d, u, arrived[i], decoded[i])
      /\ u \in Seq(Piece) /\ Len(u) \in Nat
  BY PieceFacts DEF StreamInv, BytesInv
<1>4. m \in 1 .. Len(u)
  BY <1>1, <1>3
<1> DEFINE new == {SubSeq(u, 1, m)[j][1].n : j \in {j \in 1 .. m : SubSeq(u, 1, m)[j][2] = "crc"}}
           came2 == arrived[i] \cup new
<1>5. \A j \in 1 .. m : SubSeq(u, 1, m)[j] = u[j]
  BY <1>3, <1>4, PrefixFacts
<1>6. \A x \in came2 : \/ x \in arrived[i]
                       \/ \E j \in 1 .. m : u[j][2] = "crc" /\ u[j][1].n = x
  BY <1>5
<1>7. /\ m_input_data'[i] = d \o SubSeq(u, 1, m)
      /\ arrived'[i] = came2 /\ DOMAIN arrived' = Inputs
      /\ upstream'[i] = [upstream[i] EXCEPT !.rest = SubSeq(u, m + 1, Len(u))]
      /\ \A j \in Inputs \ {i} : /\ m_input_data'[j] = m_input_data[j]
                                 /\ upstream'[j] = upstream[j]
                                 /\ arrived'[j] = arrived[j]
  BY <1>1, <1>3 DEF StreamType
<1> HIDE DEF came2
<1>8. BytesInv(d \o SubSeq(u, 1, m), SubSeq(u, m + 1, Len(u)), came2, decoded[i])
  BY <1>3, <1>4, <1>6, TakenBytes
<1>9. /\ d \o SubSeq(u, 1, m) \in Seq(Piece)
      /\ SubSeq(u, m + 1, Len(u)) \in Seq(Piece)
  BY <1>8 DEF BytesInv
<1>10. upstream'[i].rest = SubSeq(u, m + 1, Len(u))
  BY <1>3, <1>7 DEF StreamType, Upstream
<1>11. InputInv(i)'
  BY <1>2, <1>7, <1>8, <1>10 DEF InputInv
<1>12. \A j \in Inputs \ {i} : InputInv(j)'
  BY <1>2, <1>7 DEF InputInv, StreamInv
<1>13. StreamType'
  <2>1. m_input_data' \in [Inputs -> Seq(Piece)]
    BY <1>1, <1>3, <1>7, <1>9 DEF StreamType
  <2>2. upstream' \in [Inputs -> Upstream]
    BY <1>1, <1>3, <1>9 DEF StreamType, Upstream
  <2> QED
    BY <1>2, <1>3, <1>7, <2>1, <2>2 DEF StreamType
<1> QED
  BY <1>11, <1>12, <1>13 DEF StreamInv, InputInv

LEMMA DisconnectStream ==
  ASSUME StreamInv, NEW i \in Inputs, Disconnect(i)
  PROVE  StreamInv'
<1>1. /\ m_input_data' = [m_input_data EXCEPT ![i] = <<>>]
      /\ upstream' = [upstream EXCEPT ![i].rest = <<>>]
      /\ arrived' = [arrived EXCEPT ![i] = @ \cap decoded[i]]
      /\ UNCHANGED <<decoded, decoding>>
  BY DEF Disconnect, NoBytes
<1>2. StreamType
  BY DEF StreamInv
<1>3. <<>> \in Seq(Piece) /\ Len(<<>>) = 0
  BY EmptySeq
<1>4. /\ m_input_data'[i] = <<>> /\ upstream'[i].rest = <<>>
      /\ arrived'[i] = arrived[i] \cap decoded[i] /\ DOMAIN arrived' = Inputs
      /\ \A j \in Inputs \ {i} : /\ m_input_data'[j] = m_input_data[j]
                                 /\ upstream'[j] = upstream[j]
                                 /\ arrived'[j] = arrived[j]
  BY <1>1, <1>2 DEF StreamType
<1>5. BytesInv(<<>>, <<>>, arrived[i] \cap decoded[i], decoded[i])
  BY <1>3 DEF BytesInv, Paired, Joined, HeadJudged, Kept
<1>6. InputInv(i)'
  BY <1>1, <1>4, <1>5 DEF InputInv
<1>7. \A j \in Inputs \ {i} : InputInv(j)'
  BY <1>1, <1>4 DEF InputInv, StreamInv
<1>8. StreamType'
  <2>1. m_input_data' \in [Inputs -> Seq(Piece)]
    BY <1>1, <1>2, <1>3 DEF StreamType
  <2>2. upstream' \in [Inputs -> Upstream]
    BY <1>1, <1>2, <1>3 DEF StreamType, Upstream
  <2> QED
    BY <1>1, <1>2, <1>4, <2>1, <2>2 DEF StreamType
<1> QED
  BY <1>6, <1>7, <1>8 DEF StreamInv, InputInv

\* What the steps of push_bytes() that take from the buffer have in common.
ConsumeStep(i, m) ==
  /\ i \in Inputs /\ m \in 1 .. 2 /\ m <= Len(m_input_data[i])
  /\ m_input_data' = [m_input_data EXCEPT ![i] = SubSeq(@, m + 1, Len(@))]
  /\ \/ decoded' = [decoded EXCEPT ![i] = @ \cup {m_input_data[i][1][1].n}]
     \/ UNCHANGED decoded /\ m_input_data[i][1][2] = "crc"
  /\ m = 2 => m_input_data[i][1][2] = "tags"
  /\ m = 1 /\ m_input_data[i][1][2] = "tags" => Len(m_input_data[i]) > 1
  /\ UNCHANGED <<upstream, arrived>>
  /\ decoding' \in Inputs \cup {NoInput}

LEMMA ConsumeStream ==
  ASSUME StreamInv, NEW i, NEW m, ConsumeStep(i, m)
  PROVE  StreamInv'
<1> DEFINE u == upstream[i].rest
           d == m_input_data[i]
           done == decoded'[i]
<1>1. /\ i \in Inputs /\ StreamType /\ BytesInv(d, u, arrived[i], decoded[i])
      /\ d \in Seq(Piece) /\ m \in 1 .. 2 /\ m <= Len(d)
      /\ m = 2 => d[1][2] = "tags"
      /\ m = 1 /\ d[1][2] = "tags" => Len(d) > 1
  BY DEF ConsumeStep, StreamInv, BytesInv
<1>2. /\ m_input_data'[i] = SubSeq(d, m + 1, Len(d))
      /\ \A j \in Inputs \ {i} : /\ m_input_data'[j] = m_input_data[j]
                                 /\ decoded'[j] = decoded[j]
      /\ DOMAIN decoded' = Inputs
      /\ UNCHANGED <<upstream, arrived>>
  BY <1>1 DEF ConsumeStep, StreamType
<1>3. decoded[i] \subseteq done /\ d[1][1].n \in done
  <2>1. CASE decoded' = [decoded EXCEPT ![i] = @ \cup {d[1][1].n}]
    BY <1>1, <2>1 DEF StreamType
  <2>2. CASE UNCHANGED decoded /\ d[1][2] = "crc"
    <3>1. d # <<>>
      BY <1>1, PieceFacts
    <3> QED
      BY <1>1, <2>2, <3>1 DEF BytesInv, HeadJudged
  <2> QED
    BY <2>1, <2>2 DEF ConsumeStep
<1> HIDE DEF done
<1>4. BytesInv(SubSeq(d, m + 1, Len(d)), u, arrived[i], done)
  <2> HIDE DEF d, u
  <2> QED
    BY <1>1, <1>3, ConsumeBytes
<1>5. SubSeq(d, m + 1, Len(d)) \in Seq(Piece)
  BY <1>4 DEF BytesInv
<1>6. InputInv(i)'
  BY <1>2, <1>4 DEF InputInv, done
<1>7. \A j \in Inputs \ {i} : InputInv(j)'
  BY <1>2 DEF InputInv, StreamInv
<1>8. StreamType'
  <2>1. m_input_data' \in [Inputs -> Seq(Piece)]
    BY <1>1, <1>5 DEF StreamType, ConsumeStep
  <2> QED
    BY <1>1, <1>2, <2>1 DEF StreamType, ConsumeStep
<1> QED
  BY <1>6, <1>7, <1>8 DEF StreamInv, InputInv

LEMMA DecodeStream ==
  ASSUME StreamInv, DropByte \/ RefuseAF \/ AssembleAF
  PROVE  StreamInv'
<1> DEFINE i == decoding
           d == m_input_data[i]
<1>1. i \in Inputs
  BY DEF StreamInv, StreamType, DropByte, RefuseAF, AssembleAF
<1>2. /\ d \in Seq(Piece) /\ Len(d) \in Nat /\ (d # <<>> <=> Len(d) > 0)
      /\ \A k \in 1 .. Len(d) : d[k][2] \in {"tags", "crc"}
  BY <1>1, PieceFacts DEF StreamInv, StreamType
<1>3. \E m : ConsumeStep(i, m)
  <2>1. CASE DropByte
    <3>1. d # <<>> /\ ~HasSync(d) /\ 1 \in 1 .. Len(d)
      BY <1>2, <2>1 DEF DropByte
    <3>2. d[1][2] = "crc"
      BY <1>2, <3>1 DEF HasSync
    <3>3. Tail(d) = SubSeq(d, 1 + 1, Len(d))
      BY <1>2, <3>1, TailIsSubSeq
    <3>4. /\ m_input_data' = [m_input_data EXCEPT ![i] = SubSeq(@, 1 + 1, Len(@))]
          /\ UNCHANGED <<upstream, arrived, decoded, decoding>>
      BY <2>1, <3>3 DEF DropByte, decoderHistory
    <3>5. ConsumeStep(i, 1)
      BY <1>1, <1>2, <3>1, <3>2, <3>4 DEF ConsumeStep
    <3> QED
      BY <3>5
  <2>2. CASE RefuseAF
    <3> DEFINE m == Consumed(d)
    <3>1. m \in 1 .. 2 /\ Len(d) >= 2 /\ d[1][2] = "tags"
      BY <2>2 DEF RefuseAF, Complete, HasSync, Consumed
    <3>2. /\ m_input_data' = [m_input_data EXCEPT ![i] = SubSeq(@, m + 1, Len(@))]
          /\ decoded' = [decoded EXCEPT ![i] = @ \cup {d[1][1].n}]
          /\ UNCHANGED <<upstream, arrived>> /\ decoding' = NoInput
      BY <2>2 DEF RefuseAF, AfterRefused, Judged, PacketOf
    <3> HIDE DEF m
    <3>3. ConsumeStep(i, m)
      BY <1>1, <1>2, <3>1, <3>2 DEF ConsumeStep
    <3> QED
      BY <3>3
  <2>3. CASE AssembleAF
    <3>1. Len(d) >= 2 /\ d[1][2] = "tags"
      BY <2>3 DEF AssembleAF, AcceptsAF, Complete, HasSync
    <3>2. /\ m_input_data' = [m_input_data EXCEPT ![i] = SubSeq(@, 3, Len(@))]
          /\ decoded' = [decoded EXCEPT ![i] = @ \cup {d[1][1].n}]
          /\ UNCHANGED <<upstream, arrived, decoding>>
      BY <2>3 DEF AssembleAF, Judged, PacketOf
    <3>3. ConsumeStep(i, 2)
      BY <1>1, <1>2, <3>1, <3>2 DEF ConsumeStep
    <3> QED
      BY <3>3
  <2> QED
    BY <2>1, <2>2, <2>3
<1>4. PICK j, m : ConsumeStep(j, m)
  BY <1>3 DEF ConsumeStep
<1> QED
  BY <1>4, ConsumeStream

LEMMA NextStream == StreamInv /\ [DecoderNext]_decoderVars => StreamInv'
<1> SUFFICES ASSUME StreamInv, [DecoderNext]_decoderVars PROVE StreamInv'
  OBVIOUS
<1>1. ASSUME UNCHANGED <<upstream, m_input_data, arrived, decoded>>,
             decoding' \in Inputs \cup {NoInput}
      PROVE  StreamInv'
  BY <1>1 DEF StreamInv, StreamType
<1>2. CASE \E i \in Inputs : BeginPacket(i) \/ TakeBytes(i) \/ Disconnect(i)
  BY <1>2, BeginStream, TakeStream, DisconnectStream
<1>3. CASE DropByte \/ RefuseAF \/ AssembleAF
  BY <1>3, DecodeStream
<1>4. CASE LeaveLoop
  BY <1>1, <1>4 DEF LeaveLoop, decoderHistory
<1>5. CASE ThrowAF
  BY <1>1, <1>5 DEF ThrowAF, decoderHistory
<1>6. CASE UNCHANGED decoderVars
  BY <1>1, <1>6 DEF decoderVars, decoderHistory, StreamInv, StreamType
<1> QED
  BY <1>2, <1>3, <1>4, <1>5, <1>6 DEF DecoderNext

LEMMA InitStream == DecoderInit => StreamInv
<1> SUFFICES ASSUME DecoderInit PROVE StreamInv
  OBVIOUS
<1>1. <<>> \in Seq(Piece) /\ Len(<<>>) = 0
  BY EmptySeq
<1>2. StreamType
  BY <1>1, FrameAssumption DEF DecoderInit, StreamType, Upstream
<1>3. BytesInv(<<>>, <<>>, {}, {})
  BY <1>1 DEF BytesInv, Paired, Joined, HeadJudged, Kept
<1>4. \A i \in Inputs : /\ m_input_data[i] = <<>> /\ upstream[i].rest = <<>>
                       /\ arrived[i] = {} /\ decoded[i] = {}
  BY DEF DecoderInit
<1>5. \A i \in Inputs : InputInv(i)
  BY <1>3, <1>4 DEF InputInv
<1> QED
  BY <1>2, <1>5 DEF StreamInv, InputInv

\* Every AF packet that arrived whole is decoded or refused, or is still whole
\* in the buffer (common.cpp, push_bytes): refused packets, packets without CRC
\* and broken connections take no other packet along, however recv() cuts the
\* stream.
THEOREM PacketsAreKept == DecoderSpec => []NoPacketLost
<1>1. StreamInv => NoPacketLost
  BY DEF StreamInv, BytesInv, Kept, Whole, NoPacketLost
<1> QED
  BY <1>1, InitStream, NextStream, PTL DEF DecoderSpec
-----------------------------------------------------------------------------
(* The TAGs of a packet.                                                   *)

Status == {"go", "stop", "error", "throw"}
Field == [proto : BOOLEAN, fc : Nat, fic : Nat, subchannels : Seq(Nat)]
Result == [st : Status, f : Field]

\* Only a deti TAG with a FIC changes fc and FIC, or the program ends.
OnDeti(tag, st, f, g, n) ==
  /\ tag = "deti" /\ st # "throw" => g.fc = n /\ g.fic = n
  /\ tag = "deti no fic" => st = "throw"
  /\ tag \notin {"deti", "deti no fic"} => g.fc = f.fc /\ g.fic = f.fic

\* What one TAG does to the fields, and how the loop goes on.
Effect(r, tag, n, s) ==
  /\ s \in Result
  /\ r.st # "go" => s = r
  /\ r.st = "go" =>
       /\ s.st = "stop" <=> tag = "unknown"
       /\ s.f.fc \in {r.f.fc, n, NoPacket} /\ s.f.fic \in {r.f.fic, n}
       /\ s.f.subchannels \in {r.f.subchannels, Append(r.f.subchannels, n)}
       /\ tag # "est" => s.f.subchannels = r.f.subchannels
       /\ tag = "est" /\ s.st # "throw" =>
            /\ s.f.subchannels = Append(r.f.subchannels, n)
            /\ Len(r.f.subchannels) < MaxSubchannels
       /\ OnDeti(tag, s.st, r.f, s.f, n)

LEMMA HandleEffect ==
  ASSUME NEW r \in Result, NEW tag \in TagNames, NEW n \in Nat
  PROVE  Effect(r, tag, n, HandleTag(r, tag, n))
<1> DEFINE s == HandleTag(r, tag, n)
<1>1. /\ r = [st |-> r.st, f |-> r.f] /\ r.st \in Status /\ r.f \in Field
      /\ Append(r.f.subchannels, n) \in Seq(Nat) /\ Len(r.f.subchannels) \in Nat
      /\ NoPacket \in Nat /\ MaxSubchannels \in Nat
  BY FrameAssumption DEF Result, Field, NoPacket
<1> SUFFICES Effect(r, tag, n, s)
  OBVIOUS
<1> HIDE DEF s
<1>2. ASSUME NEW st \in Status, NEW f \in Field, s = [st |-> st, f |-> f], r.st = "go",
             st = "stop" <=> tag = "unknown",
             f.fc \in {r.f.fc, n, NoPacket}, f.fic \in {r.f.fic, n},
             OnDeti(tag, st, r.f, f, n),
             \/ tag # "est" /\ f.subchannels = r.f.subchannels
             \/ tag = "est" /\ st = "throw" /\ f.subchannels = r.f.subchannels
             \/ /\ tag = "est" /\ f.subchannels = Append(r.f.subchannels, n)
                /\ st # "throw" => Len(r.f.subchannels) < MaxSubchannels
      PROVE  Effect(r, tag, n, s)
  <2>1. s \in Result /\ s.st = st /\ s.f = f
    BY <1>2 DEF Result
  <2> QED
    BY <1>2, <2>1 DEF Effect
<1>3. CASE r.st # "go"
  <2>1. s = r
    BY <1>3 DEF s, HandleTag
  <2> QED
    BY <1>3, <2>1 DEF Effect
<1>4. CASE r.st = "go" /\ tag \in {"deti", "deti no fic"}
  <2>1. s = Deti(r, tag, n)
    BY <1>4 DEF s, HandleTag
  <2> DEFINE f1 == [r.f EXCEPT !.fc = NoPacket]
             f2 == [[r.f EXCEPT !.fic = n] EXCEPT !.fc = n]
  <2>2. /\ f1 \in Field /\ f1.fc = NoPacket /\ f1.fic = r.f.fic
        /\ f1.subchannels = r.f.subchannels
    BY <1>1 DEF Field
  <2>3. /\ f2 \in Field /\ f2.fc = n /\ f2.fic = n
        /\ f2.subchannels = r.f.subchannels
    BY <1>1 DEF Field
  <2>4. \/ s = [st |-> "throw", f |-> r.f] \/ s = [st |-> "throw", f |-> f1]
        \/ s = [st |-> "go", f |-> f2] /\ tag = "deti"
    <3>1. \/ s = [r EXCEPT !.st = "throw"]
          \/ s = [r EXCEPT !.f.fc = NoPacket, !.st = "throw"]
          \/ s = [r EXCEPT !.f.fic = n, !.f.fc = n] /\ tag = "deti"
      BY <1>4, <2>1 DEF Deti
    <3> QED
      BY <1>1, <1>4, <3>1
  <2> HIDE DEF f1, f2
  <2>5. "throw" \in Status /\ "go" \in Status
    BY DEF Status
  <2>6. CASE s = [st |-> "throw", f |-> r.f]
    <3>1. OnDeti(tag, "throw", r.f, r.f, n)
      BY <1>4 DEF OnDeti
    <3> QED
      BY <1>1, <1>2, <1>4, <2>5, <2>6, <3>1
  <2>7. CASE s = [st |-> "throw", f |-> f1]
    <3>1. OnDeti(tag, "throw", r.f, f1, n)
      BY <1>4 DEF OnDeti
    <3> QED
      BY <1>2, <1>4, <2>2, <2>5, <2>7, <3>1
  <2>8. CASE s = [st |-> "go", f |-> f2] /\ tag = "deti"
    <3>1. OnDeti(tag, "go", r.f, f2, n)
      BY <2>3, <2>8 DEF OnDeti
    <3> QED
      BY <1>2, <1>4, <2>3, <2>5, <2>8, <3>1
  <2> QED
    BY <2>4, <2>6, <2>7, <2>8
<1>5. CASE r.st = "go" /\ tag = "est"
  <2>1. s = Estn(r, n)
    BY <1>5 DEF s, HandleTag
  <2> DEFINE st == IF Len(r.f.subchannels) >= MaxSubchannels THEN "throw" ELSE "go"
             f == [r.f EXCEPT !.subchannels = Append(r.f.subchannels, n)]
  <2>2. \/ s = [st |-> "throw", f |-> r.f] \/ s = [st |-> st, f |-> f]
    BY <1>1, <2>1 DEF Estn
  <2>3. /\ f \in Field /\ f.fc = r.f.fc /\ f.fic = r.f.fic
        /\ f.subchannels = Append(r.f.subchannels, n)
    BY <1>1 DEF Field
  <2>4. /\ st \in Status /\ st # "stop"
        /\ st # "throw" => Len(r.f.subchannels) < MaxSubchannels
    BY <1>1 DEF Status
  <2> HIDE DEF st, f
  <2> QED
    BY <1>1, <1>2, <1>5, <2>2, <2>3, <2>4 DEF Status, OnDeti
<1>6. CASE r.st = "go" /\ tag \in {"*dmy", "unknown"}
  <2>1. s = [st |-> IF tag = "*dmy" THEN "go" ELSE "stop", f |-> r.f]
    BY <1>1, <1>6 DEF s, HandleTag
  <2> QED
    BY <1>1, <1>2, <1>6, <2>1 DEF Status, OnDeti
<1>7. CASE r.st = "go" /\ tag \in {"*ptr", "*ptr too long", "*ptr other"}
  <2>1. s = Starptr(r, tag)
    BY <1>7 DEF s, HandleTag
  <2> DEFINE f1 == [r.f EXCEPT !.proto = TRUE]
             f2 == [r.f EXCEPT !.proto = FALSE]
  <2>2. /\ f1 \in Field /\ f1.fc = r.f.fc /\ f1.fic = r.f.fic
        /\ f1.subchannels = r.f.subchannels
    BY <1>1 DEF Field
  <2>3. /\ f2 \in Field /\ f2.fc = r.f.fc /\ f2.fic = r.f.fic
        /\ f2.subchannels = r.f.subchannels
    BY <1>1 DEF Field
  <2>4. \/ s = [st |-> "go", f |-> f1] \/ s = [st |-> "error", f |-> r.f]
        \/ s = [st |-> "throw", f |-> f2]
    <3>1. CASE tag = "*ptr"
      BY <1>1, <1>7, <2>1, <3>1 DEF Starptr
    <3>2. CASE tag = "*ptr too long"
      BY <1>1, <1>7, <2>1, <3>2 DEF Starptr
    <3>3. CASE tag = "*ptr other"
      BY <1>1, <1>7, <2>1, <3>3 DEF Starptr
    <3> QED
      BY <1>7, <3>1, <3>2, <3>3
  <2> HIDE DEF f1, f2
  <2> QED
    BY <1>1, <1>2, <1>7, <2>2, <2>3, <2>4 DEF Status, OnDeti
<1> QED
  BY <1>3, <1>4, <1>5, <1>6, <1>7 DEF TagNames

\* The loop over the TAGs: g[k] is what the first k of them lead to.
TagLoop(f, pk, g) ==
  g = [k \in 0 .. Len(pk.tags) |->
         IF k = 0 THEN [st |-> "go", f |-> f] ELSE HandleTag(g[k - 1], pk.tags[k], pk.n)]

LEMMA LoopExists ==
  ASSUME NEW f, NEW pk, pk.tags \in Seq(TagNames)
  PROVE  \E g : TagLoop(f, pk, g)
<1> DEFINE N == Len(pk.tags)
           base == [st |-> "go", f |-> f]
           First(m, g) == g = [k \in 0 .. m |->
             IF k = 0 THEN base ELSE HandleTag(g[k - 1], pk.tags[k], pk.n)]
           S == {m \in 0 .. N : \E g : First(m, g)}
<1>1. N \in Nat
  BY LenProperties
<1>2. 0 \in S
  <2>1. First(0, [k \in 0 .. 0 |-> base])
    OBVIOUS
  <2> HIDE DEF First
  <2> QED
    BY <1>1, <2>1
<1>3. ASSUME NEW m \in 0 .. N - 1, m \in S
      PROVE  m + 1 \in S
  <2>1. PICK g : First(m, g)
    BY <1>3
  <2> DEFINE h == [k \in 0 .. m + 1 |->
               IF k = m + 1 THEN HandleTag(g[m], pk.tags[m + 1], pk.n) ELSE g[k]]
  <2>2. First(m + 1, h)
    <3>1. \A k \in 0 .. m : h[k] = g[k] /\ g[k] = IF k = 0 THEN base ELSE HandleTag(g[k - 1], pk.tags[k], pk.n)
      BY <2>1
    <3>2. \A k \in 0 .. m + 1 : h[k] = IF k = 0 THEN base ELSE HandleTag(h[k - 1], pk.tags[k], pk.n)
      <4> TAKE k \in 0 .. m + 1
      <4>1. CASE k = m + 1
        <5>1. k - 1 = m /\ k # 0 /\ m \in 0 .. m
          BY <1>1, <4>1
        <5>2. h[k - 1] = g[m]
          BY <3>1, <5>1
        <5> QED
          BY <4>1, <5>1, <5>2
      <4>2. CASE k # m + 1 /\ k # 0
        <5>1. k \in 0 .. m /\ k - 1 \in 0 .. m
          BY <1>1, <4>2
        <5> QED
          BY <3>1, <4>2, <5>1
      <4>3. CASE k = 0
        <5>1. k \in 0 .. m
          BY <1>1, <4>3
        <5> QED
          BY <3>1, <4>3, <5>1
      <4> QED
        BY <4>1, <4>2, <4>3
    <3>3. h = [k \in 0 .. m + 1 |-> h[k]]
      OBVIOUS
    <3> HIDE DEF h
    <3> QED
      BY <3>2, <3>3
  <2>3. m + 1 \in 0 .. N
    BY <1>1
  <2> QED
    BY <2>2, <2>3
<1>4. N \in S
  <2> HIDE DEF S, N
  <2>1. \A m \in 0 .. N : m \in S
    BY <1>1, <1>2, <1>3, Induction
  <2> QED
    BY <1>1, <2>1
<1> QED
  BY <1>4 DEF TagLoop

LEMMA DecodeLoop ==
  ASSUME NEW f, NEW pk, pk.tags \in Seq(TagNames)
  PROVE  \E g : TagLoop(f, pk, g) /\ DecodeTagpacket(f, pk) = g[Len(pk.tags)]
<1> DEFINE c == CHOOSE g : TagLoop(f, pk, g)
<1>1. TagLoop(f, pk, c)
  BY LoopExists, Zenon
<1>2. DecodeTagpacket(f, pk) = c[Len(pk.tags)]
  BY DEF DecodeTagpacket, TagLoop
<1> QED
  BY <1>1, <1>2

\* The subchannels of the first k TAGs that are looked at.
Ests(tags, k) ==
  {j \in 1 .. k : tags[j] = "est" /\ \A i \in 1 .. j : tags[i] # "unknown"}

LEMMA EstFacts ==
  ASSUME NEW tags, NEW k \in Nat
  PROVE  /\ IsFiniteSet(Ests(tags, k)) /\ Cardinality(Ests(tags, k)) \in Nat
         /\ Cardinality(Ests(tags, 0)) = 0
         /\ Ests(tags, k + 1) =
              IF k + 1 \in Ests(tags, k + 1) THEN Ests(tags, k) \cup {k + 1} ELSE Ests(tags, k)
         /\ k + 1 \in Ests(tags, k + 1) =>
              Cardinality(Ests(tags, k + 1)) = Cardinality(Ests(tags, k)) + 1
<1>1. ASSUME NEW m \in Nat PROVE IsFiniteSet(Ests(tags, m)) /\ Cardinality(Ests(tags, m)) \in Nat
  <2>1. IsFiniteSet(1 .. m)
    BY FS_Interval
  <2>2. Ests(tags, m) \subseteq 1 .. m
    BY DEF Ests
  <2>3. IsFiniteSet(Ests(tags, m))
    BY <2>1, <2>2, FS_Subset
  <2> QED
    BY <2>3, FS_CardinalityType
<1>2. Cardinality(Ests(tags, 0)) = 0
  <2>1. Ests(tags, 0) = {}
    BY DEF Ests
  <2> QED
    BY <2>1, FS_EmptySet
<1>3. Ests(tags, k + 1) =
        IF k + 1 \in Ests(tags, k + 1) THEN Ests(tags, k) \cup {k + 1} ELSE Ests(tags, k)
  <2>1. \A j : j \in 1 .. k + 1 <=> j \in 1 .. k \/ j = k + 1
    OBVIOUS
  <2> QED
    BY <2>1 DEF Ests
<1>4. k + 1 \in Ests(tags, k + 1) =>
        Cardinality(Ests(tags, k + 1)) = Cardinality(Ests(tags, k)) + 1
  <2>1. k + 1 \notin Ests(tags, k)
    BY DEF Ests
  <2> QED
    BY <1>1, <1>3, <2>1, FS_AddElement
<1> QED
  BY <1>1, <1>2, <1>3, <1>4

\* There is a deti TAG among the first k, and it is looked at.
DetiAmong(tags, k) ==
  \E j \in 1 .. k : tags[j] = "deti" /\ \A i \in 1 .. j : tags[i] # "unknown"

\* Sequence t is s and then only n.
Extends(s, t, n) ==
  /\ Len(t) >= Len(s)
  /\ \A j \in 1 .. Len(t) : IF j <= Len(s) THEN t[j] = s[j] ELSE t[j] = n

\* What holds after the first k TAGs of packet n: the fields are those from
\* before the packet, f, or come from the packet.
AfterTags(f, tags, n, k, r) ==
  /\ r \in Result
  /\ r.f.fc \in {f.fc, n, NoPacket} /\ r.f.fic \in {f.fic, n}
  /\ Len(r.f.subchannels) <= MaxSubchannels + (IF r.st = "throw" THEN 1 ELSE 0)
  /\ r.st = "go" => \A j \in 1 .. k : tags[j] # "unknown"
  /\ r.st = "stop" => \E j \in 1 .. k : tags[j] = "unknown"
  /\ Extends(f.subchannels, r.f.subchannels, n)
  /\ r.st \in {"go", "stop"} =>
       /\ Len(r.f.subchannels) = Len(f.subchannels) + Cardinality(Ests(tags, k))
       /\ DetiAmong(tags, k) => r.f.fc = n /\ r.f.fic = n

LEMMA OneTag ==
  ASSUME NEW f \in Field, NEW tags, NEW n \in Nat, NEW k \in Nat, NEW r,
         AfterTags(f, tags, n, k, r),
         tags[k + 1] \in TagNames
  PROVE  AfterTags(f, tags, n, k + 1, HandleTag(r, tags[k + 1], n))
<1> DEFINE tag == tags[k + 1]
           s == HandleTag(r, tag, n)
           c == Cardinality(Ests(tags, k))
<1>1. /\ r \in Result /\ Effect(r, tag, n, s) /\ s \in Result
      /\ MaxSubchannels \in Nat
  <2>1. r \in Result /\ MaxSubchannels \in Nat
    BY FrameAssumption DEF AfterTags
  <2>2. Effect(r, tag, n, s)
    BY <2>1, HandleEffect
  <2> HIDE DEF s
  <2> QED
    BY <2>1, <2>2 DEF Effect
<1>2. /\ r.st \in Status /\ s.st \in Status
      /\ r.f.subchannels \in Seq(Nat) /\ s.f.subchannels \in Seq(Nat)
      /\ Len(r.f.subchannels) \in Nat /\ Len(f.subchannels) \in Nat
      /\ Len(Append(r.f.subchannels, n)) = Len(r.f.subchannels) + 1
  BY <1>1 DEF Result, Field
<1>3. c \in Nat /\ k + 1 \in 1 .. k + 1 /\ \A j : j \in 1 .. k + 1 <=> j \in 1 .. k \/ j = k + 1
  <2>1. c \in Nat
    BY EstFacts
  <2> QED
    BY <2>1
<1> HIDE DEF s
<1>4. CASE r.st # "go"
  <2>1. s = r
    BY <1>1, <1>4 DEF Effect
  <2>2. r.st = "stop" => /\ Ests(tags, k + 1) = Ests(tags, k)
                         /\ DetiAmong(tags, k + 1) => DetiAmong(tags, k)
    <3>1. r.st = "stop" => k + 1 \notin Ests(tags, k + 1)
      BY <1>3 DEF AfterTags, Ests
    <3>2. r.st = "stop" => (DetiAmong(tags, k + 1) => DetiAmong(tags, k))
      BY <1>3 DEF AfterTags, DetiAmong
    <3> QED
      BY <3>1, <3>2, EstFacts
  <2> QED
    BY <1>3, <1>4, <2>1, <2>2 DEF AfterTags, s
<1>5. CASE r.st = "go"
  <2>1. /\ s.st = "stop" <=> tag = "unknown"
        /\ s.f.fc \in {r.f.fc, n, NoPacket} /\ s.f.fic \in {r.f.fic, n}
        /\ s.f.subchannels \in {r.f.subchannels, Append(r.f.subchannels, n)}
        /\ tag # "est" => s.f.subchannels = r.f.subchannels
        /\ tag = "est" /\ s.st # "throw" =>
             /\ s.f.subchannels = Append(r.f.subchannels, n)
             /\ Len(r.f.subchannels) < MaxSubchannels
        /\ OnDeti(tag, s.st, r.f, s.f, n)
    BY <1>1, <1>5 DEF Effect
  <2>2. s.f.fc \in {f.fc, n, NoPacket} /\ s.f.fic \in {f.fic, n}
    BY <2>1 DEF AfterTags
  <2>3. Len(s.f.subchannels) <= MaxSubchannels + (IF s.st = "throw" THEN 1 ELSE 0)
    <3>1. Len(r.f.subchannels) <= MaxSubchannels
      BY <1>1, <1>5 DEF AfterTags
    <3>2. CASE s.f.subchannels = r.f.subchannels
      BY <1>1, <1>2, <3>1, <3>2
    <3>3. CASE s.f.subchannels = Append(r.f.subchannels, n) /\ s.st = "throw"
      BY <1>1, <1>2, <3>1, <3>3
    <3>4. CASE tag = "est" /\ s.st # "throw"
      BY <1>1, <1>2, <2>1, <3>4, SMTT(30)
    <3> QED
      BY <2>1, <3>2, <3>3, <3>4
  <2>4. /\ s.st = "go" => \A j \in 1 .. k + 1 : tags[j] # "unknown"
        /\ s.st = "stop" => \E j \in 1 .. k + 1 : tags[j] = "unknown"
    BY <1>3, <1>5, <2>1 DEF AfterTags
  <2>5. Extends(f.subchannels, s.f.subchannels, n)
    <3>1. Extends(f.subchannels, r.f.subchannels, n)
      BY DEF AfterTags
    <3>2. CASE s.f.subchannels = r.f.subchannels
      BY <3>1, <3>2
    <3>3. CASE s.f.subchannels = Append(r.f.subchannels, n)
      <4> DEFINE t == f.subchannels
                 q == r.f.subchannels
      <4>1. /\ q \in Seq(Nat) /\ Len(q) \in Nat /\ Len(t) \in Nat
            /\ Extends(t, q, n)
        BY <1>2, <3>1
      <4> HIDE DEF t, q
      <4>2. /\ Len(Append(q, n)) = Len(q) + 1 /\ Append(q, n)[Len(q) + 1] = n
            /\ \A j \in 1 .. Len(q) : Append(q, n)[j] = q[j]
        BY <4>1
      <4>3. Extends(t, Append(q, n), n)
        BY <4>1, <4>2 DEF Extends
      <4> QED
        BY <3>3, <4>3 DEF t, q
    <3> QED
      BY <2>1, <3>2, <3>3
  <2>6. ASSUME s.st \in {"go", "stop"}
        PROVE  Len(s.f.subchannels) = Len(f.subchannels) + Cardinality(Ests(tags, k + 1))
    <3>1. Len(r.f.subchannels) = Len(f.subchannels) + c
      BY <1>5 DEF AfterTags
    <3>2. k + 1 \in Ests(tags, k + 1) <=> tag = "est"
      BY <1>3, <1>5 DEF AfterTags, Ests
    <3>3. CASE tag = "est"
      <4>1. Cardinality(Ests(tags, k + 1)) = c + 1
        BY <3>2, <3>3, EstFacts
      <4>2. Len(s.f.subchannels) = Len(r.f.subchannels) + 1
        BY <1>2, <2>1, <2>6, <3>3
      <4>3. ASSUME NEW a \in Nat, NEW b \in Nat, NEW d \in Nat, b = a + d
            PROVE  b + 1 = a + (d + 1)
        BY <4>3
      <4>4. Len(r.f.subchannels) + 1 = Len(f.subchannels) + (c + 1)
        BY <1>2, <1>3, <3>1, <4>3
      <4> QED
        BY <4>1, <4>2, <4>4, Zenon
    <3>4. CASE tag # "est"
      <4>1. Ests(tags, k + 1) = Ests(tags, k)
        BY <3>2, <3>4, EstFacts
      <4> QED
        BY <2>1, <3>1, <3>4, <4>1
    <3> QED
      BY <3>3, <3>4
  <2>7. ASSUME s.st \in {"go", "stop"}, DetiAmong(tags, k + 1)
        PROVE  s.f.fc = n /\ s.f.fic = n
    <3>1. CASE tag = "deti"
      BY <2>1, <2>7, <3>1 DEF OnDeti
    <3>2. CASE tag # "deti"
      <4>1. DetiAmong(tags, k)
        BY <1>3, <2>7, <3>2 DEF DetiAmong
      <4>2. r.f.fc = n /\ r.f.fic = n
        BY <1>5, <4>1 DEF AfterTags
      <4>3. tag # "deti no fic"
        BY <2>1, <2>7 DEF OnDeti
      <4> QED
        BY <2>1, <3>2, <4>2, <4>3 DEF OnDeti
    <3> QED
      BY <3>1, <3>2
  <2> QED
    BY <1>1, <2>2, <2>3, <2>4, <2>5, <2>6, <2>7 DEF AfterTags, s
<1> QED
  BY <1>4, <1>5

\* decode_tagpacket() as a whole.
LEMMA DecodeFacts ==
  ASSUME NEW f \in Field, Len(f.subchannels) <= MaxSubchannels,
         NEW pk, pk.tags \in Seq(TagNames), pk.n \in Nat
  PROVE  AfterTags(f, pk.tags, pk.n, Len(pk.tags), DecodeTagpacket(f, pk))
<1> DEFINE N == Len(pk.tags)
<1>1. PICK g : TagLoop(f, pk, g) /\ DecodeTagpacket(f, pk) = g[N]
  BY DecodeLoop
<1> DEFINE S == {m \in 0 .. N : AfterTags(f, pk.tags, pk.n, m, g[m])}
<1>2. N \in Nat /\ 0 \in 0 .. N
  BY LenProperties
<1>3. /\ g[0] = [st |-> "go", f |-> f]
      /\ \A m \in 0 .. N - 1 : g[m + 1] = HandleTag(g[m], pk.tags[m + 1], pk.n)
  <2>1. g[0] = [st |-> "go", f |-> f]
    BY <1>1, <1>2 DEF TagLoop
  <2>2. ASSUME NEW m \in 0 .. N - 1
        PROVE  g[m + 1] = HandleTag(g[m], pk.tags[m + 1], pk.n)
    <3>1. m + 1 \in 0 .. N /\ m + 1 # 0 /\ (m + 1) - 1 = m
      BY <1>2
    <3> HIDE DEF N
    <3> QED
      BY <1>1, <3>1 DEF TagLoop, N
  <2> QED
    BY <2>1, <2>2
<1>4. AfterTags(f, pk.tags, pk.n, 0, g[0])
  <2>1. [st |-> "go", f |-> f] \in Result
    BY DEF Result, Status
  <2>2. Cardinality(Ests(pk.tags, 0)) = 0 /\ ~DetiAmong(pk.tags, 0)
    <3>1. 0 \in Nat
      OBVIOUS
    <3>2. Cardinality(Ests(pk.tags, 0)) = 0
      BY <3>1, EstFacts, Zenon
    <3>3. ~DetiAmong(pk.tags, 0)
      BY DEF DetiAmong
    <3> QED
      BY <3>2, <3>3
  <2>3. MaxSubchannels \in Nat /\ Len(f.subchannels) \in Nat
    BY FrameAssumption DEF Field
  <2>4. Extends(f.subchannels, f.subchannels, pk.n)
    BY <2>3 DEF Extends
  <2> QED
    BY <1>3, <2>1, <2>2, <2>3, <2>4 DEF AfterTags
<1>5. ASSUME NEW m \in 0 .. N - 1, m \in S
      PROVE  m + 1 \in S
  <2>1. m \in Nat /\ m + 1 \in 0 .. N /\ m + 1 \in 1 .. N
    BY <1>2
  <2>2. pk.tags[m + 1] \in TagNames
    BY <2>1, ElementOfSeq
  <2>3. AfterTags(f, pk.tags, pk.n, m, g[m])
    BY <1>5
  <2>4. AfterTags(f, pk.tags, pk.n, m + 1, HandleTag(g[m], pk.tags[m + 1], pk.n))
    BY <2>1, <2>2, <2>3, OneTag
  <2> QED
    BY <1>3, <2>1, <2>4
<1>6. N \in S
  <2>1. 0 \in S
    BY <1>2, <1>4
  <2> HIDE DEF S, N
  <2>2. \A m \in 0 .. N : m \in S
    BY <1>2, <1>5, <2>1, Induction
  <2> QED
    BY <1>2, <2>2
<1> QED
  BY <1>1, <1>6
-----------------------------------------------------------------------------
(* The fields of the Receivers, and the frames.                            *)

FieldType ==
  /\ fields \in [Inputs -> Field] /\ DOMAIN spoiled = Inputs /\ DOMAIN assembled = Inputs
  /\ ended \in BOOLEAN /\ disconnects \in 0 .. MaxDisconnects /\ odd \in 0 .. MaxOdd
  /\ \A i \in Inputs : /\ Len(upstream[i].rest) <= MaxChunk + 1
                       /\ arrived[i] \cup decoded[i] \cup spoiled[i] \subseteq Numbers

\* The fields come from packets of the input, and unless the program ended only
\* from those, bad, that were refused for a TAG since the last frame.
FieldsOK(f, bad, over) ==
  /\ {f.fc, f.fic} \subseteq Numbers \cup {NoPacket}
  /\ Len(f.subchannels) <= MaxSubchannels + (IF over THEN 1 ELSE 0)
  /\ ~over => /\ {f.fc, f.fic} \subseteq bad \cup {NoPacket}
              /\ \A j \in 1 .. Len(f.subchannels) : f.subchannels[j] \in bad

FieldInv ==
  /\ FieldType
  /\ ended => decoding = NoInput
  /\ \A i \in Inputs : FieldsOK(fields[i], spoiled[i], ended)
  /\ FrameExact

DecoderInv == StreamInv /\ PhaseInv /\ FieldInv

\* What is in the fields comes from packets of the set bad.
LeftBehind(f, bad) ==
  /\ {f.fc, f.fic} \subseteq bad \cup {NoPacket}
  /\ \A j \in 1 .. Len(f.subchannels) : f.subchannels[j] \in bad

\* The packet at the head of the buffer, and what its TAGs lead to.
LEMMA PacketFacts ==
  ASSUME StreamInv, FieldInv, NEW i \in Inputs, i = decoding, i # NoInput,
         Complete(m_input_data[i])
  PROVE  LET pk == PacketOf(m_input_data[i])
             r == DecodeTagpacket(fields[i], pk)
         IN  /\ pk.n \in Numbers /\ pk.n \in Nat /\ pk.n # NoPacket
             /\ pk.tags \in Seq(TagNames) /\ ~ended
             /\ AfterTags(fields[i], pk.tags, pk.n, Len(pk.tags), r)
             /\ r.f \in Field /\ {r.f.fc, r.f.fic} \subseteq Numbers \cup {NoPacket}
             /\ MaxSubchannels \in Nat /\ Len(r.f.subchannels) \in Nat
             /\ Len(r.f.subchannels) <= MaxSubchannels + (IF r.st = "throw" THEN 1 ELSE 0)
             /\ LeftBehind(fields[i], spoiled[i]) /\ LeftBehind(r.f, spoiled[i] \cup {pk.n})
<1> DEFINE d == m_input_data[i]
           pk == PacketOf(d)
           r == DecodeTagpacket(fields[i], pk)
<1>1. d \in Seq(Piece) /\ d # <<>> /\ 1 \in 1 .. Len(d)
  BY PieceFacts DEF StreamInv, StreamType, Complete, HasSync
<1>2. d[1] \in Piece
  BY <1>1, ElementOfSeq
<1>3. pk.n \in Numbers /\ pk.tags \in {FrameTags} \cup OddTags
  BY <1>2 DEF Piece, Packet, PacketOf
<1>4. /\ pk.n \in Nat /\ pk.n # NoPacket /\ pk.tags \in Seq(TagNames)
      /\ MaxSubchannels \in Nat
  BY <1>3, FrameAssumption DEF Numbers, NoPacket
<1>5. ~ended /\ ended \in BOOLEAN
  BY DEF FieldInv, FieldType
<1>6. fields[i] \in Field /\ {fields[i].fc, fields[i].fic} \subseteq Numbers \cup {NoPacket}
  BY DEF FieldInv, FieldType, FieldsOK
<1>7. Len(fields[i].subchannels) <= MaxSubchannels
  BY <1>4, <1>5 DEF FieldInv, FieldsOK
<1> HIDE DEF pk
<1>8. AfterTags(fields[i], pk.tags, pk.n, Len(pk.tags), r)
  BY <1>4, <1>6, <1>7, DecodeFacts
<1> HIDE DEF r
<1>9. r.f \in Field /\ Len(r.f.subchannels) \in Nat
  BY <1>8 DEF AfterTags, Result, Field
<1>10. {r.f.fc, r.f.fic} \subseteq Numbers \cup {NoPacket}
  BY <1>3, <1>6, <1>8 DEF AfterTags
<1>11. Len(r.f.subchannels) <= MaxSubchannels + (IF r.st = "throw" THEN 1 ELSE 0)
  BY <1>8 DEF AfterTags
<1>12. LeftBehind(fields[i], spoiled[i])
  BY <1>5 DEF FieldInv, FieldsOK, LeftBehind
<1>13. LeftBehind(r.f, spoiled[i] \cup {pk.n})
  <2>1. {r.f.fc, r.f.fic} \subseteq spoiled[i] \cup {pk.n} \cup {NoPacket}
    BY <1>8, <1>12 DEF AfterTags, LeftBehind
  <2>2. Extends(fields[i].subchannels, r.f.subchannels, pk.n)
    BY <1>8 DEF AfterTags
  <2>3. Len(fields[i].subchannels) \in Nat
    BY <1>6 DEF Field
  <2>4. ASSUME NEW j \in 1 .. Len(r.f.subchannels)
        PROVE  r.f.subchannels[j] \in spoiled[i] \cup {pk.n}
    <3>1. CASE j <= Len(fields[i].subchannels)
      <4>1. j \in 1 .. Len(fields[i].subchannels)
        BY <1>9, <2>3, <3>1
      <4> QED
        BY <1>12, <2>2, <3>1, <4>1 DEF Extends, LeftBehind
    <3>2. CASE ~(j <= Len(fields[i].subchannels))
      BY <2>2, <3>2 DEF Extends
    <3> QED
      BY <3>1, <3>2
  <2> QED
    BY <2>1, <2>4 DEF LeftBehind
<1> QED
  BY <1>3, <1>4, <1>5, <1>8, <1>9, <1>10, <1>11, <1>12, <1>13 DEF pk, r

LEMMA ClearedFacts == Cleared \in Field /\ FieldsOK(Cleared, {}, FALSE)
<1>1. <<>> \in Seq(Nat) /\ Len(<<>>) = 0
  BY EmptySeq
<1> QED
  BY <1>1, FrameAssumption DEF Cleared, Field, FieldsOK, NoPacket

\* A packet is refused.
LEMMA RefuseFields ==
  ASSUME StreamInv, FieldInv, RefuseAF
  PROVE  FieldInv'
<1> DEFINE i == decoding
           d == m_input_data[i]
           pk == PacketOf(d)
           r == DecodeTagpacket(fields[i], pk)
<1>1. /\ i \in Inputs /\ i # NoInput /\ Complete(d)
      /\ decoding' = NoInput
      /\ UNCHANGED <<upstream, ended, assembled, arrived, odd, disconnects>>
      /\ decoded' = [decoded EXCEPT ![i] = @ \cup {pk.n}]
  BY DEF RefuseAF, StreamInv, StreamType, Judged
<1>2. /\ ~CrcHolds(d) \/ r.st = "error"
      /\ fields' = IF CrcHolds(d) THEN [fields EXCEPT ![i] = r.f] ELSE fields
      /\ spoiled' = [spoiled EXCEPT ![i] = IF CrcHolds(d) THEN @ \cup {pk.n} ELSE @]
  BY DEF RefuseAF
<1>3. /\ pk.n \in Numbers /\ ~ended /\ MaxSubchannels \in Nat /\ r.f \in Field
      /\ {r.f.fc, r.f.fic} \subseteq Numbers \cup {NoPacket}
      /\ Len(r.f.subchannels) \in Nat
      /\ Len(r.f.subchannels) <= MaxSubchannels + (IF r.st = "throw" THEN 1 ELSE 0)
      /\ LeftBehind(r.f, spoiled[i] \cup {pk.n})
  BY <1>1, PacketFacts
<1> HIDE DEF d, pk, r
<1>4. FieldType /\ DOMAIN decoded = Inputs
  BY DEF FieldInv, StreamInv, StreamType
<1>5. FieldType'
  <2>1. fields' \in [Inputs -> Field]
    BY <1>1, <1>2, <1>3, <1>4 DEF FieldType
  <2>2. DOMAIN spoiled' = Inputs
    BY <1>1, <1>2, <1>4 DEF FieldType
  <2>3. ASSUME NEW j \in Inputs
        PROVE  /\ arrived'[j] \cup decoded'[j] \cup spoiled'[j] \subseteq Numbers
               /\ Len(upstream'[j].rest) <= MaxChunk + 1
    <3>1. arrived[j] \cup decoded[j] \cup spoiled[j] \subseteq Numbers
      BY <1>4 DEF FieldType
    <3>2. decoded'[j] \subseteq decoded[j] \cup {pk.n} /\ spoiled'[j] \subseteq spoiled[j] \cup {pk.n}
      BY <1>1, <1>2, <1>4 DEF FieldType
    <3> QED
      BY <1>1, <1>3, <1>4, <3>1, <3>2 DEF FieldType
  <2> QED
    BY <1>1, <1>4, <2>1, <2>2, <2>3 DEF FieldType
<1>6. ASSUME NEW j \in Inputs PROVE FieldsOK(fields'[j], spoiled'[j], ended')
  <2>1. FieldsOK(fields[j], spoiled[j], ended)
    BY DEF FieldInv
  <2>2. CASE j # i \/ ~CrcHolds(d)
    <3>1. fields'[j] = fields[j] /\ spoiled'[j] = spoiled[j]
      BY <1>2, <1>4, <2>2 DEF FieldType
    <3> QED
      BY <1>1, <2>1, <3>1
  <2>3. CASE j = i /\ CrcHolds(d)
    <3>1. fields'[j] = r.f /\ spoiled'[j] = spoiled[i] \cup {pk.n} /\ r.st = "error"
      BY <1>1, <1>2, <1>4, <2>3 DEF FieldType
    <3>2. LeftBehind(r.f, spoiled[i] \cup {pk.n})
      BY <1>3
    <3> QED
      BY <1>1, <1>3, <3>1, <3>2 DEF FieldsOK, LeftBehind
  <2> QED
    BY <2>2, <2>3
<1>7. FrameExact'
  BY <1>1 DEF FieldInv, FrameExact
<1> QED
  BY <1>1, <1>5, <1>6, <1>7 DEF FieldInv

\* A packet completes a frame.
LEMMA AssembleFields ==
  ASSUME StreamInv, FieldInv, AssembleAF
  PROVE  FieldInv'
<1> DEFINE i == decoding
           d == m_input_data[i]
           pk == PacketOf(d)
           r == DecodeTagpacket(fields[i], pk)
           a == [n |-> pk.n, tags |-> pk.tags, f |-> r.f, left |-> spoiled[i]]
<1>1. /\ i \in Inputs /\ i # NoInput /\ Complete(d) /\ r.st \in {"go", "stop"}
      /\ UNCHANGED <<upstream, decoding, ended, arrived, odd, disconnects>>
      /\ decoded' = [decoded EXCEPT ![i] = @ \cup {pk.n}]
  BY DEF AssembleAF, AcceptsAF, StreamInv, StreamType, Judged
<1>2. /\ Assemblable(r.f)
      /\ fields' = [fields EXCEPT ![i] = Cleared]
      /\ assembled' = [assembled EXCEPT ![i] = a]
      /\ spoiled' = [spoiled EXCEPT ![i] = {}]
  BY DEF AssembleAF, AfterAssemble
<1>3. /\ pk.n \in Numbers /\ ~ended /\ pk.n # NoPacket /\ r.f \in Field
      /\ AfterTags(fields[i], pk.tags, pk.n, Len(pk.tags), r)
      /\ LeftBehind(fields[i], spoiled[i]) /\ LeftBehind(r.f, spoiled[i] \cup {pk.n})
      /\ pk.tags \in Seq(TagNames)
  BY <1>1, PacketFacts
<1> HIDE DEF d, pk, r
<1>4. FieldType /\ DOMAIN decoded = Inputs
  BY DEF FieldInv, StreamInv, StreamType
<1>5. FieldType'
  <2>1. fields' \in [Inputs -> Field]
    BY <1>1, <1>2, <1>4, ClearedFacts DEF FieldType
  <2>2. DOMAIN spoiled' = Inputs /\ DOMAIN assembled' = Inputs
    BY <1>1, <1>2, <1>4 DEF FieldType
  <2>3. ASSUME NEW j \in Inputs
        PROVE  /\ arrived'[j] \cup decoded'[j] \cup spoiled'[j] \subseteq Numbers
               /\ Len(upstream'[j].rest) <= MaxChunk + 1
    <3>1. arrived[j] \cup decoded[j] \cup spoiled[j] \subseteq Numbers
      BY <1>4 DEF FieldType
    <3>2. decoded'[j] \subseteq decoded[j] \cup {pk.n} /\ spoiled'[j] \subseteq spoiled[j]
      BY <1>1, <1>2, <1>4 DEF FieldType
    <3> QED
      BY <1>1, <1>3, <1>4, <3>1, <3>2 DEF FieldType
  <2> QED
    BY <1>1, <1>4, <2>1, <2>2, <2>3 DEF FieldType
<1>6. ASSUME NEW j \in Inputs PROVE FieldsOK(fields'[j], spoiled'[j], ended')
  <2>1. CASE j # i
    <3>1. fields'[j] = fields[j] /\ spoiled'[j] = spoiled[j]
      BY <1>2, <1>4, <2>1 DEF FieldType
    <3> QED
      BY <1>1, <3>1 DEF FieldInv
  <2>2. CASE j = i
    <3>1. fields'[j] = Cleared /\ spoiled'[j] = {} /\ ended' = FALSE
      BY <1>1, <1>2, <1>3, <1>4, <2>2 DEF FieldType
    <3> QED
      BY <3>1, ClearedFacts
  <2> QED
    BY <2>1, <2>2
<1>7. Consists(a, a.left)
  <2> DEFINE E == EstTags(pk.tags)
             t == fields[i].subchannels
             subs == r.f.subchannels
  <2>1. {r.f.fc, r.f.fic} \subseteq IF HasDeti(pk.tags) THEN {pk.n} ELSE spoiled[i] \cup {pk.n}
    <3>1. {r.f.fc, r.f.fic} \subseteq spoiled[i] \cup {pk.n}
      BY <1>2, <1>3 DEF LeftBehind, Assemblable
    <3>2. HasDeti(pk.tags) => DetiAmong(pk.tags, Len(pk.tags))
      BY DEF HasDeti, Known, DetiAmong
    <3> QED
      BY <1>1, <1>3, <3>1, <3>2 DEF AfterTags
  <2>2. E = Cardinality(Ests(pk.tags, Len(pk.tags))) /\ E \in Nat
    <3>1. {k \in Known(pk.tags) : pk.tags[k] = "est"} = Ests(pk.tags, Len(pk.tags))
      BY DEF Ests, Known
    <3>2. Len(pk.tags) \in Nat
      BY <1>3
    <3> QED
      BY <3>1, <3>2, EstFacts DEF EstTags
  <2>3. Len(t) \in Nat /\ Len(subs) = Len(t) + E /\ Extends(t, subs, pk.n)
    <3>1. fields[i] \in Field
      BY <1>1 DEF FieldInv, FieldType
    <3>2. t \in Seq(Nat)
      BY <3>1 DEF Field
    <3> QED
      BY <1>1, <1>3, <2>2, <3>2 DEF AfterTags
  <2>4. \A j \in 1 .. Len(t) : t[j] \in spoiled[i]
    BY <1>3 DEF LeftBehind
  <2> HIDE DEF E, t, subs
  <2>5. Len(subs) - E = Len(t)
    BY <2>2, <2>3
  <2>6. ASSUME NEW k \in 1 .. Len(subs)
        PROVE  IF k > Len(t) THEN subs[k] = pk.n ELSE subs[k] \in spoiled[i]
    BY <2>2, <2>3, <2>4 DEF Extends
  <2>7. a.f = r.f /\ a.n = pk.n /\ a.tags = pk.tags /\ a.left = spoiled[i]
    OBVIOUS
  <2> HIDE DEF a
  <2> QED
    BY <2>1, <2>3, <2>5, <2>6, <2>7 DEF Consists, E, subs
<1> HIDE DEF a
<1>8. FrameExact'
  <2> SUFFICES ASSUME NEW j \in Inputs
               PROVE  assembled'[j].n /= NoPacket => Consists(assembled'[j], assembled'[j].left)
    BY DEF FrameExact, Consists, EstTags, HasDeti, Known
  <2>1. CASE j = i
    <3>1. assembled'[j] = a
      BY <1>1, <1>2, <1>4, <2>1 DEF FieldType
    <3> QED
      BY <1>7, <3>1
  <2>2. CASE j # i
    <3>1. assembled'[j] = assembled[j]
      BY <1>2, <1>4, <2>2 DEF FieldType
    <3> QED
      BY <3>1 DEF FieldInv, FrameExact
  <2> QED
    BY <2>1, <2>2
<1> QED
  BY <1>1, <1>3, <1>5, <1>6, <1>8 DEF FieldInv

\* The program ends.
LEMMA ThrowFields ==
  ASSUME StreamInv, FieldInv, ThrowAF
  PROVE  FieldInv'
<1> DEFINE i == decoding
           pk == PacketOf(m_input_data[i])
           r == DecodeTagpacket(fields[i], pk)
<1>1. /\ i \in Inputs /\ i # NoInput /\ Complete(m_input_data[i])
      /\ fields' = [fields EXCEPT ![i] = r.f] /\ ended' = TRUE /\ decoding' = NoInput
      /\ UNCHANGED <<upstream, assembled, arrived, decoded, spoiled, odd, disconnects>>
  BY DEF ThrowAF, StreamInv, StreamType, decoderHistory
<1>2. /\ r.f \in Field /\ {r.f.fc, r.f.fic} \subseteq Numbers \cup {NoPacket}
      /\ MaxSubchannels \in Nat /\ Len(r.f.subchannels) \in Nat
      /\ Len(r.f.subchannels) <= MaxSubchannels + (IF r.st = "throw" THEN 1 ELSE 0)
  BY <1>1, PacketFacts
<1>3. Len(r.f.subchannels) <= MaxSubchannels + 1
  <2> HIDE DEF r
  <2> QED
    BY <1>2
<1> HIDE DEF pk, r
<1>4. FieldType /\ fields \in [Inputs -> Field]
  BY DEF FieldInv, FieldType
<1>5. FieldType'
  <2>1. fields' \in [Inputs -> Field]
    BY <1>1, <1>2, <1>4
  <2> QED
    BY <1>1, <1>4, <2>1 DEF FieldType
<1>6. ASSUME NEW j \in Inputs PROVE FieldsOK(fields'[j], spoiled'[j], ended')
  <2>1. CASE j # i
    <3>1. fields'[j] = fields[j] /\ Len(fields[j].subchannels) \in Nat /\ MaxSubchannels \in Nat
      BY <1>1, <1>2, <1>4, <2>1 DEF Field
    <3>2. /\ {fields[j].fc, fields[j].fic} \subseteq Numbers \cup {NoPacket}
          /\ Len(fields[j].subchannels) <= MaxSubchannels + (IF ended THEN 1 ELSE 0)
      BY DEF FieldInv, FieldsOK
    <3>3. Len(fields[j].subchannels) <= MaxSubchannels + 1
      BY <3>1, <3>2
    <3> QED
      BY <1>1, <3>1, <3>2, <3>3 DEF FieldsOK
  <2>2. CASE j = i
    <3>1. fields'[j] = r.f
      BY <1>1, <1>4, <2>2
    <3> QED
      BY <1>1, <1>2, <1>3, <3>1 DEF FieldsOK
  <2> QED
    BY <2>1, <2>2
<1>7. FrameExact'
  BY <1>1 DEF FieldInv, FrameExact
<1> QED
  BY <1>1, <1>5, <1>6, <1>7 DEF FieldInv

\* The steps that receive leave the fields alone.
LEMMA ReceiveFields ==
  ASSUME StreamInv, FieldInv, NEW i \in Inputs,
         BeginPacket(i) \/ TakeBytes(i) \/ Disconnect(i)
  PROVE  FieldInv'
<1>1. /\ UNCHANGED <<fields, spoiled, ended, assembled, decoded>>
      /\ decoding' = decoding \/ ~ended
  BY DEF BeginPacket, TakeBytes, Disconnect, Connected
<1>2. /\ FieldType /\ StreamType /\ MaxChunk \in Nat /\ MaxOdd \in Nat
      /\ MaxDisconnects \in Nat
      /\ upstream[i].rest \in Seq(Piece) /\ Len(upstream[i].rest) \in Nat
  BY FrameAssumption, PieceFacts DEF FieldInv, StreamInv, BytesInv
<1>3. /\ disconnects' \in 0 .. MaxDisconnects /\ odd' \in 0 .. MaxOdd
  <2>1. disconnects \in 0 .. MaxDisconnects /\ odd \in 0 .. MaxOdd
    BY <1>2 DEF FieldType
  <2>2. CASE BeginPacket(i)
    <3>1. UNCHANGED disconnects
      BY <2>2 DEF BeginPacket
    <3>2. odd' \in {odd, odd + 1} /\ odd' <= MaxOdd
      <4>1. PICK shape \in {Plain} \cup Odd :
              odd' = odd + (IF shape = Plain THEN 0 ELSE 1) /\ odd' <= MaxOdd
        BY <2>2 DEF BeginPacket
      <4> QED
        BY <1>2, <2>1, <4>1
    <3> QED
      BY <1>2, <2>1, <3>1, <3>2
  <2>3. CASE TakeBytes(i)
    BY <2>1, <2>3 DEF TakeBytes
  <2>4. CASE Disconnect(i)
    BY <1>2, <2>1, <2>4 DEF Disconnect
  <2> QED
    BY <2>2, <2>3, <2>4
<1>4. \A j \in Inputs \ {i} : upstream'[j] = upstream[j] /\ arrived'[j] = arrived[j]
  <2> DEFINE U(v) == upstream' = [upstream EXCEPT ![i] = v]
             A(v) == arrived' = [arrived EXCEPT ![i] = v]
  <2>0. DOMAIN upstream = Inputs /\ DOMAIN arrived = Inputs
    BY <1>2 DEF StreamType
  <2>1. CASE BeginPacket(i)
    <3>1. PICK v : U(v)
      BY <2>1 DEF BeginPacket
    <3>2. UNCHANGED arrived
      BY <2>1 DEF BeginPacket
    <3> QED
      BY <2>0, <3>1, <3>2
  <2>2. CASE TakeBytes(i)
    <3>1. PICK m \in 1 .. MaxChunk :
            /\ A(arrived[i] \cup {SubSeq(upstream[i].rest, 1, m)[j][1].n :
                   j \in {j \in 1 .. m : SubSeq(upstream[i].rest, 1, m)[j][2] = "crc"}})
            /\ upstream' = [upstream EXCEPT ![i].rest = SubSeq(@, m + 1, Len(@))]
      BY <2>2 DEF TakeBytes
    <3>2. PICK v : A(v)
      BY <3>1
    <3>3. \A j \in Inputs \ {i} : arrived'[j] = arrived[j]
      BY <2>0, <3>2
    <3>4. \A j \in Inputs \ {i} : upstream'[j] = upstream[j]
      BY <2>0, <3>1
    <3> QED
      BY <3>3, <3>4
  <2>3. CASE Disconnect(i)
    BY <2>0, <2>3 DEF Disconnect
  <2> QED
    BY <2>1, <2>2, <2>3
<1>5. Len(upstream'[i].rest) <= MaxChunk + 1 /\ arrived'[i] \subseteq Numbers
  <2>1. CASE BeginPacket(i)
    <3>1. PICK pk : upstream'[i].rest = upstream[i].rest \o Pieces(pk)
      <4>1. PICK shape \in {Plain} \cup Odd :
              upstream' = [upstream EXCEPT ![i] =
                [n |-> @.n + 1,
                 rest |-> @.rest \o Pieces([n |-> @.n, kind |-> shape.kind, tags |-> shape.tags])]]
        BY <2>1 DEF BeginPacket
      <4> DEFINE pk == [n |-> upstream[i].n, kind |-> shape.kind, tags |-> shape.tags]
      <4>2. upstream'[i] = [n |-> upstream[i].n + 1, rest |-> upstream[i].rest \o Pieces(pk)]
        BY <1>2, <4>1 DEF StreamType
      <4> HIDE DEF pk
      <4> QED
        BY <4>2
    <3>2. StreamInv'
      BY <2>1, BeginStream
    <3>3. Pieces(pk) = << <<pk, "tags">>, <<pk, "crc">> >>
      BY DEF Pieces
    <3>4. Len(upstream'[i].rest) = Len(upstream[i].rest) + 2
      BY <1>2, <3>1, <3>3
    <3>5. Len(upstream[i].rest) < MaxChunk /\ UNCHANGED arrived
      BY <2>1 DEF BeginPacket
    <3> QED
      BY <1>2, <3>4, <3>5 DEF FieldType
  <2>2. CASE TakeBytes(i)
    <3> DEFINE u == upstream[i].rest
    <3>1. PICK m \in 1 .. MaxChunk :
            /\ m <= Len(u)
            /\ arrived' = [arrived EXCEPT ![i] = @ \cup
                 {SubSeq(u, 1, m)[j][1].n : j \in {j \in 1 .. m : SubSeq(u, 1, m)[j][2] = "crc"}}]
            /\ upstream' = [upstream EXCEPT ![i].rest = SubSeq(@, m + 1, Len(@))]
      BY <2>2 DEF TakeBytes
    <3>2. m \in 1 .. Len(u) /\ m \in 0 .. Len(u)
      BY <1>2, <3>1
    <3>3. \A j \in 1 .. m : SubSeq(u, 1, m)[j] \in Piece
      <4>1. SubSeq(u, 1, m) \in Seq(Piece) /\ Len(SubSeq(u, 1, m)) = m
        BY <1>2, <3>2, PrefixFacts
      <4> QED
        BY <4>1, ElementOfSeq
    <3>4. \A j \in 1 .. m : SubSeq(u, 1, m)[j][1].n \in Numbers
      BY <3>3 DEF Piece, Packet
    <3>5. arrived[i] \subseteq Numbers
      BY <1>2 DEF FieldType
    <3>6. arrived'[i] \subseteq Numbers
      BY <1>2, <3>1, <3>4, <3>5 DEF StreamType
    <3>7. upstream'[i].rest = SubSeq(u, m + 1, Len(u))
      BY <1>2, <3>1 DEF StreamType, Upstream
    <3>8. Len(SubSeq(u, m + 1, Len(u))) = Len(u) - m
      BY <1>2, <3>2, SuffixFacts
    <3>9. Len(u) <= MaxChunk + 1
      BY <1>2 DEF FieldType
    <3> QED
      BY <1>2, <3>2, <3>6, <3>7, <3>8, <3>9
  <2>3. CASE Disconnect(i)
    <3>1. upstream'[i].rest = <<>> /\ arrived'[i] \subseteq arrived[i]
      BY <1>2, <2>3 DEF Disconnect, StreamType, Upstream
    <3>2. Len(<<>>) = 0
      BY EmptySeq
    <3> QED
      BY <1>2, <3>1, <3>2 DEF FieldType
  <2> QED
    BY <2>1, <2>2, <2>3
<1>6. FieldType'
  <2>1. ASSUME NEW j \in Inputs
        PROVE  /\ Len(upstream'[j].rest) <= MaxChunk + 1
               /\ arrived'[j] \cup decoded'[j] \cup spoiled'[j] \subseteq Numbers
    BY <1>1, <1>2, <1>4, <1>5 DEF FieldType
  <2> QED
    BY <1>1, <1>2, <1>3, <2>1 DEF FieldType
<1> QED
  BY <1>1, <1>6 DEF FieldInv, FrameExact

LEMMA NextFields == StreamInv /\ FieldInv /\ [DecoderNext]_decoderVars => FieldInv'
<1> SUFFICES ASSUME StreamInv, FieldInv, [DecoderNext]_decoderVars PROVE FieldInv'
  OBVIOUS
<1>1. ASSUME UNCHANGED <<upstream, fields, ended, decoderHistory>>,
             decoding' = NoInput \/ decoding' = decoding
      PROVE  FieldInv'
  BY <1>1 DEF FieldInv, FieldType, FrameExact, decoderHistory
<1>2. CASE \E i \in Inputs : BeginPacket(i) \/ TakeBytes(i) \/ Disconnect(i)
  BY <1>2, ReceiveFields
<1>3. CASE LeaveLoop
  BY <1>1, <1>3 DEF LeaveLoop
<1>4. CASE DropByte
  BY <1>1, <1>4 DEF DropByte
<1>5. CASE RefuseAF
  BY <1>5, RefuseFields
<1>6. CASE AssembleAF
  BY <1>6, AssembleFields
<1>7. CASE ThrowAF
  BY <1>7, ThrowFields
<1>8. CASE UNCHANGED decoderVars
  BY <1>1, <1>8 DEF decoderVars
<1> QED
  BY <1>2, <1>3, <1>4, <1>5, <1>6, <1>7, <1>8 DEF DecoderNext

LEMMA InitFields == DecoderInit => FieldInv
<1> SUFFICES ASSUME DecoderInit PROVE FieldInv
  OBVIOUS
<1>1. /\ fields = [j \in Inputs |-> Cleared] /\ ended = FALSE /\ odd = 0 /\ disconnects = 0
      /\ spoiled = [j \in Inputs |-> {}] /\ arrived = [j \in Inputs |-> {}]
      /\ decoded = [j \in Inputs |-> {}] /\ assembled = [j \in Inputs |-> NoFrame]
      /\ upstream = [j \in Inputs |-> [n |-> 1, rest |-> <<>>]] /\ decoding = NoInput
  BY DEF DecoderInit
<1>2. Cleared \in Field /\ FieldsOK(Cleared, {}, FALSE)
  BY ClearedFacts
<1>3. \A j \in Inputs : Len(upstream[j].rest) <= MaxChunk + 1
  <2>1. Len(<<>>) = 0 /\ MaxChunk \in Nat
    BY EmptySeq, FrameAssumption
  <2> QED
    BY <1>1, <2>1
<1>4. FieldType
  <2>1. fields \in [Inputs -> Field]
    BY <1>1, <1>2
  <2>2. disconnects \in 0 .. MaxDisconnects /\ odd \in 0 .. MaxOdd
    BY <1>1, FrameAssumption
  <2>3. \A j \in Inputs : arrived[j] \cup decoded[j] \cup spoiled[j] \subseteq Numbers
    BY <1>1
  <2> QED
    BY <1>1, <1>3, <2>1, <2>2, <2>3 DEF FieldType
<1>5. FrameExact
  BY <1>1 DEF FrameExact, NoFrame
<1> QED
  BY <1>1, <1>2, <1>4, <1>5 DEF FieldInv

LEMMA DecoderInvariant == DecoderSpec => []DecoderInv
<1>1. DecoderInit => DecoderInv
  BY InitFields, InitStream, InitPhase DEF DecoderInv
<1>2. DecoderInv /\ [DecoderNext]_decoderVars => DecoderInv'
  BY NextStream, NextFields, NextPhase DEF DecoderInv
<1> QED
  BY <1>1, <1>2, PTL DEF DecoderSpec

(* The receivers, the decoder and the ZeroMQ output keep their types: the  *)
(* fields of a Receiver hold the number of a packet that was sent or none, *)
(* and at most one subchannel more than the 64 that ETIDecoder's limit     *)
(* allows, the one that made add_subchannel() throw.                       *)
THEOREM TypeCorrect == DecoderSpec => []DecoderTypeOK
<1>1. DecoderInv => DecoderTypeOK
  <2> SUFFICES ASSUME DecoderInv PROVE DecoderTypeOK
    OBVIOUS
  <2>1. /\ decoding \in Inputs \cup {NoInput} /\ ended \in BOOLEAN
        /\ m_expected_next_fp \in 0 .. Phases - 1 /\ disconnects \in 0 .. MaxDisconnects
        /\ odd \in 0 .. MaxOdd
    BY DEF DecoderInv, PhaseInv, FieldInv, FieldType, StreamInv, StreamType
  <2>2. ASSUME NEW i \in Inputs
        PROVE  /\ upstream[i].n \in 1 .. MaxPackets + 1
               /\ Len(upstream[i].rest) <= MaxChunk + 1
               /\ fields[i].proto \in BOOLEAN
               /\ {fields[i].fc, fields[i].fic} \subseteq Numbers \cup {NoPacket}
               /\ Len(fields[i].subchannels) <= MaxSubchannels + 1
               /\ arrived[i] \cup decoded[i] \cup spoiled[i] \subseteq Numbers
    <3>1. upstream[i] \in Upstream /\ fields[i] \in Field
      BY DEF DecoderInv, FieldInv, FieldType, StreamInv, StreamType
    <3>2. /\ upstream[i].n \in 1 .. MaxPackets + 1 /\ fields[i].proto \in BOOLEAN
          /\ Len(fields[i].subchannels) \in Nat /\ MaxSubchannels \in Nat
      BY <3>1, FrameAssumption DEF Upstream, Field
    <3>3. FieldsOK(fields[i], spoiled[i], ended) /\ FieldType
      BY DEF DecoderInv, FieldInv
    <3>4. Len(fields[i].subchannels) <= MaxSubchannels + 1
      BY <3>2, <3>3 DEF FieldsOK
    <3> QED
      BY <3>2, <3>3, <3>4 DEF FieldsOK, FieldType
  <2> QED
    BY <2>1, <2>2 DEF DecoderTypeOK
<1> QED
  BY <1>1, DecoderInvariant, PTL

(* Receiver::assemble() leaves nothing behind: a frame has the fc and the  *)
(* FIC of the packet that completed it, if that has any, and exactly the   *)
(* subchannels that decode_tagpacket() found in it, behind those left by   *)
(* the packets that were refused for a TAG since the last frame, for every *)
(* number of TAGs in a packet and of packets in between.                   *)
THEOREM FramesAreExact == DecoderSpec => []FrameExact
<1>1. DecoderInv => FrameExact
  BY DEF DecoderInv, FieldInv
<1> QED
  BY <1>1, DecoderInvariant, PTL
=============================================================================
