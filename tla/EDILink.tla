------------------------------ MODULE EDILink ------------------------------
(***************************************************************************)
(* An EDI/PFT link over UDP: edi::Sender, a network that loses, damages,   *)
(* duplicates and reorders datagrams, and the receiver's TagDispatcher,    *)
(* whose push_packet() gives each datagram to the PFT decoder.             *)
(***************************************************************************)
EXTENDS EDITransport, PFTDecoder

CONSTANT MaxMishaps   \* bound: datagrams the network duplicates or damages

ASSUME LinkAssumption == MaxMishaps \in Nat

VARIABLES
  net,        \* the datagrams in flight
  m_pft,      \* the PFT decoder of the receiver
  latest,     \* the AF packet last given to the TAG handlers
  skipped,    \* history: an AF packet was delivered before its predecessor
  repeated,   \* history: an AF packet was delivered after itself or a successor
  newest,     \* history: the newest AF packet of which a datagram was pushed
  astray,     \* history: a datagram came after one of a newer AF packet, or more than
              \* PseqMod packets after the one delivered last
  waited,     \* history: calls the next Pseq has been tried for
  stalled,    \* history: the last call found no builder for the next Pseq
  mishaps,    \* history: datagrams duplicated or damaged
  lossy,      \* history: a fragment was replaced before it was sent, lost or damaged
  reordered   \* history: a datagram was duplicated or overtaken

receiver == <<m_pft, latest, skipped, repeated, newest, astray, waited, stalled>>
network == <<net, mishaps, lossy, reordered>>
linkVars == <<transport, network, receiver>>

LinkInit ==
  /\ TransportInit
  /\ net = <<>> /\ mishaps = 0 /\ lossy = FALSE /\ reordered = FALSE
  /\ m_pft = EmptyDecoder /\ latest = NoAF
  /\ waited = 0 /\ stalled = FALSE
  /\ skipped = FALSE /\ repeated = FALSE /\ newest = 0 /\ astray = FALSE

-----------------------------------------------------------------------------
InFlight == Len(net) + Cardinality(DOMAIN m_pending_frames)

LinkWrite == \E n \in Frames :
  /\ InFlight + FragmentsOf(n) <= MaxInFlight
  /\ Write(n)
  /\ lossy' = (lossy \/ Replaces(n))
  /\ UNCHANGED <<net, mishaps, reordered, receiver>>

LinkTick == Tick /\ UNCHANGED <<network, receiver>>

LinkTransmit == Transmit(net, net') /\ UNCHANGED <<mishaps, lossy, reordered, receiver>>

LinkThrows == SendThrows(net, net') /\ UNCHANGED <<mishaps, lossy, reordered, receiver>>

LinkStop == StopTransport /\ UNCHANGED <<network, receiver>>

\* push_packet with a PF datagram; every datagram lets the decoder go on.
PushPacket(f, valid) ==
  \E rsDecodes \in BOOLEAN, pushed \in {LoadData(m_pft, f, valid)} :
    \E got \in {GetNextAFPacket(pushed, rsDecodes)} :
      /\ m_pft' = got.decoder
      /\ latest' = IF got.af = NoAF THEN latest ELSE got.af
      /\ skipped' = (skipped \/ got.af > latest + 1)
      /\ repeated' = (repeated \/ got.af \in 1 .. latest)
      /\ newest' = IF valid /\ f.af > newest THEN f.af ELSE newest
      /\ astray' = (astray \/ (valid /\ f.af \notin newest .. latest + PseqMod))
      /\ waited' = IF /\ got.decoder.next = pushed.next
                      /\ pushed.next \in DOMAIN got.decoder.builders
                   THEN waited + 1 ELSE 0
      /\ stalled' = (pushed.next \notin DOMAIN pushed.builders)

\* The datagram that was sent first arrives.
Arrive ==
  /\ net # <<>>
  /\ PushPacket(Head(net), TRUE)
  /\ net' = Tail(net)
  /\ UNCHANGED <<transport, mishaps, lossy, reordered>>

\* The second datagram in flight overtakes the first.
Overtake ==
  /\ Len(net) > 1
  /\ PushPacket(net[2], TRUE)
  /\ net' = <<net[1]>> \o SubSeq(net, 3, Len(net))
  /\ reordered' = TRUE
  /\ UNCHANGED <<transport, mishaps, lossy>>

\* A datagram arrives, and a copy of it is still in flight.
Duplicate ==
  /\ net # <<>>
  /\ mishaps < MaxMishaps
  /\ PushPacket(Head(net), TRUE)
  /\ mishaps' = mishaps + 1
  /\ reordered' = TRUE
  /\ UNCHANGED <<transport, net, lossy>>

Lose ==
  /\ net # <<>>
  /\ net' = Tail(net)
  /\ lossy' = TRUE
  /\ UNCHANGED <<transport, mishaps, reordered, receiver>>

\* A datagram arrives damaged, so that loadData() refuses it or only in its payload.
Garble == \E valid \in BOOLEAN :
  /\ net # <<>>
  /\ mishaps < MaxMishaps
  /\ PushPacket([Head(net) EXCEPT !.damaged = TRUE], valid)
  /\ net' = Tail(net)
  /\ mishaps' = mishaps + 1
  /\ lossy' = TRUE
  /\ UNCHANGED <<transport, reordered>>

LinkNext ==
  \/ LinkWrite \/ LinkTick \/ LinkTransmit \/ LinkThrows \/ LinkStop
  \/ Arrive \/ Overtake \/ Duplicate \/ Lose \/ Garble

LinkSpec == LinkInit /\ [][LinkNext]_linkVars

-----------------------------------------------------------------------------
\* Type invariant of the link.
LinkTypeOK ==
  /\ m_pseq \in 0 .. PseqMod - 1 /\ m_running \in BOOLEAN /\ overlapped \in BOOLEAN
  /\ written \in 0 .. MaxFrames
  /\ \A t \in DOMAIN m_pending_frames : t \in -MaxLate .. (Long + Short) * Wait
  /\ m_pft.next \in 0 .. PseqMod - 1
  /\ DOMAIN m_pft.builders \subseteq 0 .. PseqMod - 1

\* Every AF packet that reaches the TAG handlers is one that write() made: none
\* is put together from fragments of two packets, although a fragment may wait
\* in its builder until the 16 bits of Pseq have wrapped around.
DeliveredIntact == latest \in 0 .. written

\* On a perfect network, if the fragments of a packet are sent before the next
\* is written, every AF packet is delivered, once and in order, as soon as its
\* last fragment arrives.
LosslessDelivery ==
  ~(gap \/ lossy \/ reordered \/ overlapped) =>
    /\ ~skipped /\ ~repeated
    /\ (m_running /\ InFlight = 0) => latest = written

\* Fragments that are repeated or exchanged within a packet, and packets written
\* before the last one is out, do not make the decoder give up a packet that it
\* can complete, as long as no two fragments are due at the same time and
\* the repetitions do not use up the life of a builder.
NoneGivenUp ==
  ~(gap \/ lossy \/ astray) /\ mishaps <= Short * (MaxDelay - 1) =>
    /\ ~skipped /\ ~repeated
    /\ (m_running /\ InFlight = 0) => latest = written

\* Whatever datagrams are lost, damaged, repeated or exchanged within a packet,
\* the decoder never delivers an AF packet twice or out of order, unless it has
\* delivered nothing for a whole round of Pseq: the builders it passes are gone
\* when Pseq comes round again.
OrderKept ==
  ~astray => ~repeated

\* "before we abandon decoding a given pseq": the decoder tries a Pseq for at
\* most as many fragments as MaxDelay AF packets have, and a call that finds no
\* builder for it leaves at most MaxDelay others behind.
AbandonsInTime ==
  /\ waited <= Long * MaxDelay
  /\ stalled => Cardinality(DOMAIN m_pft.builders) <= MaxDelay
=============================================================================
