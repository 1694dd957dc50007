--------------------------- MODULE EDITransport ---------------------------
(***************************************************************************)
(* edi::Sender with PFT (lib/edioutput/Transport.cpp, PFT.cpp and          *)
(* AFPacket.cpp): write() turns a frame into an AF packet and the packet   *)
(* into fragments, and puts the fragments into a map whose key is the time *)
(* at which they are due.  The thread run() sends what is due.             *)
(*                                                                         *)
(* A frame is its number in the source, an AF packet the number of its     *)
(* frame.  The keys of the map are kept relative to the present: a key of  *)
(* 2 is due in two ticks, a key below 0 is overdue.                        *)
(***************************************************************************)
EXTENDS PFTFragments

CONSTANTS
  MaxFrames,     \* bound: number of frames of the source
  MaxGap,        \* bound: frames in a row that do not reach write()
  Wait,          \* inter_fragment_wait_time in ticks
  MaxLate,       \* bound: ticks by which run() may be late
  MaxInFlight    \* bound: fragments pending or in the network

ASSUME TransportAssumption ==
  /\ MaxFrames \in Nat \ {0} /\ MaxGap \in Nat
  /\ Wait \in Nat \ {0} /\ MaxLate \in Nat /\ MaxInFlight \in Nat

VARIABLES
  overrides,         \* the sequence numbers of the source are kept
  m_pseq,            \* Pseq of the next AF packet
  m_pending_frames,  \* fragments by the time they are due
  m_running,         \* run() may go on
  written,           \* history: the last frame write() was called with
  gap,               \* history: a frame was left out
  overlapped         \* history: write() found fragments of an earlier packet pending

transport == <<overrides, m_pseq, m_pending_frames, m_running, written, gap, overlapped>>

Frames == 1 .. MaxFrames

TransportInit ==
  /\ overrides \in BOOLEAN
  /\ m_pseq = 0
  /\ m_pending_frames = <<>>
  /\ m_running = TRUE
  /\ written = 0
  /\ gap = FALSE
  /\ overlapped = FALSE

-----------------------------------------------------------------------------
\* The times at which fragments are due, the first one now.
Scheduled(fragments) ==
  [t \in {i * Wait : i \in DOMAIN fragments} |-> fragments[t \div Wait]]

\* EDISender hands over the sequence number of the source, so that several
\* instances can feed one receiver; what the source lost is a gap in it.
\* zmq2edi counts the packets it writes.
OverridePSeq(n) == IF overrides THEN n % PseqMod ELSE m_pseq

\* A fragment of frame n gets the key of one that is pending, and replaces it.
Replaces(n) == \E t \in DOMAIN m_pending_frames : t \in DOMAIN Scheduled(Assemble(n, OverridePSeq(n)))

-----------------------------------------------------------------------------
Write(n) ==
  /\ m_running
  /\ n \in Frames
  /\ n \in written + 1 .. written + 1 + MaxGap
  /\ m_pending_frames' = Updated(m_pending_frames, Scheduled(Assemble(n, OverridePSeq(n))))
  /\ overlapped' = (overlapped \/ DOMAIN m_pending_frames # {})
  /\ m_pseq' = (OverridePSeq(n) + 1) % PseqMod
  /\ written' = n
  /\ gap' = (gap \/ n > written + 1)
  /\ UNCHANGED <<overrides, m_running>>

\* Time passes; run() sleeps for 500 us at a time and is not late for ever.
Tick ==
  /\ m_running
  /\ DOMAIN m_pending_frames # {}
  /\ \A t \in DOMAIN m_pending_frames : t > -MaxLate
  /\ m_pending_frames' = [t \in {u - 1 : u \in DOMAIN m_pending_frames} |-> m_pending_frames[t + 1]]
  /\ UNCHANGED <<overrides, m_pseq, m_running, written, gap, overlapped>>

Due == {t \in DOMAIN m_pending_frames : t <= 0}

\* The fragments that are due, in the order of the map.
InKeyOrder(ts) ==
  [k \in 1 .. Cardinality(ts) |->
     m_pending_frames[CHOOSE t \in ts : Cardinality({u \in ts : u <= t}) = k]]

\* One pass of run(), which holds the mutex: everything due is sent.
Transmit(net, netNext) ==
  /\ m_running
  /\ Due # {}
  /\ netNext = net \o InKeyOrder(Due)
  /\ m_pending_frames' = [t \in DOMAIN m_pending_frames \ Due |-> m_pending_frames[t]]
  /\ UNCHANGED <<overrides, m_pseq, m_running, written, gap, overlapped>>

\* A send that fails throws in the thread, which ends the program.
SendThrows(net, netNext) ==
  /\ m_running
  /\ \E k \in 0 .. Cardinality(Due) - 1 : netNext = net \o SubSeq(InKeyOrder(Due), 1, k)
  /\ m_running' = FALSE
  /\ m_pending_frames' = <<>>
  /\ UNCHANGED <<overrides, m_pseq, written, gap, overlapped>>

\* The destructor stops and joins run(); what is pending is not sent.
StopTransport ==
  /\ m_running
  /\ m_running' = FALSE
  /\ m_pending_frames' = <<>>
  /\ UNCHANGED <<overrides, m_pseq, written, gap, overlapped>>
=============================================================================
