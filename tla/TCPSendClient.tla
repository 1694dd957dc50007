--------------------------- MODULE TCPSendClient ---------------------------
(***************************************************************************)
(* TCPSendClient (lib/Socket.cpp), the EDI/TCP client output.  sendall()   *)
(* queues a buffer, the thread process() connects and sends.  The peer     *)
(* may refuse connections, stop reading, or break the connection.          *)
(*                                                                         *)
(* A buffer is its number.  A buffer counts as sent when the kernel has    *)
(* taken it.                                                               *)
(***************************************************************************)
EXTENDS ThreadsafeQueue, Integers, FiniteSets

CONSTANTS
  MaxClientQueue,  \* MAX_QUEUE_SIZE (512)
  MaxFds,        \* file descriptors the process may have open
  MaxBuffers,    \* bound: number of buffers written
  MaxBreaks      \* bound: number of connections the peer breaks

ASSUME ClientAssumption ==
  /\ MaxClientQueue \in Nat \ {0} /\ MaxFds \in Nat \ {0}
  /\ MaxBuffers \in Nat /\ MaxBreaks \in Nat

VARIABLES
  caller,        \* where the thread that calls sendall() is
  client,        \* where the thread process() is
  client_queue,  \* m_queue
  m_is_connected,
  client_running,\* m_running
  hand,          \* the buffer process() has taken from the queue
  client_conn,    \* the TCP connection: none, open, stalled or broken
  accepting,     \* the peer accepts connections
  fds,           \* descriptors opened and not closed
  buffers,       \* history: number of buffers queued
  sent,          \* history: numbers of the buffers sent, in order
  lost,          \* history: buffers whose send failed
  discarded,     \* history: buffers removed from a queue that was full
  breaks         \* history: connections broken by the peer

clientPeer == <<client_conn, accepting, breaks>>
clientHistory == <<buffers, sent, lost, discarded>>
clientVars == <<caller, client, client_queue, m_is_connected, client_running,
                hand, fds, clientPeer, clientHistory>>

None == 0

ClientInit ==
  /\ caller = "idle" /\ client = "loop"
  /\ client_queue = EmptyQueue
  /\ m_is_connected = FALSE /\ client_running = TRUE /\ hand = None
  /\ client_conn = "none" /\ accepting \in BOOLEAN /\ breaks = 0 /\ fds = 0
  /\ buffers = 0 /\ sent = <<>> /\ lost = {} /\ discarded = {}

-----------------------------------------------------------------------------
(* sendall(): push, look at the size and discard are three critical        *)
(* sections, between which process() may pop.                              *)

SendallPush ==
  /\ caller = "idle"
  /\ buffers < MaxBuffers
  /\ client_queue' = Push(client_queue, buffers + 1)
  /\ buffers' = buffers + 1
  /\ caller' = "check"
  /\ UNCHANGED <<client, m_is_connected, client_running, hand, fds, clientPeer, sent, lost, discarded>>

\* Seeded fault: the limit of the queue is not observed.
NeverTooLarge(q) == FALSE

TooLarge(q) == Size(q) > MaxClientQueue

SendallCheck ==
  /\ caller = "check"
  /\ caller' = IF TooLarge(client_queue) THEN "discard" ELSE "idle"
  /\ UNCHANGED <<client, client_queue, m_is_connected, client_running, hand, fds, clientPeer, clientHistory>>

SendallDiscard ==
  /\ caller = "discard"
  /\ client_queue' = TryPop(client_queue)
  /\ discarded' = discarded \cup (IF Size(client_queue) = 0 THEN {} ELSE {Front(client_queue)})
  /\ caller' = "idle"
  /\ UNCHANGED <<client, m_is_connected, client_running, hand, fds, clientPeer, buffers, sent, lost>>

-----------------------------------------------------------------------------
(* The destructor.                                                         *)

DestroyClient ==
  /\ caller = "idle"
  /\ client_running' = FALSE
  /\ caller' = "wakeup"
  /\ UNCHANGED <<client, client_queue, m_is_connected, hand, fds, clientPeer, clientHistory>>

\* Seeded fault: the thread is not woken.
NotWoken(q) == q

Woken(q) == TriggerWakeup(q)

WakeClient ==
  /\ caller = "wakeup"
  /\ client_queue' = Woken(client_queue)
  /\ caller' = "join"
  /\ UNCHANGED <<client, m_is_connected, client_running, hand, fds, clientPeer, clientHistory>>

JoinClient ==
  /\ caller = "join" /\ client = "done"
  /\ caller' = "gone"
  /\ UNCHANGED <<client, client_queue, m_is_connected, client_running, hand, fds, clientPeer, clientHistory>>

-----------------------------------------------------------------------------
(* process().                                                              *)

ClientLoop ==
  /\ client = "loop"
  /\ client' = IF ~client_running THEN "done"
               ELSE IF m_is_connected THEN "pop" ELSE "connect"
  /\ UNCHANGED <<caller, client_queue, m_is_connected, client_running, hand, fds, clientPeer, clientHistory>>

ClientWoken ==
  /\ client = "pop" /\ WokenUp(client_queue)
  /\ client_queue' = AfterWakeup(client_queue)
  /\ client' = "done"
  /\ UNCHANGED <<caller, m_is_connected, client_running, hand, fds, clientPeer, clientHistory>>

ClientPop ==
  /\ client = "pop" /\ ~WokenUp(client_queue) /\ Ready(client_queue)
  /\ hand' = Front(client_queue)
  /\ client_queue' = Popped(client_queue)
  /\ client' = "send"
  /\ UNCHANGED <<caller, m_is_connected, client_running, fds, clientPeer, clientHistory>>

\* A send returns when the peer reads, and waits while it does not.
ClientSend ==
  /\ client = "send" /\ client_conn = "open"
  /\ sent' = Append(sent, hand)
  /\ hand' = None
  /\ client' = "loop"
  /\ UNCHANGED <<caller, client_queue, m_is_connected, client_running, fds, clientPeer, buffers, lost, discarded>>

\* A send that fails loses the buffer.  Assigning a new TCPSocket to m_sock
\* does not close the old descriptor: fds is not lowered.
StillConnected == m_is_connected
Disconnected == FALSE

ClientSendFails ==
  /\ client = "send" /\ client_conn = "broken"
  /\ lost' = lost \cup {hand}
  /\ hand' = None
  /\ m_is_connected' = Disconnected
  /\ client' = "loop"
  /\ UNCHANGED <<caller, client_queue, client_running, fds, clientPeer, buffers, sent, discarded>>

ClientConnect ==
  /\ client = "connect" /\ accepting /\ fds < MaxFds
  /\ client_conn' = "open"
  /\ fds' = fds + 1
  /\ m_is_connected' = TRUE
  /\ client' = "loop"
  /\ UNCHANGED <<caller, client_queue, client_running, hand, accepting, breaks, clientHistory>>

\* Seeded fault: a refused connection ends the thread.
GiveUp == "done"

\* connect() throws, and process() sleeps for a second before it goes on.
TryAgain == "loop"

ClientConnectFails ==
  /\ client = "connect" /\ (~accepting \/ fds >= MaxFds)
  /\ client' = TryAgain
  /\ UNCHANGED <<caller, client_queue, m_is_connected, client_running, hand, fds, clientPeer, clientHistory>>

-----------------------------------------------------------------------------
(* The peer.                                                               *)

PeerStalls ==
  /\ client_conn \in {"open", "stalled"}
  /\ client_conn' = IF client_conn = "open" THEN "stalled" ELSE "open"
  /\ UNCHANGED <<caller, client, client_queue, m_is_connected, client_running, hand, fds, accepting, breaks, clientHistory>>

PeerBreaks ==
  /\ client_conn \in {"open", "stalled"}
  /\ breaks < MaxBreaks
  /\ client_conn' = "broken"
  /\ breaks' = breaks + 1
  /\ UNCHANGED <<caller, client, client_queue, m_is_connected, client_running, hand, fds, accepting, clientHistory>>

PeerAccepts ==
  /\ accepting' = ~accepting
  /\ UNCHANGED <<caller, client, client_queue, m_is_connected, client_running, hand, fds, client_conn, breaks, clientHistory>>

-----------------------------------------------------------------------------
ClientThread ==
  ClientLoop \/ ClientWoken \/ ClientPop \/ ClientSend \/ ClientSendFails
    \/ ClientConnect \/ ClientConnectFails
ClientCaller == SendallCheck \/ SendallDiscard \/ WakeClient \/ JoinClient

ClientNext ==
  \/ ClientThread \/ ClientCaller
  \/ SendallPush \/ DestroyClient
  \/ PeerStalls \/ PeerBreaks \/ PeerAccepts

ClientSpec == ClientInit /\ [][ClientNext]_clientVars

-----------------------------------------------------------------------------
ClientTypeOK ==
  /\ caller \in {"idle", "check", "discard", "wakeup", "join", "gone"}
  /\ client \in {"loop", "pop", "send", "connect", "done"}
  /\ client_conn \in {"none", "open", "stalled", "broken"}
  /\ fds \in 0 .. MaxFds /\ hand \in 0 .. MaxBuffers
  /\ Size(client_queue) <= MaxBuffers

\* Every buffer is sent, waiting, lost with a connection or discarded from a
\* full queue, and nothing else; what is sent and what waits is in order;
\* each connection that breaks costs one buffer at most; and the queue is
\* within its limit whenever sendall() has returned.
ClientStream ==
  LET line == sent \o (IF hand = None THEN <<>> ELSE <<hand>>) \o client_queue.elems
  IN  /\ \A i, j \in DOMAIN line : i < j => line[i] < line[j]
      /\ 1 .. buffers = {line[i] : i \in DOMAIN line} \cup lost \cup discarded
      /\ Cardinality(lost) <= breaks
      /\ caller = "idle" => Size(client_queue) <= MaxClientQueue

\* The destructor returns, unless the peer keeps the connection and never
\* reads again.
ClientStops == (caller = "wakeup") ~> (caller = "gone" \/ [](client_conn = "stalled"))

\* Whatever the peer did before, once it accepts connections and reads, the
\* client empties its queue, as long as it still has descriptors.
ClientResumes ==
  (<>[](client_running /\ accepting /\ client_conn # "stalled" /\ fds < MaxFds))
     => []<>(Size(client_queue) = 0)
=============================================================================
