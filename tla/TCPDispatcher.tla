---------------------------- MODULE TCPDispatcher ----------------------------
(***************************************************************************)
(* The EDI/TCP server output: TCPDataDispatcher and TCPConnection          *)
(* (src/lib/Socket.cpp) with their ThreadsafeQueue.                        *)
(*                                                                         *)
(* The owner thread writes buffers and in the end destroys the dispatcher; *)
(* the listener thread accepts clients and gives them the preroll; each    *)
(* connection has a queue and a sender thread.  write() removes the        *)
(* connections whose queue is too long, and waits for their threads, while *)
(* it holds the mutex.                                                     *)
(*                                                                         *)
(* Buffers are numbered in the order in which they are written.  A client  *)
(* connects once; one that comes back is another client.                   *)
(***************************************************************************)
EXTENDS Integers, Sequences, FiniteSets

CONSTANTS
  Clients,
  NoClient,          \* none of them
  MaxQueueSize,      \* m_max_queue_size
  BuffersToPreroll,  \* m_buffers_to_preroll
  Parts,             \* send() calls that a buffer needs
  MaxWrites          \* bound: buffers written

ASSUME DispatcherAssumption ==
  /\ NoClient \notin Clients
  /\ MaxQueueSize \in Nat /\ BuffersToPreroll \in Nat
  /\ Parts \in Nat \ {0} /\ MaxWrites \in Nat

Marker == 0        \* the empty buffer that ends a sender thread

VARIABLES
  running,    \* m_running of the dispatcher
  mutex,      \* who holds m_mutex: "free", "owner" or "listener"
  preroll,    \* m_preroll_queue
  conns,      \* m_connections
  written,    \* number of buffers written
  \* owner thread
  opc,        \* "idle", "remove", "failed", "clear", "join", "members", "done"
              \* or "crashed"
  todo,       \* connections that remove_if has still to look at
  victim,     \* the connection whose destructor waits for its thread
  \* listener thread
  lpc,        \* "loop", "accept", "lock", "add" or "ended"
  incoming,   \* the client just accepted
  \* connections
  cpc,        \* "none", "loop", "wait", "send" (the loop around send() and its
              \* poll()), "block" (inside ::send()) or "ended"
  alive,      \* m_running of the connection
  queue,      \* its queue
  sending,    \* the buffer taken from the queue ...
  left,       \* ... and how much of it is still to be sent
  got,        \* history: the buffers the client received in full
  start       \* history: the first buffer the client is to receive

owner == <<opc, todo, victim>>
listener == <<lpc, incoming>>
connection == <<cpc, alive, queue, sending, left, got, start>>
dispatcherVars == <<running, mutex, preroll, conns, written, owner, listener, connection>>

DispatcherInit ==
  /\ running = TRUE /\ mutex = "free" /\ preroll = <<>> /\ conns = {}
  /\ written = 0
  /\ opc = "idle" /\ todo = {} /\ victim = NoClient
  /\ lpc = "loop" /\ incoming = NoClient
  /\ cpc = [c \in Clients |-> "none"]
  /\ alive = [c \in Clients |-> FALSE]
  /\ queue = [c \in Clients |-> <<>>]
  /\ sending = [c \in Clients |-> Marker]
  /\ left = [c \in Clients |-> 0]
  /\ got = [c \in Clients |-> <<>>]
  /\ start = [c \in Clients |-> 0]

Alive == opc # "crashed"
-----------------------------------------------------------------------------
(* write().                                                                *)

\* m_preroll_queue after buffer b: the last BuffersToPreroll buffers.
PrerollWith(b) ==
  IF BuffersToPreroll = 0 THEN preroll
  ELSE IF Len(preroll) + 1 > BuffersToPreroll THEN Tail(Append(preroll, b))
  ELSE Append(preroll, b)

Write ==
  /\ opc = "idle" /\ running /\ mutex = "free" /\ written < MaxWrites
  /\ written' = written + 1
  /\ mutex' = "owner"
  /\ preroll' = PrerollWith(written + 1)
  /\ queue' = [c \in Clients |-> IF c \in conns
                                 THEN Append(queue[c], written + 1)
                                 ELSE queue[c]]
  /\ opc' = "remove" /\ todo' = conns
  /\ UNCHANGED <<running, conns, victim, listener, cpc, alive, sending, left,
                 got, start>>

\* The listener has failed: every write from now on throws.
WriteThrows ==
  /\ opc = "idle" /\ ~running
  /\ opc' = "failed"
  /\ UNCHANGED <<running, mutex, preroll, conns, written, todo, victim,
                 listener, connection>>

\* Seeded fault: no connection is too slow.
NeverTooLong(c) == FALSE

TooLong(c) == Len(queue[c]) > MaxQueueSize

\* remove_if looks at one connection after the other.
KeepConnection(c) ==
  /\ opc = "remove" /\ victim = NoClient /\ c \in todo /\ ~TooLong(c)
  /\ todo' = todo \ {c}
  /\ UNCHANGED <<running, mutex, preroll, conns, written, opc, victim,
                 listener, connection>>

\* ~TCPConnection(), up to the join.
DestroyConnection(c) ==
  /\ alive' = [alive EXCEPT ![c] = FALSE]
  /\ queue' = [queue EXCEPT ![c] = Append(@, Marker)]
  /\ victim' = c /\ todo' = todo \ {c}
  /\ UNCHANGED <<running, mutex, preroll, conns, written, opc, listener, cpc,
                 sending, left, got, start>>

RemoveConnection(c) ==
  /\ opc = "remove" /\ victim = NoClient /\ c \in todo /\ TooLong(c)
  /\ DestroyConnection(c)

\* The join returns, and the connection leaves the list.
JoinConnection ==
  /\ Alive /\ victim # NoClient /\ cpc[victim] = "ended"
  /\ conns' = conns \ {victim} /\ victim' = NoClient
  /\ UNCHANGED <<running, mutex, preroll, written, opc, todo, listener,
                 connection>>

WriteReturns ==
  /\ opc = "remove" /\ victim = NoClient /\ todo = {}
  /\ opc' = "idle" /\ mutex' = "free"
  /\ UNCHANGED <<running, preroll, conns, written, todo, victim, listener,
                 connection>>
-----------------------------------------------------------------------------
(* ~TCPDataDispatcher().                                                   *)

\* The owner destroys the dispatcher at the end, or while the exception of
\* write() is passed on.
Destroy ==
  /\ opc \in {"idle", "failed"}
  /\ running' = FALSE /\ opc' = "clear"
  /\ UNCHANGED <<mutex, preroll, conns, written, todo, victim, listener,
                 connection>>

\* clear() takes no lock; when it meets the listener in the list, anything may
\* happen, and here the program dies.
ClearRaces ==
  /\ opc = "clear" /\ lpc = "add"
  /\ opc' = "crashed"
  /\ UNCHANGED <<running, mutex, preroll, conns, written, todo, victim,
                 listener, connection>>

\* The same for the list member itself, after the body of the destructor.
ClearConnection(c) ==
  /\ opc \in {"clear", "members"} /\ victim = NoClient /\ c \in conns
  /\ DestroyConnection(c)

ClearReturns ==
  /\ opc = "clear" /\ victim = NoClient /\ conns = {}
  /\ opc' = "join"
  /\ UNCHANGED <<running, mutex, preroll, conns, written, todo, victim,
                 listener, connection>>

JoinListener ==
  /\ opc = "join" /\ lpc = "ended"
  /\ opc' = "members"
  /\ UNCHANGED <<running, mutex, preroll, conns, written, todo, victim,
                 listener, connection>>

MembersGone ==
  /\ opc = "members" /\ victim = NoClient /\ conns = {}
  /\ opc' = "done"
  /\ UNCHANGED <<running, mutex, preroll, conns, written, todo, victim,
                 listener, connection>>
-----------------------------------------------------------------------------
(* process() of the dispatcher: the listener thread.                       *)

ListenerLoop ==
  /\ Alive /\ lpc = "loop"
  /\ lpc' = IF running THEN "accept" ELSE "ended"
  /\ UNCHANGED <<running, mutex, preroll, conns, written, owner, incoming,
                 connection>>

\* accept() returns a client, unless the destructor has closed the socket.
Accept(c) ==
  /\ Alive /\ lpc = "accept" /\ cpc[c] = "none"
  /\ opc \notin {"join", "members", "done"}
  /\ lpc' = "lock" /\ incoming' = c
  /\ UNCHANGED <<running, mutex, preroll, conns, written, owner, connection>>

AcceptTimeout ==
  /\ Alive /\ lpc = "accept"
  /\ lpc' = "loop"
  /\ UNCHANGED <<running, mutex, preroll, conns, written, owner, incoming,
                 connection>>

AcceptFails ==
  /\ Alive /\ lpc = "accept"
  /\ running' = FALSE /\ lpc' = "ended"
  /\ UNCHANGED <<mutex, preroll, conns, written, owner, incoming, connection>>

AddBegin ==
  /\ Alive /\ lpc = "lock" /\ mutex = "free"
  /\ mutex' = "listener" /\ lpc' = "add"
  /\ UNCHANGED <<running, preroll, conns, written, owner, incoming, connection>>

\* Seeded fault: the client does not get the preroll.
NoPreroll == <<>>

\* What a new connection begins with.
FirstBuffers == preroll

\* Under the mutex: the connection is added and its thread started, and the
\* preroll goes into its queue.
AddEnd ==
  /\ Alive /\ lpc = "add"
  /\ conns' = conns \cup {incoming}
  /\ queue' = [queue EXCEPT ![incoming] = FirstBuffers]
  /\ start' = [start EXCEPT ![incoming] = written - Len(preroll) + 1]
  /\ cpc' = [cpc EXCEPT ![incoming] = "loop"]
  /\ alive' = [alive EXCEPT ![incoming] = TRUE]
  /\ incoming' = NoClient
  /\ mutex' = "free" /\ lpc' = "loop"
  /\ UNCHANGED <<running, preroll, written, owner, sending, left, got>>
-----------------------------------------------------------------------------
(* process() of a connection: its sender thread.                           *)

SenderLoop(c) ==
  /\ Alive /\ cpc[c] = "loop"
  /\ cpc' = [cpc EXCEPT ![c] = IF alive[c] THEN "wait" ELSE "ended"]
  /\ UNCHANGED <<running, mutex, preroll, conns, written, owner, listener,
                 alive, queue, sending, left, got, start>>

\* Seeded fault: the marker is taken for a buffer without content.
TakeMarkerIgnored(c) ==
  /\ Alive /\ cpc[c] = "wait" /\ queue[c] # <<>> /\ Head(queue[c]) = Marker
  /\ queue' = [queue EXCEPT ![c] = Tail(@)]
  /\ UNCHANGED <<running, mutex, preroll, conns, written, owner, listener,
                 cpc, alive, sending, left, got, start>>

\* wait_and_pop() returns the termination marker ...
TakeMarker(c) ==
  /\ Alive /\ cpc[c] = "wait" /\ queue[c] # <<>> /\ Head(queue[c]) = Marker
  /\ queue' = [queue EXCEPT ![c] = Tail(@)]
  /\ alive' = [alive EXCEPT ![c] = FALSE]
  /\ cpc' = [cpc EXCEPT ![c] = "ended"]
  /\ UNCHANGED <<running, mutex, preroll, conns, written, owner, listener,
                 sending, left, got, start>>

\* ... or a buffer.
Take(c) ==
  /\ Alive /\ cpc[c] = "wait" /\ queue[c] # <<>> /\ Head(queue[c]) # Marker
  /\ queue' = [queue EXCEPT ![c] = Tail(@)]
  /\ sending' = [sending EXCEPT ![c] = Head(queue[c])]
  /\ left' = [left EXCEPT ![c] = Parts]
  /\ cpc' = [cpc EXCEPT ![c] = "send"]
  /\ UNCHANGED <<running, mutex, preroll, conns, written, owner, listener,
                 alive, got, start>>

\* poll() finds that the socket can be written, and ::send() is called.  While it
\* does not, send() returns 0 after its timeout, which changes nothing.
SendBegins(c) ==
  /\ Alive /\ cpc[c] = "send" /\ alive[c]
  /\ cpc' = [cpc EXCEPT ![c] = "block"]
  /\ UNCHANGED <<running, mutex, preroll, conns, written, owner, listener,
                 alive, queue, sending, left, got, start>>

\* The socket of an accepted client is blocking, and ::send() has no flag to make
\* this call different: it returns when there was room for the whole rest, as the
\* client reads, and nothing but the client decides when.
SendPart(c) ==
  /\ Alive /\ cpc[c] = "block" /\ left[c] > 1
  /\ left' = [left EXCEPT ![c] = @ - 1]
  /\ UNCHANGED <<running, mutex, preroll, conns, written, owner, listener,
                 cpc, alive, queue, sending, got, start>>

SendRest(c) ==
  /\ Alive /\ cpc[c] = "block" /\ left[c] = 1
  /\ left' = [left EXCEPT ![c] = 0]
  /\ got' = [got EXCEPT ![c] = Append(@, sending[c])]
  /\ cpc' = [cpc EXCEPT ![c] = "loop"]
  /\ UNCHANGED <<running, mutex, preroll, conns, written, owner, listener,
                 alive, queue, sending, start>>

\* A signal makes ::send() return what it has sent.
SendInterrupted(c) ==
  /\ Alive /\ cpc[c] = "block" /\ left[c] < Parts
  /\ cpc' = [cpc EXCEPT ![c] = "send"]
  /\ UNCHANGED <<running, mutex, preroll, conns, written, owner, listener,
                 alive, queue, sending, left, got, start>>

\* Seeded fault: the loop around send() looks at the buffer only.
AbandonNever(c) == FALSE /\ UNCHANGED dispatcherVars

\* The destructor has cleared m_running: the rest is not sent.
Abandon(c) ==
  /\ Alive /\ cpc[c] = "send" /\ ~alive[c]
  /\ cpc' = [cpc EXCEPT ![c] = "loop"]
  /\ UNCHANGED <<running, mutex, preroll, conns, written, owner, listener,
                 alive, queue, sending, left, got, start>>

\* Seeded fault: the buffer that failed is skipped and the thread goes on.
SendSkips(c) ==
  /\ Alive /\ cpc[c] \in {"send", "block"}
  /\ cpc' = [cpc EXCEPT ![c] = "loop"]
  /\ UNCHANGED <<running, mutex, preroll, conns, written, owner, listener,
                 alive, queue, sending, left, got, start>>

\* The client has gone: the thread ends, the connection stays in the list.
SendFails(c) ==
  /\ Alive /\ cpc[c] \in {"send", "block"}
  /\ alive' = [alive EXCEPT ![c] = FALSE]
  /\ cpc' = [cpc EXCEPT ![c] = "loop"]
  /\ UNCHANGED <<running, mutex, preroll, conns, written, owner, listener,
                 queue, sending, left, got, start>>
-----------------------------------------------------------------------------
Owner ==
  \/ Write \/ WriteThrows \/ WriteReturns \/ JoinConnection
  \/ \E c \in Clients : KeepConnection(c) \/ RemoveConnection(c)
                        \/ ClearConnection(c)
  \/ Destroy \/ ClearRaces \/ ClearReturns \/ JoinListener \/ MembersGone

Listener ==
  \/ ListenerLoop \/ AcceptTimeout \/ AcceptFails \/ AddBegin \/ AddEnd
  \/ \E c \in Clients : Accept(c)

\* The steps of a sender thread that do not depend on its client.
SenderOwn(c) ==
  SenderLoop(c) \/ TakeMarker(c) \/ Take(c) \/ Abandon(c)

Sender(c) ==
  \/ SenderOwn(c)
  \/ SendBegins(c) \/ SendPart(c) \/ SendRest(c) \/ SendInterrupted(c) \/ SendFails(c)

DispatcherNext == Owner \/ Listener \/ \E c \in Clients : Sender(c)

DispatcherSpec == DispatcherInit /\ [][DispatcherNext]_dispatcherVars

\* What a call that has begun does on its own.
OwnerOwn ==
  \/ WriteReturns \/ JoinConnection
  \/ \E c \in Clients : KeepConnection(c) \/ RemoveConnection(c)
                        \/ ClearConnection(c)
  \/ ClearReturns \/ JoinListener \/ MembersGone
-----------------------------------------------------------------------------
(* Properties.                                                             *)

\* Every variable has its type.
DispatcherTypeOK ==
  /\ running \in BOOLEAN /\ mutex \in {"free", "owner", "listener"}
  /\ preroll \in Seq(Nat) /\ conns \subseteq Clients /\ written \in 0 .. MaxWrites
  /\ opc \in {"idle", "remove", "failed", "clear", "join", "members", "done",
              "crashed"}
  /\ todo \subseteq conns /\ victim \in conns \cup {NoClient}
  /\ lpc \in {"loop", "accept", "lock", "add", "ended"}
  /\ incoming \in Clients \cup {NoClient}
  /\ cpc \in [Clients -> {"none", "loop", "wait", "send", "block", "ended"}]
  /\ alive \in [Clients -> BOOLEAN]
  /\ queue \in [Clients -> Seq(Nat)] /\ sending \in [Clients -> Nat]
  /\ left \in [Clients -> 0 .. Parts]
  /\ got \in [Clients -> Seq(Nat)] /\ start \in [Clients -> Nat]

\* What a client receives is an unbroken run of the buffers written, beginning
\* with the oldest one of the preroll at the time it was accepted, however
\* accepting, writing, sending, removing and shutting down interleave
\* (Socket.cpp:1029-1062, 958-987).
UnbrokenStream ==
  \A c \in Clients : \A i \in DOMAIN got[c] : got[c][i] = start[c] + i - 1

\* Nothing is lost for a client that is served: what it has received, what is
\* being sent and what is queued reach up to the last buffer written.
NothingMissing ==
  \A c \in conns :
    alive[c] => start[c] + Len(got[c]) + Len(queue[c])
                + (IF cpc[c] \in {"send", "block"} THEN 1 ELSE 0) = written + 1

\* "automatically disconnect destinations whose buffer overflows"
\* (Socket.h:257): between writes no connection has more in its queue than the
\* limit, or than its preroll.
OverflowDisconnects ==
  opc \in {"idle", "failed"} =>
    \A c \in conns :
      Len(queue[c]) <= MaxQueueSize \/ Len(queue[c]) <= BuffersToPreroll

\* No client keeps a thread inside ::send() for ever.
SendsReturn == \A c \in Clients : []<>(cpc[c] # "block")

\* While the blocking sends return, write() returns, also when it has to wait, with
\* the mutex, for the threads of the connections it removes: whether they are
\* sending, waiting for a buffer or at their end (Socket.cpp:1042, 948-956).
WriteCompletes == SendsReturn => (opc = "remove" ~> opc = "idle")

\* Under the same condition the destructor returns, from any state of the listener and
\* the connections, unless its unlocked clear() meets the listener (Socket.cpp:1005-1013).
DestroyCompletes == SendsReturn => (opc = "clear" ~> opc \in {"done", "crashed"})

\* "timeout_ms number of milliseconds before timeout ... return number of bytes sent, 0
\* on timeout" (Socket.h:191-192), "Less than one ETI frame" (Socket.cpp:973): a client
\* that does not read stalls nobody, write() returns.
WriteNeverStalls == opc = "remove" ~> opc = "idle"
=============================================================================
