-------------------------- MODULE MCOutputs_proofs --------------------------
(***************************************************************************)
(* The safety properties of the three parts of MCOutputs: the TCP server   *)
(* output for every number of clients and every length of queues and       *)
(* preroll, the TCP client output for every queue length, every number of  *)
(* buffers and of broken connections, and digris-zmq-converter for every   *)
(* number of frames per message and every backlog.  MCOutputs is shown to  *)
(* implement the specification of each of them.                            *)
(***************************************************************************)
EXTENDS MCOutputs, SequenceTheorems, NumberFacts
-----------------------------------------------------------------------------
(* TCPDataDispatcher and TCPConnection, the TCP server output.             *)

\* The connection being destroyed has been looked at, and outside of write()
\* and the destructor there is none.
OwnerInv ==
  /\ victim \notin todo
  /\ opc \in {"idle", "failed"} => todo = {} /\ victim = NoClient

\* Between accept() and the list, the client is new.
ListenerInv ==
  lpc \in {"lock", "add"} => incoming \in Clients /\ cpc[incoming] = "none"

\* The preroll is what was written last.
PrerollInv ==
  /\ Len(preroll) <= written /\ Len(preroll) <= BuffersToPreroll
  /\ \A i \in 1 .. Len(preroll) : preroll[i] = written - Len(preroll) + i

ServerTypeInv == DispatcherTypeOK /\ OwnerInv /\ ListenerInv /\ PrerollInv

\* Buffers of client c that have left its queue.
Sent(c) == Len(got[c]) + (IF cpc[c] \in {"send", "block"} THEN 1 ELSE 0)

\* While a connection is served it is in the list, the buffer being sent and
\* the queue continue what the client has received, and they end with the
\* last buffer written.
Served(c) ==
  alive[c] =>
    /\ c \in conns /\ c # victim /\ cpc[c] \in {"loop", "wait", "send", "block"}
    /\ start[c] + Sent(c) + Len(queue[c]) = written + 1
    /\ \A i \in 1 .. Len(queue[c]) : queue[c][i] = start[c] + Sent(c) + i - 1
    /\ cpc[c] = "send" => sending[c] = start[c] + Len(got[c])

\* A thread inside ::send() goes on with its buffer when the connection is no
\* longer served: it is the one that the client is to receive next.
Blocked(c) == cpc[c] = "block" => sending[c] = start[c] + Len(got[c])

\* A client that was not accepted yet has nothing.
Fresh(c) == cpc[c] = "none" => ~alive[c] /\ got[c] = <<>> /\ c \notin conns

Unbroken(c) == \A i \in DOMAIN got[c] : got[c][i] = start[c] + i - 1

ServedInv(c) == Served(c) /\ Blocked(c) /\ Fresh(c) /\ Unbroken(c)

StreamInv == \A c \in Clients : ServedInv(c)

\* Every connection that write() has looked at, and every new one, is within
\* its limit.
QueueInv ==
  opc \in {"idle", "remove", "failed"} =>
    \A c \in conns \ (todo \cup {victim}) :
      Len(queue[c]) <= MaxQueueSize \/ Len(queue[c]) <= BuffersToPreroll

-----------------------------------------------------------------------------
(* The preroll.                                                            *)

\* What write() makes of the preroll, whatever its contents.
LEMMA PrerollWithFacts ==
  ASSUME preroll \in Seq(Nat), BuffersToPreroll \in Nat, NEW b \in Nat,
         Len(preroll) <= BuffersToPreroll
  PROVE  /\ PrerollWith(b) \in Seq(Nat)
         /\ Len(PrerollWith(b)) <= Len(preroll) + 1
         /\ Len(PrerollWith(b)) <= BuffersToPreroll
         /\ \A i \in 1 .. Len(PrerollWith(b)) :
              PrerollWith(b)[i] =
                IF i = Len(PrerollWith(b)) THEN b
                ELSE preroll[i + Len(preroll) + 1 - Len(PrerollWith(b))]
<1> DEFINE n == Len(preroll)
           a == Append(preroll, b)
<1>1. n \in Nat
  BY LenProperties
<1>2. /\ a \in Seq(Nat) /\ Len(a) = n + 1
      /\ \A i \in 1 .. n : a[i] = preroll[i]
      /\ a[n + 1] = b /\ a # <<>>
  BY AppendProperties
<1>3. /\ Tail(a) \in Seq(Nat) /\ Len(Tail(a)) = n
      /\ \A i \in 1 .. n : Tail(a)[i] = a[i + 1]
  BY <1>1, <1>2, HeadTailProperties
<1>4. CASE BuffersToPreroll = 0
  <2>1. PrerollWith(b) = preroll /\ n = 0
    BY <1>1, <1>4 DEF PrerollWith
  <2> QED
    BY <2>1, <1>4
<1>5. CASE BuffersToPreroll # 0 /\ n + 1 > BuffersToPreroll
  <2>1. PrerollWith(b) = Tail(a)
    BY <1>5 DEF PrerollWith
  <2>2. \A i \in 1 .. n : Tail(a)[i] = IF i = n THEN b ELSE preroll[i + 1]
    BY <1>1, <1>2, <1>3
  <2>3. Len(PrerollWith(b)) = n /\ n = BuffersToPreroll
    BY <2>1, <1>1, <1>3, <1>5
  <2>4. ASSUME NEW i \in 1 .. n
        PROVE  Tail(a)[i] = IF i = n THEN b ELSE preroll[i + n + 1 - n]
    <3>1. i + n + 1 - n = i + 1
      BY <1>1
    <3> QED
      BY <3>1, <2>2
  <2> HIDE DEF a
  <2>5. \A i \in 1 .. Len(PrerollWith(b)) :
          PrerollWith(b)[i] =
            IF i = Len(PrerollWith(b)) THEN b
            ELSE preroll[i + Len(preroll) + 1 - Len(PrerollWith(b))]
    BY <2>1, <2>3, <2>4
  <2>6. PrerollWith(b) \in Seq(Nat)
    BY <1>3, <2>1
  <2> QED
    BY <2>3, <2>5, <2>6, <1>1
<1>6. CASE BuffersToPreroll # 0 /\ ~(n + 1 > BuffersToPreroll)
  <2>1. PrerollWith(b) = a
    BY <1>6 DEF PrerollWith
  <2>2. /\ Len(PrerollWith(b)) = n + 1 /\ PrerollWith(b) \in Seq(Nat)
        /\ n + 1 <= BuffersToPreroll
    BY <2>1, <1>1, <1>2, <1>6
  <2> HIDE DEF a
  <2>3. ASSUME NEW i \in 1 .. n + 1
        PROVE  a[i] = IF i = n + 1 THEN b ELSE preroll[i + n + 1 - (n + 1)]
    <3>1. i + n + 1 - (n + 1) = i /\ (i # n + 1 => i \in 1 .. n)
      BY <1>1
    <3> QED
      BY <3>1, <1>2
  <2> QED
    BY <2>1, <2>2, <2>3, <1>1
<1> QED
  BY <1>4, <1>5, <1>6

\* write() appends a buffer, and the preroll stays what was written last.
LEMMA WritePreroll ==
  ASSUME DispatcherTypeOK, PrerollInv, Write
  PROVE  preroll' \in Seq(Nat) /\ PrerollInv'
<1> DEFINE n == Len(preroll)
           p == PrerollWith(written + 1)
           k == Len(p)
<1>1. /\ preroll \in Seq(Nat) /\ written \in Nat /\ n \in Nat
      /\ n <= BuffersToPreroll /\ n <= written /\ BuffersToPreroll \in Nat
  BY DispatcherAssumption, LenProperties DEF DispatcherTypeOK, PrerollInv
<1>2. /\ p \in Seq(Nat) /\ k <= n + 1 /\ k <= BuffersToPreroll
      /\ \A i \in 1 .. k : p[i] = IF i = k THEN written + 1
                                  ELSE preroll[i + n + 1 - k]
  <2>1. written + 1 \in Nat
    BY <1>1
  <2> QED
    BY <1>1, <2>1, PrerollWithFacts, Zenon
<1>3. k \in Nat
  BY <1>2, LenProperties
<1>4. preroll' = p /\ written' = written + 1
  BY DEF Write
<1> HIDE DEF n, p, k
<1>5. ASSUME NEW i \in 1 .. k
      PROVE  p[i] = (written + 1) - k + i
  <2>1. CASE i = k
    BY <2>1, <1>1, <1>2, <1>3
  <2>2. CASE i # k
    <3>1. i + n + 1 - k \in 1 .. n
      BY <2>2, <1>1, <1>2, <1>3
    <3>2. \A j \in 1 .. n : preroll[j] = written - n + j
      BY DEF PrerollInv, n
    <3>3. preroll[i + n + 1 - k] = written - n + (i + n + 1 - k)
      BY <3>1, <3>2
    <3> QED
      BY <3>3, <2>2, <1>1, <1>2, <1>3
  <2> QED
    BY <2>1, <2>2
<1>6. k <= written + 1
  BY <1>1, <1>2, <1>3
<1> USE DEF k
<1> QED
  BY <1>2, <1>4, <1>5, <1>6 DEF PrerollInv
-----------------------------------------------------------------------------
(* Types.                                                                  *)

LEMMA InitTypeInv == DispatcherInit => ServerTypeInv
<1> SUFFICES ASSUME DispatcherInit PROVE ServerTypeInv
  OBVIOUS
<1>1. <<>> \in Seq(Nat) /\ Len(<<>>) = 0
  BY EmptySeq
<1>2. DispatcherTypeOK
  BY <1>1, DispatcherAssumption DEF DispatcherInit, DispatcherTypeOK, Marker
<1>3. OwnerInv /\ ListenerInv
  BY DEF DispatcherInit, OwnerInv, ListenerInv
<1>4. PrerollInv
  BY <1>1, DispatcherAssumption DEF DispatcherInit, PrerollInv
<1> QED
  BY <1>2, <1>3, <1>4 DEF ServerTypeInv

\* What ~TCPConnection() puts into the queue.
LEMMA DestroyTypes ==
  ASSUME ServerTypeInv, NEW c \in conns, DestroyConnection(c), opc # "idle",
         opc # "failed"
  PROVE  ServerTypeInv'
<1> USE DEF listener
<1>1. queue' \in [Clients -> Seq(Nat)]
  <2>1. Append(queue[c], Marker) \in Seq(Nat)
    BY AppendProperties DEF ServerTypeInv, DispatcherTypeOK, Marker
  <2> QED
    BY <2>1 DEF DestroyConnection, ServerTypeInv, DispatcherTypeOK
<1>2. DispatcherTypeOK'
  BY <1>1 DEF DestroyConnection, ServerTypeInv, DispatcherTypeOK
<1>3. OwnerInv' /\ ListenerInv' /\ PrerollInv'
  BY DEF DestroyConnection, ServerTypeInv, OwnerInv, ListenerInv, PrerollInv
<1> QED
  BY <1>2, <1>3 DEF ServerTypeInv

LEMMA NextTypeInv == ServerTypeInv /\ [DispatcherNext]_dispatcherVars => ServerTypeInv'
<1> SUFFICES ASSUME ServerTypeInv, [DispatcherNext]_dispatcherVars PROVE ServerTypeInv'
  OBVIOUS
<1> USE DispatcherAssumption DEF ServerTypeInv, owner, listener, connection
<1>1. CASE Write
  <2>1. queue' \in [Clients -> Seq(Nat)]
    <3>1. ASSUME NEW c \in Clients PROVE Append(queue[c], written + 1) \in Seq(Nat)
      BY AppendProperties DEF DispatcherTypeOK
    <3> QED
      BY <1>1, <3>1 DEF Write, DispatcherTypeOK
  <2>2. DispatcherTypeOK'
    <3>1. preroll' \in Seq(Nat)
      BY <1>1, WritePreroll
    <3>2. written' \in 0 .. MaxWrites
      BY <1>1 DEF Write, DispatcherTypeOK
    <3>3. todo' \subseteq conns' /\ victim' \in conns' \cup {NoClient}
      BY <1>1 DEF Write, DispatcherTypeOK
    <3> QED
      BY <1>1, <2>1, <3>1, <3>2, <3>3 DEF Write, DispatcherTypeOK
  <2>3. OwnerInv'
    BY <1>1 DEF Write, OwnerInv, DispatcherTypeOK
  <2>4. ListenerInv' /\ PrerollInv'
    BY <1>1, WritePreroll DEF Write, ListenerInv
  <2> QED
    BY <2>2, <2>3, <2>4
<1>2. CASE WriteThrows
  BY <1>2 DEF WriteThrows, DispatcherTypeOK, OwnerInv, ListenerInv, PrerollInv
<1>3. CASE WriteReturns
  BY <1>3 DEF WriteReturns, DispatcherTypeOK, OwnerInv, ListenerInv, PrerollInv
<1>4. CASE JoinConnection
  BY <1>4 DEF JoinConnection, DispatcherTypeOK, OwnerInv, ListenerInv, PrerollInv
<1>5. ASSUME NEW c \in Clients, KeepConnection(c) PROVE ServerTypeInv'
  BY <1>5 DEF KeepConnection, DispatcherTypeOK, OwnerInv, ListenerInv, PrerollInv
<1>6. ASSUME NEW c \in Clients, RemoveConnection(c) PROVE ServerTypeInv'
  BY <1>6, DestroyTypes DEF RemoveConnection, DispatcherTypeOK
<1>7. ASSUME NEW c \in Clients, ClearConnection(c) PROVE ServerTypeInv'
  BY <1>7, DestroyTypes DEF ClearConnection, DispatcherTypeOK
<1>8. CASE Destroy
  <2>1. running' \in BOOLEAN
    BY <1>8 DEF Destroy
  <2> QED
    BY <1>8, <2>1 DEF Destroy, DispatcherTypeOK, OwnerInv, ListenerInv, PrerollInv
<1>9. CASE ClearRaces
  BY <1>9 DEF ClearRaces, DispatcherTypeOK, OwnerInv, ListenerInv, PrerollInv
<1>10. CASE ClearReturns
  BY <1>10 DEF ClearReturns, DispatcherTypeOK, OwnerInv, ListenerInv, PrerollInv
<1>11. CASE JoinListener
  BY <1>11 DEF JoinListener, DispatcherTypeOK, OwnerInv, ListenerInv, PrerollInv
<1>12. CASE MembersGone
  BY <1>12 DEF MembersGone, DispatcherTypeOK, OwnerInv, ListenerInv, PrerollInv
<1>13. CASE ListenerLoop
  BY <1>13 DEF ListenerLoop, DispatcherTypeOK, OwnerInv, ListenerInv,
               PrerollInv
<1>14. CASE AcceptTimeout
  BY <1>14 DEF AcceptTimeout, DispatcherTypeOK, OwnerInv, ListenerInv,
               PrerollInv
<1>15. CASE AcceptFails
  <2>1. running' \in BOOLEAN
    BY <1>15 DEF AcceptFails
  <2> QED
    BY <1>15, <2>1 DEF AcceptFails, DispatcherTypeOK, OwnerInv,
                       ListenerInv, PrerollInv
<1>16. CASE AddBegin
  BY <1>16 DEF AddBegin, DispatcherTypeOK, OwnerInv, ListenerInv,
               PrerollInv
<1>17. CASE AddEnd
  <2>1. incoming \in Clients /\ Len(preroll) \in Nat
    BY <1>17, LenProperties DEF AddEnd, ListenerInv, DispatcherTypeOK
  <2>2. written - Len(preroll) + 1 \in Nat
    BY <2>1 DEF PrerollInv, DispatcherTypeOK
  <2>3. DispatcherTypeOK'
    <3>1. queue' \in [Clients -> Seq(Nat)] /\ start' \in [Clients -> Nat]
      BY <1>17, <2>1, <2>2 DEF AddEnd, FirstBuffers, DispatcherTypeOK
    <3>2. cpc' \in [Clients -> {"none", "loop", "wait", "send", "block", "ended"}]
      BY <1>17, <2>1 DEF AddEnd, DispatcherTypeOK
    <3>3. alive' \in [Clients -> BOOLEAN]
      BY <1>17, <2>1 DEF AddEnd, DispatcherTypeOK
    <3> QED
      BY <1>17, <2>1, <3>1, <3>2, <3>3 DEF AddEnd, DispatcherTypeOK
  <2>4. OwnerInv' /\ ListenerInv' /\ PrerollInv'
    BY <1>17 DEF AddEnd, OwnerInv, ListenerInv, PrerollInv
  <2> QED
    BY <2>3, <2>4
<1>18. ASSUME NEW c \in Clients, Accept(c) PROVE ServerTypeInv'
  BY <1>18 DEF Accept, DispatcherTypeOK, OwnerInv, ListenerInv,
               PrerollInv
<1>19. ASSUME NEW c \in Clients, Sender(c) PROVE ServerTypeInv'
  <2>1. OwnerInv' /\ PrerollInv'
    BY <1>19 DEF Sender, SenderOwn, SenderLoop, TakeMarker, Take, Abandon,
                 SendBegins, SendPart, SendRest, SendInterrupted, SendFails, OwnerInv, PrerollInv
  <2>2. ListenerInv'
    <3>1. /\ lpc' = lpc /\ incoming' = incoming /\ cpc[c] # "none"
          /\ \A d \in Clients : d # c => cpc'[d] = cpc[d]
      <4>1. cpc \in [Clients -> {"none", "loop", "wait", "send", "block", "ended"}]
        BY DEF DispatcherTypeOK
      <4> QED
        BY <1>19, <4>1 DEF Sender, SenderOwn, SenderLoop, TakeMarker, Take, Abandon,
                           SendBegins, SendPart, SendRest, SendInterrupted, SendFails, listener
    <3> QED
      BY <3>1 DEF ListenerInv
  <2>3. CASE SenderLoop(c)
    BY <2>1, <2>2, <2>3 DEF SenderLoop, DispatcherTypeOK
  <2>4. CASE Abandon(c) \/ SendBegins(c) \/ SendInterrupted(c)
    BY <2>1, <2>2, <2>4 DEF Abandon, SendBegins, SendInterrupted, DispatcherTypeOK
  <2>5. CASE SendPart(c)
    <3>1. left' \in [Clients -> 0 .. Parts]
      <4>1. left[c] \in 0 .. Parts /\ left[c] > 1 /\ Parts \in Nat
        BY <2>5 DEF SendPart, DispatcherTypeOK
      <4>2. left[c] - 1 \in 0 .. Parts
        BY <4>1
      <4> QED
        BY <2>5, <4>2 DEF SendPart, DispatcherTypeOK
    <3> QED
      BY <2>1, <2>2, <2>5, <3>1 DEF SendPart, DispatcherTypeOK
  <2>6. CASE SendRest(c)
    <3>1. Append(got[c], sending[c]) \in Seq(Nat)
      BY AppendProperties DEF DispatcherTypeOK
    <3>2. got' \in [Clients -> Seq(Nat)] /\ left' \in [Clients -> 0 .. Parts]
      BY <2>6, <3>1, SMTT(30) DEF SendRest, DispatcherTypeOK
    <3> QED
      BY <2>1, <2>2, <2>6, <3>2 DEF SendRest, DispatcherTypeOK
  <2>7. CASE SendFails(c)
    <3>1. alive' \in [Clients -> BOOLEAN]
      BY <2>7 DEF SendFails, DispatcherTypeOK
    <3> QED
      BY <2>1, <2>2, <2>7, <3>1 DEF SendFails, DispatcherTypeOK
  <2>8. CASE TakeMarker(c)
    <3>1. alive' \in [Clients -> BOOLEAN]
      BY <2>8 DEF TakeMarker, DispatcherTypeOK
    <3>2. Tail(queue[c]) \in Seq(Nat)
      BY <2>8, HeadTailProperties DEF TakeMarker, DispatcherTypeOK
    <3> QED
      BY <2>1, <2>2, <2>8, <3>1, <3>2 DEF TakeMarker, DispatcherTypeOK
  <2>9. CASE Take(c)
    <3>1. Tail(queue[c]) \in Seq(Nat) /\ Head(queue[c]) \in Nat
      BY <2>9, HeadTailProperties DEF Take, DispatcherTypeOK
    <3>2. /\ queue' \in [Clients -> Seq(Nat)] /\ sending' \in [Clients -> Nat]
          /\ left' \in [Clients -> 0 .. Parts]
      <4>1. Parts \in 0 .. Parts
        OBVIOUS
      <4> QED
        BY <2>9, <3>1, <4>1 DEF Take, DispatcherTypeOK
    <3> QED
      BY <2>1, <2>2, <2>9, <3>2 DEF Take, DispatcherTypeOK
  <2> QED
    BY <1>19, <2>3, <2>4, <2>5, <2>6, <2>7, <2>8, <2>9 DEF Sender, SenderOwn
<1>20. CASE UNCHANGED dispatcherVars
  BY <1>20 DEF dispatcherVars, DispatcherTypeOK, OwnerInv,
               ListenerInv, PrerollInv
<1> QED
  BY <1>1, <1>2, <1>3, <1>4, <1>5, <1>6, <1>7, <1>8, <1>9, <1>10, <1>11, <1>12,
     <1>13, <1>14, <1>15, <1>16, <1>17, <1>18, <1>19, <1>20
  DEF DispatcherNext, Owner, Listener

LEMMA TypeInvariance == DispatcherSpec => []ServerTypeInv
<1> QED
  BY InitTypeInv, NextTypeInv, PTL DEF DispatcherSpec

\* Every variable keeps its type, and write() and the destructor work only on
\* connections that are in the list (Socket.cpp:1005-1043), for every number of
\* clients, limit and preroll.
THEOREM ServerTypeCorrect == DispatcherSpec => []DispatcherTypeOK
<1> QED
  BY TypeInvariance, PTL DEF ServerTypeInv
-----------------------------------------------------------------------------
(* The stream of each client.                                              *)

LEMMA InitStreamInv == DispatcherInit => StreamInv
<1> SUFFICES ASSUME DispatcherInit, NEW c \in Clients PROVE ServedInv(c)
  BY DEF StreamInv
<1>1. got[c] = <<>> /\ ~alive[c] /\ c \notin conns /\ cpc[c] = "none"
  BY DEF DispatcherInit
<1>2. DOMAIN <<>> = {}
  BY EmptySeq
<1> QED
  BY <1>1, <1>2 DEF ServedInv, Served, Blocked, Fresh, Unbroken

\* A step that touches neither client c nor what is written.
LEMMA SameClient ==
  ASSUME NEW c \in Clients, ServedInv(c),
         cpc'[c] = cpc[c], alive'[c] = alive[c], queue'[c] = queue[c],
         sending'[c] = sending[c], got'[c] = got[c], start'[c] = start[c],
         written' = written, conns' = conns, victim' = victim
  PROVE  ServedInv(c)'
BY DEF ServedInv, Served, Blocked, Fresh, Unbroken, Sent

\* ~TCPConnection() ends the service of client d.
LEMMA DestroyStream ==
  ASSUME ServerTypeInv, NEW d \in Clients, DestroyConnection(d),
         NEW c \in Clients, ServedInv(c)
  PROVE  ServedInv(c)'
<1>1. CASE c = d
  <2>1. ~alive'[c] /\ cpc'[c] = cpc[c] /\ got'[c] = got[c] /\ conns' = conns
        /\ start'[c] = start[c] /\ sending'[c] = sending[c]
    BY <1>1 DEF DestroyConnection, ServerTypeInv, DispatcherTypeOK
  <2> QED
    BY <2>1 DEF ServedInv, Served, Blocked, Fresh, Unbroken
<1>2. CASE c # d
  <2>1. /\ cpc'[c] = cpc[c] /\ alive'[c] = alive[c] /\ queue'[c] = queue[c]
        /\ sending'[c] = sending[c] /\ got'[c] = got[c] /\ start'[c] = start[c]
        /\ written' = written /\ conns' = conns /\ victim' = d
    BY <1>2 DEF DestroyConnection, ServerTypeInv, DispatcherTypeOK
  <2> QED
    BY <1>2, <2>1 DEF ServedInv, Served, Blocked, Fresh, Unbroken, Sent
<1> QED
  BY <1>1, <1>2

\* write() reaches every client that is served.
LEMMA WriteStream ==
  ASSUME ServerTypeInv, Write, NEW c \in Clients, ServedInv(c)
  PROVE  ServedInv(c)'
<1>1. /\ cpc'[c] = cpc[c] /\ alive'[c] = alive[c] /\ sending'[c] = sending[c]
      /\ got'[c] = got[c] /\ start'[c] = start[c] /\ written' = written + 1
      /\ conns' = conns /\ victim' = victim
  BY DEF Write
<1>2. Blocked(c)' /\ Fresh(c)' /\ Unbroken(c)'
  BY <1>1 DEF ServedInv, Blocked, Fresh, Unbroken
<1>3. ASSUME alive[c] PROVE Served(c)'
  <2> DEFINE q == queue[c]
             s == start[c] + Sent(c)
  <2>1. queue'[c] = Append(q, written + 1)
    BY <1>3 DEF Write, ServedInv, Served
  <2>2. /\ Len(q) \in Nat /\ Len(Append(q, written + 1)) = Len(q) + 1
        /\ \A i \in 1 .. Len(q) : Append(q, written + 1)[i] = q[i]
        /\ Append(q, written + 1)[Len(q) + 1] = written + 1
    <3>1. q \in Seq(Nat)
      BY DEF ServerTypeInv, DispatcherTypeOK
    <3>2. written + 1 \in Nat
      BY DEF ServerTypeInv, DispatcherTypeOK
    <3> HIDE DEF q
    <3>3. Len(q) \in Nat
      BY <3>1, LenProperties
    <3> QED
      BY <3>1, <3>2, <3>3, AppendProperties
  <2>3. s \in Nat /\ written \in Nat
    BY LenProperties, SMTT(30) DEF ServerTypeInv, DispatcherTypeOK, Sent
  <2>4. s + Len(q) = written + 1 /\ \A i \in 1 .. Len(q) : q[i] = s + i - 1
    BY <1>3 DEF ServedInv, Served
  <2>5. Sent(c)' = Sent(c)
    BY <1>1 DEF Sent
  <2> HIDE DEF q, s
  <2>6. /\ s + Len(Append(q, written + 1)) = written + 1 + 1
        /\ \A i \in 1 .. Len(Append(q, written + 1)) :
             Append(q, written + 1)[i] = s + i - 1
    BY <2>2, <2>3, <2>4
  <2> USE DEF s
  <2> QED
    BY <1>1, <1>3, <2>1, <2>5, <2>6 DEF ServedInv, Served
<1> QED
  BY <1>1, <1>2, <1>3 DEF ServedInv, Served

\* A new client begins with the preroll, which reaches up to the last write.
LEMMA AddStream ==
  ASSUME ServerTypeInv, AddEnd, NEW c \in Clients, ServedInv(c)
  PROVE  ServedInv(c)'
<1>0. incoming \in Clients /\ cpc[incoming] = "none"
  BY DEF AddEnd, ServerTypeInv, ListenerInv
<1>1. CASE c # incoming
  <2>1. /\ cpc'[c] = cpc[c] /\ alive'[c] = alive[c] /\ queue'[c] = queue[c]
        /\ sending'[c] = sending[c] /\ got'[c] = got[c] /\ start'[c] = start[c]
        /\ written' = written /\ victim' = victim
        /\ conns' = conns \cup {incoming}
    BY <1>1 DEF AddEnd, ServerTypeInv, DispatcherTypeOK, owner
  <2> QED
    BY <1>1, <2>1 DEF ServedInv, Served, Blocked, Fresh, Unbroken, Sent
<1>2. CASE c = incoming
  <2>1. got[c] = <<>> /\ c \notin conns /\ c # victim
    BY <1>0, <1>2, DispatcherAssumption DEF ServedInv, Fresh, ServerTypeInv, DispatcherTypeOK
  <2>2. /\ cpc'[c] = "loop" /\ queue'[c] = preroll
        /\ got'[c] = <<>> /\ start'[c] = written - Len(preroll) + 1
        /\ written' = written /\ victim' = victim /\ c \in conns'
    BY <1>0, <1>2, <2>1 DEF AddEnd, FirstBuffers, ServerTypeInv, DispatcherTypeOK, owner
  <2>3. Len(<<>>) = 0 /\ DOMAIN <<>> = {}
    BY EmptySeq
  <2>4. Len(preroll) \in Nat /\ written \in Nat
    BY LenProperties DEF ServerTypeInv, DispatcherTypeOK
  <2>5. Sent(c)' = 0
    BY <2>2, <2>3 DEF Sent
  <2>6. start'[c] + 0 + Len(queue'[c]) = written' + 1
    BY <2>2, <2>4
  <2>7. \A i \in 1 .. Len(queue'[c]) : queue'[c][i] = start'[c] + 0 + i - 1
    BY <2>2, <2>4 DEF ServerTypeInv, PrerollInv
  <2> QED
    BY <2>1, <2>2, <2>3, <2>5, <2>6, <2>7
    DEF ServedInv, Served, Blocked, Fresh, Unbroken
<1> QED
  BY <1>1, <1>2

\* A sender thread hands its client the buffers in the order of the queue, and
\* stops for good when one is not sent in full.
LEMMA SenderStream ==
  ASSUME ServerTypeInv, NEW d \in Clients, Sender(d), NEW c \in Clients, ServedInv(c)
  PROVE  ServedInv(c)'
<1> USE DEF owner, listener
<1>1. written' = written /\ conns' = conns /\ victim' = victim
  BY DEF Sender, SenderOwn, SenderLoop, TakeMarker, Take, Abandon, SendBegins, SendPart,
         SendRest, SendInterrupted, SendFails
<1>2. CASE c # d
  <2>1. /\ cpc'[c] = cpc[c] /\ alive'[c] = alive[c] /\ queue'[c] = queue[c]
        /\ sending'[c] = sending[c] /\ got'[c] = got[c] /\ start'[c] = start[c]
    BY <1>2 DEF Sender, SenderOwn, SenderLoop, TakeMarker, Take, Abandon,
                SendBegins, SendPart, SendRest, SendInterrupted, SendFails, ServerTypeInv, DispatcherTypeOK
  <2> QED
    BY <1>1, <2>1, SameClient
<1>3. CASE c = d
  <2>1. CASE SenderLoop(c)
    <3>1. /\ cpc[c] = "loop" /\ cpc'[c] = IF alive[c] THEN "wait" ELSE "ended"
          /\ alive'[c] = alive[c] /\ queue'[c] = queue[c]
          /\ got'[c] = got[c] /\ start'[c] = start[c]
      BY <2>1 DEF SenderLoop, ServerTypeInv, DispatcherTypeOK
    <3> QED
      BY <1>1, <3>1 DEF ServedInv, Served, Blocked, Fresh, Unbroken, Sent
  <2>2. CASE TakeMarker(c) \/ SendFails(c)
    <3>1. /\ ~alive'[c] /\ cpc'[c] \notin {"none", "block"}
          /\ got'[c] = got[c] /\ start'[c] = start[c]
      BY <2>2 DEF TakeMarker, SendFails, ServerTypeInv, DispatcherTypeOK
    <3> QED
      BY <3>1 DEF ServedInv, Served, Blocked, Fresh, Unbroken
  <2>3. CASE Abandon(c)
    <3>1. /\ ~alive'[c] /\ cpc'[c] \notin {"none", "block"}
          /\ got'[c] = got[c] /\ start'[c] = start[c]
      BY <2>3 DEF Abandon, ServerTypeInv, DispatcherTypeOK
    <3> QED
      BY <3>1 DEF ServedInv, Served, Blocked, Fresh, Unbroken
  <2>4. CASE SendPart(c)
    <3>1. /\ cpc'[c] = cpc[c] /\ alive'[c] = alive[c] /\ queue'[c] = queue[c]
          /\ sending'[c] = sending[c] /\ got'[c] = got[c]
          /\ start'[c] = start[c]
      BY <2>4 DEF SendPart
    <3> QED
      BY <1>1, <3>1, SameClient
  <2>5. CASE Take(c)
    <3> DEFINE q == queue[c]
               g == start[c] + Len(got[c])
    <3>1. /\ cpc[c] = "wait" /\ cpc'[c] = "send" /\ queue'[c] = Tail(q)
          /\ sending'[c] = Head(q) /\ alive'[c] = alive[c]
          /\ got'[c] = got[c] /\ start'[c] = start[c] /\ q # <<>>
      BY <2>5 DEF Take, ServerTypeInv, DispatcherTypeOK
    <3>2. Blocked(c)' /\ Fresh(c)' /\ Unbroken(c)'
      BY <3>1 DEF ServedInv, Blocked, Fresh, Unbroken
    <3>3. ASSUME alive[c] PROVE Served(c)'
      <4>1. /\ Len(q) \in Nat \ {0} /\ Len(Tail(q)) = Len(q) - 1
            /\ \A i \in 1 .. Len(q) - 1 : Tail(q)[i] = q[i + 1]
            /\ Head(q) = q[1]
        <5>1. q \in Seq(Nat)
          BY DEF ServerTypeInv, DispatcherTypeOK
        <5> HIDE DEF q
        <5>2. Len(q) \in Nat /\ Len(q) # 0
          BY <5>1, <3>1, EmptySeq, LenProperties
        <5> QED
          BY <5>1, <5>2, <3>1, HeadTailProperties
      <4>2. g \in Nat /\ written \in Nat /\ start[c] \in Nat /\ Len(got[c]) \in Nat
        <5>1. /\ written \in 0 .. MaxWrites /\ start[c] \in Nat
              /\ got[c] \in Seq(Nat)
          BY DEF ServerTypeInv, DispatcherTypeOK
        <5>2. Len(got[c]) \in Nat
          BY <5>1, LenProperties
        <5> QED
          BY <5>1, <5>2
      <4>3. Sent(c) = Len(got[c]) /\ Sent(c)' = Len(got[c]) + 1
        BY <3>1, <4>2 DEF Sent
      <4>4. /\ g + Len(q) = written + 1
            /\ \A i \in 1 .. Len(q) : q[i] = g + i - 1
        BY <3>3, <4>3 DEF ServedInv, Served
      <4>5. start[c] + (Len(got[c]) + 1) = g + 1
        BY <4>2
      <4> HIDE DEF q, g
      <4>6. /\ (g + 1) + Len(Tail(q)) = written + 1
            /\ \A i \in 1 .. Len(Tail(q)) : Tail(q)[i] = (g + 1) + i - 1
            /\ Head(q) = g
        BY <4>1, <4>2, <4>4
      <4>7. c \in conns' /\ c # victim'
        BY <1>1, <3>3 DEF ServedInv, Served
      <4> USE DEF g
      <4> QED
        BY <1>1, <3>1, <4>3, <4>5, <4>6, <4>7 DEF Served
    <3> QED
      BY <3>1, <3>2, <3>3 DEF ServedInv, Served
  <2>6. CASE SendRest(c)
    <3> DEFINE g == got[c]
               h == Append(g, sending[c])
    <3>1. /\ cpc[c] = "block" /\ cpc'[c] = "loop" /\ queue'[c] = queue[c]
          /\ alive'[c] = alive[c]
          /\ got'[c] = h /\ start'[c] = start[c]
      BY <2>6 DEF SendRest, ServerTypeInv, DispatcherTypeOK
    <3>2. /\ Len(g) \in Nat /\ Len(h) = Len(g) + 1 /\ DOMAIN g = 1 .. Len(g)
          /\ DOMAIN h = 1 .. Len(g) + 1
          /\ \A i \in 1 .. Len(g) : h[i] = g[i]
          /\ h[Len(g) + 1] = sending[c] /\ start[c] \in Nat
      BY AppendProperties, LenProperties DEF ServerTypeInv, DispatcherTypeOK
    <3>3. Sent(c) = Len(g) + 1 /\ Sent(c)' = Len(g) + 1
      BY <3>1, <3>2 DEF Sent
    <3>4. sending[c] = start[c] + Len(g)
      BY <3>1 DEF ServedInv, Blocked
    <3>5. \A i \in 1 .. Len(g) : g[i] = start[c] + i - 1
      BY <3>2 DEF ServedInv, Unbroken
    <3> HIDE DEF g, h
    <3>6. \A i \in 1 .. Len(g) + 1 : h[i] = start[c] + i - 1
      <4>1. ASSUME NEW i \in 1 .. Len(g) + 1, i # Len(g) + 1
            PROVE  h[i] = start[c] + i - 1
        <5>1. i \in 1 .. Len(g)
          BY <3>2, <4>1
        <5> QED
          BY <3>2, <3>5, <5>1
      <4>2. h[Len(g) + 1] = start[c] + (Len(g) + 1) - 1
        BY <3>2, <3>4
      <4> QED
        BY <4>1, <4>2
    <3>7. Unbroken(c)' /\ Fresh(c)' /\ Blocked(c)'
      BY <3>1, <3>2, <3>6 DEF Unbroken, Fresh, Blocked
    <3>8. Served(c)'
      BY <1>1, <3>1, <3>3 DEF ServedInv, Served
    <3> QED
      BY <3>7, <3>8 DEF ServedInv
  <2>7. CASE SendBegins(c)
    <3>1. /\ cpc[c] = "send" /\ alive[c] /\ cpc'[c] = "block"
          /\ alive'[c] = alive[c] /\ queue'[c] = queue[c] /\ sending'[c] = sending[c]
          /\ got'[c] = got[c] /\ start'[c] = start[c]
      BY <2>7 DEF SendBegins, ServerTypeInv, DispatcherTypeOK
    <3>2. Sent(c)' = Sent(c)
      BY <3>1 DEF Sent
    <3> QED
      BY <1>1, <3>1, <3>2 DEF ServedInv, Served, Blocked, Fresh, Unbroken
  <2>8. CASE SendInterrupted(c)
    <3>1. /\ cpc[c] = "block" /\ cpc'[c] = "send"
          /\ alive'[c] = alive[c] /\ queue'[c] = queue[c] /\ sending'[c] = sending[c]
          /\ got'[c] = got[c] /\ start'[c] = start[c]
      BY <2>8 DEF SendInterrupted, ServerTypeInv, DispatcherTypeOK
    <3>2. Sent(c)' = Sent(c)
      BY <3>1 DEF Sent
    <3> QED
      BY <1>1, <3>1, <3>2 DEF ServedInv, Served, Blocked, Fresh, Unbroken
  <2>9. \/ SenderLoop(c) \/ TakeMarker(c) \/ Take(c) \/ Abandon(c)
        \/ SendBegins(c) \/ SendPart(c) \/ SendRest(c) \/ SendInterrupted(c) \/ SendFails(c)
    BY <1>3 DEF Sender, SenderOwn
  <2> QED
    BY <2>1, <2>2, <2>3, <2>4, <2>5, <2>6, <2>7, <2>8, <2>9
<1> QED
  BY <1>2, <1>3

LEMMA NextStreamInv == ServerTypeInv /\ StreamInv /\ [DispatcherNext]_dispatcherVars => StreamInv'
<1> SUFFICES ASSUME ServerTypeInv, StreamInv, [DispatcherNext]_dispatcherVars, NEW c \in Clients
             PROVE  ServedInv(c)'
  BY DEF StreamInv
<1>0. ServedInv(c)
  BY DEF StreamInv
<1>1. CASE Write
  BY <1>0, <1>1, WriteStream
<1>2. CASE UNCHANGED <<conns, written, victim, connection>>
  BY <1>0, <1>2, SameClient DEF connection
<1>3. CASE JoinConnection
  <2>1. /\ UNCHANGED <<cpc, alive, queue, sending, got, start, written>>
        /\ conns' = conns \ {victim} /\ victim' = NoClient
    BY <1>3 DEF JoinConnection, connection
  <2>2. c # NoClient
    BY DispatcherAssumption
  <2> QED
    BY <1>0, <2>1, <2>2 DEF ServedInv, Served, Blocked, Fresh, Unbroken, Sent
<1>4. ASSUME NEW d \in Clients, RemoveConnection(d) \/ ClearConnection(d)
      PROVE  ServedInv(c)'
  BY <1>0, <1>4, DestroyStream DEF RemoveConnection, ClearConnection
<1>5. CASE AddEnd
  BY <1>0, <1>5, AddStream
<1>6. ASSUME NEW d \in Clients, Sender(d) PROVE ServedInv(c)'
  BY <1>0, <1>6, SenderStream
<1>7. ASSUME NEW d \in Clients, KeepConnection(d) \/ Accept(d)
      PROVE  ServedInv(c)'
  BY <1>2, <1>7 DEF KeepConnection, Accept, owner
<1>8. CASE WriteThrows \/ WriteReturns \/ Destroy \/ ClearRaces \/ ClearReturns
           \/ JoinListener \/ MembersGone
  BY <1>2, <1>8 DEF WriteThrows, WriteReturns, Destroy, ClearRaces, ClearReturns,
                    JoinListener, MembersGone
<1>9. CASE ListenerLoop \/ AcceptTimeout \/ AcceptFails \/ AddBegin
  BY <1>2, <1>9 DEF ListenerLoop, AcceptTimeout, AcceptFails, AddBegin, owner
<1>10. CASE UNCHANGED dispatcherVars
  BY <1>2, <1>10 DEF dispatcherVars, owner
<1> QED
  BY <1>1, <1>3, <1>4, <1>5, <1>6, <1>7, <1>8, <1>9, <1>10
  DEF DispatcherNext, Owner, Listener

LEMMA StreamInvariance == DispatcherSpec => []StreamInv
<1> QED
  BY InitStreamInv, NextStreamInv, TypeInvariance, PTL DEF DispatcherSpec

\* Every client receives an unbroken run of the buffers written, beginning with
\* the preroll it was accepted with, for any number of clients and writes and
\* every way in which clients stall, vanish and are removed
\* (Socket.cpp:958-987, 1023-1062).
THEOREM StreamsAreUnbroken == DispatcherSpec => []UnbrokenStream
<1>1. StreamInv => UnbrokenStream
  BY DEF StreamInv, ServedInv, Unbroken, UnbrokenStream
<1> QED
  BY <1>1, StreamInvariance, PTL

\* A client that is served misses nothing: its stream, the buffer being sent
\* and its queue reach up to the last buffer written, for every preroll and
\* queue limit (Socket.cpp:1031-1040, 1054-1062).
THEOREM NothingIsMissing == DispatcherSpec => []NothingMissing
<1>1. ServerTypeInv /\ StreamInv => NothingMissing
  <2> SUFFICES ASSUME ServerTypeInv, StreamInv, NEW c \in Clients, alive[c]
               PROVE  start[c] + Len(got[c]) + Len(queue[c])
                      + (IF cpc[c] \in {"send", "block"} THEN 1 ELSE 0) = written + 1
    BY DEF NothingMissing, ServerTypeInv, DispatcherTypeOK
  <2>1. start[c] \in Nat /\ Len(got[c]) \in Nat /\ Len(queue[c]) \in Nat
    BY LenProperties DEF ServerTypeInv, DispatcherTypeOK
  <2>2. start[c] + Sent(c) + Len(queue[c]) = written + 1
    BY DEF StreamInv, ServedInv, Served
  <2>3. CASE cpc[c] \in {"send", "block"}
    BY <2>1, <2>2, <2>3 DEF Sent
  <2>4. CASE cpc[c] \notin {"send", "block"}
    BY <2>1, <2>2, <2>4 DEF Sent
  <2> QED
    BY <2>3, <2>4
<1> QED
  BY <1>1, TypeInvariance, StreamInvariance, PTL
-----------------------------------------------------------------------------
(* The length of the queues.                                               *)

\* A queue from which something is taken gets shorter.
LEMMA TakeShortens ==
  ASSUME ServerTypeInv, NEW d \in Clients, Sender(d), NEW c \in Clients
  PROVE  Len(queue'[c]) \in Nat /\ Len(queue'[c]) <= Len(queue[c])
<1>1. queue[c] \in Seq(Nat) /\ Len(queue[c]) \in Nat
  BY LenProperties DEF ServerTypeInv, DispatcherTypeOK
<1>2. \/ queue'[c] = queue[c]
      \/ queue[c] # <<>> /\ queue'[c] = Tail(queue[c])
  BY DEF Sender, SenderOwn, SenderLoop, TakeMarker, Take, Abandon, SendBegins, SendPart,
         SendRest, SendInterrupted, SendFails, ServerTypeInv, DispatcherTypeOK
<1>3. ASSUME queue[c] # <<>>
      PROVE  /\ Len(Tail(queue[c])) \in Nat
             /\ Len(Tail(queue[c])) = Len(queue[c]) - 1
  <2>1. /\ Tail(queue[c]) \in Seq(Nat)
        /\ Len(Tail(queue[c])) = Len(queue[c]) - 1
    BY <1>1, <1>3, HeadTailProperties
  <2> QED
    BY <2>1, LenProperties
<1>4. CASE queue'[c] = queue[c]
  BY <1>1, <1>4
<1>5. CASE queue[c] # <<>> /\ queue'[c] = Tail(queue[c])
  <2> DEFINE m == Len(queue[c])
             n == Len(Tail(queue[c]))
  <2>1. m \in Nat /\ n \in Nat /\ n = m - 1 /\ Len(queue'[c]) = n
    BY <1>1, <1>3, <1>5
  <2> HIDE DEF m, n
  <2>2. n <= m
    BY <2>1
  <2> QED
    BY <2>1, <2>2 DEF m
<1> QED
  BY <1>2, <1>4, <1>5

LEMMA NextQueueInv == ServerTypeInv /\ QueueInv /\ [DispatcherNext]_dispatcherVars => QueueInv'
<1> SUFFICES ASSUME ServerTypeInv, QueueInv, [DispatcherNext]_dispatcherVars PROVE QueueInv'
  OBVIOUS
<1> USE DEF QueueInv, owner, listener, connection
<1>1. CASE Write
  BY <1>1 DEF Write
<1>2. CASE UNCHANGED <<conns, todo, victim, queue>>
           /\ (opc' = opc \/ (opc = "idle" /\ opc' = "failed")
              \/ (opc = "remove" /\ opc' = "idle")
              \/ opc' \notin {"idle", "remove", "failed"})
  BY <1>2
<1>3. CASE JoinConnection
  BY <1>3 DEF JoinConnection
<1>4. ASSUME NEW d \in Clients, KeepConnection(d) PROVE QueueInv'
  <2>1. Len(queue[d]) <= MaxQueueSize
    BY <1>4, LenProperties, DispatcherAssumption DEF KeepConnection, TooLong, ServerTypeInv,
                                               DispatcherTypeOK
  <2> QED
    BY <1>4, <2>1 DEF KeepConnection
<1>5. ASSUME NEW d \in Clients, RemoveConnection(d) PROVE QueueInv'
  <2>1. /\ UNCHANGED <<conns, opc>> /\ victim = NoClient /\ victim' = d
        /\ todo' = todo \ {d}
        /\ \A c \in Clients \ {d} : queue'[c] = queue[c]
    BY <1>5 DEF RemoveConnection, DestroyConnection, ServerTypeInv, DispatcherTypeOK
  <2>2. conns \subseteq Clients /\ NoClient \notin Clients
    BY DispatcherAssumption DEF ServerTypeInv, DispatcherTypeOK
  <2> QED
    BY <2>1, <2>2
<1>6. ASSUME NEW d \in Clients, ClearConnection(d) PROVE QueueInv'
  BY <1>6 DEF ClearConnection, DestroyConnection
<1>7. CASE AddEnd
  <2>1. Len(preroll) <= BuffersToPreroll /\ incoming \in Clients
    BY <1>7 DEF AddEnd, ServerTypeInv, PrerollInv, ListenerInv
  <2> QED
    BY <1>7, <2>1 DEF AddEnd, FirstBuffers, ServerTypeInv, DispatcherTypeOK
<1>8. ASSUME NEW d \in Clients, Sender(d) PROVE QueueInv'
  <2>1. UNCHANGED <<conns, opc, todo, victim>>
    BY <1>8 DEF Sender, SenderOwn, SenderLoop, TakeMarker, Take, Abandon,
                SendBegins, SendPart, SendRest, SendInterrupted, SendFails
  <2>2. ASSUME NEW c \in Clients,
               Len(queue[c]) <= MaxQueueSize \/ Len(queue[c]) <= BuffersToPreroll
        PROVE  Len(queue'[c]) <= MaxQueueSize \/ Len(queue'[c]) <= BuffersToPreroll
    <3>1. Len(queue'[c]) \in Nat /\ Len(queue'[c]) <= Len(queue[c])
      BY <1>8, TakeShortens
    <3>2. Len(queue[c]) \in Nat
      BY LenProperties DEF ServerTypeInv, DispatcherTypeOK
    <3> QED
      BY <2>2, <3>1, <3>2, DispatcherAssumption
  <2> QED
    BY <2>1, <2>2 DEF ServerTypeInv, DispatcherTypeOK
<1>9. ASSUME NEW d \in Clients, Accept(d) PROVE QueueInv'
  BY <1>2, <1>9 DEF Accept
<1>10. CASE WriteThrows \/ WriteReturns \/ Destroy \/ ClearRaces \/ ClearReturns
            \/ JoinListener \/ MembersGone
  BY <1>2, <1>10 DEF WriteThrows, WriteReturns, Destroy, ClearRaces,
                     ClearReturns, JoinListener, MembersGone
<1>11. CASE ListenerLoop \/ AcceptTimeout \/ AcceptFails \/ AddBegin
  BY <1>2, <1>11 DEF ListenerLoop, AcceptTimeout, AcceptFails, AddBegin
<1>12. CASE UNCHANGED dispatcherVars
  BY <1>2, <1>12 DEF dispatcherVars
<1> QED
  BY <1>1, <1>3, <1>4, <1>5, <1>6, <1>7, <1>8, <1>9, <1>10, <1>11, <1>12
  DEF DispatcherNext, Owner, Listener

\* Between writes no connection, however slow, has more in its queue than the
\* limit or its preroll (Socket.cpp:1042), for every limit, preroll and number
\* of clients.
THEOREM OverflowIsDisconnected == DispatcherSpec => []OverflowDisconnects
<1>1. DispatcherInit => QueueInv
  BY DEF DispatcherInit, QueueInv
<1>2. ServerTypeInv /\ QueueInv => OverflowDisconnects
  BY DispatcherAssumption DEF ServerTypeInv, DispatcherTypeOK, OwnerInv, QueueInv, OverflowDisconnects
<1> QED
  BY <1>1, <1>2, TypeInvariance, NextQueueInv, PTL DEF DispatcherSpec
-----------------------------------------------------------------------------
(* TCPSendClient, the TCP client output.                                   *)

elems == client_queue.elems

\* The types, with those of the histories.
ClientTypeInv ==
  /\ caller \in {"idle", "check", "discard", "wakeup", "join", "gone"}
  /\ client \in {"loop", "pop", "send", "connect", "done"}
  /\ client_conn \in {"none", "open", "stalled", "broken"}
  /\ client_queue \in [elems : Seq(Nat), wakeup : BOOLEAN]
  /\ sent \in Seq(Nat) /\ lost \subseteq Nat /\ discarded \subseteq Nat
  /\ hand \in Nat /\ fds \in 0 .. MaxFds
  /\ buffers \in 0 .. MaxBuffers /\ breaks \in Nat
  /\ m_is_connected \in BOOLEAN

\* The thread holds a buffer while it sends it, and sends on a connection that
\* it has made.
ThreadInv ==
  /\ (hand # None) <=> (client = "send")
  /\ client \in {"pop", "send"} => m_is_connected

\* The queue is one longer than its limit at most, between push() and the end
\* of sendall(), and holds no more than was queued.
LimitInv ==
  /\ Len(elems) <= buffers
  /\ Len(elems) <= IF caller \in {"check", "discard"} THEN MaxClientQueue + 1
                   ELSE MaxClientQueue

\* A broken connection that the client has not noticed yet is to cost a buffer.
LossInv ==
  /\ IsFiniteSet(lost)
  /\ Cardinality(lost)
       + (IF client_conn = "broken" /\ m_is_connected THEN 1 ELSE 0) <= breaks

\* What was sent, the buffer being sent and the queue are in order.
OrderInv ==
  /\ \A i, j \in 1 .. Len(sent) : i < j => sent[i] < sent[j]
  /\ \A i, j \in 1 .. Len(elems) : i < j => elems[i] < elems[j]
  /\ \A i \in 1 .. Len(sent), j \in 1 .. Len(elems) : sent[i] < elems[j]
  /\ hand # None => /\ \A i \in 1 .. Len(sent) : sent[i] < hand
                    /\ \A j \in 1 .. Len(elems) : hand < elems[j]

\* The buffers that are accounted for, and where.
IsSent(b) == \E i \in 1 .. Len(sent) : sent[i] = b
IsQueued(b) == \E i \in 1 .. Len(elems) : elems[i] = b
IsHeld(b) == hand # None /\ b = hand
Accounted(b) ==
  IsSent(b) \/ IsQueued(b) \/ IsHeld(b) \/ b \in lost \/ b \in discarded

AccountInv == \A b \in Nat : b \in 1 .. buffers <=> Accounted(b)

ClientInv ==
  ClientTypeInv /\ ThreadInv /\ LimitInv /\ LossInv /\ OrderInv /\ AccountInv
-----------------------------------------------------------------------------
(* What the operations of the queue do to its elements.                    *)

LEMMA QueueFacts ==
  ASSUME ClientTypeInv
  PROVE  /\ elems \in Seq(Nat) /\ Len(elems) \in Nat
         /\ \A i \in 1 .. Len(elems) : elems[i] \in Nat
         /\ sent \in Seq(Nat) /\ Len(sent) \in Nat
         /\ \A i \in 1 .. Len(sent) : sent[i] \in Nat
         /\ hand \in Nat /\ buffers \in Nat
<1>1. elems \in Seq(Nat) /\ sent \in Seq(Nat) /\ hand \in Nat /\ buffers \in Nat
  BY DEF ClientTypeInv, elems
<1>2. Len(elems) \in Nat /\ Len(sent) \in Nat
  BY <1>1, LenProperties
<1>3. /\ \A i \in 1 .. Len(elems) : elems[i] \in Nat
      /\ \A i \in 1 .. Len(sent) : sent[i] \in Nat
  BY <1>1, ElementOfSeq
<1> QED
  BY <1>1, <1>2, <1>3

LEMMA PushFacts ==
  ASSUME ClientTypeInv, SendallPush
  PROVE  /\ client_queue' \in [elems : Seq(Nat), wakeup : BOOLEAN]
         /\ Len(elems') = Len(elems) + 1
         /\ \A i \in 1 .. Len(elems) : elems'[i] = elems[i]
         /\ elems'[Len(elems) + 1] = buffers + 1
<1>1. elems \in Seq(Nat) /\ buffers + 1 \in Nat
  BY QueueFacts
<1>2. elems' = Append(elems, buffers + 1)
  BY DEF SendallPush, Push, elems, ClientTypeInv
<1>3. /\ Append(elems, buffers + 1) \in Seq(Nat)
      /\ Len(Append(elems, buffers + 1)) = Len(elems) + 1
      /\ \A i \in 1 .. Len(elems) : Append(elems, buffers + 1)[i] = elems[i]
      /\ Append(elems, buffers + 1)[Len(elems) + 1] = buffers + 1
  BY <1>1, AppendProperties
<1>4. client_queue' = [client_queue EXCEPT !.elems = Append(elems, buffers + 1)]
  BY DEF SendallPush, Push, elems
<1>5. client_queue' \in [elems : Seq(Nat), wakeup : BOOLEAN]
  BY <1>3, <1>4 DEF ClientTypeInv
<1> QED
  BY <1>2, <1>3, <1>5

\* Taking the first element of a queue that has one.
LEMMA TailFacts ==
  ASSUME ClientTypeInv, elems # <<>>,
         client_queue' = [client_queue EXCEPT !.elems = Tail(elems)]
  PROVE  /\ client_queue' \in [elems : Seq(Nat), wakeup : BOOLEAN]
         /\ Len(elems) >= 1 /\ Len(elems') = Len(elems) - 1
         /\ \A i \in 1 .. Len(elems') : elems'[i] = elems[i + 1]
         /\ Head(elems) = elems[1]
<1>1. elems \in Seq(Nat) /\ Len(elems) \in Nat
  BY QueueFacts
<1>2. /\ Head(elems) = elems[1] /\ Tail(elems) \in Seq(Nat)
      /\ Len(Tail(elems)) = Len(elems) - 1
      /\ \A i \in 1 .. Len(Tail(elems)) : Tail(elems)[i] = elems[i + 1]
  BY <1>1, HeadTailProperties
<1>3. Len(elems) # 0
  BY <1>1, EmptySeq
<1>4. elems' = Tail(elems)
  BY DEF elems, ClientTypeInv
<1>5. client_queue' \in [elems : Seq(Nat), wakeup : BOOLEAN]
  BY <1>2 DEF ClientTypeInv
<1> QED
  BY <1>1, <1>2, <1>3, <1>4, <1>5

LEMMA DiscardFacts ==
  ASSUME ClientTypeInv, SendallDiscard
  PROVE  \/ /\ elems = <<>> /\ Len(elems) = 0
            /\ UNCHANGED <<client_queue, discarded>>
         \/ /\ elems # <<>> /\ discarded' = discarded \cup {elems[1]}
            /\ client_queue' = [client_queue EXCEPT !.elems = Tail(elems)]
<1>1. elems \in Seq(Nat)
  BY QueueFacts
<1>2. CASE elems = <<>>
  <2>1. Len(elems) = 0
    BY <1>1, <1>2, EmptySeq
  <2> QED
    BY <1>2, <2>1 DEF SendallDiscard, TryPop, Size, elems
<1>3. CASE elems # <<>>
  <2>1. Len(elems) # 0
    BY <1>1, <1>3, EmptySeq
  <2>2. Head(elems) = elems[1]
    BY <1>1, <1>3, HeadTailProperties
  <2> QED
    BY <1>3, <2>1, <2>2 DEF SendallDiscard, TryPop, Size, Front, elems
<1> QED
  BY <1>2, <1>3

LEMMA PopFacts ==
  ASSUME ClientTypeInv, ClientPop
  PROVE  /\ elems # <<>> /\ hand' = elems[1]
         /\ client_queue' = [client_queue EXCEPT !.elems = Tail(elems)]
<1>1. elems \in Seq(Nat) /\ elems # <<>>
  BY QueueFacts DEF ClientPop, WokenUp, Ready, elems
<1>2. Head(elems) = elems[1]
  BY <1>1, HeadTailProperties
<1> QED
  BY <1>1, <1>2 DEF ClientPop, Front, Popped, elems

LEMMA SendFacts ==
  ASSUME ClientTypeInv, ClientSend
  PROVE  /\ sent' \in Seq(Nat) /\ Len(sent') = Len(sent) + 1
         /\ \A i \in 1 .. Len(sent) : sent'[i] = sent[i]
         /\ sent'[Len(sent) + 1] = hand
<1>1. sent \in Seq(Nat) /\ hand \in Nat /\ sent' = Append(sent, hand)
  BY QueueFacts DEF ClientSend
<1> QED
  BY <1>1, AppendProperties
-----------------------------------------------------------------------------
LEMMA ClientInitInv == ClientInit => ClientInv
<1> SUFFICES ASSUME ClientInit PROVE ClientInv
  OBVIOUS
<1> USE ClientAssumption DEF ClientInit
<1>1. elems = <<>> /\ Len(elems) = 0 /\ Len(sent) = 0 /\ hand = 0 /\ buffers = 0
  BY DEF EmptyQueue, elems, None
<1>2. ClientTypeInv
  <2>1. client_queue \in [elems : Seq(Nat), wakeup : BOOLEAN]
    BY DEF EmptyQueue
  <2>2. fds \in 0 .. MaxFds /\ buffers \in 0 .. MaxBuffers /\ breaks \in Nat
    OBVIOUS
  <2>3. sent \in Seq(Nat) /\ lost \subseteq Nat /\ discarded \subseteq Nat
    OBVIOUS
  <2>4. m_is_connected \in BOOLEAN
    OBVIOUS
  <2>5. caller = "idle" /\ client = "loop" /\ client_conn = "none"
    OBVIOUS
  <2> HIDE DEF ClientInit
  <2> QED
    BY <1>1, <2>1, <2>2, <2>3, <2>4, <2>5 DEF ClientTypeInv
<1>3. ThreadInv /\ LimitInv
  BY <1>1 DEF ThreadInv, LimitInv, None
<1>4. LossInv
  BY FS_EmptySet DEF LossInv
<1>5. OrderInv
  BY <1>1 DEF OrderInv, None
<1>6. AccountInv
  BY <1>1 DEF AccountInv, Accounted, IsSent, IsQueued, IsHeld, None
<1> QED
  BY <1>2, <1>3, <1>4, <1>5, <1>6 DEF ClientInv

\* A new buffer comes after all the others.
LEMMA ClientPushInv ==
  ASSUME ClientInv, SendallPush
  PROVE  ClientInv'
<1> DEFINE n == Len(elems)
           b0 == buffers + 1
<1>1. ClientTypeInv /\ ThreadInv /\ LimitInv /\ LossInv /\ OrderInv /\ AccountInv
  BY DEF ClientInv
<1>2. /\ client_queue' \in [elems : Seq(Nat), wakeup : BOOLEAN]
      /\ Len(elems') = n + 1
      /\ \A i \in 1 .. n : elems'[i] = elems[i]
      /\ elems'[n + 1] = b0
  BY <1>1, PushFacts
<1>3. /\ caller = "idle" /\ caller' = "check" /\ buffers < MaxBuffers
      /\ buffers' = b0
      /\ UNCHANGED <<client, m_is_connected, client_running, hand, fds,
                     client_conn, accepting, breaks, sent, lost, discarded>>
  BY DEF SendallPush, clientPeer
<1>4. /\ n \in Nat /\ Len(sent) \in Nat /\ buffers \in Nat /\ hand \in Nat
      /\ \A i \in 1 .. n : elems[i] \in Nat
      /\ \A i \in 1 .. Len(sent) : sent[i] \in Nat
  BY <1>1, QueueFacts
<1> HIDE DEF n
<1>5. ClientTypeInv'
  BY <1>1, <1>2, <1>3, <1>4, ClientAssumption DEF ClientTypeInv
<1>6. ThreadInv'
  BY <1>1, <1>3 DEF ThreadInv
<1>7. LimitInv'
  BY <1>1, <1>2, <1>3, <1>4, ClientAssumption DEF LimitInv, n
<1>8. LossInv'
  BY <1>1, <1>3 DEF LossInv
<1>9. /\ \A i \in 1 .. n : elems[i] <= buffers
      /\ \A i \in 1 .. Len(sent) : sent[i] <= buffers
      /\ hand # None => hand <= buffers
  <2>1. ASSUME NEW b \in Nat, Accounted(b)
        PROVE  b <= buffers
    BY <1>1, <1>4, <2>1 DEF AccountInv
  <2> QED
    BY <1>4, <2>1 DEF Accounted, IsQueued, IsSent, IsHeld, n
<1>10. OrderInv'
  <2>1. \A i \in 1 .. n + 1 : i # n + 1 => i \in 1 .. n
    BY <1>4
  <2>2. \A i, j \in 1 .. n + 1 : i < j => elems'[i] < elems'[j]
    <3> SUFFICES ASSUME NEW i \in 1 .. n + 1, NEW j \in 1 .. n + 1, i < j
                 PROVE  elems'[i] < elems'[j]
      OBVIOUS
    <3>1. i \in 1 .. n
      BY <1>4
    <3>2. CASE j = n + 1
      <4>1. elems'[i] = elems[i] /\ elems[i] \in Nat /\ elems[i] <= buffers
        BY <1>2, <1>4, <1>9, <3>1
      <4>2. elems'[j] = buffers + 1
        BY <1>2, <3>2
      <4> QED
        BY <1>4, <4>1, <4>2
    <3>3. CASE j # n + 1
      <4>1. j \in 1 .. n
        BY <2>1, <3>3
      <4>2. elems[i] < elems[j]
        BY <1>1, <3>1, <4>1 DEF OrderInv, n
      <4> QED
        BY <1>2, <3>1, <4>1, <4>2
    <3> QED
      BY <3>2, <3>3
  <2>3. \A i \in 1 .. Len(sent), j \in 1 .. n + 1 : sent[i] < elems'[j]
    <3> SUFFICES ASSUME NEW i \in 1 .. Len(sent), NEW j \in 1 .. n + 1
                 PROVE  sent[i] < elems'[j]
      OBVIOUS
    <3>1. CASE j = n + 1
      BY <1>2, <1>4, <1>9, <3>1
    <3>2. CASE j # n + 1
      BY <1>1, <1>2, <2>1, <3>2 DEF OrderInv, n
    <3> QED
      BY <3>1, <3>2
  <2>4. hand # None => \A j \in 1 .. n + 1 : hand < elems'[j]
    <3> SUFFICES ASSUME hand # None, NEW j \in 1 .. n + 1
                 PROVE  hand < elems'[j]
      OBVIOUS
    <3>1. CASE j = n + 1
      BY <1>2, <1>4, <1>9, <3>1
    <3>2. CASE j # n + 1
      BY <1>1, <1>2, <2>1, <3>2 DEF OrderInv, n
    <3> QED
      BY <3>1, <3>2
  <2> QED
    BY <1>1, <1>2, <1>3, <2>2, <2>3, <2>4 DEF OrderInv
<1>11. AccountInv'
  <2> SUFFICES ASSUME NEW b \in Nat
               PROVE  (b \in 1 .. buffers + 1) <=> Accounted(b)'
    BY <1>3 DEF AccountInv
  <2>1. IsQueued(b)' <=> (IsQueued(b) \/ b = b0)
    BY <1>2, <1>4, SMTT(30) DEF IsQueued, n
  <2>2. /\ IsSent(b)' <=> IsSent(b)
        /\ IsHeld(b)' <=> IsHeld(b)
    BY <1>3 DEF IsSent, IsHeld
  <2>3. Accounted(b)' <=> (Accounted(b) \/ b = b0)
    BY <1>3, <2>1, <2>2 DEF Accounted
  <2>4. (b \in 1 .. buffers) <=> Accounted(b)
    BY <1>1 DEF AccountInv
  <2> QED
    BY <1>4, <2>3, <2>4
<1> QED
  BY <1>5, <1>6, <1>7, <1>8, <1>10, <1>11 DEF ClientInv

\* The parts of the invariant about the buffers after the first one has left
\* the queue, for a place where it is accounted for.
LEMMA DequeueInv ==
  ASSUME ClientInv, elems # <<>>,
         client_queue' = [client_queue EXCEPT !.elems = Tail(elems)],
         UNCHANGED <<sent, lost, buffers>>,
         \/ /\ hand = None /\ hand' = elems[1] /\ UNCHANGED discarded
         \/ /\ UNCHANGED hand /\ discarded' = discarded \cup {elems[1]}
  PROVE  /\ OrderInv' /\ AccountInv'
         /\ elems[1] \in 1 .. buffers
         /\ client_queue' \in [elems : Seq(Nat), wakeup : BOOLEAN]
         /\ Len(elems') = Len(elems) - 1 /\ Len(elems) \in Nat
<1> DEFINE n == Len(elems)
<1>1. ClientTypeInv /\ OrderInv /\ AccountInv
  BY DEF ClientInv
<1>2. /\ n >= 1 /\ Len(elems') = n - 1
      /\ client_queue' \in [elems : Seq(Nat), wakeup : BOOLEAN]
      /\ \A i \in 1 .. Len(elems') : elems'[i] = elems[i + 1]
  BY <1>1, TailFacts
<1>3. /\ n \in Nat /\ Len(sent) \in Nat /\ buffers \in Nat /\ hand \in Nat
      /\ \A i \in 1 .. n : elems[i] \in Nat
      /\ \A i \in 1 .. Len(sent) : sent[i] \in Nat
  BY <1>1, QueueFacts
<1> HIDE DEF n
<1>4. 1 \in 1 .. n /\ \A i \in 1 .. n - 1 : i + 1 \in 1 .. n /\ elems'[i] = elems[i + 1]
  BY <1>2, <1>3
<1>5. elems[1] \in 1 .. buffers
  <2>1. IsQueued(elems[1]) /\ elems[1] \in Nat
    BY <1>3, <1>4 DEF IsQueued, n
  <2> QED
    BY <1>1, <2>1 DEF AccountInv, Accounted
<1>6. OrderInv'
  <2>1. \A i, j \in 1 .. n - 1 : i < j => elems'[i] < elems'[j]
    <3> SUFFICES ASSUME NEW i \in 1 .. n - 1, NEW j \in 1 .. n - 1, i < j
                 PROVE  elems'[i] < elems'[j]
      OBVIOUS
    <3>1. i + 1 \in 1 .. n /\ j + 1 \in 1 .. n /\ i + 1 < j + 1
      BY <1>3
    <3>2. elems[i + 1] < elems[j + 1]
      BY <1>1, <3>1 DEF OrderInv, n
    <3> QED
      BY <1>4, <3>2
  <2>2. \A i \in 1 .. Len(sent), j \in 1 .. n - 1 : sent[i] < elems'[j]
    BY <1>1, <1>4 DEF OrderInv, n
  <2>3. hand' # None => /\ \A i \in 1 .. Len(sent) : sent[i] < hand'
                        /\ \A j \in 1 .. n - 1 : hand' < elems'[j]
    <3>1. CASE hand = None /\ hand' = elems[1]
      <4>1. \A i \in 1 .. Len(sent) : sent[i] < elems[1]
        BY <1>1, <1>4 DEF OrderInv, n
      <4>2. \A j \in 1 .. n - 1 : elems[1] < elems'[j]
        <5> SUFFICES ASSUME NEW j \in 1 .. n - 1
                     PROVE  elems[1] < elems'[j]
          OBVIOUS
        <5>1. j + 1 \in 1 .. n /\ 1 < j + 1
          BY <1>3
        <5> QED
          BY <1>1, <1>4, <5>1 DEF OrderInv, n
      <4> QED
        BY <3>1, <4>1, <4>2
    <3>2. CASE hand' = hand
      BY <1>1, <1>4, <3>2 DEF OrderInv, n
    <3> QED
      BY <3>1, <3>2
  <2> QED
    BY <1>1, <1>2, <2>1, <2>2, <2>3 DEF OrderInv
<1>7. AccountInv'
  <2> SUFFICES ASSUME NEW b \in Nat
               PROVE  (b \in 1 .. buffers) <=> Accounted(b)'
    BY DEF AccountInv
  <2>1. IsQueued(b) <=> (IsQueued(b)' \/ b = elems[1])
    <3>1. ASSUME NEW i \in 1 .. n, i # 1
          PROVE  i - 1 \in 1 .. n - 1 /\ elems[i] = elems'[i - 1]
      <4>1. i - 1 \in 1 .. n - 1 /\ (i - 1) + 1 = i
        BY <1>3, <3>1
      <4> QED
        BY <1>4, <4>1
    <3> QED
      BY <1>2, <1>4, <3>1 DEF IsQueued, n
  <2>2. IsSent(b)' <=> IsSent(b)
    BY DEF IsSent
  <2>3. elems[1] # None
    BY <1>5 DEF None
  <2>4. Accounted(b)' <=> Accounted(b)
    BY <2>1, <2>2, <2>3 DEF Accounted, IsHeld
  <2> QED
    BY <1>1, <2>4 DEF AccountInv
<1> QED
  BY <1>2, <1>3, <1>5, <1>6, <1>7 DEF n

LEMMA DiscardInv ==
  ASSUME ClientInv, SendallDiscard
  PROVE  ClientInv'
<1>1. ClientTypeInv /\ ThreadInv /\ LimitInv /\ LossInv /\ OrderInv /\ AccountInv
  BY DEF ClientInv
<1>2. /\ caller = "discard" /\ caller' = "idle"
      /\ UNCHANGED <<client, m_is_connected, client_running, hand, fds,
                     client_conn, accepting, breaks, buffers, sent, lost>>
  BY DEF SendallDiscard, clientPeer
<1>3. /\ client_queue' \in [elems : Seq(Nat), wakeup : BOOLEAN]
      /\ discarded' \subseteq Nat /\ OrderInv' /\ AccountInv'
      /\ Len(elems') <= buffers /\ Len(elems') <= MaxClientQueue
  <2>1. CASE /\ elems = <<>> /\ Len(elems) = 0
             /\ UNCHANGED <<client_queue, discarded>>
    <3>1. client_queue' \in [elems : Seq(Nat), wakeup : BOOLEAN]
      BY <1>1, <2>1 DEF ClientTypeInv
    <3>2. discarded' \subseteq Nat /\ Len(elems') = 0
      BY <1>1, <2>1 DEF ClientTypeInv, elems
    <3>3. OrderInv'
      BY <1>1, <1>2, <2>1 DEF OrderInv, elems
    <3>4. AccountInv'
      BY <1>1, <1>2, <2>1
      DEF AccountInv, Accounted, IsSent, IsQueued, IsHeld, elems
    <3>5. 0 <= buffers /\ 0 <= MaxClientQueue
      BY <1>1, ClientAssumption DEF ClientTypeInv
    <3> QED
      BY <3>1, <3>2, <3>3, <3>4, <3>5
  <2>2. CASE /\ elems # <<>> /\ discarded' = discarded \cup {elems[1]}
             /\ client_queue' = [client_queue EXCEPT !.elems = Tail(elems)]
    <3>1. /\ OrderInv' /\ AccountInv' /\ elems[1] \in 1 .. buffers
          /\ client_queue' \in [elems : Seq(Nat), wakeup : BOOLEAN]
          /\ Len(elems') = Len(elems) - 1 /\ Len(elems) \in Nat
      BY <1>2, <2>2, DequeueInv
    <3>2. Len(elems) <= buffers /\ Len(elems) <= MaxClientQueue + 1
      BY <1>1, <1>2 DEF LimitInv
    <3>3. Len(elems') <= buffers /\ Len(elems') <= MaxClientQueue
      BY <1>1, <3>1, <3>2, ClientAssumption DEF ClientTypeInv
    <3>4. discarded' \subseteq Nat
      BY <1>1, <2>2, <3>1 DEF ClientTypeInv
    <3> QED
      BY <3>1, <3>3, <3>4
  <2> QED
    BY <1>1, <2>1, <2>2, DiscardFacts
<1>4. ClientTypeInv'
  BY <1>1, <1>2, <1>3 DEF ClientTypeInv
<1>5. ThreadInv' /\ LossInv'
  BY <1>1, <1>2 DEF ThreadInv, LossInv
<1>6. LimitInv'
  BY <1>2, <1>3 DEF LimitInv
<1> QED
  BY <1>3, <1>4, <1>5, <1>6 DEF ClientInv

LEMMA PopInv ==
  ASSUME ClientInv, ClientPop
  PROVE  ClientInv'
<1>1. ClientTypeInv /\ ThreadInv /\ LimitInv /\ LossInv /\ OrderInv /\ AccountInv
  BY DEF ClientInv
<1>2. /\ client = "pop" /\ client' = "send"
      /\ UNCHANGED <<caller, m_is_connected, client_running, fds, client_conn,
                     accepting, breaks, buffers, sent, lost, discarded>>
  BY DEF ClientPop, clientPeer, clientHistory
<1>3. /\ elems # <<>> /\ hand' = elems[1]
      /\ client_queue' = [client_queue EXCEPT !.elems = Tail(elems)]
  BY <1>1, PopFacts
<1>4. hand = None
  BY <1>1, <1>2 DEF ThreadInv
<1>5. /\ OrderInv' /\ AccountInv' /\ elems[1] \in 1 .. buffers
      /\ client_queue' \in [elems : Seq(Nat), wakeup : BOOLEAN]
      /\ Len(elems') = Len(elems) - 1 /\ Len(elems) \in Nat
  BY <1>2, <1>3, <1>4, DequeueInv
<1>6. ClientTypeInv'
  <2>1. hand' \in Nat
    BY <1>1, <1>3, <1>5 DEF ClientTypeInv
  <2> QED
    BY <1>1, <1>2, <1>5, <2>1 DEF ClientTypeInv
<1>7. ThreadInv'
  BY <1>1, <1>2, <1>3, <1>5 DEF ThreadInv, None
<1>8. LimitInv'
  BY <1>1, <1>2, <1>5, ClientAssumption DEF LimitInv, ClientTypeInv
<1>9. LossInv'
  BY <1>1, <1>2 DEF LossInv
<1> QED
  BY <1>5, <1>6, <1>7, <1>8, <1>9 DEF ClientInv

LEMMA SendInv ==
  ASSUME ClientInv, ClientSend
  PROVE  ClientInv'
<1> DEFINE m == Len(sent)
<1>1. ClientTypeInv /\ ThreadInv /\ LimitInv /\ LossInv /\ OrderInv /\ AccountInv
  BY DEF ClientInv
<1>2. /\ client = "send" /\ client' = "loop" /\ hand' = None
      /\ UNCHANGED <<caller, client_queue, m_is_connected, client_running, fds,
                     client_conn, accepting, breaks, buffers, lost, discarded>>
  BY DEF ClientSend, clientPeer
<1>3. hand # None
  BY <1>1, <1>2 DEF ThreadInv
<1>4. /\ sent' \in Seq(Nat) /\ Len(sent') = m + 1
      /\ \A i \in 1 .. m : sent'[i] = sent[i]
      /\ sent'[m + 1] = hand
  BY <1>1, SendFacts
<1>5. m \in Nat /\ hand \in Nat /\ \A i \in 1 .. m : sent[i] \in Nat
  BY <1>1, QueueFacts
<1>6. elems' = elems
  BY <1>2 DEF elems
<1> HIDE DEF m
<1>7. \A i \in 1 .. m + 1 : i # m + 1 => i \in 1 .. m
  BY <1>5
<1>8. ClientTypeInv'
  BY <1>1, <1>2, <1>4 DEF ClientTypeInv, None
<1>9. ThreadInv' /\ LossInv'
  BY <1>1, <1>2 DEF ThreadInv, LossInv
<1>10. LimitInv'
  BY <1>1, <1>2, <1>6 DEF LimitInv
<1>11. OrderInv'
  <2>1. \A i, j \in 1 .. m + 1 : i < j => sent'[i] < sent'[j]
    <3> SUFFICES ASSUME NEW i \in 1 .. m + 1, NEW j \in 1 .. m + 1, i < j
                 PROVE  sent'[i] < sent'[j]
      OBVIOUS
    <3>1. i \in 1 .. m /\ sent'[i] = sent[i]
      BY <1>4, <1>5
    <3>2. CASE j = m + 1
      BY <1>1, <1>3, <1>4, <3>1, <3>2 DEF OrderInv, m
    <3>3. CASE j # m + 1
      <4>1. j \in 1 .. m /\ sent'[j] = sent[j]
        BY <1>4, <1>7, <3>3
      <4>2. sent[i] < sent[j]
        BY <1>1, <3>1, <4>1 DEF OrderInv, m
      <4> QED
        BY <3>1, <4>1, <4>2
    <3> QED
      BY <3>2, <3>3
  <2>2. \A i \in 1 .. m + 1, j \in 1 .. Len(elems) : sent'[i] < elems[j]
    <3> SUFFICES ASSUME NEW i \in 1 .. m + 1, NEW j \in 1 .. Len(elems)
                 PROVE  sent'[i] < elems[j]
      OBVIOUS
    <3>1. CASE i = m + 1
      BY <1>1, <1>3, <1>4, <3>1 DEF OrderInv
    <3>2. CASE i # m + 1
      BY <1>1, <1>4, <1>7, <3>2 DEF OrderInv, m
    <3> QED
      BY <3>1, <3>2
  <2> QED
    BY <1>1, <1>2, <1>4, <1>6, <2>1, <2>2 DEF OrderInv
<1>12. AccountInv'
  <2> SUFFICES ASSUME NEW b \in Nat
               PROVE  (b \in 1 .. buffers) <=> Accounted(b)'
    BY <1>2 DEF AccountInv
  <2>1. IsSent(b)' <=> (IsSent(b) \/ b = hand)
    BY <1>4, <1>5, SMTT(30) DEF IsSent, m
  <2>2. IsQueued(b)' <=> IsQueued(b)
    BY <1>6 DEF IsQueued
  <2>3. Accounted(b)' <=> Accounted(b)
    BY <1>2, <1>3, <2>1, <2>2 DEF Accounted, IsHeld
  <2> QED
    BY <1>1, <2>3 DEF AccountInv
<1> QED
  BY <1>8, <1>9, <1>10, <1>11, <1>12 DEF ClientInv

\* The connection was broken by the peer, and has cost no buffer before.
LEMMA SendFailsInv ==
  ASSUME ClientInv, ClientSendFails
  PROVE  ClientInv'
<1>1. ClientTypeInv /\ ThreadInv /\ LimitInv /\ LossInv /\ OrderInv /\ AccountInv
  BY DEF ClientInv
<1>2. /\ client = "send" /\ client' = "loop" /\ client_conn = "broken"
      /\ hand' = None /\ lost' = lost \cup {hand} /\ m_is_connected' = FALSE
      /\ UNCHANGED <<caller, client_queue, client_running, fds, client_conn,
                     accepting, breaks, buffers, sent, discarded>>
  BY DEF ClientSendFails, clientPeer, Disconnected
<1>3. hand # None /\ m_is_connected
  BY <1>1, <1>2 DEF ThreadInv
<1>4. elems' = elems
  BY <1>2 DEF elems
<1>5. ClientTypeInv'
  <2>1. lost' \subseteq Nat /\ hand' \in Nat
    BY <1>1, <1>2 DEF ClientTypeInv, None
  <2>2. m_is_connected' \in BOOLEAN
    BY <1>2
  <2> QED
    BY <1>1, <1>2, <2>1, <2>2 DEF ClientTypeInv
<1>6. ThreadInv'
  BY <1>2 DEF ThreadInv
<1>7. LimitInv'
  BY <1>1, <1>2, <1>4 DEF LimitInv
<1>8. LossInv'
  <2>1. IsFiniteSet(lost) /\ Cardinality(lost) + 1 <= breaks
    BY <1>1, <1>2, <1>3 DEF LossInv
  <2>2. /\ IsFiniteSet(lost \cup {hand})
        /\ Cardinality(lost \cup {hand}) =
             IF hand \in lost THEN Cardinality(lost) ELSE Cardinality(lost) + 1
    BY <2>1, FS_AddElement
  <2>3. Cardinality(lost) \in Nat /\ breaks \in Nat
    BY <1>1, <2>1, FS_CardinalityType DEF ClientTypeInv
  <2>4. Cardinality(lost \cup {hand}) <= breaks /\ Cardinality(lost \cup {hand}) \in Nat
    BY <2>1, <2>2, <2>3
  <2> QED
    BY <1>2, <2>2, <2>4 DEF LossInv
<1>9. OrderInv'
  BY <1>1, <1>2, <1>4 DEF OrderInv
<1>10. AccountInv'
  <2> SUFFICES ASSUME NEW b \in Nat
               PROVE  (b \in 1 .. buffers) <=> Accounted(b)'
    BY <1>2 DEF AccountInv
  <2>1. /\ IsSent(b)' <=> IsSent(b)
        /\ IsQueued(b)' <=> IsQueued(b)
    BY <1>2, <1>4 DEF IsSent, IsQueued
  <2>2. Accounted(b)' <=> Accounted(b)
    BY <1>2, <1>3, <2>1 DEF Accounted, IsHeld
  <2> QED
    BY <1>1, <2>2 DEF AccountInv
<1> QED
  BY <1>5, <1>6, <1>7, <1>8, <1>9, <1>10 DEF ClientInv

\* The steps that move no buffer.
LEMMA UnmovedInv ==
  ASSUME ClientInv, UNCHANGED clientHistory, UNCHANGED hand, elems' = elems
  PROVE  OrderInv' /\ AccountInv'
<1> USE DEF clientHistory
<1>1. OrderInv'
  BY DEF ClientInv, OrderInv
<1>2. AccountInv'
  BY DEF ClientInv, AccountInv, Accounted, IsSent, IsQueued, IsHeld
<1> QED
  BY <1>1, <1>2

\* The steps of the thread that calls sendall() and the destructor.
LEMMA CallerInv ==
  ASSUME ClientInv, SendallCheck \/ DestroyClient \/ WakeClient \/ JoinClient
  PROVE  ClientInv'
<1>1. ClientTypeInv /\ ThreadInv /\ LimitInv /\ LossInv
  BY DEF ClientInv
<1>2. UNCHANGED <<client, m_is_connected, hand, fds, clientPeer, clientHistory>>
  BY DEF SendallCheck, DestroyClient, WakeClient, JoinClient
<1>3. elems' = elems /\ client_queue' \in [elems : Seq(Nat), wakeup : BOOLEAN]
  <2>1. CASE WakeClient
    BY <1>1, <2>1 DEF WakeClient, Woken, TriggerWakeup, elems, ClientTypeInv
  <2>2. CASE SendallCheck \/ DestroyClient \/ JoinClient
    <3>1. client_queue' = client_queue
      BY <2>2 DEF SendallCheck, DestroyClient, JoinClient
    <3> QED
      BY <1>1, <3>1 DEF elems, ClientTypeInv
  <2> QED
    BY <2>1, <2>2
<1>4. caller' \in {"discard", "idle", "wakeup", "join", "gone"}
  BY DEF SendallCheck, DestroyClient, WakeClient, JoinClient
<1>5. Len(elems) <= IF caller' = "discard" THEN MaxClientQueue + 1 ELSE MaxClientQueue
  <2>1. CASE SendallCheck
    <3>1. Len(elems) <= MaxClientQueue + 1 /\ Len(elems) \in Nat
      BY <1>1, <2>1, QueueFacts DEF SendallCheck, LimitInv
    <3> QED
      BY <2>1, <3>1, ClientAssumption DEF SendallCheck, TooLarge, Size, elems
  <2>2. CASE DestroyClient \/ WakeClient \/ JoinClient
    BY <1>1, <2>2 DEF DestroyClient, WakeClient, JoinClient, LimitInv
  <2> QED
    BY <2>1, <2>2
<1>6. ClientTypeInv'
  BY <1>1, <1>2, <1>3, <1>4 DEF ClientTypeInv, clientPeer, clientHistory
<1>7. ThreadInv' /\ LossInv'
  BY <1>1, <1>2 DEF ThreadInv, LossInv, clientPeer, clientHistory
<1>8. LimitInv'
  BY <1>1, <1>2, <1>3, <1>4, <1>5 DEF LimitInv, clientHistory
<1> QED
  BY <1>2, <1>3, <1>6, <1>7, <1>8, UnmovedInv DEF ClientInv

\* The steps of process() that leave the buffers alone.
LEMMA ThreadStepInv ==
  ASSUME ClientInv, ClientLoop \/ ClientWoken \/ ClientConnect \/ ClientConnectFails
  PROVE  ClientInv'
<1>1. ClientTypeInv /\ ThreadInv /\ LimitInv /\ LossInv
  BY DEF ClientInv
<1>2. UNCHANGED <<caller, hand, accepting, breaks, clientHistory>>
  BY DEF ClientLoop, ClientWoken, ClientConnect, ClientConnectFails, clientPeer
<1>3. elems' = elems /\ client_queue' \in [elems : Seq(Nat), wakeup : BOOLEAN]
  <2>1. CASE ClientWoken
    BY <1>1, <2>1 DEF ClientWoken, AfterWakeup, elems, ClientTypeInv
  <2>2. CASE ClientLoop \/ ClientConnect \/ ClientConnectFails
    <3>1. client_queue' = client_queue
      BY <2>2 DEF ClientLoop, ClientConnect, ClientConnectFails
    <3> QED
      BY <1>1, <3>1 DEF elems, ClientTypeInv
  <2> QED
    BY <2>1, <2>2
<1>4. client # "send" /\ client' \in {"loop", "pop", "connect", "done"}
  BY DEF ClientLoop, ClientWoken, ClientConnect, ClientConnectFails, TryAgain
<1>5. client' = "pop" => m_is_connected'
  BY DEF ClientLoop, ClientWoken, ClientConnect, ClientConnectFails, TryAgain
<1>6. \/ UNCHANGED <<m_is_connected, client_conn, fds>>
      \/ m_is_connected' = TRUE /\ client_conn' = "open" /\ fds' \in 0 .. MaxFds
  <2>1. CASE ClientConnect
    <3>1. fds' \in 0 .. MaxFds
      BY <1>1, <2>1, ClientAssumption DEF ClientConnect, ClientTypeInv
    <3> QED
      BY <2>1, <3>1 DEF ClientConnect
  <2>2. CASE ClientLoop \/ ClientWoken \/ ClientConnectFails
    BY <2>2 DEF ClientLoop, ClientWoken, ClientConnectFails, clientPeer
  <2> QED
    BY <2>1, <2>2
<1>7. ClientTypeInv'
  <2>1. m_is_connected' \in BOOLEAN
    BY <1>1, <1>6 DEF ClientTypeInv
  <2>2. /\ client_conn' \in {"none", "open", "stalled", "broken"}
        /\ fds' \in 0 .. MaxFds
    BY <1>1, <1>6 DEF ClientTypeInv
  <2> QED
    BY <1>1, <1>2, <1>3, <1>4, <2>1, <2>2 DEF ClientTypeInv, clientHistory
<1>8. ThreadInv'
  BY <1>1, <1>2, <1>4, <1>5 DEF ThreadInv
<1>9. LimitInv'
  BY <1>1, <1>2, <1>3 DEF LimitInv, clientHistory
<1>10. LossInv'
  <2>1. CASE UNCHANGED <<m_is_connected, client_conn, fds>>
    BY <1>1, <1>2, <2>1 DEF LossInv, clientHistory
  <2>2. CASE client_conn' = "open"
    <3>1. IsFiniteSet(lost) /\ Cardinality(lost) \in Nat
      BY <1>1, FS_CardinalityType DEF LossInv
    <3>2. Cardinality(lost) <= breaks
      BY <1>1, <3>1 DEF LossInv, ClientTypeInv
    <3> QED
      BY <1>2, <2>2, <3>1, <3>2 DEF LossInv, clientHistory
  <2> QED
    BY <1>6, <2>1, <2>2
<1> QED
  BY <1>2, <1>3, <1>7, <1>8, <1>9, <1>10, UnmovedInv DEF ClientInv

\* The peer: a connection that breaks may cost one buffer more.
LEMMA PeerInv ==
  ASSUME ClientInv, PeerStalls \/ PeerBreaks \/ PeerAccepts
  PROVE  ClientInv'
<1>1. ClientTypeInv /\ ThreadInv /\ LimitInv /\ LossInv
  BY DEF ClientInv
<1>2. UNCHANGED <<caller, client, client_queue, m_is_connected, hand, fds,
                  clientHistory>>
  BY DEF PeerStalls, PeerBreaks, PeerAccepts
<1>3. elems' = elems
  BY <1>2 DEF elems
<1>4. /\ breaks' \in Nat
      /\ client_conn' \in {"none", "open", "stalled", "broken"}
  BY <1>1 DEF PeerStalls, PeerBreaks, PeerAccepts, ClientTypeInv
<1>5. ClientTypeInv'
  BY <1>1, <1>2, <1>4 DEF ClientTypeInv, clientHistory
<1>6. ThreadInv' /\ LimitInv'
  BY <1>1, <1>2, <1>3 DEF ThreadInv, LimitInv, clientHistory
<1>7. LossInv'
  <2>1. IsFiniteSet(lost) /\ Cardinality(lost) \in Nat /\ breaks \in Nat
    BY <1>1, FS_CardinalityType DEF LossInv, ClientTypeInv
  <2>2. CASE PeerStalls
    BY <1>1, <1>2, <2>1, <2>2 DEF PeerStalls, LossInv, clientHistory
  <2>3. CASE PeerBreaks
    BY <1>1, <1>2, <2>1, <2>3 DEF PeerBreaks, LossInv, clientHistory
  <2>4. CASE PeerAccepts
    BY <1>1, <1>2, <2>1, <2>4 DEF PeerAccepts, LossInv, clientHistory
  <2> QED
    BY <2>2, <2>3, <2>4
<1> QED
  BY <1>2, <1>3, <1>5, <1>6, <1>7, UnmovedInv DEF ClientInv

LEMMA StutterInv ==
  ASSUME ClientInv, UNCHANGED clientVars
  PROVE  ClientInv'
<1> USE DEF clientVars, clientPeer, clientHistory
<1>1. elems' = elems
  BY DEF elems
<1>2. ClientTypeInv'
  BY DEF ClientInv, ClientTypeInv
<1>3. ThreadInv' /\ LimitInv' /\ LossInv'
  BY <1>1 DEF ClientInv, ThreadInv, LimitInv, LossInv
<1> QED
  BY <1>1, <1>2, <1>3, UnmovedInv DEF ClientInv

\* The invariant holds for good.
LEMMA SpecInv == ClientSpec => []ClientInv
<1>1. ClientInit => ClientInv
  BY ClientInitInv
<1>2. ClientInv /\ [ClientNext]_clientVars => ClientInv'
  <2> SUFFICES ASSUME ClientInv, [ClientNext]_clientVars
               PROVE  ClientInv'
    OBVIOUS
  <2>1. CASE SendallPush
    BY <2>1, ClientPushInv
  <2>2. CASE SendallDiscard
    BY <2>2, DiscardInv
  <2>3. CASE ClientPop
    BY <2>3, PopInv
  <2>4. CASE ClientSend
    BY <2>4, SendInv
  <2>5. CASE ClientSendFails
    BY <2>5, SendFailsInv
  <2>6. CASE SendallCheck \/ DestroyClient \/ WakeClient \/ JoinClient
    BY <2>6, CallerInv
  <2>7. CASE ClientLoop \/ ClientWoken \/ ClientConnect \/ ClientConnectFails
    BY <2>7, ThreadStepInv
  <2>8. CASE PeerStalls \/ PeerBreaks \/ PeerAccepts
    BY <2>8, PeerInv
  <2>9. CASE UNCHANGED clientVars
    BY <2>9, StutterInv
  <2> QED
    BY <2>1, <2>2, <2>3, <2>4, <2>5, <2>6, <2>7, <2>8, <2>9
    DEF ClientNext, ClientThread, ClientCaller
<1> QED
  BY <1>1, <1>2, PTL DEF ClientSpec
-----------------------------------------------------------------------------
\* The descriptors, the queue and the buffer in the thread's hand stay within
\* their bounds (Socket.cpp:1116-1210).
THEOREM ClientTypeCorrect == ClientSpec => []ClientTypeOK
<1>1. ASSUME ClientInv
      PROVE  ClientTypeOK
  <2>1. ClientTypeInv /\ LimitInv /\ AccountInv
    BY <1>1 DEF ClientInv
  <2>2. hand \in 0 .. MaxBuffers
    <3>1. CASE hand = None
      BY <2>1, <3>1, ClientAssumption DEF None
    <3>2. CASE hand # None
      <4>1. hand \in Nat /\ Accounted(hand)
        BY <2>1, <3>2 DEF Accounted, IsHeld, ClientTypeInv
      <4>2. hand \in 1 .. buffers
        BY <2>1, <4>1 DEF AccountInv
      <4> QED
        BY <2>1, <4>2, ClientAssumption DEF ClientTypeInv
    <3> QED
      BY <3>1, <3>2
  <2>3. Size(client_queue) <= MaxBuffers
    <3>1. Len(elems) \in Nat /\ Len(elems) <= buffers /\ buffers \in 0 .. MaxBuffers
      BY <2>1, QueueFacts DEF LimitInv, ClientTypeInv
    <3> QED
      BY <3>1, ClientAssumption DEF Size, elems
  <2> QED
    BY <2>1, <2>2, <2>3 DEF ClientTypeInv, ClientTypeOK
<1> QED
  BY <1>1, SpecInv, PTL

\* The sequence of ClientStream, element by element.
Held == IF hand = None THEN <<>> ELSE <<hand>>
HeldCount == IF hand = None THEN 0 ELSE 1
ClientLine == sent \o Held \o elems

LEMMA LineFacts ==
  ASSUME ClientTypeInv
  PROVE  /\ DOMAIN ClientLine = 1 .. Len(sent) + HeldCount + Len(elems)
         /\ \A i \in 1 .. Len(sent) : ClientLine[i] = sent[i]
         /\ hand # None => ClientLine[Len(sent) + 1] = hand
         /\ \A j \in 1 .. Len(elems) : ClientLine[Len(sent) + HeldCount + j] = elems[j]
<1> DEFINE m == Len(sent)
           n == Len(elems)
           h == Held
           k == HeldCount
           line == ClientLine
           a == sent \o h
<1>1. sent \in Seq(Nat) /\ elems \in Seq(Nat) /\ m \in Nat /\ n \in Nat /\ hand \in Nat
  BY QueueFacts
<1>2. /\ h \in Seq(Nat) /\ Len(h) = k /\ k \in {0, 1}
      /\ hand # None => k = 1 /\ h[1] = hand
  <2>1. CASE hand = None
    BY <2>1 DEF Held, HeldCount
  <2>2. CASE hand # None
    BY <1>1, <2>2 DEF Held, HeldCount
  <2> QED
    BY <2>1, <2>2
<1>3. /\ a \in Seq(Nat) /\ Len(a) = m + k
      /\ \A i \in 1 .. Len(a) : a[i] = IF i <= m THEN sent[i] ELSE h[i - m]
  BY <1>1, <1>2, ConcatProperties
<1> HIDE DEF a
<1>4. /\ line \in Seq(Nat) /\ Len(line) = Len(a) + n
      /\ \A i \in 1 .. Len(line) : line[i] = IF i <= Len(a) THEN a[i]
                                            ELSE elems[i - Len(a)]
  BY <1>1, <1>3, ConcatProperties DEF a, ClientLine
<1> HIDE DEF m, n, k, h, line
<1>5. DOMAIN line = 1 .. m + k + n
  BY <1>1, <1>2, <1>3, <1>4, LenProperties
<1>6. ASSUME NEW i \in 1 .. m
      PROVE  line[i] = sent[i]
  <2>1. i \in 1 .. Len(a) /\ i \in 1 .. Len(line) /\ i <= m /\ i <= Len(a)
    BY <1>1, <1>2, <1>3, <1>4
  <2> QED
    BY <1>3, <1>4, <2>1
<1>7. ASSUME hand # None
      PROVE  line[m + 1] = hand
  <2>1. /\ m + 1 \in 1 .. Len(a) /\ m + 1 \in 1 .. Len(line)
        /\ ~(m + 1 <= m) /\ m + 1 <= Len(a) /\ (m + 1) - m = 1
    BY <1>1, <1>2, <1>3, <1>4, <1>7
  <2> QED
    BY <1>2, <1>3, <1>4, <1>7, <2>1
<1>8. ASSUME NEW j \in 1 .. n
      PROVE  line[m + k + j] = elems[j]
  <2>1. /\ m + k + j \in 1 .. Len(line) /\ ~(m + k + j <= Len(a))
        /\ (m + k + j) - Len(a) = j
    BY <1>1, <1>2, <1>3, <1>4
  <2> QED
    BY <1>4, <2>1
<1> QED
  BY <1>5, <1>6, <1>7, <1>8 DEF m, n, k, line

\* The buffers reach the peer in the order of sendall(), none is lost except
\* one per broken connection and those discarded from a full queue, and a full
\* queue is brought back to its limit (Socket.cpp:1135-1210).
THEOREM StreamIsKept == ClientSpec => []ClientStream
<1>1. ASSUME ClientInv
      PROVE  ClientStream
  <2> DEFINE k == HeldCount
             line == ClientLine
             m == Len(sent)
             n == Len(elems)
  <2>1. ClientTypeInv /\ LimitInv /\ LossInv /\ OrderInv /\ AccountInv
    BY <1>1 DEF ClientInv
  <2>2. /\ DOMAIN line = 1 .. m + k + n
        /\ \A i \in 1 .. m : line[i] = sent[i]
        /\ hand # None => line[m + 1] = hand
        /\ \A j \in 1 .. n : line[m + k + j] = elems[j]
    BY <2>1, LineFacts
  <2>3. /\ m \in Nat /\ n \in Nat /\ k \in {0, 1} /\ hand \in Nat /\ buffers \in Nat
        /\ (k = 0 <=> hand = None)
        /\ \A i \in 1 .. n : elems[i] \in Nat
        /\ \A i \in 1 .. m : sent[i] \in Nat
    BY <2>1, QueueFacts DEF HeldCount
  <2> HIDE DEF line, k, m, n
  <2>4. ASSUME NEW i \in 1 .. m + k + n
        PROVE  \/ i \in 1 .. m /\ line[i] = sent[i]
               \/ hand # None /\ i = m + 1 /\ k = 1 /\ line[i] = hand
               \/ \E j \in 1 .. n : i = m + k + j /\ line[i] = elems[j]
    <3>1. CASE i <= m
      BY <2>2, <2>3, <3>1
    <3>2. CASE i = m + 1 /\ k = 1
      BY <2>2, <2>3, <3>2
    <3>3. CASE i > m + k
      <4>1. i - m - k \in 1 .. n /\ i = m + k + (i - m - k)
        BY <2>3, <3>3
      <4> QED
        BY <2>2, <4>1
    <3> QED
      BY <2>3, <3>1, <3>2, <3>3
  <2>5. \A i, j \in DOMAIN line : i < j => line[i] < line[j]
    <3> SUFFICES ASSUME NEW i \in 1 .. m + k + n, NEW j \in 1 .. m + k + n, i < j
                 PROVE  line[i] < line[j]
      BY <2>2
    <3>1. CASE i \in 1 .. m /\ line[i] = sent[i]
      <4>1. CASE j \in 1 .. m /\ line[j] = sent[j]
        BY <2>1, <3>1, <4>1 DEF OrderInv, m
      <4>2. CASE hand # None /\ line[j] = hand
        BY <2>1, <3>1, <4>2 DEF OrderInv, m
      <4>3. CASE \E l \in 1 .. n : line[j] = elems[l]
        BY <2>1, <3>1, <4>3 DEF OrderInv, m, n
      <4> QED
        BY <2>4, <4>1, <4>2, <4>3
    <3>2. CASE hand # None /\ i = m + 1 /\ k = 1 /\ line[i] = hand
      <4>1. ~(j \in 1 .. m) /\ j # m + 1
        BY <2>3, <3>2
      <4>2. PICK l \in 1 .. n : line[j] = elems[l]
        BY <2>4, <4>1
      <4> QED
        BY <2>1, <3>2, <4>2 DEF OrderInv, n
    <3>3. CASE \E l \in 1 .. n : i = m + k + l /\ line[i] = elems[l]
      <4>1. PICK l \in 1 .. n : i = m + k + l /\ line[i] = elems[l]
        BY <3>3
      <4>2. ~(j \in 1 .. m) /\ ~(j = m + 1 /\ k = 1)
        BY <2>3, <4>1
      <4>3. PICK r \in 1 .. n : j = m + k + r /\ line[j] = elems[r]
        BY <2>4, <4>2
      <4>4. l < r
        BY <2>3, <4>1, <4>3
      <4> QED
        BY <2>1, <4>1, <4>3, <4>4 DEF OrderInv, n
    <3> QED
      BY <2>4, <3>1, <3>2, <3>3
  <2>6. 1 .. buffers = {line[i] : i \in DOMAIN line} \cup lost \cup discarded
    <3>1. ASSUME NEW b
          PROVE  b \in {line[i] : i \in DOMAIN line}
                   <=> IsSent(b) \/ IsHeld(b) \/ IsQueued(b)
      <4>1. ASSUME NEW i \in 1 .. m + k + n, b = line[i]
            PROVE  IsSent(b) \/ IsHeld(b) \/ IsQueued(b)
        BY <2>4, <4>1 DEF IsSent, IsHeld, IsQueued, m, n
      <4>2. ASSUME IsSent(b)
            PROVE  \E i \in 1 .. m + k + n : b = line[i]
        <5>1. PICK i \in 1 .. m : sent[i] = b
          BY <4>2 DEF IsSent, m
        <5>2. i \in 1 .. m + k + n
          BY <2>3
        <5> QED
          BY <2>2, <5>1, <5>2
      <4>3. ASSUME IsHeld(b)
            PROVE  \E i \in 1 .. m + k + n : b = line[i]
        <5>1. m + 1 \in 1 .. m + k + n
          BY <2>3, <4>3 DEF IsHeld
        <5> QED
          BY <2>2, <4>3, <5>1 DEF IsHeld
      <4>4. ASSUME IsQueued(b)
            PROVE  \E i \in 1 .. m + k + n : b = line[i]
        <5>1. PICK j \in 1 .. n : elems[j] = b
          BY <4>4 DEF IsQueued, n
        <5>2. m + k + j \in 1 .. m + k + n
          BY <2>3
        <5> QED
          BY <2>2, <5>1, <5>2
      <4> QED
        BY <2>2, <4>1, <4>2, <4>3, <4>4
    <3>2. \A b : Accounted(b) => b \in Nat
      BY <2>1, <2>3 DEF Accounted, IsSent, IsHeld, IsQueued, ClientTypeInv, m, n
    <3>3. \A b : b \in 1 .. buffers => b \in Nat
      BY <2>3
    <3>4. \A b : b \in 1 .. buffers <=> Accounted(b)
      BY <2>1, <3>2, <3>3 DEF AccountInv
    <3> QED
      BY <3>1, <3>4 DEF Accounted
  <2>7. Cardinality(lost) <= breaks
    <3>1. Cardinality(lost) \in Nat /\ breaks \in Nat
      BY <2>1, FS_CardinalityType DEF LossInv, ClientTypeInv
    <3> QED
      BY <2>1, <3>1 DEF LossInv
  <2>8. caller = "idle" => Size(client_queue) <= MaxClientQueue
    BY <2>1 DEF LimitInv, Size, elems
  <2> QED
    BY <2>5, <2>6, <2>7, <2>8 DEF ClientStream, line, ClientLine, Held, elems
<1> QED
  BY <1>1, SpecInv, PTL
-----------------------------------------------------------------------------
(* The Sender of digris-zmq-converter and its main loop.                   *)

FrameRecord == [fct : NoFct .. FctMod - 1, left : Nat, first : BOOLEAN]

\* The frames from the sender back to the message, oldest first.
InHand == IF sender = "release" THEN <<frame>> ELSE <<>>
ConverterLine == InHand \o frames.elems \o all_frames

\* b may come after a.
Follows(a, b) ==
  b # EmptyFrame =>
    /\ a.left > 0 => b.left = a.left - 1
    /\ ~b.first => b.fct = (a.fct + 1) % FctMod

InStep(l) == \A i \in 1 .. Len(l) - 1 : Follows(l[i], l[i + 1])

ConverterTypeInv ==
  /\ ConverterTypeOK
  /\ opened \in BOOLEAN /\ sender_running \in BOOLEAN
  /\ inbox \in Seq(Messages) /\ all_frames \in Seq(FrameRecord)
  /\ frames \in [elems : Seq(FrameRecord), wakeup : {FALSE}]
  /\ frame \in FrameRecord
  /\ source \in 0 .. FctMod - 1 /\ faults \in 0 .. MaxFaults

\* Frames are in the way to the queue only while they are pushed.
ConverterPushInv == all_frames # <<>> => loop = "push"

\* Without a frame counter to compare with, the next frame is the first one.
FctInv == loop \in Socket => opened \/ previous_fct # NoFct

\* The line ends with the end of a message, and with the frame whose counter
\* the next one is compared with.
EndInv ==
  ConverterLine # <<>> =>
    /\ ConverterLine[Len(ConverterLine)].left = 0
    /\ loop \in Socket /\ ~opened => ConverterLine[Len(ConverterLine)].fct = previous_fct

ConverterInv == ConverterTypeInv /\ ConverterPushInv /\ FctInv /\ EndInv /\ InStep(ConverterLine)
-----------------------------------------------------------------------------
(* The frames of valid length in a message.                                *)

LEMMA MessageFacts ==
  ASSUME NEW m \in Messages
  PROVE  /\ NumValid(m) \in 0 .. PerMessage
         /\ m.valid = {} <=> NumValid(m) = 0
         /\ \A k \in 1 .. NumValid(m) : FctOf(m, k) \in 0 .. FctMod - 1
<1>1. PerMessage \in Nat \ {0} /\ FctMod \in Nat \ {0}
  BY ConverterAssumption
<1>2. m.valid \subseteq Positions /\ m.fct \in 0 .. FctMod - 1
  BY DEF Messages
<1>3. IsFiniteSet(Positions) /\ Cardinality(Positions) = PerMessage
  BY <1>1, FS_Interval DEF Positions
<1>4. IsFiniteSet(m.valid) /\ Cardinality(m.valid) <= PerMessage
  BY <1>2, <1>3, FS_Subset
<1>5. NumValid(m) \in 0 .. PerMessage
  BY <1>1, <1>4, FS_CardinalityType DEF NumValid
<1>6. m.valid = {} <=> NumValid(m) = 0
  BY <1>4, FS_EmptySet DEF NumValid
<1>7. ASSUME NEW k \in 1 .. NumValid(m) PROVE FctOf(m, k) \in 0 .. FctMod - 1
  <2>1. m.valid \subseteq Nat
    BY <1>1, <1>2 DEF Positions
  <2>2. \E p \in m.valid : Cardinality(Below(m.valid, p)) = k - 1
    BY <1>4, <2>1, KthElement DEF NumValid
  <2>3. KthValid(m, k) \in m.valid
    BY <2>2 DEF KthValid, Below
  <2>4. m.fct + KthValid(m, k) \in Nat
    BY <1>1, <1>2, <2>1, <2>3
  <2> QED
    BY <1>1, <2>4 DEF FctOf
<1> QED
  BY <1>5, <1>6, <1>7

\* The frames of a message that follows on are in step, and the last one ends
\* the message.
LEMMA FramesOfFacts ==
  ASSUME NEW m \in Messages, opened \in BOOLEAN, FollowsOn(m)
  PROVE  /\ FramesOf(m) \in Seq(FrameRecord) /\ Len(FramesOf(m)) = NumValid(m)
         /\ InStep(FramesOf(m))
         /\ NumValid(m) > 0 =>
              /\ FramesOf(m)[NumValid(m)].left = 0
              /\ FramesOf(m)[NumValid(m)].fct = FctOf(m, NumValid(m))
              /\ FramesOf(m)[1].first = opened
              /\ previous_fct # NoFct =>
                   FramesOf(m)[1].fct = (previous_fct + 1) % FctMod
<1> DEFINE n == NumValid(m)
           l == FramesOf(m)
<1>1. FctMod \in Nat \ {0} /\ n \in Nat
  BY ConverterAssumption, MessageFacts
<1>2. \A k \in 1 .. n : FctOf(m, k) \in 0 .. FctMod - 1
  BY MessageFacts
<1>3. l = [k \in 1 .. n |-> [fct |-> FctOf(m, k), left |-> n - k, first |-> opened /\ k = 1]]
  BY DEF FramesOf
<1>4. FollowsOn(m) <=> \A k \in 1 .. n :
        LET previous == IF k = 1 THEN previous_fct ELSE FctOf(m, k - 1)
        IN  previous = NoFct \/ FctOf(m, k) = (previous + 1) % FctMod
  BY DEF FollowsOn
<1> HIDE DEF n, l
<1>5. \A k \in 1 .. n : /\ l[k].fct = FctOf(m, k) /\ l[k].left = n - k
                        /\ l[k].first = (opened /\ k = 1)
  BY <1>3
<1>6. l \in Seq(FrameRecord) /\ Len(l) = n
  <2>1. ASSUME NEW k \in 1 .. n
        PROVE  [fct |-> FctOf(m, k), left |-> n - k, first |-> opened /\ k = 1] \in FrameRecord
    <3>1. FctOf(m, k) \in NoFct .. FctMod - 1
      BY <1>1, <1>2 DEF NoFct
    <3>2. n - k \in Nat
      BY <1>1
    <3>3. (opened /\ k = 1) \in BOOLEAN
      OBVIOUS
    <3> QED
      BY <3>1, <3>2, <3>3 DEF FrameRecord
  <2> QED
    BY <1>1, <1>3, <2>1
<1>7. InStep(l)
  <2> SUFFICES ASSUME NEW i \in 1 .. n - 1 PROVE Follows(l[i], l[i + 1])
    BY <1>6 DEF InStep
  <2>1. i \in 1 .. n /\ i + 1 \in 1 .. n /\ i + 1 # 1 /\ (i + 1) - 1 = i
    BY <1>1
  <2>2. FctOf(m, i) # NoFct
    BY <1>1, <1>2, <2>1 DEF NoFct
  <2>3. FctOf(m, i + 1) = (FctOf(m, i) + 1) % FctMod
    BY <1>4, <2>1, <2>2
  <2>4. n - (i + 1) = (n - i) - 1
    BY <1>1
  <2> QED
    BY <1>5, <2>1, <2>3, <2>4 DEF Follows
<1>8. ASSUME n > 0
      PROVE  /\ l[n].left = 0 /\ l[n].fct = FctOf(m, n) /\ l[1].first = opened
             /\ previous_fct # NoFct => l[1].fct = (previous_fct + 1) % FctMod
  <2>1. n \in 1 .. n /\ 1 \in 1 .. n /\ n - n = 0
    BY <1>1, <1>8
  <2> QED
    BY <1>4, <1>5, <2>1
<1> QED
  BY <1>6, <1>7, <1>8 DEF n, l
-----------------------------------------------------------------------------
(* The line.                                                               *)

\* The line without its first frame.
LEMMA TailInStep ==
  ASSUME NEW l \in Seq(FrameRecord), l # <<>>, InStep(l)
  PROVE  /\ Tail(l) \in Seq(FrameRecord) /\ InStep(Tail(l))
         /\ Tail(l) # <<>> => Tail(l)[Len(Tail(l))] = l[Len(l)]
<1> DEFINE t == Tail(l)
           n == Len(l)
<1>1. /\ t \in Seq(FrameRecord) /\ Len(t) = n - 1 /\ n \in Nat \ {0}
      /\ \A i \in 1 .. Len(t) : t[i] = l[i + 1]
  BY HeadTailProperties, EmptySeq
<1>2. t # <<>> => Len(t) \in Nat \ {0}
  BY <1>1, EmptySeq
<1> HIDE DEF t
<1>3. ASSUME NEW i \in 1 .. Len(t) - 1 PROVE Follows(t[i], t[i + 1])
  <2>1. i \in 1 .. Len(t) /\ i + 1 \in 1 .. Len(t) /\ i + 1 \in 1 .. n - 1
    BY <1>1
  <2>2. t[i] = l[i + 1] /\ t[i + 1] = l[(i + 1) + 1]
    BY <1>1, <2>1
  <2> QED
    BY <2>1, <2>2 DEF InStep, n
<1>4. t # <<>> => t[Len(t)] = l[n]
  <2>1. t # <<>> => Len(t) \in 1 .. Len(t) /\ Len(t) + 1 = n
    BY <1>1, <1>2
  <2> QED
    BY <1>1, <2>1
<1> QED
  BY <1>1, <1>3, <1>4 DEF InStep, t, n

\* More frames at the end of the line.
LEMMA LongerInStep ==
  ASSUME NEW l \in Seq(FrameRecord), NEW t \in Seq(FrameRecord),
         InStep(l), InStep(t), t # <<>>,
         l # <<>> => Follows(l[Len(l)], t[1])
  PROVE  /\ l \o t \in Seq(FrameRecord) /\ InStep(l \o t)
         /\ l \o t # <<>> /\ (l \o t)[Len(l \o t)] = t[Len(t)]
<1> DEFINE e == l \o t
           a == Len(l)
           b == Len(t)
<1>1. a \in Nat /\ b \in Nat \ {0} /\ (l = <<>> => a = 0)
      /\ (a > 0 => l # <<>>)
  BY LenProperties, EmptySeq
<1>2. /\ e \in Seq(FrameRecord) /\ Len(e) = a + b
      /\ \A i \in 1 .. a + b : e[i] = IF i <= a THEN l[i] ELSE t[i - a]
  BY ConcatProperties, Zenon
<1> HIDE DEF e
<1>3. ASSUME NEW i \in 1 .. Len(e) - 1 PROVE Follows(e[i], e[i + 1])
  <2>1. i \in 1 .. a + b /\ i + 1 \in 1 .. a + b
    BY <1>1, <1>2
  <2>2. CASE i < a
    <3>1. i <= a /\ i + 1 <= a /\ i \in 1 .. a - 1
      BY <1>1, <2>2
    <3>2. e[i] = l[i] /\ e[i + 1] = l[i + 1]
      BY <1>2, <2>1, <3>1
    <3> QED
      BY <3>1, <3>2 DEF InStep, a
  <2>3. CASE i = a
    <3>1. i <= a /\ ~(i + 1 <= a) /\ (i + 1) - a = 1 /\ l # <<>>
      BY <1>1, <2>3
    <3>2. e[i] = l[a] /\ e[i + 1] = t[1]
      BY <1>2, <2>1, <2>3, <3>1
    <3> QED
      BY <3>1, <3>2 DEF a
  <2>4. CASE i > a
    <3>1. /\ ~(i <= a) /\ ~(i + 1 <= a) /\ (i + 1) - a = (i - a) + 1
          /\ i - a \in 1 .. b - 1
      BY <1>1, <1>2, <2>4
    <3>2. e[i] = t[i - a] /\ e[i + 1] = t[(i - a) + 1]
      BY <1>2, <2>1, <3>1
    <3> QED
      BY <3>1, <3>2 DEF InStep, b
  <2> QED
    BY <1>1, <2>2, <2>3, <2>4
<1>4. e # <<>> /\ e[Len(e)] = t[b]
  <2>1. a + b \in 1 .. a + b /\ ~(a + b <= a) /\ (a + b) - a = b /\ a + b # 0
    BY <1>1
  <2> QED
    BY <1>2, <2>1, EmptySeq
<1> QED
  BY <1>2, <1>3, <1>4 DEF InStep, e, b

\* A frame that goes from the message to the queue stays in its place.
LEMMA MoveFrame ==
  ASSUME NEW A \in Seq(FrameRecord), NEW B \in Seq(FrameRecord),
         NEW C \in Seq(FrameRecord), C # <<>>
  PROVE  (A \o Append(B, Head(C))) \o Tail(C) = (A \o B) \o C
<1>1. Head(C) \in FrameRecord /\ Tail(C) \in Seq(FrameRecord)
  BY HeadTailProperties
<1>2. <<Head(C)>> \in Seq(FrameRecord)
  BY <1>1
<1>3. Append(B, Head(C)) = B \o <<Head(C)>>
  BY <1>1, AppendIsConcat
<1>4. <<Head(C)>> \o Tail(C) = C
  BY <1>1
<1>5. A \o (B \o <<Head(C)>>) = (A \o B) \o <<Head(C)>>
  BY <1>2, ConcatAssociative
<1>6. A \o B \in Seq(FrameRecord)
  BY ConcatProperties
<1>7. ((A \o B) \o <<Head(C)>>) \o Tail(C) = (A \o B) \o (<<Head(C)>> \o Tail(C))
  BY <1>1, <1>2, <1>6, ConcatAssociative
<1> QED
  BY <1>3, <1>4, <1>5, <1>7

\* The first frame of the queue, taken into hand.
LEMMA TakeFrame ==
  ASSUME NEW B \in Seq(FrameRecord), NEW C \in Seq(FrameRecord), B # <<>>
  PROVE  /\ (<<Head(B)>> \o Tail(B)) \o C = (<<>> \o B) \o C
         /\ (<<>> \o Tail(B)) \o C = Tail((<<>> \o B) \o C)
         /\ (<<>> \o B) \o C # <<>>
<1>1. Head(B) \in FrameRecord /\ Tail(B) \in Seq(FrameRecord)
  BY HeadTailProperties
<1>2. <<Head(B)>> \o Tail(B) = B
  BY <1>1
<1>3. <<>> \o B = B /\ <<>> \o Tail(B) = Tail(B)
  BY <1>1, ConcatEmptySeq
<1>4. Tail(B \o C) = Tail(B) \o C /\ B \o C # <<>>
  OBVIOUS
<1> QED
  BY <1>2, <1>3, <1>4

\* The frame in hand is gone.
LEMMA DropFrame ==
  ASSUME NEW f \in FrameRecord, NEW B \in Seq(FrameRecord), NEW C \in Seq(FrameRecord)
  PROVE  /\ (<<>> \o B) \o C = Tail((<<f>> \o B) \o C)
         /\ (<<f>> \o B) \o C # <<>>
<1>1. <<f>> \in Seq(FrameRecord) /\ B \o C \in Seq(FrameRecord) /\ <<>> \o B = B
  BY ConcatProperties, ConcatEmptySeq
<1>2. (<<f>> \o B) \o C = <<f>> \o (B \o C)
  BY <1>1, ConcatAssociative
<1>3. Tail(<<f>> \o (B \o C)) = B \o C /\ <<f>> \o (B \o C) # <<>>
  BY <1>1
<1> QED
  BY <1>1, <1>2, <1>3
-----------------------------------------------------------------------------
(* Types.                                                                  *)

LEMMA EmptyFrameType == EmptyFrame \in FrameRecord
BY ConverterAssumption DEF EmptyFrame, FrameRecord, NoFct

LEMMA LineType == ConverterTypeInv => InHand \in Seq(FrameRecord) /\ ConverterLine \in Seq(FrameRecord)
<1> SUFFICES ASSUME ConverterTypeInv
             PROVE  InHand \in Seq(FrameRecord) /\ ConverterLine \in Seq(FrameRecord)
  OBVIOUS
<1>1. /\ frame \in FrameRecord /\ frames.elems \in Seq(FrameRecord)
      /\ all_frames \in Seq(FrameRecord)
  BY DEF ConverterTypeInv
<1>2. InHand \in Seq(FrameRecord)
  BY <1>1, EmptySeq DEF InHand
<1>3. InHand \o frames.elems \in Seq(FrameRecord)
  BY <1>1, <1>2, ConcatProperties
<1> QED
  BY <1>1, <1>2, <1>3, ConcatProperties DEF ConverterLine

LEMMA ReceiveType == ConverterTypeInv /\ Receive => ConverterTypeInv'
<1> SUFFICES ASSUME ConverterTypeInv, Receive PROVE ConverterTypeInv'
  OBVIOUS
<1>1. PICK m \in Messages : m = Head(inbox)
  BY HeadTailProperties DEF ConverterTypeInv, Receive
<1>2. /\ PerMessage \in Nat \ {0} /\ FctMod \in Nat \ {0} /\ MaxErrorCount \in Nat \ {0}
  BY ConverterAssumption
<1>3. /\ NumValid(m) \in 0 .. PerMessage /\ (m.valid = {} <=> NumValid(m) = 0)
      /\ \A k \in 1 .. NumValid(m) : FctOf(m, k) \in 0 .. FctMod - 1
  BY MessageFacts
<1>4. /\ loop = "receive" /\ FollowsOn(m)
      /\ loop' = AfterMetadata(m)
      /\ all_frames' = IF AfterMetadata(m) = "push" THEN FramesOf(m) ELSE <<>>
      /\ previous_fct' = IF m.valid = {} THEN previous_fct ELSE FctOf(m, NumValid(m))
      /\ error_count' = error_count + Errors(m)
      /\ opened' = (opened /\ m.valid = {})
      /\ inbox' = <<>>
  BY <1>1 DEF Receive
<1>5. UNCHANGED <<frames, sender, frame, sender_running, source, faults>>
  BY DEF Receive, senderVars
<1>6. loop' \in {"push", "ended", "hung"}
  BY <1>4 DEF AfterMetadata
<1>7. all_frames' \in Seq(FrameRecord)
  BY <1>4, FramesOfFacts, EmptySeq DEF ConverterTypeInv
<1>8. previous_fct' \in NoFct .. FctMod - 1
  <2>1. m.valid # {} => NumValid(m) \in 1 .. NumValid(m)
    BY <1>2, <1>3
  <2>2. m.valid # {} => FctOf(m, NumValid(m)) \in 0 .. FctMod - 1
    BY <1>3, <2>1
  <2> QED
    BY <1>2, <1>4, <2>2 DEF ConverterTypeInv, ConverterTypeOK, NoFct
<1>9. error_count' \in 0 .. MaxErrorCount + PerMessage
  <2>1. Errors(m) \in 0 .. PerMessage + 1
    BY <1>2, <1>3 DEF Errors
  <2>2. error_count \in Nat /\ error_count < MaxErrorCount
    BY <1>4 DEF ConverterTypeInv, ConverterTypeOK
  <2> QED
    BY <1>2, <1>4, <2>1, <2>2
<1>10. opened' \in BOOLEAN
  BY <1>4 DEF ConverterTypeInv
<1>11. inbox' \in Seq(Messages)
  BY <1>4, EmptySeq
<1>12. ConverterTypeOK'
  BY <1>5, <1>6, <1>8, <1>9 DEF ConverterTypeInv, ConverterTypeOK
<1> QED
  BY <1>5, <1>7, <1>10, <1>11, <1>12 DEF ConverterTypeInv

LEMMA MainLoopType ==
  ConverterTypeInv /\ (OpenSocket \/ PollTimeout \/ Discontinuity \/ PushDone \/ Backoff
              \/ JoinSender) => ConverterTypeInv'
<1> SUFFICES ASSUME ConverterTypeInv,
                    OpenSocket \/ PollTimeout \/ Discontinuity \/ PushDone \/ Backoff
                    \/ JoinSender
             PROVE  ConverterTypeInv'
  OBVIOUS
<1>1. /\ PerMessage \in Nat \ {0} /\ FctMod \in Nat \ {0}
      /\ MaxErrorCount \in Nat \ {0} /\ MaxFaults \in Nat
  BY ConverterAssumption
<1>2. <<>> \in Seq(Messages) /\ <<>> \in Seq(FrameRecord)
  BY EmptySeq
<1> USE DEF ConverterTypeInv, ConverterTypeOK, senderVars
<1>3. CASE OpenSocket
  <2>1. ConverterTypeOK'
    BY <1>1, <1>3 DEF OpenSocket, FctForgotten, NoFct
  <2>2. opened' \in BOOLEAN
    BY <1>3 DEF OpenSocket
  <2> QED
    BY <1>3, <2>1, <2>2 DEF OpenSocket
<1>4. CASE PollTimeout
  <2>1. loop' \in {"receive", "close"} /\ (loop' = "receive" => error_count' < MaxErrorCount)
    BY <1>4 DEF PollTimeout, AfterErrors
  <2>2. error_count' \in 0 .. MaxErrorCount + PerMessage
    BY <1>1, <1>4 DEF PollTimeout
  <2>3. faults' \in 0 .. MaxFaults
    BY <1>1, <1>4 DEF PollTimeout
  <2> QED
    BY <1>4, <2>1, <2>2, <2>3 DEF PollTimeout
<1>5. CASE Discontinuity
  BY <1>2, <1>5 DEF Discontinuity, Discarded
<1>6. CASE PushDone
  BY <1>1, <1>6 DEF PushDone, AfterErrors
<1>7. CASE Backoff
  BY <1>2, <1>7 DEF Backoff
<1>8. CASE JoinSender
  BY <1>8 DEF JoinSender
<1> QED
  BY <1>3, <1>4, <1>5, <1>6, <1>7, <1>8

LEMMA PublisherType == ConverterTypeInv /\ (Publish \/ LoseMessage) => ConverterTypeInv'
<1> SUFFICES ASSUME ConverterTypeInv, Publish \/ LoseMessage PROVE ConverterTypeInv'
  OBVIOUS
<1>1. PerMessage \in Nat \ {0} /\ FctMod \in Nat \ {0} /\ MaxFaults \in Nat
  BY ConverterAssumption
<1>2. CASE Publish
  <2>1. PICK m \in Messages :
          /\ inbox' = IF loop \in Socket THEN <<m>> ELSE inbox
          /\ faults' = IF GoodMessage(m) THEN faults ELSE faults + 1
          /\ GoodMessage(m) \/ faults < MaxFaults
    BY <1>2 DEF Publish
  <2>2. inbox' \in Seq(Messages)
    BY <2>1 DEF ConverterTypeInv
  <2>3. source' \in 0 .. FctMod - 1
    <3>1. source + PerMessage \in Nat
      BY <1>1 DEF ConverterTypeInv
    <3> QED
      BY <1>1, <1>2, <3>1 DEF Publish
  <2>4. faults' \in 0 .. MaxFaults
    BY <1>1, <2>1 DEF ConverterTypeInv
  <2>5. UNCHANGED <<loop, error_count, previous_fct, opened, all_frames, frames, senderVars>>
    BY <1>2 DEF Publish
  <2> QED
    BY <2>2, <2>3, <2>4, <2>5 DEF ConverterTypeInv, ConverterTypeOK, senderVars
<1>3. CASE LoseMessage
  <2>1. inbox' \in Seq(Messages)
    BY <1>3, EmptySeq DEF LoseMessage
  <2> QED
    <3>1. faults' \in 0 .. MaxFaults
      BY <1>1, <1>3 DEF LoseMessage, ConverterTypeInv
    <3> QED
      BY <1>3, <2>1, <3>1 DEF LoseMessage, ConverterTypeInv, ConverterTypeOK, senderVars
<1> QED
  BY <1>2, <1>3

LEMMA QueueType ==
  ConverterTypeInv /\ (PushFrame \/ StopSender \/ SenderStart \/ SenderPop \/ SendETIFrame
              \/ SkipETIFrame) => ConverterTypeInv'
<1> SUFFICES ASSUME ConverterTypeInv,
                    PushFrame \/ StopSender \/ SenderStart \/ SenderPop \/ SendETIFrame
                    \/ SkipETIFrame
             PROVE  ConverterTypeInv'
  OBVIOUS
<1>1. frames \in [elems : Seq(FrameRecord), wakeup : {FALSE}] /\ frames.elems \in Seq(FrameRecord)
      /\ MaxFaults \in Nat
  BY ConverterAssumption DEF ConverterTypeInv
<1>2. CASE PushFrame
  <2>1. Head(all_frames) \in FrameRecord /\ Tail(all_frames) \in Seq(FrameRecord)
    BY <1>2, HeadTailProperties DEF PushFrame, ConverterTypeInv
  <2>2. Append(frames.elems, Head(all_frames)) \in Seq(FrameRecord)
    BY <1>1, <2>1, AppendProperties
  <2>3. frames' \in [elems : Seq(FrameRecord), wakeup : {FALSE}]
    BY <1>1, <1>2, <2>2 DEF PushFrame, Push
  <2> QED
    BY <1>2, <2>1, <2>3 DEF PushFrame, ConverterTypeInv, ConverterTypeOK, senderVars
<1>3. CASE StopSender
  <2>1. Append(frames.elems, EmptyFrame) \in Seq(FrameRecord)
    BY <1>1, EmptyFrameType, AppendProperties
  <2>2. frames' \in [elems : Seq(FrameRecord), wakeup : {FALSE}]
    BY <1>1, <1>3, <2>1 DEF StopSender, Push
  <2> QED
    BY <1>3, <2>2 DEF StopSender, ConverterTypeInv, ConverterTypeOK
<1>4. CASE SenderStart
  BY <1>4 DEF SenderStart, ConverterTypeInv, ConverterTypeOK
<1>5. CASE SenderPop
  <2>1. frames.elems # <<>>
    BY <1>1, <1>5 DEF SenderPop, Ready
  <2>2. Head(frames.elems) \in FrameRecord /\ Tail(frames.elems) \in Seq(FrameRecord)
    BY <1>1, <2>1, HeadTailProperties
  <2>3. /\ frame' \in FrameRecord
        /\ frames' \in [elems : Seq(FrameRecord), wakeup : {FALSE}]
    BY <1>1, <1>5, <2>2 DEF SenderPop, Front, Popped
  <2>4. sender' \in {"done", "release"}
    BY <1>5 DEF SenderPop
  <2> QED
    BY <1>5, <2>3, <2>4 DEF SenderPop, ConverterTypeInv, ConverterTypeOK
<1>6. CASE SendETIFrame
  BY <1>6, EmptyFrameType DEF SendETIFrame, ConverterTypeInv, ConverterTypeOK
<1>7. CASE SkipETIFrame
  <2>1. faults' \in 0 .. MaxFaults
    BY <1>1, <1>7 DEF SkipETIFrame, ConverterTypeInv
  <2> QED
    BY <1>7, <2>1, EmptyFrameType DEF SkipETIFrame, ConverterTypeInv, ConverterTypeOK
<1> QED
  BY <1>2, <1>3, <1>4, <1>5, <1>6, <1>7

LEMMA NextType == ConverterTypeInv /\ [ConverterNext]_converterVars => ConverterTypeInv'
<1>1. ConverterTypeInv /\ UNCHANGED converterVars => ConverterTypeInv'
  BY DEF ConverterTypeInv, ConverterTypeOK, converterVars
<1> QED
  BY <1>1, ReceiveType, MainLoopType, PublisherType, QueueType
  DEF ConverterNext, MainLoop, SenderThread
-----------------------------------------------------------------------------
(* Frames in step.                                                         *)

LEMMA NextPush == ConverterPushInv /\ [ConverterNext]_converterVars => ConverterPushInv'
<1> SUFFICES ASSUME ConverterPushInv, [ConverterNext]_converterVars PROVE ConverterPushInv'
  OBVIOUS
<1>1. CASE Receive
  BY <1>1 DEF ConverterPushInv, Receive
<1>2. CASE ~Receive
  BY <1>2
  DEF ConverterPushInv, ConverterNext, MainLoop, SenderThread, converterVars, senderVars,
      Publish, LoseMessage, PollTimeout, OpenSocket, Discontinuity, Discarded,
      PushFrame, PushDone, Backoff, StopSender, JoinSender, SenderStart, SenderPop,
      SendETIFrame, SkipETIFrame
<1> QED
  BY <1>1, <1>2

LEMMA NextFct == ConverterTypeInv /\ FctInv /\ [ConverterNext]_converterVars => FctInv'
<1> SUFFICES ASSUME ConverterTypeInv, FctInv, [ConverterNext]_converterVars PROVE FctInv'
  OBVIOUS
<1>1. CASE Receive
  <2>1. PICK m \in Messages : m = Head(inbox)
    BY <1>1, HeadTailProperties DEF ConverterTypeInv, Receive
  <2>2. /\ loop = "receive"
        /\ previous_fct' = IF m.valid = {} THEN previous_fct ELSE FctOf(m, NumValid(m))
        /\ opened' = (opened /\ m.valid = {})
    BY <1>1, <2>1 DEF Receive
  <2>3. m.valid # {} => FctOf(m, NumValid(m)) # NoFct
    <3>1. /\ NumValid(m) \in 0 .. PerMessage /\ (m.valid = {} <=> NumValid(m) = 0)
          /\ \A k \in 1 .. NumValid(m) : FctOf(m, k) \in 0 .. FctMod - 1
      BY MessageFacts
    <3>2. m.valid # {} => NumValid(m) \in 1 .. NumValid(m)
      BY <3>1, ConverterAssumption
    <3> QED
      BY <3>1, <3>2 DEF NoFct
  <2> QED
    BY <2>2, <2>3 DEF FctInv, Socket
<1>2. CASE ~Receive
  BY <1>2
  DEF FctInv, Socket, ConverterNext, MainLoop, SenderThread, converterVars, senderVars,
      Publish, LoseMessage, PollTimeout, AfterErrors, OpenSocket, Discontinuity,
      Discarded, PushFrame, PushDone, Backoff, StopSender, JoinSender, SenderStart,
      SenderPop, SendETIFrame, SkipETIFrame
<1> QED
  BY <1>1, <1>2

LineInv == EndInv /\ InStep(ConverterLine)

\* The step leaves what the next message is compared with, or the loop does
\* not compare.
Comparing == loop \in Socket /\ ~opened
SameEnd == Comparing' => Comparing /\ previous_fct' = previous_fct

LEMMA SameLine ==
  ASSUME LineInv, ConverterLine' = ConverterLine, SameEnd
  PROVE  LineInv'
<1>1. ConverterLine # <<>> =>
        /\ ConverterLine[Len(ConverterLine)].left = 0
        /\ Comparing => ConverterLine[Len(ConverterLine)].fct = previous_fct
  BY DEF LineInv, EndInv, Comparing
<1>2. ConverterLine' # <<>> =>
        /\ ConverterLine'[Len(ConverterLine')].left = 0
        /\ Comparing' => ConverterLine'[Len(ConverterLine')].fct = previous_fct'
  BY <1>1 DEF SameEnd
<1>3. InStep(ConverterLine')
  BY DEF LineInv
<1>4. EndInv'
  BY <1>2 DEF EndInv, Comparing
<1> QED
  BY <1>3, <1>4 DEF LineInv, InStep

LEMMA ShorterLine ==
  ASSUME LineInv, ConverterLine \in Seq(FrameRecord), ConverterLine # <<>>, ConverterLine' = Tail(ConverterLine), SameEnd
  PROVE  LineInv'
<1>1. /\ InStep(Tail(ConverterLine))
      /\ Tail(ConverterLine) # <<>> => Tail(ConverterLine)[Len(Tail(ConverterLine))] = ConverterLine[Len(ConverterLine)]
  BY TailInStep DEF LineInv
<1>2. /\ ConverterLine[Len(ConverterLine)].left = 0
      /\ Comparing => ConverterLine[Len(ConverterLine)].fct = previous_fct
  BY DEF LineInv, EndInv, Comparing
<1>3. ConverterLine' # <<>> =>
        /\ ConverterLine'[Len(ConverterLine')].left = 0
        /\ Comparing' => ConverterLine'[Len(ConverterLine')].fct = previous_fct'
  BY <1>1, <1>2 DEF SameEnd
<1>4. EndInv'
  BY <1>3 DEF EndInv, Comparing
<1> QED
  BY <1>1, <1>4 DEF LineInv, InStep

\* The steps that are neither a message received nor the end of the sender.
LEMMA LineSteps ==
  ASSUME ConverterTypeInv, ConverterPushInv, [ConverterNext]_converterVars, ~Receive, ~StopSender
  PROVE  /\ SameEnd
         /\ ConverterLine' = ConverterLine \/ (ConverterLine # <<>> /\ ConverterLine' = Tail(ConverterLine))
<1>1. SameEnd
  BY DEF SameEnd, Comparing, Socket, ConverterNext, MainLoop, SenderThread,
         converterVars, senderVars, Publish, LoseMessage, PollTimeout, AfterErrors,
         OpenSocket, Discontinuity, Discarded, PushFrame, PushDone, Backoff,
         JoinSender, SenderStart, SenderPop, SendETIFrame, SkipETIFrame
<1>2. /\ frames.elems \in Seq(FrameRecord) /\ all_frames \in Seq(FrameRecord)
      /\ frame \in FrameRecord /\ InHand \in Seq(FrameRecord) /\ frames.wakeup = FALSE
      /\ frames \in [elems : Seq(FrameRecord), wakeup : {FALSE}]
  BY LineType DEF ConverterTypeInv
<1>3. CASE PushFrame
  <2>1. /\ all_frames # <<>> /\ all_frames' = Tail(all_frames)
        /\ frames' = Push(frames, Head(all_frames))
        /\ UNCHANGED <<sender, frame>>
    BY <1>3 DEF PushFrame, senderVars
  <2>2. frames'.elems = Append(frames.elems, Head(all_frames))
    BY <1>2, <2>1 DEF Push
  <2>3. InHand' = InHand
    BY <2>1 DEF InHand
  <2>4. (InHand \o Append(frames.elems, Head(all_frames))) \o Tail(all_frames)
          = (InHand \o frames.elems) \o all_frames
    BY <1>2, <2>1, MoveFrame
  <2>5. ConverterLine' = (InHand \o Append(frames.elems, Head(all_frames))) \o Tail(all_frames)
    BY <2>1, <2>2, <2>3 DEF ConverterLine
  <2>6. ConverterLine' = ConverterLine
    BY <2>4, <2>5 DEF ConverterLine
  <2> QED
    BY <1>1, <2>6
<1>4. CASE SenderPop
  <2>1. frames.elems # <<>>
    BY <1>2, <1>4 DEF SenderPop, Ready
  <2>2. /\ frame' = Head(frames.elems) /\ frames'.elems = Tail(frames.elems)
        /\ all_frames' = all_frames /\ InHand = <<>>
    BY <1>2, <1>4 DEF SenderPop, Front, Popped, InHand
  <2>3. InHand' \in {<<>>, <<Head(frames.elems)>>}
    BY <2>2 DEF InHand
  <2>4. /\ (<<Head(frames.elems)>> \o Tail(frames.elems)) \o all_frames
             = (<<>> \o frames.elems) \o all_frames
        /\ (<<>> \o Tail(frames.elems)) \o all_frames
             = Tail((<<>> \o frames.elems) \o all_frames)
        /\ (<<>> \o frames.elems) \o all_frames # <<>>
    BY <1>2, <2>1, TakeFrame
  <2>5. ConverterLine = (<<>> \o frames.elems) \o all_frames
    BY <2>2 DEF ConverterLine
  <2>6. CASE InHand' = <<>>
    <3>1. ConverterLine' = (<<>> \o Tail(frames.elems)) \o all_frames
      BY <2>2, <2>6 DEF ConverterLine
    <3>2. ConverterLine # <<>> /\ ConverterLine' = Tail(ConverterLine)
      BY <2>4, <2>5, <3>1
    <3> QED
      BY <1>1, <3>2
  <2>7. CASE InHand' = <<Head(frames.elems)>>
    <3>1. ConverterLine' = (<<Head(frames.elems)>> \o Tail(frames.elems)) \o all_frames
      BY <2>2, <2>7 DEF ConverterLine
    <3>2. ConverterLine' = ConverterLine
      BY <2>4, <2>5, <3>1
    <3> QED
      BY <1>1, <3>2
  <2> QED
    BY <2>3, <2>6, <2>7
<1>5. CASE SendETIFrame \/ SkipETIFrame
  <2>1. /\ InHand = <<frame>> /\ InHand' = <<>>
        /\ frames' = frames /\ all_frames' = all_frames
    BY <1>5 DEF SendETIFrame, SkipETIFrame, InHand
  <2>2. /\ (<<>> \o frames.elems) \o all_frames = Tail((<<frame>> \o frames.elems) \o all_frames)
        /\ (<<frame>> \o frames.elems) \o all_frames # <<>>
    BY <1>2, DropFrame
  <2>3. /\ ConverterLine = (<<frame>> \o frames.elems) \o all_frames
        /\ ConverterLine' = (<<>> \o frames.elems) \o all_frames
    BY <2>1 DEF ConverterLine
  <2> QED
    BY <1>1, <2>2, <2>3
<1>6. CASE ~(PushFrame \/ SenderPop \/ SendETIFrame \/ SkipETIFrame)
  <2>1. UNCHANGED <<frames, all_frames>> /\ InHand' = InHand
    BY <1>6
    DEF ConverterPushInv, InHand, ConverterNext, MainLoop, SenderThread, converterVars, senderVars,
        Publish, LoseMessage, PollTimeout, OpenSocket, Discontinuity, Discarded,
        PushDone, Backoff, JoinSender, SenderStart
  <2>2. ConverterLine' = ConverterLine
    BY <2>1 DEF ConverterLine
  <2> QED
    BY <1>1, <2>2
<1> QED
  BY <1>3, <1>4, <1>5, <1>6

\* With nothing on its way to the queue the line ends with the queue.
LEMMA ShortLine ==
  ASSUME ConverterTypeInv, all_frames = <<>>
  PROVE  InHand \o frames.elems \in Seq(FrameRecord) /\ ConverterLine = InHand \o frames.elems
<1>1. InHand \in Seq(FrameRecord) /\ frames.elems \in Seq(FrameRecord)
  BY LineType DEF ConverterTypeInv
<1>2. InHand \o frames.elems \in Seq(FrameRecord)
  BY <1>1, ConcatProperties
<1> QED
  BY <1>2, ConcatEmptySeq DEF ConverterLine

LEMMA ReceiveLine ==
  ASSUME ConverterTypeInv, ConverterPushInv, FctInv, LineInv, Receive
  PROVE  LineInv'
<1>1. PICK m \in Messages : m = Head(inbox)
  BY HeadTailProperties DEF ConverterTypeInv, Receive
<1>2. /\ loop = "receive" /\ FollowsOn(m)
      /\ loop' = AfterMetadata(m)
      /\ all_frames' = IF AfterMetadata(m) = "push" THEN FramesOf(m) ELSE <<>>
      /\ previous_fct' = IF m.valid = {} THEN previous_fct ELSE FctOf(m, NumValid(m))
      /\ opened' = (opened /\ m.valid = {})
  BY <1>1 DEF Receive
<1>3. UNCHANGED <<frames, sender, frame>>
  BY DEF Receive, senderVars
<1>4. all_frames = <<>>
  BY <1>2 DEF ConverterPushInv
<1> DEFINE l == InHand \o frames.elems
           t == FramesOf(m)
           n == NumValid(m)
<1>5. l \in Seq(FrameRecord) /\ ConverterLine = l
  BY <1>4, ShortLine
<1>6. ConverterLine' = l \o all_frames'
  BY <1>3 DEF ConverterLine, InHand
<1>7. n \in Nat /\ (m.valid = {} <=> n = 0)
  BY MessageFacts, ConverterAssumption
<1>8. opened \in BOOLEAN
  BY DEF ConverterTypeInv
<1>9. /\ t \in Seq(FrameRecord) /\ Len(t) = n /\ InStep(t)
      /\ n > 0 => /\ t[n].left = 0 /\ t[n].fct = FctOf(m, n) /\ t[1].first = opened
                  /\ previous_fct # NoFct => t[1].fct = (previous_fct + 1) % FctMod
  BY <1>2, <1>8, FramesOfFacts
<1>10. CASE AfterMetadata(m) = "push" /\ n > 0
  <2>1. t # <<>>
    BY <1>9, <1>10, EmptySeq
  <2>2. l # <<>> => Follows(l[Len(l)], t[1])
    <3> SUFFICES ASSUME l # <<>> PROVE Follows(l[Len(l)], t[1])
      OBVIOUS
    <3>1. l[Len(l)].left = 0 /\ (~opened => l[Len(l)].fct = previous_fct)
      BY <1>2, <1>5 DEF LineInv, EndInv, Socket
    <3>2. ~opened => previous_fct # NoFct
      BY <1>2 DEF FctInv, Socket
    <3> HIDE DEF l, t
    <3> QED
      BY <1>9, <1>10, <3>1, <3>2 DEF Follows
  <2>3. /\ InStep(l \o t) /\ l \o t # <<>> /\ (l \o t)[Len(l \o t)] = t[Len(t)]
    <3>1. InStep(l)
      BY <1>5 DEF LineInv
    <3> HIDE DEF l, t
    <3> QED
      BY <1>5, <1>9, <2>1, <2>2, <3>1, LongerInStep
  <2>4. ConverterLine' = l \o t
    BY <1>2, <1>6, <1>10
  <2>5. previous_fct' = FctOf(m, n)
    BY <1>2, <1>7, <1>10
  <2> HIDE DEF l, t, n
  <2>6. EndInv'
    <3>1. ConverterLine'[Len(ConverterLine')].left = 0 /\ ConverterLine'[Len(ConverterLine')].fct = previous_fct'
      BY <1>9, <1>10, <2>3, <2>4, <2>5
    <3> QED
      BY <3>1 DEF EndInv
  <2> QED
    BY <2>3, <2>4, <2>6 DEF LineInv, InStep
<1>11. CASE ~(AfterMetadata(m) = "push" /\ n > 0)
  <2>1. all_frames' = <<>>
    <3>1. n = 0 => t = <<>>
      BY <1>9, EmptySeq
    <3> HIDE DEF t
    <3> QED
      BY <1>2, <1>7, <1>11, <3>1 DEF t
  <2>2. ConverterLine' = ConverterLine
    BY <1>5, <1>6, <2>1, ConcatEmptySeq
  <2>3. SameEnd
    <3>1. CASE n = 0
      BY <1>2, <1>7, <3>1 DEF SameEnd, Comparing, Socket
    <3>2. CASE AfterMetadata(m) # "push"
      BY <1>2, <3>2 DEF SameEnd, Comparing, Socket, AfterMetadata
    <3> QED
      BY <1>7, <1>11, <3>1, <3>2
  <2> QED
    BY <2>2, <2>3, SameLine
<1> QED
  BY <1>10, <1>11

LEMMA StopLine ==
  ASSUME ConverterTypeInv, ConverterPushInv, LineInv, StopSender
  PROVE  LineInv'
<1>1. /\ all_frames = <<>> /\ all_frames' = <<>> /\ loop' = "join"
      /\ UNCHANGED <<sender, frame>> /\ frames' = Push(frames, EmptyFrame)
  BY DEF StopSender, ConverterPushInv
<1>2. /\ InHand \in Seq(FrameRecord) /\ frames.elems \in Seq(FrameRecord)
      /\ frames \in [elems : Seq(FrameRecord), wakeup : {FALSE}]
  BY LineType DEF ConverterTypeInv
<1> DEFINE l == InHand \o frames.elems
           t == <<EmptyFrame>>
<1>3. l \in Seq(FrameRecord) /\ ConverterLine = l
  BY <1>1, ShortLine
<1>4. t \in Seq(FrameRecord) /\ t # <<>> /\ Len(t) = 1 /\ t[1] = EmptyFrame
  BY EmptyFrameType
<1>5. ConverterLine' = l \o t
  <2>1. frames'.elems = Append(frames.elems, EmptyFrame) /\ InHand' = InHand
    BY <1>1, <1>2 DEF Push, InHand
  <2>2. Append(frames.elems, EmptyFrame) = frames.elems \o t
    BY <1>2, EmptyFrameType, AppendIsConcat
  <2>3. InHand \o (frames.elems \o t) = l \o t
    BY <1>2, <1>4, ConcatAssociative
  <2>4. l \o t \in Seq(FrameRecord)
    BY <1>3, <1>4, ConcatProperties
  <2>5. ConverterLine' = (l \o t) \o <<>>
    BY <1>1, <2>1, <2>2, <2>3 DEF ConverterLine
  <2> QED
    BY <2>4, <2>5, ConcatEmptySeq
<1>6. InStep(t) /\ \A a : Follows(a, t[1])
  BY <1>4 DEF InStep, Follows
<1>7. InStep(l)
  BY <1>3 DEF LineInv
<1> HIDE DEF l, t
<1>8. /\ InStep(l \o t) /\ (l \o t)[Len(l \o t)] = t[Len(t)]
  BY <1>3, <1>4, <1>6, <1>7, LongerInStep
<1>9. ConverterLine'[Len(ConverterLine')].left = 0
  BY <1>4, <1>5, <1>8 DEF EmptyFrame
<1>10. EndInv'
  BY <1>1, <1>9 DEF EndInv, Socket
<1> QED
  BY <1>5, <1>8, <1>10 DEF LineInv, InStep

LEMMA NextInv == ConverterInv /\ [ConverterNext]_converterVars => ConverterInv'
<1> SUFFICES ASSUME ConverterInv, [ConverterNext]_converterVars PROVE ConverterInv'
  OBVIOUS
<1>1. ConverterTypeInv /\ ConverterPushInv /\ FctInv /\ LineInv
  BY DEF ConverterInv, LineInv
<1>2. LineInv'
  <2>1. CASE Receive
    BY <1>1, <2>1, ReceiveLine
  <2>2. CASE StopSender
    BY <1>1, <2>2, StopLine
  <2>3. CASE ~Receive /\ ~StopSender
    <3>1. ConverterLine \in Seq(FrameRecord)
      BY <1>1, LineType
    <3> QED
      BY <1>1, <2>3, <3>1, LineSteps, SameLine, ShorterLine
  <2> QED
    BY <2>1, <2>2, <2>3
<1> QED
  BY <1>1, <1>2, NextType, NextPush, NextFct DEF ConverterInv, LineInv, InStep

LEMMA ConverterInitInv == ConverterInit => ConverterInv
<1> SUFFICES ASSUME ConverterInit PROVE ConverterInv
  OBVIOUS
<1>1. <<>> \in Seq(Messages) /\ <<>> \in Seq(FrameRecord) /\ Len(<<>>) = 0
  BY EmptySeq
<1>2. ConverterTypeInv
  <2>1. ConverterTypeOK
    BY ConverterAssumption DEF ConverterInit, ConverterTypeOK, NoFct
  <2>2. opened \in BOOLEAN /\ sender_running \in BOOLEAN
    BY DEF ConverterInit
  <2>3. frames \in [elems : Seq(FrameRecord), wakeup : {FALSE}]
    BY <1>1 DEF ConverterInit, EmptyQueue
  <2>4. source \in 0 .. FctMod - 1 /\ faults \in 0 .. MaxFaults
    BY ConverterAssumption DEF ConverterInit
  <2>5. inbox \in Seq(Messages) /\ all_frames \in Seq(FrameRecord) /\ frame \in FrameRecord
    BY <1>1, EmptyFrameType DEF ConverterInit
  <2> QED
    BY <2>1, <2>2, <2>3, <2>4, <2>5 DEF ConverterTypeInv
<1>3. ConverterLine = <<>>
  BY <1>1, ConcatEmptySeq DEF ConverterInit, ConverterLine, InHand, EmptyQueue
<1>4. ConverterPushInv /\ FctInv
  BY DEF ConverterInit, ConverterPushInv, FctInv, Socket
<1> QED
  BY <1>1, <1>2, <1>3, <1>4 DEF ConverterInv, EndInv, InStep

\* The inductive invariant of the converter holds in every reachable state.
LEMMA InvIsInvariant == ConverterSpec => []ConverterInv
BY ConverterInitInv, NextInv, PTL DEF ConverterSpec

\* The main loop, its error counter and the frame counter stay in range for
\* every message the publisher may send (zmq/main.cpp).
THEOREM ConverterTypeCorrect == ConverterSpec => []ConverterTypeOK
<1>1. ConverterInv => ConverterTypeOK
  BY DEF ConverterInv, ConverterTypeInv
<1> QED
  BY <1>1, InvIsInvariant, PTL

\* Between the ZeroMQ input and the output no frame of a message is separated
\* from the rest of it, and none follows another that it does not continue
\* unless the socket was reopened between them (zmq/main.cpp, zmq/Sender.cpp).
THEOREM FramesAreInStep == ConverterSpec => []FramesInStep
<1>1. ConverterInv => FramesInStep
  BY DEF ConverterInv, InStep, ConverterLine, InHand, Follows, FramesInStep
<1> QED
  BY <1>1, InvIsInvariant, PTL
-----------------------------------------------------------------------------
(* The three parts together.                                               *)

(* Every behaviour of MCOutputs is one of each part: the parts share no    *)
(* variable (each output of edi2edi and the converter have a queue, a      *)
(* mutex and threads of their own), so what a part promises alone it       *)
(* promises beside the others.                                             *)
THEOREM PartsAreIndependent == Spec => DispatcherSpec /\ ClientSpec /\ ConverterSpec
<1>1. Init => DispatcherInit /\ ClientInit /\ ConverterInit
  BY DEF Init
<1>2. [Next]_outputVars => [DispatcherNext]_dispatcherVars
  BY DEF Next, Server, Client, Converter, outputVars
<1>3. [Next]_outputVars => [ClientNext]_clientVars
  BY DEF Next, Server, Client, Converter, outputVars
<1>4. [Next]_outputVars => [ConverterNext]_converterVars
  BY DEF Next, Server, Client, Converter, outputVars
<1> QED
  BY <1>1, <1>2, <1>3, <1>4, PTL DEF Spec, DispatcherSpec, ClientSpec, ConverterSpec

(* The variables of the three outputs keep their types, among them the     *)
(* bounds of the queues and of the open sockets.                           *)
THEOREM TypeCorrect == Spec => []TypeOK
<1>1. DispatcherTypeOK /\ ClientTypeOK /\ ConverterTypeOK => TypeOK
  BY DEF TypeOK
<1> QED
  BY <1>1, PartsAreIndependent, ServerTypeCorrect, ClientTypeCorrect, ConverterTypeCorrect, PTL
=============================================================================
