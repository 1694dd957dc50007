------------------------------ MODULE MCOutputs -----------------------------
(***************************************************************************)
(* The threads behind a ThreadsafeQueue that are not in EDISender: the TCP *)
(* server output, the TCP client output, and the Sender of                 *)
(* digris-zmq-converter with its main loop.  They share the queue's code   *)
(* and no state; each behaviour is one of the three.                       *)
(***************************************************************************)
EXTENDS TCPDispatcher, TCPSendClient, ZMQConverter

VARIABLE output   \* the part that is looked at

outputVars == <<output, dispatcherVars, clientVars, converterVars>>

Init ==
  /\ output \in {"server", "client", "converter"}
  /\ DispatcherInit /\ ClientInit /\ ConverterInit
  /\ output /= "client" => accepting      \* one initial state of what does not run

Server ==
  output = "server" /\ DispatcherNext /\ UNCHANGED <<output, clientVars, converterVars>>
Client ==
  output = "client" /\ ClientNext /\ UNCHANGED <<output, dispatcherVars, converterVars>>
Converter ==
  output = "converter" /\ ConverterNext /\ UNCHANGED <<output, dispatcherVars, clientVars>>

Next == Server \/ Client \/ Converter

(* Each thread goes on while it can.  No client of the server has to read, *)
(* so nothing ends a blocking send to one, and nobody has to write or to   *)
(* destroy the server; a peer that keeps reading lets the client's send    *)
(* finish; the publisher publishes.                                        *)
Fairness ==
  /\ WF_dispatcherVars(output = "server" /\ OwnerOwn)
  /\ WF_dispatcherVars(output = "server" /\ (ListenerLoop \/ AcceptTimeout \/ AddBegin \/ AddEnd))
  /\ \A c \in Clients : WF_dispatcherVars(output = "server" /\ SenderOwn(c))
  /\ WF_clientVars(output = "client" /\ ClientThread)
  /\ WF_clientVars(output = "client" /\ ClientCaller)
  /\ SF_clientVars(output = "client" /\ ClientSend)
  /\ WF_converterVars(output = "converter" /\ MainLoop)
  /\ WF_converterVars(output = "converter" /\ SenderThread)
  /\ WF_converterVars(output = "converter" /\ Publish)

Spec == Init /\ [][Next]_outputVars /\ Fairness

(* The variables of the three parts have their types.                      *)
TypeOK == DispatcherTypeOK /\ ClientTypeOK /\ ConverterTypeOK
=============================================================================
