------------------------- MODULE InputSelect_proofs -------------------------
(***************************************************************************)
(* The safety properties of InputSelect, proved for every number of        *)
(* inputs, every delay and score, and any number of requests.              *)
(***************************************************************************)
EXTENDS InputSelect, NumberFacts

\* What poll() reported is consumed before the loop goes on, a reported input
\* keeps its socket until it is handled, and a reported request is within the
\* bound.
ReportInv ==
  /\ ready \subseteq open
  /\ pc \in {"select", "tick", "poll"} => ready = {}
  /\ rc => commands < MaxCommands

\* OneActive without Cardinality.
AtMostOne == mode = "switching" => \A i, j \in active : i = j

\* From the choice of the active inputs to the next request they are enabled.
SelectedInv == pc \in {"tick", "poll"} => active \subseteq enabled

\* Sockets are those of active inputs from tick() on.
SocketInv == pc \in {"poll", "handle"} => open \subseteq active

Inv ==
  /\ TypeOK /\ ReportInv /\ AtMostOne /\ SelectedInv /\ SocketInv
  /\ DecoderPerConnection
-----------------------------------------------------------------------------
(* The operators that choose an input.                                     *)

\* First(S) is an element of S.
LEMMA FirstIn ==
  ASSUME NEW S, S \subseteq Inputs, S # {}
  PROVE  First(S) \in S
<1>1. S \subseteq Nat
  BY InputConstantsAssumption DEF Inputs
<1>2. \E i \in S : \A j \in S : i <= j
  BY <1>1, Minimum
<1> QED
  BY <1>2 DEF First

\* The rotation finds an enabled input other than i, if there is one.
LEMMA NextEnabledIn ==
  ASSUME TypeOK, NEW i \in Inputs, enabled \ {i} # {}
  PROVE  NextEnabled(i) \in enabled \ {i}
<1> DEFINE E == enabled \ {i}
           D == {Distance(i, k) : k \in E}
<1>1. ASSUME NEW k \in Inputs
      PROVE  Distance(i, k) \in Nat
  BY InputConstantsAssumption DEF Distance, Inputs
<1>2. E \subseteq Inputs
  BY DEF TypeOK
<1>3. D \subseteq Nat
  BY <1>1, <1>2
<1>4. D # {}
  OBVIOUS
<1> HIDE DEF D
<1>5. PICK d \in D : \A e \in D : d <= e
  BY <1>3, <1>4, Minimum
<1> USE DEF D
<1>6. PICK j \in E : d = Distance(i, j)
  OBVIOUS
<1>7. \A k \in E : Distance(i, j) <= Distance(i, k)
  BY <1>5, <1>6
<1>8. \E j2 \in E : \A k \in E : Distance(i, j2) <= Distance(i, k)
  BY <1>7
<1> QED
  BY <1>8 DEF NextEnabled

\* EnsureOneActive leaves at most one input active, and an enabled one.
LEMMA EnsureOneActiveFacts ==
  ASSUME NEW act, NEW en, act \subseteq Inputs, en \subseteq Inputs,
         \A i, j \in act : i = j, act \subseteq en
  PROVE  /\ EnsureOneActive(act, en) \subseteq en
         /\ \A i, j \in EnsureOneActive(act, en) : i = j
<1>1. CASE act = {} /\ en # {}
  BY <1>1, FirstIn DEF EnsureOneActive
<1>2. CASE ~(act = {} /\ en # {})
  BY <1>2 DEF EnsureOneActive
<1> QED
  BY <1>1, <1>2
-----------------------------------------------------------------------------
LEMMA InitInv == Init => Inv
<1> SUFFICES ASSUME Init PROVE Inv
  OBVIOUS
<1> USE InputConstantsAssumption
<1>1. active \subseteq enabled /\ AtMostOne
  <2>1. CASE mode = "switching"
    <3>1. {} \subseteq Inputs /\ enabled \subseteq Inputs
      BY DEF Init
    <3>2. active = EnsureOneActive({}, enabled)
      BY <2>1 DEF Init
    <3> QED
      BY <3>1, <3>2, EnsureOneActiveFacts DEF AtMostOne
  <2>2. CASE mode # "switching"
    BY <2>2 DEF Init, AtMostOne
  <2> QED
    BY <2>1, <2>2
<1>2. TypeOK
  <2>1. age \in [Inputs -> 0 .. SwitchDelay + 1]
    BY DEF Init
  <2>2. wait \in [Inputs -> -MaxDebt .. ReconnectDelay]
    <3>1. -1 \in -MaxDebt .. ReconnectDelay
      OBVIOUS
    <3> QED
      BY <3>1 DEF Init
  <2>3. progress \in [Inputs -> 0 .. Chunks - 1]
    BY DEF Init
  <2>4. commands \in 0 .. MaxCommands /\ lateScore \in 0 .. LateMax
    BY DEF Init
  <2>5. active \subseteq Inputs
    BY <1>1 DEF Init
  <2> QED
    BY <2>1, <2>2, <2>3, <2>4, <2>5 DEF Init, TypeOK
<1>3. DecoderPerConnection
  BY DEF Init, DecoderPerConnection
<1>4. ReportInv /\ SelectedInv /\ SocketInv
  BY DEF Init, ReportInv, SelectedInv, SocketInv
<1> QED
  BY <1>1, <1>2, <1>3, <1>4 DEF Inv

\* A choice of enabled inputs, of at most one in switching mode.
LEMMA ActivateInv ==
  ASSUME Inv, NEW act, Activate(act), pc = "select", act \subseteq enabled,
         mode = "switching" => \A i, j \in act : i = j
  PROVE  Inv'
<1> USE DEF Activate, output
<1>1. TypeOK'
  BY DEF Inv, TypeOK
<1>2. ReportInv'
  BY DEF Inv, ReportInv
<1>3. AtMostOne' /\ SelectedInv' /\ SocketInv'
  BY DEF Inv, AtMostOne, SelectedInv, SocketInv
<1>4. DecoderPerConnection'
  BY DEF Inv, DecoderPerConnection
<1> QED
  BY <1>1, <1>2, <1>3, <1>4 DEF Inv

LEMMA SelectInv ==
  ASSUME Inv, Select
  PROVE  Inv'
<1> DEFINE f == First(active)
<1>1. active \subseteq Inputs /\ enabled \subseteq Inputs
  BY DEF Inv, TypeOK
<1>2. active # {} => f \in active
  BY <1>1, FirstIn
<1>3. mode = "switching" /\ active # {} => active = {f}
  BY <1>2 DEF Inv, AtMostOne
<1> HIDE DEF f
<1>4. CASE SelectStay
  <2>1. pc = "select" /\ mode = "switching" /\ Activate(active)
    BY <1>4 DEF SelectStay
  <2>2. active \subseteq enabled
    BY <1>3, <1>4 DEF SelectStay, MustSwitch, f
  <2> QED
    BY <2>1, <2>2, ActivateInv DEF Inv, AtMostOne
<1>5. CASE SelectNext
  <2>1. /\ pc = "select" /\ mode = "switching" /\ active # {}
        /\ enabled \ {f} # {} /\ Activate(Switched(f))
    BY <1>5 DEF SelectNext, f
  <2>2. NextEnabled(f) \in enabled
    <3>1. f \in Inputs /\ TypeOK
      BY <1>1, <1>2, <2>1 DEF Inv
    <3> QED
      BY <2>1, <3>1, NextEnabledIn
  <2>3. Switched(f) = {NextEnabled(f)}
    BY <1>3, <2>1 DEF Switched
  <2> QED
    BY <2>1, <2>2, <2>3, ActivateInv
<1>6. CASE SelectOnly
  <2> DEFINE kept == IF f \in enabled THEN active ELSE active \ {f}
  <2>1. /\ pc = "select" /\ mode = "switching" /\ active # {}
        /\ Activate(EnsureOneActive(kept, enabled))
    BY <1>6 DEF SelectOnly, f
  <2>2. /\ kept \subseteq enabled /\ kept \subseteq Inputs
        /\ \A i, j \in kept : i = j
    BY <1>1, <1>3, <2>1
  <2> HIDE DEF kept
  <2>3. /\ EnsureOneActive(kept, enabled) \subseteq enabled
        /\ \A i, j \in EnsureOneActive(kept, enabled) : i = j
    BY <1>1, <2>2, EnsureOneActiveFacts
  <2> QED
    BY <2>1, <2>3, ActivateInv
<1>7. CASE SelectEnabled
  BY <1>7, ActivateInv DEF SelectEnabled
<1> QED
  BY <1>4, <1>5, <1>6, <1>7 DEF Select

LEMMA TickInv ==
  ASSUME Inv, Tick
  PROVE  Inv'
<1> USE InputConstantsAssumption
<1> DEFINE closing == open \ active
           attempts == {i \in active \ open : Due(i)}
<1>1. /\ pc = "tick" /\ pc' = "poll" /\ waited' = FALSE
      /\ UNCHANGED <<mode, running, ready, rc, commands, enabled, active, age,
                     output, up>>
      /\ wait' = [i \in Inputs |-> IF i \in attempts
                                   THEN wait[i] + ReconnectDelay ELSE wait[i]]
      /\ connected' = connected \ closing
      /\ progress' = DiscardDecoders(closing)
  BY DEF Tick
<1>2. PICK failed \in SUBSET (attempts \ up) :
        open' = (open \ closing) \cup (attempts \ failed)
  BY DEF Tick
<1>3. open \ closing \subseteq open' /\ open' \subseteq active
  BY <1>2
<1>4. TypeOK'
  <2>1. ASSUME NEW i \in Inputs
        PROVE  wait'[i] \in -MaxDebt .. ReconnectDelay
    <3>1. wait[i] \in -MaxDebt .. ReconnectDelay
      BY DEF Inv, TypeOK
    <3>2. CASE i \in attempts
      BY <1>1, <3>1, <3>2 DEF Due
    <3>3. CASE i \notin attempts
      BY <1>1, <3>1, <3>3
    <3> QED
      BY <3>2, <3>3
  <2>2. wait' \in [Inputs -> -MaxDebt .. ReconnectDelay]
    BY <1>1, <2>1
  <2>3. progress' \in [Inputs -> 0 .. Chunks - 1]
    BY <1>1 DEF Inv, TypeOK, DiscardDecoders
  <2>4. open' \subseteq Inputs /\ connected' \subseteq Inputs
    BY <1>1, <1>3 DEF Inv, TypeOK
  <2> HIDE DEF closing, attempts
  <2> QED
    BY <1>1, <2>2, <2>3, <2>4 DEF Inv, TypeOK, output
<1>5. ReportInv'
  BY <1>1 DEF Inv, ReportInv
<1>6. AtMostOne' /\ SelectedInv' /\ SocketInv'
  BY <1>1, <1>3 DEF Inv, AtMostOne, SelectedInv, SocketInv
<1>7. DecoderPerConnection'
  <2>1. ASSUME NEW i \in Inputs, progress'[i] # 0 \/ i \in connected'
        PROVE  i \in open'
    <3>1. i \notin closing /\ (progress[i] # 0 \/ i \in connected)
      BY <1>1, <2>1 DEF DiscardDecoders
    <3>2. i \in open
      BY <3>1 DEF Inv, DecoderPerConnection
    <3> QED
      BY <3>1, <3>2, <1>3
  <2> QED
    BY <2>1 DEF DecoderPerConnection
<1> QED
  BY <1>4, <1>5, <1>6, <1>7 DEF Inv

LEMMA ClockInv ==
  ASSUME Inv, Clock
  PROVE  Inv'
<1> USE InputConstantsAssumption
<1>1. TypeOK'
  <2>1. age' \in [Inputs -> 0 .. SwitchDelay + 1]
    BY DEF Clock, Inv, TypeOK, Older
  <2>2. wait' \in [Inputs -> -MaxDebt .. ReconnectDelay]
    BY DEF Clock, Inv, TypeOK
  <2> QED
    BY <2>1, <2>2 DEF Clock, Inv, TypeOK, output
<1>2. ReportInv' /\ AtMostOne' /\ SelectedInv' /\ SocketInv'
  BY DEF Clock, Inv, ReportInv, AtMostOne, SelectedInv, SocketInv
<1>3. DecoderPerConnection'
  BY DEF Clock, Inv, DecoderPerConnection
<1> QED
  BY <1>1, <1>2, <1>3 DEF Inv

\* poll() returns.
LEMMA PollInv ==
  ASSUME Inv, Poll
  PROVE  Inv'
<1> USE DEF sources, output
<1>1. CASE PollTimeout
  <2>1. TypeOK'
    BY <1>1 DEF PollTimeout, Inv, TypeOK
  <2>2. ReportInv' /\ AtMostOne' /\ SelectedInv' /\ SocketInv'
    BY <1>1 DEF PollTimeout, Inv, ReportInv, AtMostOne, SelectedInv, SocketInv
  <2>3. DecoderPerConnection'
    BY <1>1 DEF PollTimeout, Inv, DecoderPerConnection
  <2> QED
    BY <2>1, <2>2, <2>3 DEF Inv
<1>2. ASSUME NEW R \in SUBSET Inputs, NEW request \in BOOLEAN,
             PollReady(R, request)
      PROVE  Inv'
  <2>1. TypeOK'
    BY <1>2 DEF PollReady, Inv, TypeOK
  <2>2. ReportInv' /\ AtMostOne' /\ SelectedInv' /\ SocketInv'
    BY <1>2 DEF PollReady, Inv, ReportInv, AtMostOne, SelectedInv, SocketInv
  <2>3. DecoderPerConnection'
    BY <1>2 DEF PollReady, Inv, DecoderPerConnection
  <2> QED
    BY <2>1, <2>2, <2>3 DEF Inv
<1> QED
  BY <1>1, <1>2 DEF Poll

\* The input being handled was reported and has its socket.
LEMMA HandlingFacts ==
  ASSUME Inv, NEW i \in Inputs, Handling(i)
  PROVE  i \in ready /\ i \in open /\ pc = "handle"
<1>1. ready \subseteq Inputs /\ ready # {} /\ i = First(ready) /\ pc = "handle"
  BY DEF Inv, TypeOK, Handling
<1>2. First(ready) \in ready
  BY <1>1, FirstIn
<1> QED
  BY <1>1, <1>2 DEF Inv, ReportInv

\* Data of a frame, whatever becomes of the decoder and the output.
LEMMA ReceiveDataInv ==
  ASSUME Inv, NEW i \in Inputs, Handling(i), ReceiveData(i),
         NEW p \in 0 .. Chunks - 1, progress' = [progress EXCEPT ![i] = p],
         lateScore' \in 0 .. LateMax, queued' \in BOOLEAN
  PROVE  Inv'
<1> USE InputConstantsAssumption
<1>1. i \in ready /\ i \in open /\ pc = "handle"
  BY HandlingFacts
<1>2. TypeOK'
  BY DEF ReceiveData, Inv, TypeOK
<1>3. ReportInv' /\ AtMostOne' /\ SelectedInv' /\ SocketInv'
  BY <1>1 DEF ReceiveData, Inv, ReportInv, AtMostOne, SelectedInv, SocketInv
<1>4. DecoderPerConnection'
  BY <1>1 DEF ReceiveData, Inv, TypeOK, DecoderPerConnection
<1> QED
  BY <1>2, <1>3, <1>4 DEF Inv

LEMMA ReceiveInv ==
  ASSUME Inv, NEW i \in Inputs,
         \/ ReceiveChunk(i) \/ ReceiveFrame(i)
         \/ ReceiveThrows(i) \/ ReceiveFails(i)
  PROVE  Inv'
<1> USE InputConstantsAssumption
<1>0. /\ progress \in [Inputs -> 0 .. Chunks - 1] /\ lateScore \in 0 .. LateMax
      /\ queued \in BOOLEAN
  BY DEF Inv, TypeOK
<1>1. CASE ReceiveChunk(i)
  <2>1. /\ Handling(i) /\ ReceiveData(i)
        /\ progress[i] + 1 \in 0 .. Chunks - 1
        /\ progress' = [progress EXCEPT ![i] = progress[i] + 1]
        /\ lateScore' \in 0 .. LateMax /\ queued' \in BOOLEAN
    BY <1>0, <1>1 DEF ReceiveChunk, output
  <2> QED
    BY <2>1, ReceiveDataInv
<1>2. CASE ReceiveFrame(i)
  <2>1. lateScore' \in 0 .. LateMax /\ queued' \in BOOLEAN
    <3>1. CASE FrameAccepted
      BY <1>0, <3>1 DEF FrameAccepted
    <3>2. CASE FrameLate
      BY <1>0, <3>2 DEF FrameLate
    <3>3. CASE FrameIgnored
      BY <1>0, <3>3 DEF FrameIgnored, output
    <3> QED
      BY <1>2, <3>1, <3>2, <3>3 DEF ReceiveFrame
  <2>2. /\ Handling(i) /\ ReceiveData(i) /\ 0 \in 0 .. Chunks - 1
        /\ progress' = [progress EXCEPT ![i] = 0]
    BY <1>2 DEF ReceiveFrame
  <2> QED
    BY <2>1, <2>2, ReceiveDataInv
<1>3. CASE ReceiveThrows(i)
  <2> USE DEF sources, output
  <2>1. TypeOK'
    BY <1>3 DEF ReceiveThrows, Inv, TypeOK
  <2>2. ReportInv' /\ AtMostOne' /\ SelectedInv' /\ SocketInv'
    BY <1>3
    DEF ReceiveThrows, Inv, ReportInv, AtMostOne, SelectedInv, SocketInv
  <2>3. DecoderPerConnection'
    BY <1>3 DEF ReceiveThrows, Inv, DecoderPerConnection
  <2> QED
    BY <2>1, <2>2, <2>3 DEF Inv
<1>4. CASE ReceiveFails(i)
  <2> USE <1>4 DEF ReceiveFails, CloseConnection, output
  <2>1. i \in ready /\ i \in open /\ pc = "handle"
    BY HandlingFacts
  <2>2. TypeOK'
    BY DEF Inv, TypeOK
  <2>3. ReportInv' /\ AtMostOne' /\ SelectedInv' /\ SocketInv'
    BY <2>1 DEF Inv, ReportInv, AtMostOne, SelectedInv, SocketInv
  <2>4. DecoderPerConnection'
    BY <1>0 DEF Inv, DecoderPerConnection
  <2> QED
    BY <2>2, <2>3, <2>4 DEF Inv
<1> QED
  BY <1>1, <1>2, <1>3, <1>4

LEMMA CommandInv ==
  ASSUME Inv, NEW en \in SUBSET Inputs, NEW score \in 0 .. LateMax,
         Command(en, score)
  PROVE  Inv'
<1> USE InputConstantsAssumption DEF Command
<1>1. TypeOK'
  <2>1. commands' \in 0 .. MaxCommands
    BY DEF Inv, TypeOK, ReportInv
  <2>2. lateScore' \in 0 .. LateMax /\ rc' \in BOOLEAN /\ enabled' \subseteq Inputs
    OBVIOUS
  <2>3. UNCHANGED <<mode, pc, running, ready, waited, active, connected, open,
                    age, wait, progress, queued, up>>
    OBVIOUS
  <2> QED
    BY <2>1, <2>2, <2>3 DEF Inv, TypeOK
<1>2. ReportInv' /\ AtMostOne' /\ SelectedInv' /\ SocketInv'
  BY DEF Inv, ReportInv, AtMostOne, SelectedInv, SocketInv
<1>3. DecoderPerConnection'
  BY DEF Inv, DecoderPerConnection
<1> QED
  BY <1>1, <1>2, <1>3 DEF Inv

LEMMA RemoteControlInv ==
  ASSUME Inv, RemoteControl
  PROVE  Inv'
<1>0. enabled \in SUBSET Inputs /\ lateScore \in 0 .. LateMax /\ 0 \in 0 .. LateMax
  BY InputConstantsAssumption DEF Inv, TypeOK
<1>1. ASSUME NEW i \in Inputs, EnableInput(i)
      PROVE  Inv'
  <2>1. enabled \cup {i} \in SUBSET Inputs
    BY <1>0
  <2> QED
    BY <1>0, <1>1, <2>1, CommandInv DEF EnableInput
<1>2. ASSUME NEW i \in Inputs, DisableInput(i)
      PROVE  Inv'
  <2>1. enabled \ {i} \in SUBSET Inputs
    BY <1>0
  <2> QED
    BY <1>0, <1>2, <2>1, CommandInv DEF DisableInput
<1>3. CASE ResetCounters
  BY <1>0, <1>3, CommandInv DEF ResetCounters
<1>4. CASE OtherCommand
  BY <1>0, <1>4, CommandInv DEF OtherCommand
<1> QED
  BY <1>1, <1>2, <1>3, <1>4 DEF RemoteControl

\* The steps that leave the inputs and what poll() reported alone: the end of
\* the loop, signals, and the servers.
LEMMA LoopControlInv ==
  ASSUME Inv,
         \/ Repeat \/ PollInterrupted \/ Terminate \/ Signal
         \/ \E i \in Inputs : ServerChanges(i)
  PROVE  Inv'
<1>1. UNCHANGED <<mode, ready, rc, waited, commands, sources, output>>
  BY DEF Repeat, PollInterrupted, Terminate, Signal, ServerChanges, loop
<1>2. /\ running' \in BOOLEAN /\ up' \subseteq Inputs
      /\ pc' = pc \/ pc' = "exited" \/ (pc' = "select" /\ ready = {})
  BY DEF Repeat, PollInterrupted, Terminate, Signal, ServerChanges, loop, Inv,
         TypeOK
<1> USE <1>1, <1>2 DEF sources, output
<1>3. TypeOK'
  BY DEF Inv, TypeOK
<1>4. ReportInv' /\ AtMostOne' /\ SelectedInv' /\ SocketInv'
  BY DEF Inv, ReportInv, AtMostOne, SelectedInv, SocketInv
<1>5. DecoderPerConnection'
  BY DEF Inv, DecoderPerConnection
<1> QED
  BY <1>3, <1>4, <1>5 DEF Inv

LEMMA OutputInv ==
  ASSUME Inv, OutputInhibits \/ OutputDrains
  PROVE  Inv'
<1> USE DEF OutputInhibits, OutputDrains, loop, sources
<1>1. TypeOK'
  <2>1. lateScore' \in 0 .. LateMax
    <3>1. lateScore' = 0 \/ lateScore' = lateScore
      OBVIOUS
    <3> QED
      BY <3>1, InputConstantsAssumption DEF Inv, TypeOK
  <2>2. queued' \in BOOLEAN
    OBVIOUS
  <2>3. UNCHANGED <<mode, loop, sources, up>>
    OBVIOUS
  <2> QED
    BY <2>1, <2>2, <2>3 DEF Inv, TypeOK
<1>2. ReportInv' /\ AtMostOne' /\ SelectedInv' /\ SocketInv'
  BY DEF Inv, ReportInv, AtMostOne, SelectedInv, SocketInv
<1>3. DecoderPerConnection'
  BY DEF Inv, DecoderPerConnection
<1> QED
  BY <1>1, <1>2, <1>3 DEF Inv

LEMMA StutterInv ==
  ASSUME Inv, UNCHANGED vars
  PROVE  Inv'
<1> USE DEF vars, loop, sources, output
<1>1. TypeOK'
  BY DEF Inv, TypeOK
<1>2. ReportInv' /\ AtMostOne' /\ SelectedInv' /\ SocketInv'
  BY DEF Inv, ReportInv, AtMostOne, SelectedInv, SocketInv
<1>3. DecoderPerConnection'
  BY DEF Inv, DecoderPerConnection
<1> QED
  BY <1>1, <1>2, <1>3 DEF Inv

\* The invariant holds for good.
LEMMA SpecInv == Spec => []Inv
<1>1. Init => Inv
  BY InitInv
<1>2. Inv /\ [Next]_vars => Inv'
  <2> SUFFICES ASSUME Inv, [Next]_vars
               PROVE  Inv'
    OBVIOUS
  <2>1. CASE Select
    BY <2>1, SelectInv
  <2>2. CASE Tick
    BY <2>2, TickInv
  <2>3. CASE Poll
    BY <2>3, PollInv
  <2>4. CASE Receive
    BY <2>4, ReceiveInv DEF Receive
  <2>5. CASE RemoteControl
    BY <2>5, RemoteControlInv
  <2>6. CASE \/ Repeat \/ PollInterrupted \/ Terminate \/ Signal
             \/ \E i \in Inputs : ServerChanges(i)
    BY <2>6, LoopControlInv
  <2>7. CASE Clock
    BY <2>7, ClockInv
  <2>8. CASE OutputInhibits \/ OutputDrains
    BY <2>8, OutputInv
  <2>9. CASE UNCHANGED vars
    BY <2>9, StutterInv
  <2> QED
    BY <2>1, <2>2, <2>3, <2>4, <2>5, <2>6, <2>7, <2>8, <2>9 DEF Next, MainLoop
<1> QED
  BY <1>1, <1>2, PTL DEF Spec
-----------------------------------------------------------------------------
\* Every variable keeps its type: no request, tick or late frame leaves the
\* bounds of the clocks, the decoders and the late score (edi2edi.cpp:336-451).
THEOREM TypeCorrect == Spec => []TypeOK
<1>1. Inv => TypeOK
  BY DEF Inv
<1> QED
  BY <1>1, SpecInv, PTL

\* In switching mode there is at most one active input, however often the loop
\* switches (edi2edi.cpp:336-391).
THEOREM AtMostOneActive == Spec => []OneActive
<1>1. ASSUME Inv
      PROVE  OneActive
  <2> SUFFICES ASSUME mode = "switching"
               PROVE  Cardinality(active) <= 1
    BY DEF OneActive
  <2>1. CASE active = {}
    <3>1. Cardinality(active) = 0
      BY <2>1, FS_EmptySet
    <3> QED
      BY <3>1
  <2>2. CASE active # {}
    <3>1. PICK i \in active : active = {i}
      BY <1>1, <2>2 DEF Inv, AtMostOne
    <3>2. Cardinality({i}) = 1
      BY FS_Singleton
    <3> QED
      BY <3>1, <3>2
  <2> QED
    BY <2>1, <2>2
<1> QED
  BY <1>1, SpecInv, PTL

\* poll() waits on the sockets of active inputs only, and these are enabled
\* (edi2edi.cpp:336-400, receiver.cpp:345-375).
THEOREM PolledAreSelected == Spec => []OnlySelectedPolled
<1>1. Inv => OnlySelectedPolled
  BY DEF Inv, SelectedInv, SocketInv, OnlySelectedPolled
<1> QED
  BY <1>1, SpecInv, PTL

\* A decoder that holds part of a frame, and an input reported as connected,
\* have their socket (receiver.cpp:369-372, 444-451).
THEOREM DecodersHaveSockets == Spec => []DecoderPerConnection
<1>1. Inv => DecoderPerConnection
  BY DEF Inv
<1> QED
  BY <1>1, SpecInv, PTL
=============================================================================
