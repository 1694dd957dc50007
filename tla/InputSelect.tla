----------------------------- MODULE InputSelect -----------------------------
(***************************************************************************)
(* The main loop of odr-edi2edi: the choice of the active inputs, their    *)
(* TCP connections and decoders, poll(), the remote control and shutdown   *)
(* (src/src/edi2edi.cpp, Main::start; src/src/receiver.cpp, tick and       *)
(* receive).  In merging mode every enabled input is active.  In switching *)
(* mode one input is, and the loop rotates to the next enabled one when    *)
(* the active one is disabled, when it has been silent for longer than the *)
(* switch delay, or when the output complains of late frames.              *)
(*                                                                         *)
(* One pass through the loop is select, tick, poll and handle.  The main   *)
(* thread is alone on this state, except for the late score, which the     *)
(* output's process thread clears.  Time is counted in poll timeouts of    *)
(* 240 ms: at most one passes per poll(), and the rest of the loop takes   *)
(* none.  Statistics are left out.                                         *)
(***************************************************************************)
EXTENDS Integers, FiniteSets

CONSTANTS
  N,               \* number of inputs
  Modes,           \* "switching", "merging"
  SwitchDelay,     \* switch_delay
  ReconnectDelay,  \* RECONNECT_DELAY
  Chunks,          \* recv() calls of 32 bytes that make one frame
  LateIncrease, LateThreshold, LateMax,  \* LATE_SCORE_*
  MaxCommands,     \* bound: remote control requests
  MaxDebt          \* bound: how far reconnect_at lags behind the clock

Inputs == 1 .. N

ASSUME InputConstantsAssumption ==
  /\ N \in Nat \ {0}
  /\ Modes \subseteq {"switching", "merging"}
  /\ SwitchDelay \in Nat /\ ReconnectDelay \in Nat
  /\ Chunks \in Nat \ {0}
  /\ LateIncrease \in Nat /\ LateThreshold \in Nat /\ LateMax \in Nat
  /\ MaxCommands \in Nat /\ MaxDebt \in Nat \ {0}

VARIABLES
  mode,
  pc,         \* "select", "tick", "poll", "handle" or "exited"
  running,    \* cleared by the signal handler
  enabled,    \* the inputs whose source.enabled is set ...
  active,     \* ... source.active ...
  connected,  \* ... source.connected
  open,       \* the inputs whose socket is valid
  age,        \* time since most_recent_rx_time, up to SwitchDelay + 1
  wait,       \* reconnect_at - now, down to -MaxDebt
  progress,   \* chunks of the present frame that the decoder holds
  ready,      \* the inputs that poll() reported and that are still to handle
  rc,         \* poll() reported the remote control socket
  waited,     \* time has passed in this poll()
  commands,   \* remote control requests so far
  lateScore,  \* late_score of the output
  queued,     \* the output holds a frame it may find discontinuous
  up          \* the inputs whose server sends data

loop == <<pc, running, ready, rc, waited, commands>>
sources == <<enabled, active, connected, open, age, wait, progress>>
output == <<lateScore, queued>>
vars == <<mode, loop, sources, output, up>>

\* The output accepts frames at the nominal rate (EDISender::is_running_ok).
IsRunningOk == lateScore < LateThreshold

\* The smallest element: the first input of a set in the order of the list.
First(S) == CHOOSE i \in S : \A j \in S : i <= j

\* Activate the first enabled input when none is active.
EnsureOneActive(act, en) ==
  IF act = {} /\ en # {} THEN {First(en)} ELSE act

Init ==
  /\ mode \in Modes /\ pc = "select" /\ running = TRUE
  /\ enabled \in SUBSET Inputs
  /\ active = IF mode = "switching" THEN EnsureOneActive({}, enabled) ELSE {}
  /\ connected = {} /\ open = {}
  /\ age = [i \in Inputs |-> SwitchDelay + 1]
  /\ wait = [i \in Inputs |-> -1]
  /\ progress = [i \in Inputs |-> 0]
  /\ ready = {} /\ rc = FALSE /\ waited = FALSE /\ commands = 0
  /\ lateScore = 0 /\ queued = FALSE
  /\ up \in SUBSET Inputs
-----------------------------------------------------------------------------
(* The choice of the active inputs.                                        *)

Silent(i) == age[i] > SwitchDelay

\* Seeded fault: a silent input is kept.
MustSwitchUnlessSilent(i) == i \notin enabled \/ ~IsRunningOk

\* The active input is to be replaced.
MustSwitch(i) == i \notin enabled \/ ~IsRunningOk \/ Silent(i)

\* Steps from i to j in the rotation through the list.
Distance(i, j) == (j - i + N) % N

\* The enabled input, other than i, that the rotation meets first.
NextEnabled(i) ==
  CHOOSE j \in enabled \ {i} :
    \A k \in enabled \ {i} : Distance(i, j) <= Distance(i, k)

\* Seeded fault: the input that is left stays active.
ActivatedToo(i) == active \cup {NextEnabled(i)}

\* The active inputs after a switch away from i.
Switched(i) == (active \ {i}) \cup {NextEnabled(i)}

Activate(act) ==
  /\ active' = act
  /\ pc' = "tick"
  /\ UNCHANGED <<mode, running, ready, rc, waited, commands, enabled,
                 connected, open, age, wait, progress, output, up>>

SelectStay ==
  /\ pc = "select" /\ mode = "switching"
  /\ active # {} => ~MustSwitch(First(active))
  /\ Activate(active)

SelectNext ==
  /\ pc = "select" /\ mode = "switching"
  /\ active # {} /\ MustSwitch(First(active))
  /\ enabled \ {First(active)} # {}
  /\ Activate(Switched(First(active)))

\* There is no other enabled input.
SelectOnly ==
  /\ pc = "select" /\ mode = "switching"
  /\ active # {} /\ MustSwitch(First(active))
  /\ enabled \ {First(active)} = {}
  /\ Activate(EnsureOneActive(IF First(active) \in enabled THEN active
                              ELSE active \ {First(active)}, enabled))

\* Seeded fault: an input is activated and never deactivated.
SelectAlso ==
  /\ pc = "select" /\ mode = "merging"
  /\ Activate(active \cup enabled)

\* Seeded fault: only the first enabled input becomes active.
SelectFirst ==
  /\ pc = "select" /\ mode = "merging"
  /\ Activate(EnsureOneActive({}, enabled))

SelectEnabled ==
  /\ pc = "select" /\ mode = "merging"
  /\ Activate(enabled)
-----------------------------------------------------------------------------
(* Receiver::tick() for all inputs: connect the active ones, disconnect    *)
(* the others.                                                             *)

\* Seeded fault: the decoder survives the disconnection.
KeepDecoders(closing) == progress

\* The decoders of the closed sockets are discarded.
DiscardDecoders(closing) ==
  [i \in Inputs |-> IF i \in closing THEN 0 ELSE progress[i]]

Due(i) == wait[i] < 0

\* connect() does not wait for the connection: it may fail at once, but not
\* for a server that is there.
Tick ==
  /\ pc = "tick"
  /\ LET closing == open \ active
         attempts == {i \in active \ open : Due(i)}
     IN /\ \E failed \in SUBSET (attempts \ up) :
             open' = (open \ closing) \cup (attempts \ failed)
        /\ wait' = [i \in Inputs |-> IF i \in attempts
                                     THEN wait[i] + ReconnectDelay ELSE wait[i]]
        /\ connected' = connected \ closing
        /\ progress' = DiscardDecoders(closing)
  /\ pc' = "poll" /\ waited' = FALSE
  /\ UNCHANGED <<mode, running, ready, rc, commands, enabled, active, age,
                 output, up>>
-----------------------------------------------------------------------------
(* poll() and what it waits for.                                           *)

Older(t) == IF t > SwitchDelay THEN SwitchDelay + 1 ELSE t + 1

Clock ==
  /\ pc = "poll" /\ ~waited
  /\ waited' = TRUE
  /\ age' = [i \in Inputs |-> Older(age[i])]
  /\ wait' = [i \in Inputs |-> IF wait[i] > -MaxDebt THEN wait[i] - 1
                               ELSE wait[i]]
  /\ UNCHANGED <<mode, pc, running, ready, rc, commands, enabled, active,
                 connected, open, progress, output, up>>

\* A server starts or stops sending data.
ServerChanges(i) ==
  /\ pc = "poll"
  /\ up' = IF i \in up THEN up \ {i} ELSE up \cup {i}
  /\ UNCHANGED <<mode, loop, sources, output>>

\* The readable sockets, some of them or all: those with data, and those whose
\* connection was refused or closed.
PollReady(R, request) ==
  /\ pc = "poll"
  /\ R \subseteq open /\ (R # {} \/ request)
  /\ request => commands < MaxCommands
  /\ ready' = R /\ rc' = request
  /\ pc' = "handle"
  /\ UNCHANGED <<mode, running, waited, commands, sources, output, up>>

\* Nothing arrived for the whole poll() timeout.
PollTimeout ==
  /\ pc = "poll" /\ waited /\ open \cap up = {}
  /\ pc' = "handle"
  /\ UNCHANGED <<mode, running, ready, rc, waited, commands, sources, output,
                 up>>

\* EINTR ends the program.
PollInterrupted ==
  /\ pc = "poll"
  /\ running' = FALSE /\ pc' = "exited"
  /\ UNCHANGED <<mode, ready, rc, waited, commands, sources, output, up>>

\* The signal handler, when it does not interrupt poll(): SIGTERM exits at
\* once, another signal is noticed at the end of the loop.
Terminate ==
  /\ pc # "exited"
  /\ pc' = "exited"
  /\ UNCHANGED <<mode, running, ready, rc, waited, commands, sources, output,
                 up>>

Signal ==
  /\ running /\ pc # "exited"
  /\ running' = FALSE
  /\ UNCHANGED <<mode, pc, ready, rc, waited, commands, sources, output, up>>
-----------------------------------------------------------------------------
(* Receiver::receive() for the inputs that are ready, in order.            *)

Handling(i) == pc = "handle" /\ ready # {} /\ i = First(ready)

\* A chunk that does not complete a frame, or the last one of a frame.
ReceiveData(i) ==
  /\ age' = [age EXCEPT ![i] = 0]
  /\ connected' = connected \cup {i}
  /\ ready' = ready \ {i}
  /\ UNCHANGED <<mode, pc, running, rc, waited, commands, enabled, active,
                 open, wait, up>>

ReceiveChunk(i) ==
  /\ Handling(i) /\ i \in up /\ progress[i] < Chunks - 1
  /\ progress' = [progress EXCEPT ![i] = @ + 1]
  /\ ReceiveData(i)
  /\ UNCHANGED output

\* The frame goes to EDISender::push_tagpacket: it is accepted, late, or a
\* duplicate or inhibited.
FrameAccepted ==
  /\ lateScore' = IF lateScore > 0 THEN lateScore - 1 ELSE lateScore
  /\ queued' = TRUE

\* Seeded fault: the score has no maximum.
FrameLateUnlimited ==
  /\ lateScore' = lateScore + LateIncrease
  /\ UNCHANGED queued

FrameLate ==
  /\ lateScore' = IF lateScore + LateIncrease > LateMax THEN LateMax
                  ELSE lateScore + LateIncrease
  /\ UNCHANGED queued

FrameIgnored == UNCHANGED output

ReceiveFrame(i) ==
  /\ Handling(i) /\ i \in up /\ progress[i] = Chunks - 1
  /\ progress' = [progress EXCEPT ![i] = 0]
  /\ ReceiveData(i)
  /\ FrameAccepted \/ FrameLate \/ FrameIgnored

\* The contents are refused by an exception, which ends the program.
ReceiveThrows(i) ==
  /\ Handling(i) /\ i \in up /\ progress[i] = Chunks - 1
  /\ pc' = "exited"
  /\ UNCHANGED <<mode, running, ready, rc, waited, commands, sources, output,
                 up>>

CloseConnection(i) ==
  /\ open' = open \ {i}
  /\ progress' = [progress EXCEPT ![i] = 0]
  /\ connected' = connected \ {i}

\* The connection was refused, reset or closed by the server.
ReceiveFails(i) ==
  /\ Handling(i) /\ i \notin up
  /\ CloseConnection(i)
  /\ wait' = [wait EXCEPT ![i] = ReconnectDelay]
  /\ ready' = ready \ {i}
  /\ UNCHANGED <<mode, pc, running, rc, waited, commands, enabled, active, age,
                 output, up>>
-----------------------------------------------------------------------------
(* The remote control, handled after the inputs, and the end of the loop.  *)

Command(en, score) ==
  /\ pc = "handle" /\ ready = {} /\ rc
  /\ enabled' = en /\ lateScore' = score
  /\ rc' = FALSE /\ commands' = commands + 1
  /\ UNCHANGED <<mode, pc, running, ready, waited, active, connected, open,
                 age, wait, progress, queued, up>>

EnableInput(i) == Command(enabled \cup {i}, lateScore)
DisableInput(i) == Command(enabled \ {i}, lateScore)
ResetCounters == Command(enabled, 0)
\* A query, a setting of the output, or a command that is refused.
OtherCommand == Command(enabled, lateScore)

\* Seeded fault: the loop does not look at running.
RepeatForever ==
  /\ pc = "handle" /\ ready = {} /\ ~rc
  /\ pc' = "select"
  /\ UNCHANGED <<mode, running, ready, rc, waited, commands, sources, output,
                 up>>

Repeat ==
  /\ pc = "handle" /\ ready = {} /\ ~rc
  /\ pc' = IF running THEN "select" ELSE "exited"
  /\ UNCHANGED <<mode, running, ready, rc, waited, commands, sources, output,
                 up>>
-----------------------------------------------------------------------------
(* The process thread of the output.                                       *)

\* inhibit() at a DLFC discontinuity.
OutputInhibits ==
  /\ queued /\ pc # "exited"
  /\ lateScore' = 0 /\ queued' = FALSE
  /\ UNCHANGED <<mode, loop, sources, up>>

\* The frames it holds are sent or dropped.
OutputDrains ==
  /\ queued /\ pc # "exited"
  /\ queued' = FALSE
  /\ UNCHANGED <<mode, loop, sources, lateScore, up>>
-----------------------------------------------------------------------------
Select == SelectStay \/ SelectNext \/ SelectOnly \/ SelectEnabled

Poll ==
  \/ \E R \in SUBSET Inputs, request \in BOOLEAN : PollReady(R, request)
  \/ PollTimeout

Receive ==
  \E i \in Inputs : \/ ReceiveChunk(i) \/ ReceiveFrame(i)
                    \/ ReceiveThrows(i) \/ ReceiveFails(i)

RemoteControl ==
  \/ \E i \in Inputs : EnableInput(i) \/ DisableInput(i)
  \/ ResetCounters \/ OtherCommand

MainLoop == Select \/ Tick \/ Poll \/ Receive \/ RemoteControl \/ Repeat

Next ==
  \/ MainLoop \/ PollInterrupted \/ Terminate \/ Signal \/ Clock
  \/ \E i \in Inputs : ServerChanges(i)
  \/ OutputInhibits \/ OutputDrains

Spec == Init /\ [][Next]_vars

\* poll() reports input i.
Reported(i) == \E R \in SUBSET Inputs, q \in BOOLEAN :
                 i \in R /\ PollReady(R, q)

\* The host runs the main thread; the time spent in poll() adds up, so the
\* clock runs; poll() returns, after its timeout at the latest; and it reports
\* every readable socket, so one with data in poll after poll is reported.
FairSpec ==
  /\ Spec
  /\ WF_vars(MainLoop) /\ SF_vars(Clock)
  /\ \A i \in Inputs : SF_vars(Reported(i) /\ i \in up)
-----------------------------------------------------------------------------
(* Properties.                                                             *)

\* Every variable has its type.
TypeOK ==
  /\ mode \in Modes /\ pc \in {"select", "tick", "poll", "handle", "exited"}
  /\ running \in BOOLEAN /\ rc \in BOOLEAN /\ waited \in BOOLEAN
  /\ queued \in BOOLEAN
  /\ enabled \subseteq Inputs /\ active \subseteq Inputs
  /\ connected \subseteq Inputs /\ open \subseteq Inputs
  /\ ready \subseteq Inputs /\ up \subseteq Inputs
  /\ age \in [Inputs -> 0 .. SwitchDelay + 1]
  /\ wait \in [Inputs -> -MaxDebt .. ReconnectDelay]
  /\ progress \in [Inputs -> 0 .. Chunks - 1]
  /\ commands \in 0 .. MaxCommands
  /\ lateScore \in 0 .. LateMax

\* Switching mode never has two active inputs ("only one input will be active",
\* receiver.h:59; the loop "Assumes only one active", edi2edi.cpp:347).
OneActive == mode = "switching" => Cardinality(active) <= 1

\* Whenever the loop waits for data it does so on active inputs only, and the
\* active inputs are ones the operator has enabled: no request, switch or
\* reconnection leaves a socket behind (edi2edi.cpp:336-400, receiver.cpp:345-375).
OnlySelectedPolled ==
  /\ pc \in {"poll", "handle"} => open \subseteq active
  /\ pc = "poll" => active \subseteq enabled

\* A frame is put together from the bytes of one connection: an input without
\* socket has no half-filled decoder and is not reported as connected, however
\* its connection ended (receiver.cpp:369-372, 444-451).
DecoderPerConnection ==
  \A i \in Inputs : progress[i] # 0 \/ i \in connected => i \in open

\* A frame is about to be completed.
Completing ==
  \E i \in ready : pc = "handle" /\ i \in up /\ progress[i] = Chunks - 1

\* One input that is enabled and has data, for good, is enough.
Supplied == \E i \in Inputs : <>[](i \in enabled /\ i \in up)

\* Fail-over: if the program keeps running with some active input, one enabled
\* input delivers and the output does not complain, then frames keep arriving,
\* whichever input was active before (edi2edi.cpp:348-391).
FailOver ==
  /\ Supplied
  /\ <>[](active # {} /\ IsRunningOk /\ pc # "exited")
  => []<>Completing

\* In merging mode each input that is enabled and has data is read again and
\* again, whatever the others do (edi2edi.cpp:395-399).
AllMerged ==
  \A i \in Inputs :
    mode = "merging" /\ <>[](i \in enabled /\ i \in up /\ pc # "exited")
    => []<>(i \in ready)

\* A signal ends the main loop, from wherever it is (edi2edi.cpp:49-59, 451).
SignalStops == ~running ~> pc = "exited"

\* Where one input is enabled, one is active: "only one input will be active"
\* (receiver.h:59).  Starting without enabled inputs is allowed
\* (edi2edi.cpp:271-273), and so is disabling them all.
SomeActive == pc = "tick" /\ enabled # {} => active # {}

\* The output recovers: if every input is enabled and has data, for good, then
\* frames keep arriving, also once the output has complained.
OutputRecovers ==
  /\ \A i \in Inputs : <>[](i \in enabled /\ i \in up)
  /\ <>[](active # {} /\ pc # "exited")
  => []<>Completing
=============================================================================
