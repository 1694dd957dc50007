---------------------------- MODULE ZMQConverter ----------------------------
(***************************************************************************)
(* digris-zmq-converter (src/zmq/main.cpp, src/zmq/Sender.cpp): the main   *)
(* loop receives messages of several ETI frames from a ZeroMQ publisher,   *)
(* checks the frame counter and queues the frames; the thread of the       *)
(* Sender releases them.  Errors make the loop close its socket, back off  *)
(* and start again.                                                        *)
(*                                                                         *)
(* A frame is its frame counter FCT, its place in the message (how many    *)
(* frames of the message come after it) and whether it is the first one    *)
(* after the socket was opened.  Time is abstracted to whether the sender  *)
(* finds a frame late.                                                     *)
(***************************************************************************)
EXTENDS ThreadsafeQueue, Integers, FiniteSets

CONSTANTS
  PerMessage,     \* NUM_FRAMES_PER_ZMQ_MESSAGE (4)
  FctMod,         \* number of values of FCT (250)
  MaxErrorCount,  \* MAX_ERROR_COUNT (10)
  MaxFaults,      \* bound: timeouts, lost and damaged messages, frames not sent
  MaxBacklog      \* bound: frames queued when a message is received

ASSUME ConverterAssumption ==
  /\ PerMessage \in Nat \ {0} /\ FctMod \in Nat \ {0}
  /\ MaxErrorCount \in Nat \ {0} /\ MaxFaults \in Nat /\ MaxBacklog \in Nat

VARIABLES
  loop,          \* where the main loop is
  error_count, previous_fct,
  opened,        \* no frame has been taken since the socket was opened
  inbox,         \* the message waiting in the socket
  all_frames,    \* the frames of a message that are still to be pushed
  frames,        \* the queue of the Sender
  sender,        \* where its thread is
  frame,         \* the frame it has popped
  sender_running,
  source,        \* FCT of the publisher's next frame
  faults         \* history: what went wrong so far

converterVars == <<loop, error_count, previous_fct, opened, inbox, all_frames,
                   frames, sender, frame, sender_running, source, faults>>
senderVars == <<sender, frame, sender_running>>

NoFct == -1
EmptyFrame == [fct |-> NoFct, left |-> 0, first |-> FALSE]
Socket == {"receive", "push"}          \* the socket is open

Positions == 0 .. PerMessage - 1
Messages ==
  [fct : 0 .. FctMod - 1, version : BOOLEAN, valid : SUBSET Positions,
   metadata : {"ok", "incomplete", "unknown"}]
GoodMessage(m) == m.version /\ m.valid = Positions /\ m.metadata = "ok"

ConverterInit ==
  /\ loop = "open" /\ error_count = 0 /\ previous_fct = NoFct /\ opened = FALSE
  /\ inbox = <<>> /\ all_frames = <<>>
  /\ frames = EmptyQueue /\ sender = "loop" /\ frame = EmptyFrame /\ sender_running = TRUE
  /\ source = 0 /\ faults = 0

-----------------------------------------------------------------------------
(* The publisher.  A message that finds no subscriber is gone.             *)

Publish == \E m \in Messages :
  /\ m.fct = source
  /\ GoodMessage(m) \/ faults < MaxFaults
  /\ loop \in Socket => inbox = <<>>
  /\ inbox' = IF loop \in Socket THEN <<m>> ELSE inbox
  /\ source' = (source + PerMessage) % FctMod
  /\ faults' = IF GoodMessage(m) THEN faults ELSE faults + 1
  /\ UNCHANGED <<loop, error_count, previous_fct, opened, all_frames, frames, senderVars>>

LoseMessage ==
  /\ inbox # <<>> /\ faults < MaxFaults
  /\ inbox' = <<>>
  /\ faults' = faults + 1
  /\ UNCHANGED <<loop, error_count, previous_fct, opened, all_frames, frames, senderVars, source>>

-----------------------------------------------------------------------------
(* The main loop.                                                          *)

\* Seeded fault: the counter of the session before is kept.
FctKept == previous_fct

FctForgotten == NoFct

OpenSocket ==
  /\ loop = "open"
  /\ loop' = "receive"
  /\ error_count' = 0 /\ previous_fct' = FctForgotten /\ opened' = TRUE
  /\ UNCHANGED <<inbox, all_frames, frames, senderVars, source, faults>>

\* Seeded fault: one error more is allowed.
OneErrorMore(n) == IF n <= MaxErrorCount THEN "receive" ELSE "close"

\* The inner loop ends when there were too many errors.
AfterErrors(n) == IF n < MaxErrorCount THEN "receive" ELSE "close"

PollTimeout ==
  /\ loop = "receive" /\ inbox = <<>> /\ faults < MaxFaults
  /\ error_count' = error_count + 1
  /\ loop' = AfterErrors(error_count')
  /\ faults' = faults + 1
  /\ UNCHANGED <<previous_fct, opened, inbox, all_frames, frames, senderVars, source>>

\* The k-th frame of valid length, and its FCT.
KthValid(m, k) == CHOOSE p \in m.valid : Cardinality({q \in m.valid : q < p}) = k - 1
FctOf(m, k) == (m.fct + KthValid(m, k)) % FctMod
NumValid(m) == Cardinality(m.valid)

\* Every frame has to follow the one before it, also across messages.
FollowsOn(m) ==
  \A k \in 1 .. NumValid(m) :
    LET previous == IF k = 1 THEN previous_fct ELSE FctOf(m, k - 1)
    IN  previous = NoFct \/ FctOf(m, k) = (previous + 1) % FctMod

FramesOf(m) ==
  [k \in 1 .. NumValid(m) |->
     [fct |-> FctOf(m, k), left |-> NumValid(m) - k, first |-> opened /\ k = 1]]

Errors(m) == (IF m.version THEN 0 ELSE 1) + PerMessage - NumValid(m)

\* get_md_one_frame: incomplete metadata throws, which ends the program, and
\* an unknown id is read again and again.
AfterMetadata(m) ==
  IF m.valid = {} \/ m.metadata = "ok" THEN "push"
  ELSE IF m.metadata = "incomplete" THEN "ended" ELSE "hung"

Receive ==
  /\ loop = "receive" /\ inbox # <<>> /\ Size(frames) <= MaxBacklog
  /\ FollowsOn(Head(inbox))
  /\ LET m == Head(inbox)
     IN  /\ loop' = AfterMetadata(m)
         /\ all_frames' = IF AfterMetadata(m) = "push" THEN FramesOf(m) ELSE <<>>
         /\ previous_fct' = IF m.valid = {} THEN previous_fct ELSE FctOf(m, NumValid(m))
         /\ error_count' = error_count + Errors(m)
         /\ opened' = (opened /\ m.valid = {})
  /\ inbox' = <<>>
  /\ UNCHANGED <<frames, senderVars, source, faults>>

\* Seeded fault: the frames before a discontinuity are pushed.
Salvaged(m) ==
  [k \in 1 .. NumValid(m) - 1 |-> FramesOf(m)[k]]

\* FCTDiscontinuity is thrown before a frame of the message is pushed.
Discarded(m) == <<>>

Discontinuity ==
  /\ loop = "receive" /\ inbox # <<>> /\ ~FollowsOn(Head(inbox))
  /\ all_frames' = Discarded(Head(inbox))
  /\ loop' = IF all_frames' = <<>> THEN "close" ELSE "push"
  /\ inbox' = <<>>
  /\ UNCHANGED <<error_count, previous_fct, opened, frames, senderVars, source, faults>>

PushFrame ==
  /\ loop = "push" /\ all_frames # <<>>
  /\ frames' = Push(frames, Head(all_frames))
  /\ all_frames' = Tail(all_frames)
  /\ UNCHANGED <<loop, error_count, previous_fct, opened, inbox, senderVars, source, faults>>

PushDone ==
  /\ loop = "push" /\ all_frames = <<>>
  /\ loop' = AfterErrors(error_count)
  /\ UNCHANGED <<error_count, previous_fct, opened, inbox, all_frames, frames, senderVars, source, faults>>

\* Closing the socket drops what it holds; then the loop sleeps and reopens.
Backoff ==
  /\ loop = "close"
  /\ loop' = "open"
  /\ inbox' = <<>>
  /\ UNCHANGED <<error_count, previous_fct, opened, all_frames, frames, senderVars, source, faults>>

-----------------------------------------------------------------------------
(* The destructor of the Sender, when the program ends.                    *)

StopSender ==
  /\ loop = "ended"
  /\ sender_running' = FALSE
  /\ frames' = Push(frames, EmptyFrame)
  /\ loop' = "join"
  /\ UNCHANGED <<error_count, previous_fct, opened, inbox, all_frames, sender, frame, source, faults>>

JoinSender ==
  /\ loop = "join" /\ sender = "done"
  /\ loop' = "stopped"
  /\ UNCHANGED <<error_count, previous_fct, opened, inbox, all_frames, frames, senderVars, source, faults>>

-----------------------------------------------------------------------------
(* process() and send_eti_frame().                                         *)

SenderStart ==
  /\ sender = "loop"
  /\ sender' = IF sender_running THEN "pop" ELSE "done"
  /\ UNCHANGED <<loop, error_count, previous_fct, opened, inbox, all_frames, frames, frame, sender_running, source, faults>>

SenderPop ==
  /\ sender = "pop" /\ Ready(frames)
  /\ frame' = Front(frames)
  /\ frames' = Popped(frames)
  /\ sender' = IF ~sender_running \/ Front(frames) = EmptyFrame THEN "done" ELSE "release"
  /\ UNCHANGED <<loop, error_count, previous_fct, opened, inbox, all_frames, sender_running, source, faults>>

\* The frame is written to the EDI output, the first one of a message takes
\* the whole message to the ZeroMQ outputs.
SendETIFrame ==
  /\ sender = "release"
  /\ sender' = "loop" /\ frame' = EmptyFrame
  /\ UNCHANGED <<loop, error_count, previous_fct, opened, inbox, all_frames, frames, sender_running, source, faults>>

\* Without FIC, or late when late frames are dropped: nothing is sent.
SkipETIFrame ==
  /\ sender = "release" /\ faults < MaxFaults
  /\ sender' = "loop" /\ frame' = EmptyFrame
  /\ faults' = faults + 1
  /\ UNCHANGED <<loop, error_count, previous_fct, opened, inbox, all_frames, frames, sender_running, source>>

-----------------------------------------------------------------------------
MainLoop ==
  OpenSocket \/ Receive \/ Discontinuity \/ PushFrame \/ PushDone \/ Backoff
    \/ StopSender \/ JoinSender
SenderThread == SenderStart \/ SenderPop \/ SendETIFrame

ConverterNext ==
  \/ Publish \/ LoseMessage \/ PollTimeout
  \/ MainLoop \/ SenderThread \/ SkipETIFrame

ConverterSpec == ConverterInit /\ [][ConverterNext]_converterVars

-----------------------------------------------------------------------------
ConverterTypeOK ==
  /\ loop \in {"open", "receive", "push", "close", "ended", "hung", "join", "stopped"}
  /\ sender \in {"loop", "pop", "release", "done"}
  /\ previous_fct \in NoFct .. FctMod - 1
  /\ error_count \in 0 .. MaxErrorCount + PerMessage
  /\ loop = "receive" => error_count < MaxErrorCount

\* Between the input and the output frames keep together and in step: the
\* frames of a message are followed by the rest of it, a frame follows on
\* its predecessor unless the socket was reopened between them, and the
\* frames of a message that is given up are not seen.
FramesInStep ==
  LET line == (IF sender = "release" THEN <<frame>> ELSE <<>>) \o frames.elems \o all_frames
  IN  \A i \in 1 .. Len(line) - 1 :
        LET a == line[i]  b == line[i + 1]
        IN  b # EmptyFrame =>
              /\ a.left > 0 => b.left = a.left - 1
              /\ ~b.first => b.fct = (a.fct + 1) % FctMod

\* After every reset the converter sends again: the first frame of the new
\* session comes to be released, unless the program ends or spins on
\* metadata it does not know.
OutputResumes ==
  (loop = "close") ~>
     ((sender = "release" /\ frame.first) \/ loop \in {"hung", "join", "stopped"})
=============================================================================
