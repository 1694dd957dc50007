------------------------------ MODULE EDISender ------------------------------
(***************************************************************************)
(* The output stage of odr-edi2edi: class EDISender (src/src/EDISender.h,  *)
(* src/src/EDISender.cpp).                                                 *)
(*                                                                         *)
(* The main thread pushes the frames that the receivers decoded            *)
(* (push_tagpacket), changes the settings and resets the counters on       *)
(* remote-control request.  The process thread takes the oldest pending    *)
(* frame, watches the continuity of the frame counter (DLFC), waits until  *)
(* the release time of the frame and writes it.  A break of the DLFC       *)
(* starts a backoff (inhibit): the queue is emptied and nothing is written *)
(* until the backoff ends.                                                 *)
(*                                                                         *)
(* Every critical section under _mutex is one action; what a thread reads  *)
(* or writes outside the mutex (_settings, _output_inhibit_until, the      *)
(* atomic counters, _running) is in an action of its own, so the steps of  *)
(* the two threads interleave as they may in the program.  The system and  *)
(* the steady clock are one clock, now.                                    *)
(***************************************************************************)
EXTENDS Integers, Sequences

CONSTANTS
  InputFrames,        \* frames the receivers may push: records [ts, dlfc]
  InvalidTimestamps,  \* timestamps whose TSTA field is 0xFFFFFF
  NullTimestamp,      \* the default timestamp, of a frame without ATST
  DlfcModulus,        \* the frame counter counts modulo this (5000)
  Delays, Backoffs,   \* values of the settings delay_ms and backoff
  MaxPending,         \* MAX_PENDING_TAGPACKETS
  LateIncrease, LateThreshold, LateMax,  \* LATE_SCORE_*
  EdiEnabled,         \* _edi_conf.enabled(): some destination is configured
  CopyOutcomes,       \* what the copy into the empty raw_tagpacket does
  MaxPushes, MaxTime  \* bounds of the model: pushes, clock

Timestamps == {f.ts : f \in InputFrames}
Dlfcs      == 0 .. DlfcModulus - 1
Frame      == [ts : Int, dlfc : Dlfcs]

\* frame_timestamp_t::valid().
Valid(ts) == ts \notin InvalidTimestamps

ASSUME ConstantsAssumption ==
  /\ DlfcModulus \in Nat \ {0}
  /\ InputFrames \subseteq Frame
  /\ InvalidTimestamps \subseteq Int /\ NullTimestamp \in InvalidTimestamps
  /\ Delays \subseteq Int /\ Delays # {}
  /\ Backoffs \subseteq Nat /\ Backoffs # {}
  /\ MaxPending \in Nat \ {0}
  /\ LateIncrease \in Nat /\ LateThreshold \in Nat /\ LateMax \in Nat
  /\ EdiEnabled \in BOOLEAN
  /\ CopyOutcomes \subseteq {"crash", "lost"}
  /\ MaxPushes \in Nat /\ MaxTime \in Nat

\* A frame without a usable timestamp has a release time long before the
\* program started (1970, NullTimestamp), whatever the delay.  A frame that
\* carries a seconds field but TSTA = 0xFFFFFF is the exception.
InvalidIsLate ==
  \A f \in InputFrames : ~Valid(f.ts) => \A d \in Delays : f.ts + d < 0

CounterNames == {"dropped", "overruns", "dlfc", "frames"}
\* The order in which reset_counters() clears them.
ResetOrder == <<"dropped", "overruns", "dlfc", "frames">>

VARIABLES
  now,           \* the clock
  \* main thread
  mpc,           \* "idle", "push", "reset" or "stopped"
  arg,           \* argument and local variable of the running push_tagpacket
  resetAt,       \* position in ResetOrder of the running reset_counters
  npush,         \* frames pushed so far (bounded by MaxPushes)
  numLate,       \* num_late of the receivers, added up
  \* settings
  delay, backoff,
  \* shared by the threads
  running, inhibitUntil, count,
  pending, mostRecent, lateScore,
  \* process thread
  pc,            \* "loop", "pop", "check", "inhibit", "clear", "send",
                 \* "sleep", "done" or "crashed"
  cur,           \* tagpacket
  prevDlfcValid, prevDlfc, release,
  resync,        \* history: cur was not the successor of its predecessor
  output,        \* history: what was written to edi::Sender, in order
  excused        \* history: a frame was counted as lost, or a discontinuity
                 \* was counted, since the last write

main == <<mpc, arg, resetAt, npush, numLate>>
settings == <<delay, backoff>>
queue == <<pending, mostRecent, lateScore>>
process == <<pc, cur, prevDlfcValid, prevDlfc, release, resync, output>>
vars == <<now, main, settings, running, inhibitUntil, count, queue, process,
          excused>>

NoArg == [frame |-> [ts |-> NullTimestamp, dlfc |-> 0], late |-> TRUE]

Init ==
  /\ now = 0
  /\ mpc = "idle" /\ arg = NoArg /\ resetAt = 1 /\ npush = 0
  /\ numLate = 0
  /\ delay \in Delays /\ backoff \in Backoffs
  /\ running = TRUE
  /\ inhibitUntil = 0
  /\ count = [c \in CounterNames |-> 0]
  /\ pending = <<>> /\ mostRecent = NullTimestamp /\ lateScore = 0
  /\ pc = "loop" /\ cur = NoArg.frame
  /\ prevDlfcValid = FALSE /\ prevDlfc = 0 /\ release = 0 /\ resync = FALSE
  /\ output = <<>> /\ excused = FALSE

Alive == pc # "crashed"

Incremented(c) == [count EXCEPT ![c] = @ + 1]

\* The clock of the host.
Tick ==
  /\ Alive /\ now < MaxTime
  /\ now' = now + 1
  /\ UNCHANGED <<main, settings, running, inhibitUntil, count, queue, process,
                 excused>>
-----------------------------------------------------------------------------
(* The main thread: push_tagpacket().                                      *)

\* The release time of a frame under the present delay has passed.
IsLate(f) == f.ts + delay < now

\* Up to the lock: whether the frame is late is decided here.
PushBegin(f) ==
  /\ Alive /\ mpc = "idle" /\ npush < MaxPushes
  /\ arg' = [frame |-> f, late |-> IsLate(f)]
  /\ mpc' = "push" /\ npush' = npush + 1
  /\ UNCHANGED <<now, resetAt, numLate, settings, running, inhibitUntil, count,
                 queue, process, excused>>

\* Seeded fault: the frame handed off last counts as new.
HandedOffBefore(ts) == Valid(mostRecent) /\ mostRecent > ts

\* A frame at or before the one that the process thread took last.
AlreadyHandedOff(ts) == Valid(mostRecent) /\ mostRecent >= ts

Inhibited == now < inhibitUntil

\* is_running_ok(), which the input switching asks.
IsRunningOk == lateScore < LateThreshold

\* The critical section, from here on: a frame that was already handed off.
PushHandedOff ==
  /\ Alive /\ mpc = "push" /\ AlreadyHandedOff(arg.frame.ts)
  /\ numLate' = numLate + 1
  /\ count' = Incremented("dropped") /\ excused' = TRUE
  /\ mpc' = "idle" /\ arg' = NoArg
  /\ UNCHANGED <<now, resetAt, npush, settings, running, inhibitUntil, queue,
                 process>>

\* During backoff a frame is dropped.
PushInhibited ==
  /\ Alive /\ mpc = "push"
  /\ ~AlreadyHandedOff(arg.frame.ts) /\ ~arg.late /\ Inhibited
  /\ count' = Incremented("dropped") /\ excused' = TRUE
  /\ mpc' = "idle" /\ arg' = NoArg
  /\ UNCHANGED <<now, resetAt, npush, numLate, settings, running, inhibitUntil,
                 queue, process>>

\* i is where the search through the queue for timestamp ts ends: the first
\* frame that is not older, or the end.
SearchEnds(i, ts) ==
  /\ \A j \in 1 .. i - 1 : pending[j].ts < ts
  /\ i <= Len(pending) => ts <= pending[i].ts

\* Seeded fault: the frame is always appended.
InsertedLast(i, f) == Append(pending, f)

InsertedAt(i, f) ==
  [j \in 1 .. Len(pending) + 1 |->
     IF j < i THEN pending[j] ELSE IF j = i THEN f ELSE pending[j - 1]]

\* Seeded fault: the score falls below zero.
LoweredPastZero(score) == score - 1

\* An accepted frame lowers the late score.
Lowered(score) == IF score > 0 THEN score - 1 ELSE score

Raised(score) ==
  IF score + LateIncrease > LateMax THEN LateMax ELSE score + LateIncrease

\* Seeded fault: the limit is off by one.
OverfullByOne(q) == Len(q) > MaxPending + 1

Overfull(q) == Len(q) > MaxPending

\* The frame of the same timestamp is already queued: a duplicate from another
\* input, or (with another DLFC) an error that is logged.
PushSameTimestamp ==
  /\ Alive /\ mpc = "push"
  /\ ~AlreadyHandedOff(arg.frame.ts) /\ ~arg.late /\ ~Inhibited
  /\ \E i \in 1 .. Len(pending) :
       SearchEnds(i, arg.frame.ts) /\ pending[i].ts = arg.frame.ts
  /\ lateScore' = Lowered(lateScore)
  /\ mpc' = "idle" /\ arg' = NoArg
  /\ UNCHANGED <<now, resetAt, npush, numLate, settings, running, inhibitUntil,
                 count, pending, mostRecent, process, excused>>

\* The frame enters the queue at its place; a queue that has grown too long
\* loses its oldest frame (the other branches do not lengthen it).
PushInsert ==
  /\ Alive /\ mpc = "push"
  /\ ~AlreadyHandedOff(arg.frame.ts) /\ ~arg.late /\ ~Inhibited
  /\ \E i \in 1 .. Len(pending) + 1 :
       /\ SearchEnds(i, arg.frame.ts)
       /\ i <= Len(pending) => pending[i].ts # arg.frame.ts
       /\ LET longer == InsertedAt(i, arg.frame) IN
          IF Overfull(longer)
          THEN pending' = Tail(longer) /\ count' = Incremented("overruns")
          ELSE pending' = longer /\ UNCHANGED count
  /\ lateScore' = Lowered(lateScore)
  /\ mpc' = "idle" /\ arg' = NoArg
  /\ UNCHANGED <<now, resetAt, npush, numLate, settings, running, inhibitUntil,
                 mostRecent, process, excused>>

\* A late frame raises the late score and is forgotten.
PushLate ==
  /\ Alive /\ mpc = "push" /\ ~AlreadyHandedOff(arg.frame.ts) /\ arg.late
  /\ numLate' = numLate + 1
  /\ lateScore' = Raised(lateScore)
  /\ mpc' = "idle" /\ arg' = NoArg
  /\ UNCHANGED <<now, resetAt, npush, settings, running, inhibitUntil, count,
                 pending, mostRecent, process, excused>>
-----------------------------------------------------------------------------
(* The main thread: remote control and shutdown.                           *)

UpdateSettings(d, b) ==
  /\ Alive /\ mpc = "idle"
  /\ delay' = d /\ backoff' = b
  /\ UNCHANGED <<now, main, running, inhibitUntil, count, queue, process,
                 excused>>

\* reset_counters() stores the four atomics one after the other ...
ResetBegin ==
  /\ Alive /\ mpc = "idle"
  /\ mpc' = "reset" /\ resetAt' = 1
  /\ UNCHANGED <<now, arg, npush, numLate, settings, running, inhibitUntil,
                 count, queue, process, excused>>

ResetCounter ==
  /\ Alive /\ mpc = "reset" /\ resetAt <= Len(ResetOrder)
  /\ count' = [count EXCEPT ![ResetOrder[resetAt]] = 0]
  /\ resetAt' = resetAt + 1
  /\ UNCHANGED <<now, mpc, arg, npush, numLate, settings, running,
                 inhibitUntil, queue, process, excused>>

\* ... and then, under the mutex, the late score.
ResetLateScore ==
  /\ Alive /\ mpc = "reset" /\ resetAt > Len(ResetOrder)
  /\ lateScore' = 0 /\ mpc' = "idle" /\ resetAt' = 1
  /\ UNCHANGED <<now, arg, npush, numLate, settings, running, inhibitUntil,
                 count, pending, mostRecent, process, excused>>

\* The destructor: clear _running, then join the process thread.
Stop ==
  /\ Alive /\ mpc = "idle"
  /\ running' = FALSE /\ mpc' = "stopped"
  /\ UNCHANGED <<now, arg, resetAt, npush, numLate, settings, inhibitUntil,
                 count, queue, process, excused>>
-----------------------------------------------------------------------------
(* The process thread.                                                     *)

\* Seeded fault: the loop does not look at _running.
LoopForever ==
  /\ pc = "loop" /\ pc' = "pop"
  /\ UNCHANGED <<now, main, settings, running, inhibitUntil, count, queue, cur,
                 prevDlfcValid, prevDlfc, release, resync, output, excused>>

\* The loop condition.
Loop ==
  /\ pc = "loop"
  /\ pc' = IF running THEN "pop" ELSE "done"
  /\ UNCHANGED <<now, main, settings, running, inhibitUntil, count, queue, cur,
                 prevDlfcValid, prevDlfc, release, resync, output, excused>>

\* Seeded fault: the newest frame is taken.
PopNewest ==
  /\ pc = "pop" /\ pending # <<>>
  /\ cur' = pending[Len(pending)] /\ mostRecent' = cur'.ts
  /\ pending' = SubSeq(pending, 1, Len(pending) - 1)
  /\ pc' = "check"
  /\ UNCHANGED <<now, main, settings, running, inhibitUntil, count, lateScore,
                 prevDlfcValid, prevDlfc, release, resync, output, excused>>

\* Seeded fault: the last frame is left in the queue.
PopAllButOne == Len(pending) > 1 /\ PopNewest

\* Under the mutex: take the oldest frame.
Pop ==
  /\ pc = "pop" /\ pending # <<>>
  /\ cur' = Head(pending) /\ mostRecent' = Head(pending).ts
  /\ pending' = Tail(pending)
  /\ pc' = "check"
  /\ UNCHANGED <<now, main, settings, running, inhibitUntil, count, lateScore,
                 prevDlfcValid, prevDlfc, release, resync, output, excused>>

\* Nothing is pending: sleep a millisecond and look again.
PopNothing ==
  /\ pc = "pop" /\ pending = <<>>
  /\ pc' = "loop"
  /\ UNCHANGED <<now, main, settings, running, inhibitUntil, count, queue, cur,
                 prevDlfcValid, prevDlfc, release, resync, output, excused>>

CheckStopped ==
  /\ pc = "check" /\ ~running
  /\ pc' = "done"
  /\ UNCHANGED <<now, main, settings, running, inhibitUntil, count, queue, cur,
                 prevDlfcValid, prevDlfc, release, resync, output, excused>>

Successor(dlfc) == (dlfc + 1) % DlfcModulus

Discontinuous(f) == prevDlfcValid /\ Successor(prevDlfc) # f.dlfc

\* Seeded fault: the previous frame counter is not updated.
CheckStale ==
  /\ pc = "check" /\ running /\ ~Discontinuous(cur)
  /\ prevDlfcValid' = TRUE /\ resync' = FALSE
  /\ pc' = "send"
  /\ UNCHANGED <<now, main, settings, running, inhibitUntil, count, queue, cur,
                 prevDlfc, release, output, excused>>

\* The frame follows the one before it, or there is none to compare with.
CheckContinuous ==
  /\ pc = "check" /\ running /\ ~Discontinuous(cur)
  /\ prevDlfcValid' = TRUE /\ prevDlfc' = cur.dlfc /\ resync' = FALSE
  /\ pc' = "send"
  /\ UNCHANGED <<now, main, settings, running, inhibitUntil, count, queue, cur,
                 release, output, excused>>

CheckDiscontinuous ==
  /\ pc = "check" /\ running /\ Discontinuous(cur)
  /\ count' = Incremented("dlfc") /\ excused' = TRUE /\ resync' = TRUE
  /\ pc' = "inhibit"
  /\ UNCHANGED <<now, main, settings, running, inhibitUntil, queue, cur,
                 prevDlfcValid, prevDlfc, release, output>>

\* inhibit(), before the lock: the end of the backoff, read by both threads.
InhibitUntil ==
  /\ pc = "inhibit"
  /\ inhibitUntil' = now + backoff
  /\ pc' = "clear"
  /\ UNCHANGED <<now, main, settings, running, count, queue, cur,
                 prevDlfcValid, prevDlfc, release, resync, output, excused>>

\* Seeded fault: the queue is not emptied.
InhibitKeeps ==
  /\ pc = "clear"
  /\ lateScore' = 0
  /\ prevDlfcValid' = FALSE /\ prevDlfc' = cur.dlfc
  /\ pc' = "send"
  /\ UNCHANGED <<now, main, settings, running, inhibitUntil, count, pending,
                 mostRecent, cur, release, resync, output, excused>>

\* inhibit(), under the mutex, and back in process().
InhibitClear ==
  /\ pc = "clear"
  /\ pending' = <<>> /\ lateScore' = 0
  /\ prevDlfcValid' = FALSE /\ prevDlfc' = cur.dlfc
  /\ pc' = "send"
  /\ UNCHANGED <<now, main, settings, running, inhibitUntil, count, mostRecent,
                 cur, release, resync, output, excused>>

\* send_tagpacket(): a frame whose release time has passed is dropped.
SendLate ==
  /\ pc = "send" /\ IsLate(cur)
  /\ count' = Incremented("dropped") /\ excused' = TRUE
  /\ pc' = "loop"
  /\ UNCHANGED <<now, main, settings, running, inhibitUntil, queue, cur,
                 prevDlfcValid, prevDlfc, release, resync, output>>

\* sleep_for() the time that is left until the release.
SendWait ==
  /\ pc = "send" /\ ~IsLate(cur)
  /\ release' = cur.ts + delay
  /\ pc' = "sleep"
  /\ UNCHANGED <<now, main, settings, running, inhibitUntil, count, queue, cur,
                 prevDlfcValid, prevDlfc, resync, output, excused>>

\* It woke up inside a backoff.
SendInhibited ==
  /\ pc = "sleep" /\ now >= release /\ Inhibited
  /\ count' = Incremented("dropped") /\ excused' = TRUE
  /\ pc' = "loop"
  /\ UNCHANGED <<now, main, settings, running, inhibitUntil, queue, cur,
                 prevDlfcValid, prevDlfc, release, resync, output>>

\* The AF packet is copied to the beginning of a vector of length 0, which is
\* undefined: the program dies ("crash") or the bytes go nowhere and the
\* written TAG packet is empty ("lost").
SendCrash ==
  /\ pc = "sleep" /\ now >= release /\ ~Inhibited
  /\ EdiEnabled /\ "crash" \in CopyOutcomes
  /\ pc' = "crashed"
  /\ UNCHANGED <<now, main, settings, running, inhibitUntil, count, queue, cur,
                 prevDlfcValid, prevDlfc, release, resync, output, excused>>

SendWrite ==
  /\ pc = "sleep" /\ now >= release /\ ~Inhibited
  /\ IF EdiEnabled
     THEN \E o \in CopyOutcomes \ {"crash"} :
            /\ output' = Append(output, [ts |-> cur.ts, dlfc |-> cur.dlfc,
                                         resync |-> resync, excused |-> excused,
                                         payload |-> o])
            /\ count' = Incremented("frames")
            /\ excused' = FALSE
     ELSE UNCHANGED <<output, count, excused>>
  /\ pc' = "loop"
  /\ UNCHANGED <<now, main, settings, running, inhibitUntil, queue, cur,
                 prevDlfcValid, prevDlfc, release, resync>>
-----------------------------------------------------------------------------
PushTagpacket ==
  \/ \E f \in InputFrames : PushBegin(f)
  \/ PushHandedOff
  \/ PushInhibited
  \/ PushSameTimestamp
  \/ PushInsert
  \/ PushLate

RemoteControl ==
  \/ \E d \in Delays, b \in Backoffs : UpdateSettings(d, b)
  \/ ResetBegin
  \/ ResetCounter
  \/ ResetLateScore

Process ==
  \/ Loop \/ Pop \/ PopNothing
  \/ CheckStopped \/ CheckContinuous \/ CheckDiscontinuous
  \/ InhibitUntil \/ InhibitClear
  \/ SendLate \/ SendWait \/ SendInhibited \/ SendCrash \/ SendWrite

Next == Tick \/ PushTagpacket \/ RemoteControl \/ Stop \/ Process

Spec == Init /\ [][Next]_vars

\* The host schedules the process thread and its clock runs; nothing obliges a
\* receiver to push or the operator to act.
FairSpec == Spec /\ WF_vars(Tick) /\ WF_vars(Process)
-----------------------------------------------------------------------------
(* Properties.                                                             *)

OutputRecord == [ts : Int, dlfc : Dlfcs, resync : BOOLEAN, excused : BOOLEAN,
                 payload : CopyOutcomes]

\* Every variable has its type; the late score stays between 0 and its maximum
\* whatever pushes, backoffs and resets do to it (EDISender.cpp:135-142).
TypeOK ==
  /\ now \in 0 .. MaxTime
  /\ mpc \in {"idle", "push", "reset", "stopped"}
  /\ arg \in [frame : Frame, late : BOOLEAN]
  /\ resetAt \in 1 .. Len(ResetOrder) + 1
  /\ npush \in 0 .. MaxPushes /\ numLate \in Nat
  /\ delay \in Delays /\ backoff \in Backoffs
  /\ running \in BOOLEAN /\ inhibitUntil \in Nat
  /\ count \in [CounterNames -> Nat]
  /\ pending \in Seq(Frame) /\ mostRecent \in Int
  /\ lateScore \in 0 .. LateMax
  /\ pc \in {"loop", "pop", "check", "inhibit", "clear", "send", "sleep",
             "done", "crashed"}
  /\ cur \in Frame
  /\ prevDlfcValid \in BOOLEAN /\ prevDlfc \in Dlfcs /\ release \in Int
  /\ resync \in BOOLEAN /\ excused \in BOOLEAN
  /\ output \in Seq(OutputRecord)

\* _pending_tagpackets is "ordered by transmit timestamps" (EDISender.h:97),
\* strictly, and holds nothing at or before the frame that was handed off last,
\* however pushes from several inputs interleave with the process thread.
PendingOrdered ==
  /\ \A i, j \in DOMAIN pending : i < j => pending[i].ts < pending[j].ts
  /\ Valid(mostRecent) => \A i \in DOMAIN pending : mostRecent < pending[i].ts

\* The queue never holds more than MAX_PENDING_TAGPACKETS frames outside the
\* critical section (EDISender.cpp:145-149).
QueueBounded == Len(pending) <= MaxPending

\* From the moment inhibit() has emptied the queue until the backoff ends, the
\* queue is empty: no push that overlaps inhibit() leaves a frame behind
\* (EDISender.cpp:96-101 against 174-185).
QuietDuringBackoff == Inhibited /\ pc # "clear" => pending = <<>>

\* The timestamps written are strictly increasing: merging several inputs
\* never sends a frame twice nor out of order, whatever the changes of the
\* delay, the overruns and the backoffs in between.
OutputInOrder ==
  InvalidIsLate =>
    \A i, j \in DOMAIN output : i < j => output[i].ts < output[j].ts

\* A jump of the DLFC in what is written is never silent: between the two
\* frames something was counted in num_dropped or num_dlfc_discontinuities,
\* unless the first of them is itself the frame of a discontinuity, after which
\* process() compares nothing (EDISender.cpp:312-321).
JumpsAccounted ==
  \A i \in 2 .. Len(output) :
    output[i].dlfc # Successor(output[i - 1].dlfc) =>
      output[i].excused \/ output[i - 1].resync

\* What the frames written hold: the TAG packet of the input frame, "a raw
\* tagpacket can be used instead of the items list" (TagPacket.h:41).  The copy
\* at EDISender.cpp:275-279 delivers nothing.
PayloadDelivered ==
  Alive /\ \A i \in DOMAIN output : output[i].payload # "lost"

Ended == pc \in {"done", "crashed"}

Queued(f) == \E i \in DOMAIN pending : pending[i] = f

\* No frame stays in the queue for ever: it is handed off, displaced or
\* discarded, or the process thread has ended.
FramesLeaveQueue == \A f \in InputFrames : Queued(f) ~> ~Queued(f) \/ Ended

\* The destructor's join() returns: once _running is cleared, process() ends,
\* from wherever it is (EDISender.cpp:43-50, 291, 308).
StopCompletes == ~running ~> Ended

\* The threads, the ordered list and the clock implement OutputBuffer.
Buffer == INSTANCE OutputBuffer WITH
  Frames <- InputFrames,
  Capacity <- MaxPending,
  buffer <- {pending[i] : i \in DOMAIN pending},
  frontier <- mostRecent,
  held <- IF pc \in {"check", "inhibit", "clear", "send", "sleep"}
          THEN {cur} ELSE {},
  out <- [i \in DOMAIN output |-> [ts |-> output[i].ts, dlfc |-> output[i].dlfc]]

\* Every step of the two threads is a step of the abstract buffer or leaves it
\* unchanged.
ImplementsBuffer == Buffer!Spec
=============================================================================
