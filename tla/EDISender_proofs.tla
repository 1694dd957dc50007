-------------------------- MODULE EDISender_proofs --------------------------
(***************************************************************************)
(* The safety properties of EDISender, proved for every set of input       *)
(* frames, every capacity, delay, backoff and late score, and every bound  *)
(* of the model.                                                           *)
(***************************************************************************)
EXTENDS EDISender, SequenceTheorems, FiniteSetTheorems, TLAPS

\* The process thread has a frame in hand.
Holding == pc \in {"check", "inhibit", "clear", "send", "sleep"}

\* push_tagpacket() works on an input frame, and one that was on time has a
\* valid timestamp.
ArgInv ==
  mpc = "push" =>
    /\ arg.frame \in InputFrames
    /\ InvalidIsLate /\ ~arg.late => Valid(arg.frame.ts)

\* The frame in hand is the one that _most_recent_timestamp names.
HoldingInv == Holding => cur.ts = mostRecent

\* Only frames with valid timestamps are queued, and nothing that was written
\* is newer than the frame taken last, or as new as the frame in hand.
FrontierInv ==
  InvalidIsLate =>
    /\ \A i \in DOMAIN pending : Valid(pending[i].ts)
    /\ Holding \/ output # <<>> => Valid(mostRecent)
    /\ \A i \in DOMAIN output : output[i].ts <= mostRecent
    /\ Holding => \A i \in DOMAIN output : output[i].ts < mostRecent

OrderInv ==
  /\ TypeOK /\ PendingOrdered
  /\ ArgInv /\ HoldingInv /\ FrontierInv /\ OutputInOrder

\* What prev_dlfc is at each place of process().
DlfcInv ==
  /\ pc \in {"send", "sleep"} =>
       prevDlfc = cur.dlfc /\ (~resync => prevDlfcValid)
  /\ pc \in {"inhibit", "clear"} => excused /\ resync
  /\ ~EdiEnabled => output = <<>>

\* With nothing counted since the last write, and no discontinuity there, the
\* last frame written is the one before the next frame of the stream.
LastWriteInv ==
  output # <<>> /\ ~excused /\ ~output[Len(output)].resync =>
    /\ pc \in {"loop", "pop", "check"} =>
         prevDlfcValid /\ prevDlfc = output[Len(output)].dlfc
    /\ pc \in {"send", "sleep"} =>
         cur.dlfc = Successor(output[Len(output)].dlfc)

JumpInv == DlfcInv /\ LastWriteInv /\ JumpsAccounted

-----------------------------------------------------------------------------
(* Facts about the operators.                                              *)

LEMMA ConstantTypes ==
  /\ InputFrames \subseteq Frame
  /\ NullTimestamp \in Int /\ 0 \in Dlfcs
  /\ NoArg \in [frame : Frame, late : BOOLEAN]
  /\ DlfcModulus \in Nat \ {0} /\ Dlfcs \subseteq Nat
BY ConstantsAssumption DEF Dlfcs, Frame, NoArg

\* What the queue is after an insertion.
LEMMA InsertedAtFacts ==
  ASSUME pending \in Seq(Frame), NEW i \in 1 .. Len(pending) + 1,
         NEW f \in Frame
  PROVE  /\ InsertedAt(i, f) \in Seq(Frame)
         /\ Len(InsertedAt(i, f)) = Len(pending) + 1
         /\ \A j \in 1 .. Len(pending) + 1 :
              InsertedAt(i, f)[j] = IF j < i THEN pending[j]
                                    ELSE IF j = i THEN f ELSE pending[j - 1]
<1> DEFINE n == Len(pending) + 1
           g == [j \in 1 .. n |-> IF j < i THEN pending[j]
                                  ELSE IF j = i THEN f ELSE pending[j - 1]]
<1>1. n \in Nat /\ g = InsertedAt(i, f)
  BY DEF InsertedAt
<1>2. ASSUME NEW j \in 1 .. n PROVE g[j] \in Frame
  <2>1. j < i => j \in 1 .. Len(pending)
    OBVIOUS
  <2>2. j > i => j - 1 \in 1 .. Len(pending)
    OBVIOUS
  <2> QED BY <2>1, <2>2
<1>3. g \in Seq(Frame) /\ Len(g) = n
  BY <1>1, <1>2
<1> QED BY <1>1, <1>3

LEMMA SuccessorType == \A d \in Dlfcs : Successor(d) \in Dlfcs
BY ConstantTypes DEF Dlfcs, Successor
-----------------------------------------------------------------------------
(* Type correctness.                                                       *)

LEMMA InitType == Init => TypeOK
<1> SUFFICES ASSUME Init PROVE TypeOK
  OBVIOUS
<1> USE ConstantsAssumption, ConstantTypes DEF Init
<1>1. pending \in Seq(Frame) /\ output \in Seq(OutputRecord)
  BY EmptySeq
<1>2. arg \in [frame : Frame, late : BOOLEAN] /\ cur \in Frame
  BY DEF NoArg
<1>3. resetAt \in 1 .. Len(ResetOrder) + 1
  BY DEF ResetOrder
<1>4. count \in [CounterNames -> Nat]
  BY DEF CounterNames
<1>5. /\ now \in 0 .. MaxTime /\ npush \in 0 .. MaxPushes
      /\ lateScore \in 0 .. LateMax /\ mostRecent \in Int /\ prevDlfc \in Dlfcs
  OBVIOUS
<1>6. /\ mpc = "idle" /\ pc = "loop" /\ numLate = 0 /\ inhibitUntil = 0
      /\ delay \in Delays /\ backoff \in Backoffs /\ release = 0
      /\ running \in BOOLEAN /\ prevDlfcValid \in BOOLEAN
      /\ resync \in BOOLEAN /\ excused \in BOOLEAN
  OBVIOUS
<1> HIDE DEF Init
<1> QED BY <1>1, <1>2, <1>3, <1>4, <1>5, <1>6 DEF TypeOK

LEMMA PushType == TypeOK /\ PushTagpacket => TypeOK'
<1> SUFFICES ASSUME TypeOK, PushTagpacket PROVE TypeOK'
  OBVIOUS
<1> USE ConstantsAssumption, ConstantTypes
    DEF TypeOK, main, settings, queue, process
<1>1. ASSUME NEW f \in InputFrames, PushBegin(f) PROVE TypeOK'
  BY <1>1 DEF PushBegin, IsLate
<1>2. CASE PushHandedOff
  BY <1>2 DEF PushHandedOff, Incremented, CounterNames
<1>3. CASE PushInhibited
  BY <1>3 DEF PushInhibited, Incremented, CounterNames
<1>4. CASE PushSameTimestamp
  BY <1>4 DEF PushSameTimestamp, Lowered
<1>5. CASE PushInsert
  <2>1. PICK i \in 1 .. Len(pending) + 1 :
          LET longer == InsertedAt(i, arg.frame) IN
          IF Overfull(longer)
          THEN pending' = Tail(longer) /\ count' = Incremented("overruns")
          ELSE pending' = longer /\ UNCHANGED count
    BY <1>5 DEF PushInsert
  <2>2. /\ InsertedAt(i, arg.frame) \in Seq(Frame)
        /\ Len(InsertedAt(i, arg.frame)) = Len(pending) + 1
    BY InsertedAtFacts
  <2>3. Tail(InsertedAt(i, arg.frame)) \in Seq(Frame)
    BY <2>2, HeadTailProperties, EmptySeq
  <2>4. pending' \in Seq(Frame)
    BY <2>1, <2>2, <2>3
  <2>5. count' \in [CounterNames -> Nat]
    BY <2>1, SMTT(30) DEF Incremented, CounterNames
  <2> QED BY <1>5, <2>4, <2>5 DEF PushInsert, Lowered
<1>6. CASE PushLate
  BY <1>6 DEF PushLate, Raised
<1> QED BY <1>1, <1>2, <1>3, <1>4, <1>5, <1>6 DEF PushTagpacket

LEMMA MainType == TypeOK /\ (Tick \/ RemoteControl \/ Stop) => TypeOK'
<1> SUFFICES ASSUME TypeOK, Tick \/ RemoteControl \/ Stop PROVE TypeOK'
  OBVIOUS
<1> USE ConstantsAssumption DEF TypeOK, main, settings, queue, process
<1>1. CASE Tick
  BY <1>1 DEF Tick
<1>2. ASSUME NEW d \in Delays, NEW b \in Backoffs, UpdateSettings(d, b)
      PROVE  TypeOK'
  BY <1>2 DEF UpdateSettings
<1>3. CASE ResetBegin
  BY <1>3 DEF ResetBegin, ResetOrder
<1>4. CASE ResetCounter
  BY <1>4 DEF ResetCounter, ResetOrder, CounterNames
<1>5. CASE ResetLateScore
  BY <1>5 DEF ResetLateScore, ResetOrder
<1>6. CASE Stop
  BY <1>6 DEF Stop
<1> QED BY <1>1, <1>2, <1>3, <1>4, <1>5, <1>6 DEF RemoteControl

LEMMA ProcessType == TypeOK /\ Process => TypeOK'
<1> SUFFICES ASSUME TypeOK, Process PROVE TypeOK'
  OBVIOUS
<1> USE ConstantsAssumption, ConstantTypes
    DEF TypeOK, main, settings, queue, process
<1>1. CASE Loop
  BY <1>1 DEF Loop
<1>2. CASE Pop
  <2>1. /\ cur' \in Frame /\ mostRecent' \in Int
        /\ pending' \in Seq(Frame)
    <3>1. /\ Head(pending) \in Frame /\ Tail(pending) \in Seq(Frame)
      BY <1>2, HeadTailProperties DEF Pop
    <3> QED BY <1>2, <3>1 DEF Pop, Frame
  <2>2. /\ pc' = "check"
        /\ UNCHANGED <<now, main, settings, running, inhibitUntil, count,
                       lateScore, prevDlfcValid, prevDlfc, release, resync,
                       output, excused>>
    BY <1>2 DEF Pop
  <2> QED BY <2>1, <2>2
<1>3. CASE PopNothing
  BY <1>3 DEF PopNothing
<1>4. CASE CheckStopped
  BY <1>4 DEF CheckStopped
<1>5. CASE CheckContinuous
  BY <1>5 DEF CheckContinuous, Frame
<1>6. CASE CheckDiscontinuous
  BY <1>6 DEF CheckDiscontinuous, Incremented, CounterNames
<1>7. CASE InhibitUntil
  BY <1>7 DEF InhibitUntil
<1>8. CASE InhibitClear
  <2>1. pending' \in Seq(Frame) /\ prevDlfc' \in Dlfcs
    BY <1>8, EmptySeq DEF InhibitClear, Frame
  <2>2. /\ lateScore' = 0 /\ prevDlfcValid' \in BOOLEAN /\ pc' = "send"
        /\ UNCHANGED <<now, main, settings, running, inhibitUntil, count,
                       mostRecent, cur, release, resync, output, excused>>
    BY <1>8 DEF InhibitClear
  <2> QED BY <2>1, <2>2
<1>9. CASE SendLate
  BY <1>9 DEF SendLate, Incremented, CounterNames
<1>10. CASE SendWait
  BY <1>10 DEF SendWait, Frame
<1>11. CASE SendInhibited
  BY <1>11 DEF SendInhibited, Incremented, CounterNames
<1>12. CASE SendCrash
  BY <1>12 DEF SendCrash
<1>13. CASE SendWrite
  <2>1. CASE EdiEnabled
    <3>1. PICK o \in CopyOutcomes :
            output' = Append(output, [ts |-> cur.ts, dlfc |-> cur.dlfc,
                                      resync |-> resync, excused |-> excused,
                                      payload |-> o])
      BY <1>13, <2>1 DEF SendWrite
    <3>2. output' \in Seq(OutputRecord)
      BY <3>1, AppendProperties DEF OutputRecord, Frame
    <3>3. count' \in [CounterNames -> Nat]
      <4>1. count' = Incremented("frames")
        BY <1>13, <2>1 DEF SendWrite
      <4> QED BY <4>1 DEF Incremented, CounterNames
    <3>4. /\ excused' \in BOOLEAN /\ pc' = "loop"
          /\ UNCHANGED <<now, main, settings, running, inhibitUntil, queue,
                         cur, prevDlfcValid, prevDlfc, release, resync>>
      BY <1>13, <2>1 DEF SendWrite
    <3> QED BY <3>2, <3>3, <3>4
  <2>2. CASE ~EdiEnabled
    BY <1>13, <2>2 DEF SendWrite
  <2> QED BY <2>1, <2>2
<1> QED
  BY <1>1, <1>2, <1>3, <1>4, <1>5, <1>6, <1>7, <1>8, <1>9, <1>10, <1>11,
     <1>12, <1>13 DEF Process

LEMMA NextType == TypeOK /\ [Next]_vars => TypeOK'
<1>1. TypeOK /\ UNCHANGED vars => TypeOK'
  BY DEF TypeOK, vars, main, settings, queue, process
<1> QED BY <1>1, PushType, MainType, ProcessType DEF Next

\* Every variable keeps its type, whatever the two threads and the operator do
\* (EDISender.cpp:52-150, 218-325).
THEOREM TypeCorrect == Spec => []TypeOK
BY InitType, NextType, PTL DEF Spec
-----------------------------------------------------------------------------
(* The queue.                                                              *)

\* The three places where the queue changes.
LEMMA QueueSteps ==
  [Next]_vars =>
    \/ UNCHANGED <<pending, mostRecent>>
    \/ PushInsert
    \/ Pop
    \/ InhibitClear
BY DEF Next, PushTagpacket, RemoteControl, Process, vars, main, settings,
       queue, process, Tick, PushBegin, PushHandedOff, PushInhibited,
       PushSameTimestamp, PushLate, UpdateSettings, ResetBegin, ResetCounter,
       ResetLateScore, Stop, Loop, PopNothing, CheckStopped, CheckContinuous,
       CheckDiscontinuous, InhibitUntil, SendLate, SendWait, SendInhibited,
       SendCrash, SendWrite

Ordered(q) == \A i, j \in 1 .. Len(q) : i < j => q[i].ts < q[j].ts
AllAbove(q, t) == \A i \in 1 .. Len(q) : t < q[i].ts

LEMMA PendingOrderedAlt ==
  ASSUME TypeOK
  PROVE  PendingOrdered <=>
           Ordered(pending) /\ (Valid(mostRecent) => AllAbove(pending, mostRecent))
<1>1. DOMAIN pending = 1 .. Len(pending)
  BY LenProperties DEF TypeOK
<1> QED BY <1>1 DEF PendingOrdered, Ordered, AllAbove

\* Inserting where the search ends keeps the order.
LEMMA InsertedOrdered ==
  ASSUME pending \in Seq(Frame), Ordered(pending),
         NEW i \in 1 .. Len(pending) + 1, NEW f \in Frame,
         SearchEnds(i, f.ts), i <= Len(pending) => pending[i].ts # f.ts
  PROVE  Ordered(InsertedAt(i, f))
<1> DEFINE q == InsertedAt(i, f)
<1>1. /\ Len(q) = Len(pending) + 1 /\ Len(pending) \in Nat
      /\ \A j \in 1 .. Len(q) : q[j] = IF j < i THEN pending[j]
                                       ELSE IF j = i THEN f ELSE pending[j - 1]
  <2>1. Len(pending) \in Nat
    BY LenProperties
  <2>2. /\ Len(q) = Len(pending) + 1
        /\ \A j \in 1 .. Len(pending) + 1 :
             q[j] = IF j < i THEN pending[j]
                    ELSE IF j = i THEN f ELSE pending[j - 1]
    BY InsertedAtFacts, Zenon
  <2> HIDE DEF q
  <2> QED BY <2>1, <2>2
<1>2. \A j \in 1 .. Len(pending) : pending[j].ts \in Int
  <2>1. \A j \in 1 .. Len(pending) : pending[j] \in Frame
    BY ElementOfSeq, Zenon
  <2> QED BY <2>1 DEF Frame
<1>3. f.ts \in Int
  BY DEF Frame
<1>4. \A j \in 1 .. Len(pending) : j < i => pending[j].ts < f.ts
  BY <1>1 DEF SearchEnds
<1>5. \A j \in 1 .. Len(pending) : i <= j => f.ts < pending[j].ts
  <2> TAKE j \in 1 .. Len(pending)
  <2> HAVE i <= j
  <2>1. i \in 1 .. Len(pending) /\ f.ts < pending[i].ts
    BY <1>1, <1>2, <1>3 DEF SearchEnds
  <2>2. i < j => pending[i].ts < pending[j].ts
    BY <2>1 DEF Ordered
  <2> QED BY <1>2, <1>3, <2>1, <2>2
<1>6. ASSUME NEW j \in 1 .. Len(q), NEW k \in 1 .. Len(q), j < k
      PROVE  q[j].ts < q[k].ts
  <2>1. CASE k < i
    <3>1. q[j] = pending[j] /\ q[k] = pending[k]
      BY <1>1, <1>6, <2>1
    <3>2. j \in 1 .. Len(pending) /\ k \in 1 .. Len(pending)
      BY <1>1, <1>6, <2>1
    <3> QED BY <1>6, <3>1, <3>2 DEF Ordered
  <2>2. CASE k = i
    <3>1. q[j] = pending[j] /\ q[k] = f /\ j \in 1 .. Len(pending)
      BY <1>1, <1>6, <2>2
    <3> QED BY <1>4, <1>6, <2>2, <3>1
  <2>3. CASE k > i
    <3>1. q[k] = pending[k - 1] /\ k - 1 \in 1 .. Len(pending) /\ i <= k - 1
      BY <1>1, <2>3
    <3>2. f.ts < pending[k - 1].ts
      BY <1>5, <3>1
    <3>3. CASE j < i
      <4>1. q[j] = pending[j] /\ j \in 1 .. Len(pending)
        BY <1>1, <3>3
      <4> QED BY <1>2, <1>3, <1>4, <3>1, <3>2, <3>3, <4>1
    <3>4. CASE j = i
      BY <1>1, <3>1, <3>2, <3>4
    <3>5. CASE j > i
      <4>1. q[j] = pending[j - 1] /\ j - 1 \in 1 .. Len(pending)
        BY <1>1, <3>5
      <4> QED BY <1>6, <3>1, <4>1 DEF Ordered
    <3> QED BY <3>3, <3>4, <3>5
  <2> QED BY <2>1, <2>2, <2>3
<1> QED BY <1>6 DEF Ordered

LEMMA TailOrdered ==
  ASSUME NEW q \in Seq(Frame), q # <<>>, Ordered(q)
  PROVE  /\ Ordered(Tail(q)) /\ AllAbove(Tail(q), Head(q).ts)
         /\ \A t \in Int : AllAbove(q, t) => AllAbove(Tail(q), t)
<1>1. /\ Len(Tail(q)) = Len(q) - 1 /\ Len(q) \in Nat \ {0}
      /\ \A i \in 1 .. Len(Tail(q)) : Tail(q)[i] = q[i + 1]
      /\ Head(q) = q[1]
  BY HeadTailProperties, EmptySeq
<1>2. \A i \in 1 .. Len(Tail(q)) : i + 1 \in 1 .. Len(q) /\ 1 < i + 1
  BY <1>1
<1> QED BY <1>1, <1>2 DEF Ordered, AllAbove

\* The queue with the new frame is above the frontier.
LEMMA InsertedAbove ==
  ASSUME pending \in Seq(Frame), NEW t \in Int, AllAbove(pending, t),
         NEW i \in 1 .. Len(pending) + 1, NEW f \in Frame, t < f.ts
  PROVE  AllAbove(InsertedAt(i, f), t)
<1> DEFINE q == InsertedAt(i, f)
<1>1. /\ Len(q) = Len(pending) + 1 /\ Len(pending) \in Nat
      /\ \A j \in 1 .. Len(q) : q[j] = IF j < i THEN pending[j]
                                       ELSE IF j = i THEN f ELSE pending[j - 1]
  BY InsertedAtFacts, LenProperties
<1>2. ASSUME NEW j \in 1 .. Len(q) PROVE t < q[j].ts
  <2>1. j < i => j \in 1 .. Len(pending)
    BY <1>1
  <2>2. j > i => j - 1 \in 1 .. Len(pending)
    BY <1>1
  <2> QED BY <1>1, <2>1, <2>2 DEF AllAbove
<1> QED BY <1>2 DEF AllAbove

LEMMA InsertOrdered == TypeOK /\ PendingOrdered /\ PushInsert => PendingOrdered'
<1> SUFFICES ASSUME TypeOK, PendingOrdered, PushInsert PROVE PendingOrdered'
  OBVIOUS
<1> DEFINE f == arg.frame
<1>1. /\ pending \in Seq(Frame) /\ f \in Frame /\ mostRecent \in Int
      /\ f.ts \in Int
  BY DEF TypeOK, Frame
<1>2. PICK i \in 1 .. Len(pending) + 1 :
        /\ SearchEnds(i, f.ts)
        /\ i <= Len(pending) => pending[i].ts # f.ts
        /\ \/ pending' = InsertedAt(i, f)
           \/ pending' = Tail(InsertedAt(i, f))
  BY DEF PushInsert
<1>3. mostRecent' = mostRecent
  BY DEF PushInsert
<1> DEFINE q == InsertedAt(i, f)
<1>4. /\ q \in Seq(Frame) /\ q # <<>>
  <2>1. q \in Seq(Frame) /\ Len(q) = Len(pending) + 1
    BY <1>1, InsertedAtFacts, Zenon
  <2>2. Len(pending) \in Nat
    BY <1>1, LenProperties
  <2> HIDE DEF q
  <2> QED BY <2>1, <2>2, EmptySeq
<1>5. Ordered(pending) /\ (Valid(mostRecent) => AllAbove(pending, mostRecent))
  BY PendingOrderedAlt
<1>6. Ordered(q)
  BY <1>1, <1>2, <1>5, InsertedOrdered, Zenon
<1>7. Valid(mostRecent) => AllAbove(q, mostRecent)
  <2>1. Valid(mostRecent) => mostRecent < f.ts
    BY <1>1 DEF PushInsert, AlreadyHandedOff
  <2> QED BY <1>1, <1>5, <2>1, InsertedAbove, Zenon
<1>8. Ordered(Tail(q)) /\ (Valid(mostRecent) => AllAbove(Tail(q), mostRecent))
  BY <1>1, <1>4, <1>6, <1>7, TailOrdered, Zenon
<1>9. /\ Ordered(pending')
      /\ Valid(mostRecent') => AllAbove(pending', mostRecent')
  BY <1>2, <1>3, <1>6, <1>7, <1>8, Zenon
<1>10. DOMAIN pending' = 1 .. Len(pending')
  BY <1>2, <1>4, LenProperties, HeadTailProperties
<1> QED BY <1>9, <1>10 DEF PendingOrdered, Ordered, AllAbove

LEMMA PopOrdered == TypeOK /\ PendingOrdered /\ Pop => PendingOrdered'
<1> SUFFICES ASSUME TypeOK, PendingOrdered, Pop PROVE PendingOrdered'
  OBVIOUS
<1>1. pending \in Seq(Frame) /\ pending # <<>>
  BY DEF TypeOK, Pop
<1>2. Ordered(pending)
  BY PendingOrderedAlt
<1>3. /\ pending' = Tail(pending) /\ mostRecent' = Head(pending).ts
  BY DEF Pop
<1>4. Ordered(Tail(pending)) /\ AllAbove(Tail(pending), Head(pending).ts)
  BY <1>1, <1>2, TailOrdered, Zenon
<1>5. DOMAIN Tail(pending) = 1 .. Len(Tail(pending))
  BY <1>1, HeadTailProperties, LenProperties
<1> QED BY <1>3, <1>4, <1>5 DEF PendingOrdered, Ordered, AllAbove

LEMMA NextOrdered ==
  TypeOK /\ PendingOrdered /\ [Next]_vars => PendingOrdered'
<1> SUFFICES ASSUME TypeOK, PendingOrdered, [Next]_vars PROVE PendingOrdered'
  OBVIOUS
<1>1. CASE UNCHANGED <<pending, mostRecent>>
  BY <1>1 DEF PendingOrdered
<1>2. CASE InhibitClear
  <2>1. pending' = <<>>
    BY <1>2 DEF InhibitClear
  <2> QED BY <2>1 DEF PendingOrdered
<1> QED BY <1>1, <1>2, QueueSteps, InsertOrdered, PopOrdered

\* The pending list is in strict timestamp order and entirely newer than the
\* frame handed off last (EDISender.cpp:52-150, push_tagpacket).
THEOREM PendingIsOrdered == Spec => []PendingOrdered
<1>1. Init => PendingOrdered
  BY DEF Init, PendingOrdered
<1> QED BY <1>1, NextOrdered, TypeCorrect, PTL DEF Spec
-----------------------------------------------------------------------------
(* The limit of the queue and the backoff.                                 *)

LEMMA NextBounded == TypeOK /\ QueueBounded /\ [Next]_vars => QueueBounded'
<1> SUFFICES ASSUME TypeOK, QueueBounded, [Next]_vars PROVE QueueBounded'
  OBVIOUS
<1>1. /\ pending \in Seq(Frame) /\ Len(pending) \in Nat
      /\ MaxPending \in Nat \ {0}
  BY ConstantsAssumption, LenProperties DEF TypeOK
<1>2. CASE UNCHANGED <<pending, mostRecent>>
  BY <1>2 DEF QueueBounded
<1>3. CASE PushInsert
  <2> DEFINE f == arg.frame
  <2>1. PICK i \in 1 .. Len(pending) + 1 :
          IF Overfull(InsertedAt(i, f))
          THEN pending' = Tail(InsertedAt(i, f))
          ELSE pending' = InsertedAt(i, f)
    BY <1>3 DEF PushInsert
  <2> DEFINE q == InsertedAt(i, f)
  <2>2. f \in Frame
    BY DEF TypeOK
  <2>3. q \in Seq(Frame) /\ Len(q) = Len(pending) + 1
    BY <1>1, <2>2, InsertedAtFacts, Zenon
  <2> HIDE DEF q
  <2>4. Len(Tail(q)) = Len(pending)
    BY <1>1, <2>3, HeadTailProperties, EmptySeq
  <2> QED BY <1>1, <2>1, <2>3, <2>4 DEF QueueBounded, Overfull, q
<1>4. CASE Pop
  BY <1>1, <1>4, HeadTailProperties DEF Pop, QueueBounded
<1>5. CASE InhibitClear
  BY <1>1, <1>5 DEF InhibitClear, QueueBounded
<1> QED BY <1>2, <1>3, <1>4, <1>5, QueueSteps

\* The queue never exceeds its limit, in whatever order frames arrive and
\* leave (EDISender.cpp:52-150, push_tagpacket).
THEOREM QueueIsBounded == Spec => []QueueBounded
<1>1. Init => QueueBounded
  BY ConstantsAssumption DEF Init, QueueBounded
<1> QED BY <1>1, NextBounded, TypeCorrect, PTL DEF Spec

LEMMA NextQuiet ==
  TypeOK /\ QuietDuringBackoff /\ [Next]_vars => QuietDuringBackoff'
<1> SUFFICES ASSUME TypeOK, QuietDuringBackoff, [Next]_vars
             PROVE  QuietDuringBackoff'
  OBVIOUS
<1> USE DEF QuietDuringBackoff, Inhibited, main, settings, queue, process
<1>1. now \in Nat /\ inhibitUntil \in Nat
  BY DEF TypeOK
<1>2. CASE Tick
  BY <1>1, <1>2 DEF Tick
<1>3. CASE PushTagpacket
  BY <1>3 DEF PushTagpacket, PushBegin, PushHandedOff, PushInhibited,
              PushSameTimestamp, PushInsert, PushLate
<1>4. CASE RemoteControl \/ Stop
  BY <1>4 DEF RemoteControl, UpdateSettings, ResetBegin, ResetCounter,
              ResetLateScore, Stop
<1>5. CASE Pop
  <2>1. ~Inhibited /\ UNCHANGED <<now, inhibitUntil>>
    BY <1>5 DEF Pop
  <2> QED BY <2>1
<1>6. CASE Process /\ ~Pop
  BY <1>6 DEF Process, Loop, PopNothing, CheckStopped, CheckContinuous,
              CheckDiscontinuous, InhibitUntil, InhibitClear, SendLate,
              SendWait, SendInhibited, SendCrash, SendWrite
<1>7. CASE UNCHANGED vars
  BY <1>7 DEF vars
<1> QED BY <1>2, <1>3, <1>4, <1>5, <1>6, <1>7 DEF Next

\* A backoff empties the queue and keeps it empty until it ends, also when a
\* push overlaps inhibit() (EDISender.cpp:174-185).
THEOREM BackoffIsQuiet == Spec => []QuietDuringBackoff
<1>1. Init => QuietDuringBackoff
  BY DEF Init, QuietDuringBackoff
<1> QED BY <1>1, NextQuiet, TypeCorrect, PTL DEF Spec
-----------------------------------------------------------------------------
(* The order of what is written.                                           *)

\* Only Pop changes the frame in hand, only SendWrite what was written.
LEMMA FrontierSteps ==
  [Next]_vars =>
    \/ Pop
    \/ SendWrite
    \/ /\ UNCHANGED <<mostRecent, cur, output>>
       /\ Holding' => Holding
BY DEF Next, PushTagpacket, RemoteControl, Process, vars, main, settings,
       queue, process, Tick, PushBegin, PushHandedOff, PushInhibited,
       PushSameTimestamp, PushInsert, PushLate, UpdateSettings, ResetBegin,
       ResetCounter, ResetLateScore, Stop, Loop, PopNothing, CheckStopped,
       CheckContinuous, CheckDiscontinuous, InhibitUntil, InhibitClear,
       SendLate, SendWait, SendInhibited, SendCrash, Holding

LEMMA NextArg == TypeOK /\ ArgInv /\ [Next]_vars => ArgInv'
<1> SUFFICES ASSUME TypeOK, ArgInv, [Next]_vars PROVE ArgInv'
  OBVIOUS
<1>1. ASSUME NEW f \in InputFrames, PushBegin(f) PROVE ArgInv'
  <2>1. arg'.frame = f /\ arg'.late = IsLate(f)
    BY <1>1 DEF PushBegin
  <2>2. ASSUME InvalidIsLate, ~IsLate(f) PROVE Valid(f.ts)
    BY <2>2, ConstantsAssumption, ConstantTypes
       DEF InvalidIsLate, IsLate, TypeOK, Frame
  <2> QED BY <2>1, <2>2 DEF ArgInv
<1>2. CASE (\A f \in InputFrames : ~PushBegin(f)) /\ Next
  <2>1. mpc' = "push" => mpc = "push" /\ arg' = arg
    BY <1>2
    DEF Next, PushTagpacket, RemoteControl, Process, main, settings,
        queue, process, Tick, PushHandedOff, PushInhibited,
        PushSameTimestamp, PushInsert, PushLate, UpdateSettings, ResetBegin,
        ResetCounter, ResetLateScore, Stop, Loop, Pop, PopNothing,
        CheckStopped, CheckContinuous, CheckDiscontinuous, InhibitUntil,
        InhibitClear, SendLate, SendWait, SendInhibited, SendCrash, SendWrite
  <2> QED BY <2>1 DEF ArgInv
<1>3. CASE UNCHANGED vars
  BY <1>3 DEF vars, main, ArgInv
<1> QED BY <1>1, <1>2, <1>3

LEMMA NextHolding == HoldingInv /\ [Next]_vars => HoldingInv'
<1>1. Pop => HoldingInv'
  BY DEF Pop, HoldingInv
<1>2. SendWrite => HoldingInv'
  BY DEF SendWrite, HoldingInv, Holding
<1> QED BY <1>1, <1>2, FrontierSteps DEF HoldingInv

AllValid(q) == \A i \in 1 .. Len(q) : Valid(q[i].ts)

\* Only frames with valid timestamps enter the queue.
LEMMA NextPendingValid ==
  ASSUME TypeOK, ArgInv, [Next]_vars, InvalidIsLate, AllValid(pending)
  PROVE  AllValid(pending')
<1>1. CASE PushInsert
  <2> DEFINE f == arg.frame
  <2>1. PICK i \in 1 .. Len(pending) + 1 :
          \/ pending' = InsertedAt(i, f)
          \/ pending' = Tail(InsertedAt(i, f))
    BY <1>1 DEF PushInsert
  <2>2. Valid(f.ts)
    BY <1>1 DEF PushInsert, ArgInv
  <2> DEFINE q == InsertedAt(i, f)
  <2>3. pending \in Seq(Frame) /\ f \in Frame /\ Len(pending) \in Nat
    BY LenProperties DEF TypeOK
  <2>4. /\ q \in Seq(Frame) /\ Len(q) = Len(pending) + 1
        /\ \A j \in 1 .. Len(pending) + 1 :
             q[j] = IF j < i THEN pending[j]
                    ELSE IF j = i THEN f ELSE pending[j - 1]
    BY <2>3, InsertedAtFacts, Zenon
  <2> HIDE DEF q
  <2>5. ASSUME NEW j \in 1 .. Len(q) PROVE Valid(q[j].ts)
    <3>1. j < i => j \in 1 .. Len(pending)
      BY <2>3, <2>4
    <3>2. j > i => j - 1 \in 1 .. Len(pending)
      BY <2>3, <2>4
    <3> QED BY <2>2, <2>3, <2>4, <3>1, <3>2 DEF AllValid
  <2>6. AllValid(q)
    BY <2>5 DEF AllValid
  <2>7. AllValid(Tail(q))
    BY <2>3, <2>4, <2>6, HeadTailProperties, EmptySeq DEF AllValid
  <2> QED BY <2>1, <2>6, <2>7 DEF q
<1>2. CASE Pop
  <2>1. pending \in Seq(Frame) /\ pending # <<>> /\ pending' = Tail(pending)
    BY <1>2 DEF TypeOK, Pop
  <2>2. AllValid(Tail(pending))
    BY <2>1, HeadTailProperties, LenProperties DEF AllValid
  <2> QED BY <2>1, <2>2
<1>3. CASE InhibitClear
  BY <1>3 DEF InhibitClear, AllValid
<1> QED BY <1>1, <1>2, <1>3, QueueSteps

LEMMA NextFrontier ==
  OrderInv /\ [Next]_vars => FrontierInv' /\ OutputInOrder'
<1> SUFFICES ASSUME OrderInv, [Next]_vars, InvalidIsLate
             PROVE  FrontierInv' /\ OutputInOrder'
  BY DEF FrontierInv, OutputInOrder
<1>1. /\ TypeOK /\ TypeOK' /\ ArgInv /\ HoldingInv
      /\ FrontierInv /\ OutputInOrder /\ PendingOrdered
  BY NextType DEF OrderInv
<1>2. /\ DOMAIN pending = 1 .. Len(pending) /\ Len(pending) \in Nat
      /\ DOMAIN pending' = 1 .. Len(pending')
      /\ DOMAIN output = 1 .. Len(output) /\ Len(output) \in Nat
      /\ mostRecent \in Int /\ cur.ts \in Int
      /\ \A i \in DOMAIN output : output[i].ts \in Int
  <2>1. /\ pending \in Seq(Frame) /\ pending' \in Seq(Frame)
        /\ output \in Seq(OutputRecord) /\ mostRecent \in Int /\ cur \in Frame
    BY <1>1 DEF TypeOK
  <2>2. \A i \in 1 .. Len(output) : output[i] \in OutputRecord
    BY <2>1, ElementOfSeq, Zenon
  <2> QED BY <2>1, <2>2, LenProperties DEF Frame, OutputRecord
<1>3. \A i \in DOMAIN pending' : Valid(pending'[i].ts)
  <2>1. AllValid(pending)
    BY <1>1, <1>2 DEF FrontierInv, AllValid
  <2>2. AllValid(pending')
    BY <1>1, <2>1, NextPendingValid, Zenon
  <2> QED BY <1>2, <2>2 DEF AllValid
<1>4. CASE UNCHANGED <<mostRecent, cur, output>> /\ (Holding' => Holding)
  BY <1>1, <1>3, <1>4 DEF FrontierInv, OutputInOrder
<1>5. CASE Pop
  <2>1. /\ 1 \in DOMAIN pending /\ mostRecent' = pending[1].ts
        /\ output' = output /\ pending[1].ts \in Int
    <3>1. pending \in Seq(Frame) /\ pending # <<>>
      BY <1>1, <1>5 DEF TypeOK, Pop
    <3>2. Len(pending) \in Nat \ {0} /\ Head(pending) = pending[1]
      BY <3>1, EmptySeq
    <3>3. pending[1] \in Frame
      BY <3>1, <3>2, ElementOfSeq
    <3> QED BY <1>2, <1>5, <3>2, <3>3 DEF Pop, Frame
  <2>2. Valid(mostRecent')
    BY <1>1, <2>1 DEF FrontierInv
  <2>3. \A i \in DOMAIN output : output[i].ts < mostRecent'
    <3>1. output # <<>> => mostRecent < mostRecent'
      BY <1>1, <2>1 DEF FrontierInv, PendingOrdered
    <3>2. ASSUME NEW i \in DOMAIN output
          PROVE  output[i].ts <= mostRecent /\ output # <<>>
      BY <1>1, <1>2 DEF FrontierInv
    <3> QED BY <1>2, <2>1, <3>1, <3>2
  <2>4. \A i \in DOMAIN output : output[i].ts <= mostRecent'
    BY <1>2, <2>1, <2>3
  <2> QED BY <1>1, <1>3, <2>1, <2>2, <2>3, <2>4 DEF FrontierInv, OutputInOrder
<1>6. CASE SendWrite
  <2>1. /\ Holding /\ ~Holding' /\ mostRecent' = mostRecent
        /\ cur.ts = mostRecent
    BY <1>1, <1>6 DEF SendWrite, Holding, HoldingInv, queue
  <2>2. /\ Valid(mostRecent)
        /\ \A i \in DOMAIN output : output[i].ts < mostRecent
    BY <1>1, <2>1 DEF FrontierInv
  <2>3. CASE output' = output
    <3>1. \A i \in DOMAIN output : output[i].ts <= mostRecent
      BY <1>1 DEF FrontierInv
    <3> QED
      BY <1>1, <1>3, <2>1, <2>2, <2>3, <3>1 DEF FrontierInv, OutputInOrder
  <2>4. CASE EdiEnabled
    <3>1. PICK o \in CopyOutcomes :
            output' = Append(output, [ts |-> cur.ts, dlfc |-> cur.dlfc,
                                      resync |-> resync, excused |-> excused,
                                      payload |-> o])
      BY <1>6, <2>4 DEF SendWrite
    <3> DEFINE e == [ts |-> cur.ts, dlfc |-> cur.dlfc, resync |-> resync,
                     excused |-> excused, payload |-> o]
    <3>2. e \in OutputRecord /\ output \in Seq(OutputRecord)
      BY <1>1 DEF TypeOK, OutputRecord, Frame
    <3>3. e.ts = mostRecent
      BY <2>1
    <3> HIDE DEF e
    <3>4. /\ output' \in Seq(OutputRecord) /\ Len(output') = Len(output) + 1
          /\ \A i \in 1 .. Len(output) : output'[i] = output[i]
          /\ output'[Len(output) + 1] = e
      BY <3>1, <3>2, AppendProperties DEF e
    <3>5. DOMAIN output' = 1 .. Len(output) + 1
      BY <3>4, LenProperties
    <3>6. \A i \in DOMAIN output' : output'[i].ts <= mostRecent
      BY <1>2, <2>2, <3>3, <3>4, <3>5
    <3>7. \A i, j \in DOMAIN output' : i < j => output'[i].ts < output'[j].ts
      <4> SUFFICES ASSUME NEW i \in 1 .. Len(output) + 1,
                          NEW j \in 1 .. Len(output) + 1, i < j
                   PROVE  output'[i].ts < output'[j].ts
        BY <3>5
      <4>1. i \in 1 .. Len(output) /\ output'[i] = output[i]
        BY <1>2, <3>4
      <4>2. CASE j = Len(output) + 1
        BY <1>2, <2>2, <3>3, <3>4, <4>1, <4>2
      <4>3. CASE j # Len(output) + 1
        <5>1. j \in 1 .. Len(output) /\ output'[j] = output[j]
          BY <1>2, <3>4, <4>3
        <5> QED BY <1>1, <1>2, <4>1, <5>1 DEF OutputInOrder
      <4> QED BY <4>2, <4>3
    <3> QED BY <1>3, <2>1, <2>2, <3>6, <3>7 DEF FrontierInv, OutputInOrder
  <2> QED BY <1>6, <2>3, <2>4 DEF SendWrite
<1> QED BY <1>4, <1>5, <1>6, FrontierSteps

LEMMA InitOrder == Init => OrderInv
<1> SUFFICES ASSUME Init PROVE OrderInv
  OBVIOUS
<1>1. PendingOrdered
  BY DEF Init, PendingOrdered
<1>2. ArgInv /\ HoldingInv
  BY DEF Init, ArgInv, HoldingInv, Holding
<1>3. FrontierInv /\ OutputInOrder
  BY DEF Init, FrontierInv, OutputInOrder, Holding
<1> QED BY <1>1, <1>2, <1>3, InitType DEF OrderInv

\* The timestamps written are strictly increasing: no frame is sent twice or
\* out of order, provided a frame without a valid timestamp is always late
\* (EDISender.cpp:218-325).
THEOREM OutputIsInOrder == Spec => []OutputInOrder
<1>1. OrderInv /\ [Next]_vars => OrderInv'
  BY NextType, NextOrdered, NextArg, NextHolding, NextFrontier DEF OrderInv
<1>2. OrderInv => OutputInOrder
  BY DEF OrderInv
<1> QED BY <1>1, <1>2, InitOrder, PTL DEF Spec
-----------------------------------------------------------------------------
(* Jumps of the frame counter.                                             *)

\* Steps of the main thread and the clock leave the process thread alone and
\* at most excuse a jump.
LEMMA OthersLeaveProcess ==
  Tick \/ PushTagpacket \/ RemoteControl \/ Stop \/ UNCHANGED vars =>
    UNCHANGED process /\ (excused' = excused \/ excused' = TRUE)
BY DEF PushTagpacket, RemoteControl, vars, Tick, PushBegin, PushHandedOff,
       PushInhibited, PushSameTimestamp, PushInsert, PushLate, UpdateSettings,
       ResetBegin, ResetCounter, ResetLateScore, Stop

LEMMA NextDlfc == DlfcInv /\ [Next]_vars => DlfcInv'
<1> SUFFICES ASSUME DlfcInv, [Next]_vars PROVE DlfcInv'
  OBVIOUS
<1>1. CASE UNCHANGED process /\ (excused' = excused \/ excused' = TRUE)
  BY <1>1 DEF DlfcInv, process
<1>2. CASE CheckContinuous
  BY <1>2 DEF CheckContinuous, DlfcInv
<1>3. CASE CheckDiscontinuous
  BY <1>3 DEF CheckDiscontinuous, DlfcInv
<1>4. CASE InhibitUntil
  BY <1>4 DEF InhibitUntil, DlfcInv
<1>5. CASE InhibitClear
  BY <1>5 DEF InhibitClear, DlfcInv
<1>6. CASE SendWait
  BY <1>6 DEF SendWait, DlfcInv
<1>7. CASE Loop \/ Pop \/ PopNothing \/ CheckStopped
  BY <1>7 DEF Loop, Pop, PopNothing, CheckStopped, DlfcInv
<1>8. CASE SendLate \/ SendInhibited \/ SendCrash \/ SendWrite
  BY <1>8 DEF SendLate, SendInhibited, SendCrash, SendWrite, DlfcInv
<1> QED
  BY <1>1, <1>2, <1>3, <1>4, <1>5, <1>6, <1>7, <1>8, OthersLeaveProcess
     DEF Next, Process

LEMMA NextLastWrite ==
  TypeOK /\ DlfcInv /\ LastWriteInv /\ [Next]_vars => LastWriteInv'
<1> SUFFICES ASSUME TypeOK, DlfcInv, LastWriteInv, [Next]_vars
             PROVE  LastWriteInv'
  OBVIOUS
<1>1. CASE UNCHANGED process /\ (excused' = excused \/ excused' = TRUE)
  BY <1>1 DEF LastWriteInv, process
<1>2. CASE Loop \/ Pop \/ PopNothing \/ CheckStopped
  BY <1>2 DEF Loop, Pop, PopNothing, CheckStopped, LastWriteInv
<1>3. CASE CheckContinuous
  BY <1>3 DEF CheckContinuous, LastWriteInv, Discontinuous
<1>4. CASE CheckDiscontinuous \/ SendLate \/ SendInhibited
  BY <1>4 DEF CheckDiscontinuous, SendLate, SendInhibited, LastWriteInv
<1>5. CASE InhibitUntil \/ InhibitClear
  BY <1>5 DEF InhibitUntil, InhibitClear, LastWriteInv, DlfcInv
<1>6. CASE SendWait \/ SendCrash
  BY <1>6 DEF SendWait, SendCrash, LastWriteInv
<1>7. CASE SendWrite /\ ~EdiEnabled
  BY <1>7 DEF SendWrite, LastWriteInv, DlfcInv
<1>8. CASE SendWrite /\ EdiEnabled
  <2>1. PICK o \in CopyOutcomes :
          output' = Append(output, [ts |-> cur.ts, dlfc |-> cur.dlfc,
                                    resync |-> resync, excused |-> excused,
                                    payload |-> o])
    BY <1>8 DEF SendWrite
  <2>2. output'[Len(output')] = [ts |-> cur.ts, dlfc |-> cur.dlfc,
                                 resync |-> resync, excused |-> excused,
                                 payload |-> o]
    <3> DEFINE e == [ts |-> cur.ts, dlfc |-> cur.dlfc, resync |-> resync,
                     excused |-> excused, payload |-> o]
    <3>1. e \in OutputRecord /\ output \in Seq(OutputRecord)
      BY DEF TypeOK, OutputRecord, Frame
    <3> HIDE DEF e
    <3> QED BY <2>1, <3>1, AppendProperties, LenProperties DEF e
  <2>3. pc' = "loop" /\ pc = "sleep" /\ UNCHANGED <<prevDlfc, prevDlfcValid>>
    BY <1>8 DEF SendWrite
  <2> QED BY <2>2, <2>3 DEF LastWriteInv, DlfcInv
<1> QED
  BY <1>1, <1>2, <1>3, <1>4, <1>5, <1>6, <1>7, <1>8, OthersLeaveProcess
     DEF Next, Process

LEMMA NextJumps ==
  TypeOK /\ JumpInv /\ [Next]_vars => JumpsAccounted'
<1> SUFFICES ASSUME TypeOK, JumpInv, [Next]_vars PROVE JumpsAccounted'
  OBVIOUS
<1>1. CASE UNCHANGED output
  BY <1>1 DEF JumpInv, JumpsAccounted
<1>2. CASE SendWrite /\ EdiEnabled
  <2>1. PICK o \in CopyOutcomes :
          output' = Append(output, [ts |-> cur.ts, dlfc |-> cur.dlfc,
                                    resync |-> resync, excused |-> excused,
                                    payload |-> o])
    BY <1>2 DEF SendWrite
  <2> DEFINE e == [ts |-> cur.ts, dlfc |-> cur.dlfc, resync |-> resync,
                   excused |-> excused, payload |-> o]
             n == Len(output)
  <2>2. e \in OutputRecord /\ output \in Seq(OutputRecord)
    BY DEF TypeOK, OutputRecord, Frame
  <2>3. e.dlfc = cur.dlfc /\ e.excused = excused
    OBVIOUS
  <2> HIDE DEF e
  <2>4. /\ n \in Nat /\ Len(output') = n + 1
        /\ \A i \in 1 .. n : output'[i] = output[i]
        /\ output'[n + 1] = e
    BY <2>1, <2>2, AppendProperties, LenProperties DEF e
  <2>5. n # 0 => output # <<>>
    BY <2>2, EmptySeq
  <2>6. pc = "sleep"
    BY <1>2 DEF SendWrite
  <2> HIDE DEF n
  <2>7. SUFFICES ASSUME NEW i \in 2 .. n + 1,
                        output'[i].dlfc # Successor(output'[i - 1].dlfc)
                 PROVE  output'[i].excused \/ output'[i - 1].resync
    BY <2>4 DEF JumpsAccounted, Successor
  <2>8. i - 1 \in 1 .. n /\ output'[i - 1] = output[i - 1]
    BY <2>4
  <2>9. CASE i = n + 1
    <3>1. i - 1 = n /\ n # 0
      BY <2>4, <2>8, <2>9
    <3>2. cur.dlfc # Successor(output[n].dlfc)
      BY <2>3, <2>4, <2>7, <2>8, <2>9, <3>1
    <3>3. excused \/ output[n].resync
      BY <2>5, <2>6, <3>1, <3>2 DEF JumpInv, LastWriteInv, n
    <3> QED BY <2>3, <2>4, <2>8, <2>9, <3>1, <3>3
  <2>10. CASE i # n + 1
    <3>1. i \in 2 .. n /\ output'[i] = output[i]
      BY <2>4, <2>10
    <3> QED BY <2>7, <2>8, <3>1 DEF JumpInv, JumpsAccounted, n
  <2> QED BY <2>9, <2>10
<1>3. CASE SendWrite /\ ~EdiEnabled
  BY <1>1, <1>3 DEF SendWrite
<1>4. CASE Pop
  BY <1>1, <1>4 DEF Pop
<1> QED BY <1>1, <1>2, <1>3, <1>4, FrontierSteps

\* A jump of the frame counter in the output is always accounted for
\* (EDISender.cpp:286-325).
THEOREM JumpsAreAccounted == Spec => []JumpsAccounted
<1>1. Init => JumpInv
  BY DEF Init, JumpInv, DlfcInv, LastWriteInv, JumpsAccounted
<1>2. TypeOK /\ JumpInv /\ [Next]_vars => JumpInv'
  BY NextDlfc, NextLastWrite, NextJumps DEF JumpInv
<1>3. JumpInv => JumpsAccounted
  BY DEF JumpInv
<1> QED BY <1>1, <1>2, <1>3, TypeCorrect, PTL DEF Spec
-----------------------------------------------------------------------------
(* The two threads implement OutputBuffer.                                 *)

QueueSet(q) == {q[i] : i \in DOMAIN q}
Hand == IF Holding THEN {cur} ELSE {}
Sent == [i \in DOMAIN output |-> [ts |-> output[i].ts, dlfc |-> output[i].dlfc]]

\* A queue in strict order has as many frames as places.
LEMMA QueueCardinality ==
  ASSUME NEW q \in Seq(Frame), Ordered(q)
  PROVE  IsFiniteSet(QueueSet(q)) /\ Cardinality(QueueSet(q)) = Len(q)
<1> DEFINE I == 1 .. Len(q)
<1>1. Len(q) \in Nat /\ DOMAIN q = I /\ q \in [I -> Frame]
  BY LenProperties
<1>2. IsFiniteSet(I) /\ Cardinality(I) = Len(q)
  BY <1>1, FS_Interval
<1>3. \A i \in I : q[i].ts \in Int
  BY <1>1 DEF Frame
<1>4. \A i, j \in I : q[i] = q[j] => i = j
  <2> SUFFICES ASSUME NEW i \in I, NEW j \in I, q[i] = q[j], i # j
               PROVE  FALSE
    OBVIOUS
  <2>1. i < j \/ j < i
    BY <1>1
  <2>2. q[i].ts < q[j].ts \/ q[j].ts < q[i].ts
    BY <2>1 DEF Ordered
  <2> QED
    BY <1>3, <2>2
<1>5. q \in Bijection(I, QueueSet(q))
  <2>1. q \in [I -> QueueSet(q)]
    BY <1>1 DEF QueueSet
  <2>2. \A t \in QueueSet(q) : \E i \in I : q[i] = t
    BY <1>1 DEF QueueSet
  <2> HIDE DEF I
  <2> QED
    BY <1>4, <2>1, <2>2 DEF Bijection, Injection, Surjection, IsInjective
<1>6. ExistsBijection(I, QueueSet(q))
  BY <1>5 DEF ExistsBijection
<1> HIDE DEF I
<1> QED
  BY <1>2, <1>6, FS_Bijection

\* The first frame of such a queue is its oldest, and leaves the others.
LEMMA QueueHead ==
  ASSUME NEW q \in Seq(Frame), q # <<>>, Ordered(q)
  PROVE  /\ Head(q) \in QueueSet(q)
         /\ \A g \in QueueSet(q) : Head(q).ts <= g.ts
         /\ QueueSet(Tail(q)) = QueueSet(q) \ {Head(q)}
<1> DEFINE n == Len(q)
<1>1. /\ Len(Tail(q)) = n - 1 /\ n \in Nat \ {0} /\ Tail(q) \in Seq(Frame)
      /\ \A i \in 1 .. n - 1 : Tail(q)[i] = q[i + 1]
      /\ Head(q) = q[1]
  BY HeadTailProperties, EmptySeq
<1>2. DOMAIN q = 1 .. n /\ DOMAIN Tail(q) = 1 .. n - 1
  BY <1>1, LenProperties
<1>3. \A i \in 1 .. n : q[i].ts \in Int
  <2>1. \A i \in 1 .. n : q[i] \in Frame
    BY ElementOfSeq, Zenon
  <2> QED
    BY <2>1 DEF Frame
<1>4. 1 \in 1 .. n /\ \A i \in 1 .. n : i # 1 => q[1].ts < q[i].ts
  BY <1>1 DEF Ordered
<1> HIDE DEF n
<1>5. Head(q) \in QueueSet(q)
  BY <1>1, <1>2, <1>4 DEF QueueSet
<1>6. \A g \in QueueSet(q) : Head(q).ts <= g.ts
  BY <1>1, <1>2, <1>3, <1>4 DEF QueueSet
<1>7. ASSUME NEW g \in QueueSet(Tail(q))
      PROVE  g \in QueueSet(q) \ {Head(q)}
  <2>1. PICK i \in 1 .. n - 1 : g = q[i + 1]
    BY <1>1, <1>2 DEF QueueSet
  <2>2. i + 1 \in 1 .. n /\ i + 1 # 1
    BY <1>1
  <2>3. g # q[1]
    BY <1>3, <1>4, <2>1, <2>2
  <2> QED
    BY <1>1, <1>2, <2>1, <2>2, <2>3 DEF QueueSet
<1>8. ASSUME NEW g \in QueueSet(q) \ {Head(q)}
      PROVE  g \in QueueSet(Tail(q))
  <2>1. PICK i \in 1 .. n : g = q[i] /\ i # 1
    BY <1>1, <1>2 DEF QueueSet
  <2>2. i - 1 \in 1 .. n - 1 /\ (i - 1) + 1 = i
    BY <1>1, <2>1
  <2>3. Tail(q)[i - 1] = g
    BY <1>1, <2>1, <2>2
  <2> QED
    BY <1>2, <2>2, <2>3 DEF QueueSet
<1> QED
  BY <1>5, <1>6, <1>7, <1>8

LEMMA InsertedSet ==
  ASSUME pending \in Seq(Frame), NEW i \in 1 .. Len(pending) + 1,
         NEW f \in Frame
  PROVE  QueueSet(InsertedAt(i, f)) = QueueSet(pending) \cup {f}
<1> DEFINE q == InsertedAt(i, f)
           n == Len(pending)
<1>1. n \in Nat /\ DOMAIN pending = 1 .. n
  BY LenProperties
<1>2. /\ DOMAIN q = 1 .. n + 1
      /\ \A j \in 1 .. n + 1 : q[j] = IF j < i THEN pending[j]
                                      ELSE IF j = i THEN f ELSE pending[j - 1]
  BY DEF InsertedAt
<1> HIDE DEF q, n
<1>3. i \in 1 .. n + 1
  BY DEF n
<1>4. ASSUME NEW j \in 1 .. n + 1
      PROVE  q[j] = f \/ \E k \in 1 .. n : q[j] = pending[k]
  <2>1. j < i => j \in 1 .. n
    BY <1>1, <1>3
  <2>2. j > i => j - 1 \in 1 .. n
    BY <1>1, <1>3
  <2> QED
    BY <1>1, <1>2, <1>3, <2>1, <2>2
<1>5. ASSUME NEW k \in 1 .. n
      PROVE  \E j \in 1 .. n + 1 : q[j] = pending[k]
  <2>1. CASE k < i
    <3>1. k \in 1 .. n + 1
      BY <1>1
    <3> QED
      BY <1>2, <2>1, <3>1
  <2>2. CASE ~(k < i)
    <3>1. k + 1 \in 1 .. n + 1 /\ ~(k + 1 < i) /\ k + 1 # i /\ (k + 1) - 1 = k
      BY <1>1, <1>3, <2>2
    <3>2. q[k + 1] = pending[(k + 1) - 1]
      BY <1>2, <3>1
    <3>3. q[k + 1] = pending[k]
      BY <3>1, <3>2
    <3> QED
      BY <3>1, <3>3
  <2> QED
    BY <2>1, <2>2
<1>6. q[i] = f
  BY <1>1, <1>2, <1>3
<1>7. ASSUME NEW g \in QueueSet(q)
      PROVE  g \in QueueSet(pending) \cup {f}
  <2>1. PICK j \in 1 .. n + 1 : g = q[j]
    BY <1>2 DEF QueueSet
  <2> QED
    BY <1>1, <1>4, <2>1 DEF QueueSet
<1>8. ASSUME NEW g \in QueueSet(pending) \cup {f}
      PROVE  g \in QueueSet(q)
  <2>1. CASE g = f
    BY <1>2, <1>3, <1>6, <2>1 DEF QueueSet
  <2>2. CASE g # f
    <3>1. PICK k \in 1 .. n : g = pending[k]
      BY <1>1, <2>2 DEF QueueSet
    <3> QED
      BY <1>2, <1>5, <3>1 DEF QueueSet
  <2> QED
    BY <2>1, <2>2
<1>9. QueueSet(q) = QueueSet(pending) \cup {f}
  BY <1>7, <1>8
<1> QED
  BY <1>9 DEF q

\* The search ends at an equal timestamp or the timestamp is not queued.
LEMMA SearchFindsFresh ==
  ASSUME pending \in Seq(Frame), Ordered(pending),
         NEW i \in 1 .. Len(pending) + 1, NEW f \in Frame,
         SearchEnds(i, f.ts), i <= Len(pending) => pending[i].ts # f.ts
  PROVE  \A g \in QueueSet(pending) : g.ts # f.ts
<1>1. Len(pending) \in Nat /\ DOMAIN pending = 1 .. Len(pending)
  BY LenProperties
<1>2. f.ts \in Int /\ \A j \in 1 .. Len(pending) : pending[j].ts \in Int
  <2>1. \A j \in 1 .. Len(pending) : pending[j] \in Frame
    BY ElementOfSeq, Zenon
  <2> QED
    BY <2>1 DEF Frame
<1>3. ASSUME NEW j \in 1 .. Len(pending)
      PROVE  pending[j].ts # f.ts
  <2>1. CASE j < i
    BY <1>1, <1>2, <2>1 DEF SearchEnds
  <2>2. CASE j = i
    BY <2>2
  <2>3. CASE j > i
    <3>1. i \in 1 .. Len(pending)
      BY <1>1, <2>3
    <3>2. f.ts <= pending[i].ts /\ pending[i].ts < pending[j].ts
      BY <1>1, <2>3, <3>1 DEF SearchEnds, Ordered
    <3> QED
      BY <1>2, <3>1, <3>2
  <2> QED
    BY <1>1, <2>1, <2>2, <2>3
<1> QED
  BY <1>1, <1>3 DEF QueueSet

LEMMA SameCardinality == \A S : Buffer!Cardinality(S) = Cardinality(S)
BY DEF Buffer!Cardinality, Cardinality

\* PushInsert is Accept, or AcceptFull when the queue is at its limit.
LEMMA InsertRefines ==
  TypeOK /\ PendingOrdered /\ QueueBounded /\ ArgInv /\ PushInsert =>
    \E f \in InputFrames : Buffer!Accept(f) \/ Buffer!AcceptFull(f)
<1> SUFFICES ASSUME TypeOK, PendingOrdered, QueueBounded, ArgInv, PushInsert
             PROVE  \E f \in InputFrames :
                      Buffer!Accept(f) \/ Buffer!AcceptFull(f)
  OBVIOUS
<1>0. PICK f \in InputFrames : f = arg.frame
  BY DEF ArgInv, PushInsert
<1>1. /\ pending \in Seq(Frame) /\ f \in Frame /\ mostRecent \in Int
      /\ f.ts \in Int /\ Len(pending) \in Nat
      /\ MaxPending \in Nat \ {0}
  BY <1>0, ConstantsAssumption, LenProperties DEF TypeOK, Frame
<1>2. PICK i \in 1 .. Len(pending) + 1 :
        /\ SearchEnds(i, f.ts)
        /\ i <= Len(pending) => pending[i].ts # f.ts
        /\ IF Overfull(InsertedAt(i, f))
           THEN pending' = Tail(InsertedAt(i, f))
           ELSE pending' = InsertedAt(i, f)
  BY <1>0 DEF PushInsert
<1>3. Ordered(pending)
  BY PendingOrderedAlt
<1>4. Valid(mostRecent) => mostRecent < f.ts
  BY <1>0, <1>1 DEF PushInsert, AlreadyHandedOff
<1>5. \A g \in QueueSet(pending) : g.ts # f.ts
  BY <1>1, <1>2, <1>3, SearchFindsFresh, Zenon
<1>6. Cardinality(QueueSet(pending)) = Len(pending)
  BY <1>1, <1>3, QueueCardinality, Zenon
<1> DEFINE q == InsertedAt(i, f)
<1>7. QueueSet(q) = QueueSet(pending) \cup {f}
  BY <1>1, InsertedSet, Zenon
<1>8. Ordered(q)
  BY <1>1, <1>2, <1>3, InsertedOrdered, Zenon
<1>9. q \in Seq(Frame) /\ Len(q) = Len(pending) + 1
  BY <1>1, InsertedAtFacts, Zenon
<1>10. UNCHANGED <<mostRecent, pc, cur, output>>
  BY DEF PushInsert, process
<1>11. Buffer!Fresh(f)
  BY <1>4, <1>5 DEF Buffer!Fresh, QueueSet, Valid
<1> HIDE DEF q
<1>12. CASE Overfull(q)
  <2>1. q # <<>>
    BY <1>1, <1>9, EmptySeq
  <2>2. /\ Head(q) \in QueueSet(q)
        /\ \A g \in QueueSet(q) : Head(q).ts <= g.ts
        /\ QueueSet(Tail(q)) = QueueSet(q) \ {Head(q)}
    BY <1>8, <1>9, <2>1, QueueHead, Zenon
  <2>3. Cardinality(QueueSet(pending)) = MaxPending
    BY <1>1, <1>6, <1>9, <1>12 DEF Overfull, QueueBounded
  <2>4. QueueSet(pending') = QueueSet(q) \ {Head(q)}
    BY <1>2, <1>12, <2>2 DEF q
  <2>5. Buffer!IsOldest(Head(q), QueueSet(pending) \cup {f})
    BY <1>7, <2>2 DEF Buffer!IsOldest
  <2>6. Buffer!AcceptFull(f)
    BY <1>7, <1>10, <1>11, <2>2, <2>3, <2>4, <2>5,
       SameCardinality
    DEF Buffer!AcceptFull, QueueSet
  <2> QED
    BY <2>6
<1>13. CASE ~Overfull(q)
  <2>1. Cardinality(QueueSet(pending)) < MaxPending
    BY <1>1, <1>6, <1>9, <1>13 DEF Overfull
  <2>2. QueueSet(pending') = QueueSet(pending) \cup {f}
    BY <1>2, <1>7, <1>13 DEF q
  <2>3. Buffer!Accept(f)
    BY <1>10, <1>11, <2>1, <2>2, SameCardinality DEF Buffer!Accept, QueueSet
  <2> QED
    BY <2>3
<1> QED
  BY <1>12, <1>13

\* Taking the first frame of the list is Take.
LEMMA PopRefines ==
  TypeOK /\ PendingOrdered /\ Pop => Buffer!Take
<1> SUFFICES ASSUME TypeOK, PendingOrdered, Pop PROVE Buffer!Take
  OBVIOUS
<1>1. pending \in Seq(Frame) /\ pending # <<>> /\ Ordered(pending)
  BY PendingOrderedAlt DEF TypeOK, Pop
<1>2. /\ Head(pending) \in QueueSet(pending)
      /\ \A g \in QueueSet(pending) : Head(pending).ts <= g.ts
      /\ QueueSet(Tail(pending)) = QueueSet(pending) \ {Head(pending)}
  BY <1>1, QueueHead, Zenon
<1>3. /\ pc = "pop" /\ pc' = "check" /\ cur' = Head(pending)
      /\ mostRecent' = Head(pending).ts /\ pending' = Tail(pending)
      /\ output' = output
  BY DEF Pop
<1>4. QueueSet(pending') = QueueSet(pending) \ {Head(pending)}
  BY <1>2, <1>3
<1>5. Buffer!IsOldest(Head(pending), QueueSet(pending))
  BY <1>2 DEF Buffer!IsOldest
<1> QED
  BY <1>2, <1>3, <1>4, <1>5 DEF Buffer!Take, QueueSet

\* Writing the frame in hand is Emit.
LEMMA WriteRefines ==
  TypeOK /\ SendWrite /\ EdiEnabled => Buffer!Emit
<1> SUFFICES ASSUME TypeOK, SendWrite, EdiEnabled PROVE Buffer!Emit
  OBVIOUS
<1>1. PICK o :
        output' = Append(output, [ts |-> cur.ts, dlfc |-> cur.dlfc,
                                  resync |-> resync, excused |-> excused,
                                  payload |-> o])
  BY DEF SendWrite
<1>2. pc = "sleep" /\ pc' = "loop" /\ UNCHANGED <<pending, mostRecent, cur>>
  BY DEF SendWrite, queue
<1> DEFINE n == Len(output)
           short(r) == [ts |-> r.ts, dlfc |-> r.dlfc]
           sentNext == [i \in DOMAIN output' |-> short(output'[i])]
<1>3. n \in Nat /\ DOMAIN output = 1 .. n
  BY LenProperties DEF TypeOK
<1>4. /\ DOMAIN output' = 1 .. n + 1
      /\ \A i \in 1 .. n : output'[i] = output[i]
      /\ output'[n + 1].ts = cur.ts /\ output'[n + 1].dlfc = cur.dlfc
  BY <1>1, <1>3
<1>5. cur = [ts |-> cur.ts, dlfc |-> cur.dlfc]
  BY DEF TypeOK, Frame
<1>6. Sent \in Seq(Frame) /\ Len(Sent) = n
  <2>1. \A i \in 1 .. n : output[i] \in OutputRecord
    BY ElementOfSeq, Zenon DEF TypeOK
  <2>2. \A i \in 1 .. n : short(output[i]) \in Frame
    BY <2>1 DEF OutputRecord, Frame
  <2>3. Sent = [i \in 1 .. n |-> short(output[i])]
    BY <1>3 DEF Sent
  <2> HIDE DEF n, short
  <2> QED
    BY <1>3, <2>2, <2>3
<1>7. /\ Append(Sent, cur) \in Seq(Frame) /\ Len(Append(Sent, cur)) = n + 1
      /\ \A i \in 1 .. n : Append(Sent, cur)[i] = Sent[i]
      /\ Append(Sent, cur)[n + 1] = cur
  BY <1>6, AppendProperties DEF TypeOK
<1>8. sentNext = Append(Sent, cur)
  <2>1. Append(Sent, cur) = [i \in 1 .. n + 1 |-> Append(Sent, cur)[i]]
    BY <1>7, LenProperties
  <2>2. \A i \in 1 .. n : Sent[i] = short(output[i])
    BY <1>3 DEF Sent
  <2>3. ASSUME NEW i \in 1 .. n + 1
        PROVE  short(output'[i]) = Append(Sent, cur)[i]
    <3>1. CASE i \in 1 .. n
      BY <1>4, <1>7, <2>2, <3>1
    <3>2. CASE i \notin 1 .. n
      <4>1. i = n + 1
        BY <1>3, <3>2
      <4> QED
        BY <1>4, <1>5, <1>7, <4>1
    <3> QED
      BY <3>1, <3>2
  <2> HIDE DEF n, short
  <2> QED
    BY <1>4, <2>1, <2>3
<1> QED
  BY <1>2, <1>8 DEF Buffer!Emit, Sent

\* Every step of the threads maps to a step of the buffer or to a stutter.
LEMMA StepRefines ==
  TypeOK /\ PendingOrdered /\ QueueBounded /\ ArgInv /\ [Next]_vars =>
    [Buffer!Next]_(Buffer!vars)
<1> SUFFICES ASSUME TypeOK, PendingOrdered, QueueBounded, ArgInv, [Next]_vars
             PROVE  [Buffer!Next]_(Buffer!vars)
  OBVIOUS
<1>1. ASSUME UNCHANGED <<pending, mostRecent, pc, cur, output>>
      PROVE  UNCHANGED Buffer!vars
  BY <1>1 DEF Buffer!vars
<1>2. CASE Tick \/ RemoteControl \/ Stop
  BY <1>1, <1>2
  DEF Tick, RemoteControl, Stop, UpdateSettings, ResetBegin, ResetCounter,
      ResetLateScore, queue, process
<1>3. CASE PushTagpacket
  <2>1. CASE PushInsert
    BY <2>1, InsertRefines DEF Buffer!Next
  <2>2. CASE ~PushInsert
    BY <1>1, <1>3, <2>2
    DEF PushTagpacket, PushBegin, PushHandedOff, PushInhibited,
        PushSameTimestamp, PushLate, queue, process
  <2> QED
    BY <2>1, <2>2
<1>4. CASE Process
  <2>1. CASE Pop
    BY <2>1, PopRefines DEF Buffer!Next
  <2>2. CASE SendWrite /\ EdiEnabled
    BY <2>2, WriteRefines DEF Buffer!Next
  <2>3. CASE InhibitClear
    BY <2>3 DEF InhibitClear, Buffer!Next, Buffer!Discard
  <2>4. CASE \/ CheckStopped \/ SendLate \/ SendInhibited \/ SendCrash
             \/ SendWrite /\ ~EdiEnabled
    <3>1. /\ pc \in {"check", "send", "sleep"}
          /\ pc' \in {"loop", "done", "crashed"}
          /\ UNCHANGED <<pending, mostRecent, output>>
      BY <2>4 DEF CheckStopped, SendLate, SendInhibited, SendCrash, SendWrite,
                  queue
    <3> QED
      BY <3>1 DEF Buffer!Next, Buffer!Drop
  <2>5. CASE \/ Loop \/ PopNothing \/ CheckContinuous \/ CheckDiscontinuous
             \/ InhibitUntil \/ SendWait
    <3>1. /\ UNCHANGED <<pending, mostRecent, output, cur>>
          /\ \/ /\ pc \in {"loop", "pop"}
                /\ pc' \in {"loop", "pop", "done"}
             \/ /\ pc \in {"check", "inhibit", "send"}
                /\ pc' \in {"send", "inhibit", "clear", "sleep"}
      BY <2>5 DEF Loop, PopNothing, CheckContinuous, CheckDiscontinuous,
                  InhibitUntil, SendWait, queue
    <3> QED
      BY <3>1 DEF Buffer!vars
  <2> QED
    BY <1>4, <2>1, <2>2, <2>3, <2>4, <2>5 DEF Process
<1>5. CASE UNCHANGED vars
  BY <1>1, <1>5 DEF vars, queue, process
<1> QED
  BY <1>2, <1>3, <1>4, <1>5 DEF Next

\* The two threads, their ordered list and their clock implement the abstract
\* buffer: frames leave oldest first, one at a time, and each is emitted or
\* dropped (EDISender.cpp:52-150, 174-185, 218-325).
THEOREM BufferIsImplemented == Spec => ImplementsBuffer
<1>1. Init => Buffer!Init
  BY DEF Init, Buffer!Init
<1>2. Init => ArgInv
  BY DEF Init, ArgInv
<1>3. Spec => []ArgInv
  BY <1>2, NextArg, TypeCorrect, PTL DEF Spec
<1> QED
  BY <1>1, <1>3, StepRefines, TypeCorrect, PendingIsOrdered, QueueIsBounded, PTL
  DEF Spec, ImplementsBuffer, Buffer!Spec
=============================================================================
