---------------------------- MODULE OutputBuffer ----------------------------
(***************************************************************************)
(* What the output stage of odr-edi2edi promises, without threads, clock   *)
(* or queue layout: a bounded set of frames, at most one per timestamp,    *)
(* all newer than the frame that left it last.  Frames leave oldest first  *)
(* and one at a time; a frame that has left is either emitted or dropped.  *)
(* When the set is full a newcomer costs the oldest frame its place, and   *)
(* the whole set may be discarded, but only while a frame is held.         *)
(***************************************************************************)
EXTENDS Integers, Sequences, FiniteSets

CONSTANTS Frames, InvalidTimestamps, NullTimestamp, Capacity

VARIABLES
  buffer,    \* the set of waiting frames
  frontier,  \* the timestamp of the frame that left last
  held,      \* the frame that has left and is neither emitted nor dropped
  out        \* the frames emitted, in order

vars == <<buffer, frontier, held, out>>

Init == buffer = {} /\ frontier = NullTimestamp /\ held = {} /\ out = <<>>

IsOldest(f, S) == f \in S /\ \A g \in S : f.ts <= g.ts

\* f may enter: it is ahead of the frontier and its timestamp is not taken.
Fresh(f) ==
  /\ frontier \notin InvalidTimestamps => frontier < f.ts
  /\ \A g \in buffer : g.ts # f.ts

Accept(f) ==
  /\ Fresh(f) /\ Cardinality(buffer) < Capacity
  /\ buffer' = buffer \cup {f}
  /\ UNCHANGED <<frontier, held, out>>

AcceptFull(f) ==
  /\ Fresh(f) /\ Cardinality(buffer) = Capacity
  /\ \E g \in buffer \cup {f} :
       /\ IsOldest(g, buffer \cup {f})
       /\ buffer' = (buffer \cup {f}) \ {g}
  /\ UNCHANGED <<frontier, held, out>>

Take ==
  /\ held = {}
  /\ \E f \in buffer :
       /\ IsOldest(f, buffer)
       /\ buffer' = buffer \ {f} /\ held' = {f} /\ frontier' = f.ts
  /\ UNCHANGED out

Discard ==
  /\ held # {}
  /\ buffer' = {}
  /\ UNCHANGED <<frontier, held, out>>

Drop ==
  /\ held # {}
  /\ held' = {}
  /\ UNCHANGED <<buffer, frontier, out>>

Emit ==
  /\ \E f \in held : out' = Append(out, f)
  /\ held' = {}
  /\ UNCHANGED <<buffer, frontier>>

Next ==
  \/ \E f \in Frames : Accept(f) \/ AcceptFull(f)
  \/ Take \/ Discard \/ Drop \/ Emit

Spec == Init /\ [][Next]_vars
=============================================================================
