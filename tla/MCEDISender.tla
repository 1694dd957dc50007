---------------------------- MODULE MCEDISender ----------------------------
(* Small instances of EDISender.                                           *)
EXTENDS EDISender

\* The frames of a stream whose counter wraps after two frames ...
Stream(from, to) == {[ts |-> t, dlfc |-> t % 2] : t \in from .. to}

\* ... with a frame without timestamp and one whose DLFC contradicts the
\* stream at the same timestamp.  Under a delay of at most 1 all are released
\* before the clock stops at 4.
MCFrames ==
  Stream(1, 3) \cup {[ts |-> -9, dlfc |-> 0], [ts |-> 2, dlfc |-> 1]}

MCInvalid == {-9}
MCNull == -9
=============================================================================
