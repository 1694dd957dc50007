--------------------------- MODULE PFTFragments ---------------------------
(***************************************************************************)
(* The format both ends of an EDI/PFT link share: an AF packet is cut into *)
(* fragments that carry its Pseq, their index and their number             *)
(* (lib/edioutput/PFT.cpp).                                                *)
(*                                                                         *)
(* An AF packet is the number of the frame it carries.  The payload of a   *)
(* fragment is the AF packet it was cut from, and whether it was damaged   *)
(* since; Reed-Solomon coding is the number of fragments the receiver can  *)
(* do without.                                                             *)
(***************************************************************************)
EXTENDS Integers, Sequences, FiniteSets

CONSTANTS
  PseqMod,       \* number of values of Pseq and SEQ (2^16 in the code)
  Short, Long,   \* number of fragments of a short and of a long AF packet
  LongFrames,    \* the frames that make a long AF packet
  Fec            \* fragments Reed-Solomon can recover, 0 without FEC

ASSUME FragmentAssumption ==
  /\ PseqMod \in Nat \ {0}
  /\ Short \in Nat \ {0} /\ Long \in Nat /\ Short <= Long /\ LongFrames \subseteq Nat
  /\ Fec \in 0 .. Short

\* ProtectAndFragment: a larger packet makes more fragments.
FragmentsOf(af) == IF af \in LongFrames THEN Long ELSE Short

\* Assemble: the fragments with their headers.
Assemble(af, pseq) ==
  [i \in 0 .. FragmentsOf(af) - 1 |->
     [pseq |-> pseq, findex |-> i, fcount |-> FragmentsOf(af), af |-> af,
      damaged |-> FALSE]]

\* A std::map whose entries are replaced, or joined, by those of another.
Updated(map, entries) ==
  [k \in DOMAIN entries \cup DOMAIN map |->
     IF k \in DOMAIN entries THEN entries[k] ELSE map[k]]

Entry(k, v) == [i \in {k} |-> v]
=============================================================================
