---------------------------- MODULE PFTDecoder ----------------------------
(***************************************************************************)
(* EdiDecoder::PFT (lib/edi/PFT.cpp): fragments are collected in one       *)
(* AFBuilder per Pseq, and AF packets are handed on in the order of Pseq,  *)
(* one per fragment at most.                                               *)
(*                                                                         *)
(* The decoder is a record, and its operations map a decoder to the next.  *)
(***************************************************************************)
EXTENDS PFTFragments

CONSTANTS
  MaxDelay,   \* m_max_delay, in AF packets (10)
  Keep        \* NUM_AFBUILDERS_TO_KEEP (10)

ASSUME DecoderAssumption ==
  MaxDelay \in Nat \ {0} /\ Keep \in 1 .. PseqMod - 1

\* No program changes m_max_delay, and the two have the same value.
ASSUME KeepAssumption == Keep <= MaxDelay

NoAF == 0       \* an empty af_packet
Mixed == -1     \* bytes that are no AF packet: damaged, or of two in one

EmptyDecoder == [next |-> 0, builders |-> <<>>]

-----------------------------------------------------------------------------
(* AFBuilder.                                                              *)

\* Seeded fault: the delay is taken for a number of fragments.
DelayInFragments(f) ==
  [fcount |-> f.fcount, frags |-> <<>>, damaged |-> FALSE, lifeTime |-> MaxDelay]

NewBuilder(f) ==
  [fcount |-> f.fcount, frags |-> <<>>, damaged |-> FALSE, lifeTime |-> f.fcount * MaxDelay]

\* A fragment that contradicts Fcount, or is there already, is discarded.
CheckConsistency(b, f) == b.fcount = f.fcount
AddFragment(b, f) ==
  IF CheckConsistency(b, f) /\ f.findex \notin DOMAIN b.frags
  THEN [b EXCEPT !.frags = Updated(@, Entry(f.findex, f.af)), !.damaged = @ \/ f.damaged]
  ELSE b

RxMin(fcount) == fcount - Fec

CanAttemptToDecode(b) ==
  LET n == Cardinality(DOMAIN b.frags)
  IN  IF n = 0 THEN "no"
      ELSE IF n = b.fcount THEN "yes"
      ELSE IF Fec > 0 /\ n >= RxMin(b.fcount) THEN "maybe" ELSE "no"

\* What the payloads of the fragments amount to.  Reed-Solomon decoding may
\* correct damaged ones.
Contents(b, rsDecodes) ==
  IF /\ Cardinality({b.frags[i] : i \in DOMAIN b.frags}) = 1
     /\ b.damaged => Fec > 0 /\ rsDecodes
  THEN b.frags[CHOOSE i \in DOMAIN b.frags : TRUE] ELSE Mixed

\* Seeded fault: the CRC is not looked at.
CRCIgnored(af) == TRUE

\* "EDI specific, must have a CRC": nothing else tells other bytes from an AF.
CheckCRC(af) == af # Mixed

\* Reed-Solomon decoding of a part of the fragments may fail.
ExtractAF(b, rsDecodes) ==
  IF /\ CanAttemptToDecode(b) = "yes" \/ rsDecodes
     /\ CheckCRC(Contents(b, rsDecodes))
  THEN Contents(b, rsDecodes) ELSE NoAF

-----------------------------------------------------------------------------
(* PFT.                                                                    *)

PushPFTFrag(d, f) ==
  LET bs == d.builders
      b  == IF f.pseq \in DOMAIN bs THEN bs[f.pseq] ELSE NewBuilder(f)
  IN  [next     |-> IF DOMAIN bs = {} THEN f.pseq ELSE d.next,
       builders |-> Updated(bs, Entry(f.pseq, AddFragment(b, f)))]

\* Fragment::loadData: a datagram that is cut short or, with FEC, has a wrong
\* header CRC is not pushed; nobody looks at the payload here.
LoadData(d, f, valid) == IF valid THEN PushPFTFrag(d, f) ELSE d

\* Seeded fault: Pseq does not wrap around.
Unwrapped(d) == [d EXCEPT !.next = @ + 1]

\* Seeded fault: the builders left behind stay.
ForgottenNever(d) == [d EXCEPT !.next = (@ + 1) % PseqMod]

IncrementNextPseq(d) ==
  LET old == (d.next - Keep) % PseqMod
  IN  [next     |-> (d.next + 1) % PseqMod,
       builders |-> [p \in DOMAIN d.builders \ {old} |-> d.builders[p]]]

\* Seeded fault: the life of a builder is not counted down.
Ageless(d) == d

Aged(d) == [d EXCEPT !.builders[d.next].lifeTime = IF @ > 0 THEN @ - 1 ELSE 0]

Overdue(d) == d.builders[d.next].lifeTime = 0

\* The decoder after a call of getNextAFPacket, and what the call returned.
GetNextAFPacket(d, rsDecodes) ==
  LET Reinit == IF Cardinality(DOMAIN d.builders) > MaxDelay
                THEN [d EXCEPT !.builders = <<>>] ELSE d
      TryBuilder(b, dar, aged) ==
        CASE dar = "yes" ->
               [decoder |-> IncrementNextPseq(d), af |-> ExtractAF(b, rsDecodes)]
          [] dar = "maybe" /\ Overdue(aged) ->
               [decoder |-> IncrementNextPseq(aged), af |-> ExtractAF(b, rsDecodes)]
          [] dar = "no" /\ Overdue(aged) ->
               [decoder |-> IncrementNextPseq(aged), af |-> NoAF]
          [] OTHER -> [decoder |-> aged, af |-> NoAF]
  IN  IF d.next \notin DOMAIN d.builders THEN [decoder |-> Reinit, af |-> NoAF]
      ELSE TryBuilder(d.builders[d.next], CanAttemptToDecode(d.builders[d.next]), Aged(d))
=============================================================================
