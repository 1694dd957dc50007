--------------------------- MODULE EDILink_proofs ---------------------------
(***************************************************************************)
(* What the PFT decoder hands on, and how long it waits, proved for every  *)
(* range of Pseq, every number of fragments, every delay and every bound   *)
(* of the model, whatever the network loses, damages, repeats or reorders. *)
(***************************************************************************)
EXTENDS EDILink, SequenceTheorems, NumberFacts

\* The fragments of the packets 1 to w.
FragmentsUpTo(w) ==
  [pseq : 0 .. PseqMod - 1, findex : Nat, fcount : {Short, Long}, af : 1 .. w,
   damaged : BOOLEAN]

\* A builder that was filled with fragments of the packets 1 to w.
BuilderOK(b, w) ==
  /\ b = [fcount |-> b.fcount, frags |-> b.frags, damaged |-> b.damaged, lifeTime |-> b.lifeTime]
  /\ b.fcount \in {Short, Long}
  /\ b.lifeTime \in 0 .. Long * MaxDelay
  /\ \A i \in DOMAIN b.frags : b.frags[i] \in 1 .. w

DecoderOK(d, w) ==
  /\ d = [next |-> d.next, builders |-> d.builders]
  /\ d.next \in 0 .. PseqMod - 1
  /\ d.builders = [p \in DOMAIN d.builders |-> d.builders[p]]
  /\ DOMAIN d.builders \subseteq 0 .. PseqMod - 1
  /\ \A p \in DOMAIN d.builders : BuilderOK(d.builders[p], w)

\* The decoder has tried its next Pseq n times, and may go on for the rest of
\* the life of its builder.
WaitOK(d, n) ==
  /\ n \in Nat
  /\ d.next \notin DOMAIN d.builders => n = 0
  /\ d.next \in DOMAIN d.builders => n + d.builders[d.next].lifeTime <= Long * MaxDelay

SenderInv ==
  /\ m_pseq \in 0 .. PseqMod - 1 /\ written \in 0 .. MaxFrames
  /\ \A t \in DOMAIN m_pending_frames :
       /\ t \in -MaxLate .. (Long + Short) * Wait
       /\ m_pending_frames[t] \in FragmentsUpTo(written)

FlagInv == m_running \in BOOLEAN /\ overlapped \in BOOLEAN

NetInv == net \in Seq(FragmentsUpTo(written))

DecoderInv ==
  /\ DecoderOK(m_pft, written)
  /\ latest \in 0 .. written

WaitInv == WaitOK(m_pft, waited)

StallInv == stalled => Cardinality(DOMAIN m_pft.builders) <= MaxDelay

Inv == FlagInv /\ SenderInv /\ NetInv /\ DecoderInv /\ WaitInv /\ StallInv
-----------------------------------------------------------------------------
(* Numbers.                                                                *)

LEMMA Constants ==
  /\ PseqMod \in Nat /\ PseqMod > 1
  /\ Short \in Nat /\ Long \in Nat /\ 0 < Short /\ Short <= Long
  /\ Fec \in Nat /\ MaxDelay \in Nat /\ MaxDelay > 0 /\ Keep \in 1 .. PseqMod - 1
  /\ MaxFrames \in Nat /\ Wait \in Nat /\ Wait > 0 /\ MaxLate \in Nat
BY FragmentAssumption, DecoderAssumption, TransportAssumption

LEMMA Product ==
  ASSUME NEW a \in Nat, NEW b \in Nat, NEW c \in Nat, a <= b
  PROVE  a * c \in Nat /\ b * c \in Nat /\ a * c <= b * c
OBVIOUS

LEMMA Lives == Short * MaxDelay \in 0 .. Long * MaxDelay /\ Long * MaxDelay \in 0 .. Long * MaxDelay
BY Constants, Product

LEMMA NextPseq ==
  ASSUME NEW p \in 0 .. PseqMod - 1
  PROVE  (p + 1) % PseqMod \in 0 .. PseqMod - 1 /\ (p + 1) % PseqMod # p
<1>1. CASE p + 1 < PseqMod
  <2>1. (p + 1) % PseqMod = p + 1
    BY <1>1, Constants
  <2> QED
    BY <1>1, <2>1, Constants
<1>2. CASE p + 1 = PseqMod
  <2>1. (p + 1) % PseqMod = 0
    BY <1>2, Constants
  <2> QED
    BY <1>2, <2>1, Constants
<1> QED
  BY <1>1, <1>2, Constants
-----------------------------------------------------------------------------
(* The decoder.                                                            *)

LEMMA BuilderGrows ==
  ASSUME NEW v \in Nat, NEW w \in Nat, v <= w, NEW b, BuilderOK(b, v)
  PROVE  BuilderOK(b, w)
BY DEF BuilderOK

LEMMA DecoderGrows ==
  ASSUME NEW v \in Nat, NEW w \in Nat, v <= w, NEW d, DecoderOK(d, v)
  PROVE  DecoderOK(d, w)
BY BuilderGrows DEF DecoderOK

LEMMA NewBuilderOK ==
  ASSUME NEW w \in Nat, NEW f \in FragmentsUpTo(w)
  PROVE  BuilderOK(NewBuilder(f), w) /\ NewBuilder(f).lifeTime \in 0 .. Long * MaxDelay
<1>1. f.fcount \in {Short, Long}
  BY DEF FragmentsUpTo
<1>2. f.fcount * MaxDelay \in 0 .. Long * MaxDelay
  BY <1>1, Lives
<1> QED
  BY <1>1, <1>2 DEF NewBuilder, BuilderOK

LEMMA AddFragmentOK ==
  ASSUME NEW w \in Nat, NEW f \in FragmentsUpTo(w), NEW b, BuilderOK(b, w)
  PROVE  BuilderOK(AddFragment(b, f), w) /\ AddFragment(b, f).lifeTime = b.lifeTime
<1>1. f.af \in 1 .. w
  BY DEF FragmentsUpTo
<1>2. CASE CheckConsistency(b, f) /\ f.findex \notin DOMAIN b.frags
  <2>1. PICK u, h : u = Updated(b.frags, Entry(f.findex, f.af)) /\ h = (b.damaged \/ f.damaged)
    OBVIOUS
  <2>2. AddFragment(b, f) = [b EXCEPT !.frags = u, !.damaged = h]
    BY <1>2, <2>1 DEF AddFragment
  <2>3. AddFragment(b, f) = [fcount |-> b.fcount, frags |-> u, damaged |-> h, lifeTime |-> b.lifeTime]
    BY <2>2 DEF BuilderOK
  <2>4. \A i \in DOMAIN u : u[i] \in 1 .. w
    <3>1. /\ DOMAIN u = DOMAIN b.frags \cup {f.findex}
          /\ u[f.findex] = f.af
          /\ \A i \in DOMAIN b.frags : i # f.findex => u[i] = b.frags[i]
      BY <2>1 DEF Updated, Entry
    <3> QED
      BY <1>1, <3>1 DEF BuilderOK
  <2> QED
    BY <2>3, <2>4 DEF BuilderOK
<1>3. CASE ~(CheckConsistency(b, f) /\ f.findex \notin DOMAIN b.frags)
  BY <1>3 DEF AddFragment
<1> QED
  BY <1>2, <1>3

\* A fragment is put into the builder of its Pseq; the decoder goes on with the
\* Pseq it was at, with the same life left, or starts with a new builder.
LEMMA PushFacts ==
  ASSUME NEW w \in Nat, NEW d, DecoderOK(d, w), NEW f \in FragmentsUpTo(w),
         NEW n, WaitOK(d, n)
  PROVE  LET e == PushPFTFrag(d, f)
         IN  /\ DecoderOK(e, w) /\ WaitOK(e, n)
             /\ e.next \in DOMAIN d.builders => e.next = d.next
             /\ e.next # d.next => n = 0
<1>1. PICK b : b = IF f.pseq \in DOMAIN d.builders THEN d.builders[f.pseq] ELSE NewBuilder(f)
  OBVIOUS
<1>2. BuilderOK(b, w)
  BY <1>1, NewBuilderOK DEF DecoderOK
<1>3. PICK c : c = AddFragment(b, f)
  OBVIOUS
<1>4. BuilderOK(c, w) /\ c.lifeTime = b.lifeTime
  BY <1>2, <1>3, AddFragmentOK
<1>5. PICK u : u = Updated(d.builders, Entry(f.pseq, c))
  OBVIOUS
<1>6. /\ DOMAIN u = DOMAIN d.builders \cup {f.pseq}
      /\ u = [p \in DOMAIN u |-> u[p]]
      /\ u[f.pseq] = c
      /\ \A p \in DOMAIN d.builders : p # f.pseq => u[p] = d.builders[p]
  BY <1>5 DEF Updated, Entry
<1>7. PICK e : e = PushPFTFrag(d, f)
  OBVIOUS
<1>8. e = [next |-> IF DOMAIN d.builders = {} THEN f.pseq ELSE d.next, builders |-> u]
  BY <1>1, <1>3, <1>5, <1>7 DEF PushPFTFrag
<1>9. f.pseq \in 0 .. PseqMod - 1
  BY DEF FragmentsUpTo
<1>10. DecoderOK(e, w)
  <2>1. \A p \in DOMAIN u : BuilderOK(u[p], w)
    BY <1>4, <1>6 DEF DecoderOK
  <2>2. e.next \in 0 .. PseqMod - 1
    BY <1>8, <1>9 DEF DecoderOK
  <2>3. DOMAIN u \subseteq 0 .. PseqMod - 1
    BY <1>6, <1>9 DEF DecoderOK
  <2> QED
    BY <1>6, <1>8, <2>1, <2>2, <2>3 DEF DecoderOK
<1>11. e.next # d.next => n = 0
  BY <1>8 DEF WaitOK
<1>12. WaitOK(e, n)
  <2>1. n \in Nat
    BY DEF WaitOK
  <2>2. CASE e.next \in DOMAIN d.builders
    <3>1. e.next = d.next /\ d.next \in DOMAIN d.builders
      BY <1>8, <2>2
    <3>2. u[d.next].lifeTime = d.builders[d.next].lifeTime
      BY <1>1, <1>4, <1>6, <3>1
    <3> QED
      BY <1>8, <1>6, <2>1, <3>1, <3>2 DEF WaitOK
  <2>3. CASE e.next \notin DOMAIN d.builders
    <3>1. n = 0
      BY <1>8, <2>3 DEF WaitOK
    <3>2. ASSUME e.next \in DOMAIN u
          PROVE  u[e.next].lifeTime \in 0 .. Long * MaxDelay
      BY <1>6, <1>4, <2>3, <3>2 DEF BuilderOK
    <3> QED
      BY <1>8, <2>1, <3>1, <3>2, Lives DEF WaitOK
  <2> QED
    BY <2>2, <2>3
<1>13. e.next \in DOMAIN d.builders => e.next = d.next
  BY <1>8
<1> QED
  BY <1>7, <1>10, <1>11, <1>12, <1>13

\* IncrementNextPseq goes to another Pseq, and the builders it keeps are as they
\* were.
LEMMA IncrementFacts ==
  ASSUME NEW w \in Nat, NEW d, DecoderOK(d, w)
  PROVE  LET e == IncrementNextPseq(d)
         IN  DecoderOK(e, w) /\ e.next # d.next /\ WaitOK(e, 0)
<1>1. PICK e : e = IncrementNextPseq(d)
  OBVIOUS
<1>2. PICK D : D = DOMAIN d.builders \ {(d.next - Keep) % PseqMod}
  OBVIOUS
<1>3. e = [next |-> (d.next + 1) % PseqMod, builders |-> [p \in D |-> d.builders[p]]]
  BY <1>1, <1>2 DEF IncrementNextPseq
<1>4. e.next \in 0 .. PseqMod - 1 /\ e.next # d.next
  BY <1>3, NextPseq DEF DecoderOK
<1>5. DOMAIN e.builders = D /\ \A p \in D : e.builders[p] = d.builders[p]
  BY <1>3
<1>6. DecoderOK(e, w)
  <2>1. e.builders = [p \in DOMAIN e.builders |-> e.builders[p]]
    BY <1>3
  <2>2. \A p \in D : BuilderOK(e.builders[p], w)
    BY <1>2, <1>5 DEF DecoderOK
  <2>3. D \subseteq 0 .. PseqMod - 1
    BY <1>2 DEF DecoderOK
  <2>4. e = [next |-> e.next, builders |-> e.builders]
    BY <1>3
  <2> QED
    BY <1>4, <1>5, <2>1, <2>2, <2>3, <2>4 DEF DecoderOK
<1>7. WaitOK(e, 0)
  <2>1. ASSUME e.next \in DOMAIN e.builders
        PROVE  e.builders[e.next].lifeTime \in 0 .. Long * MaxDelay
    BY <1>6, <2>1 DEF DecoderOK, BuilderOK
  <2> QED
    BY <2>1, Lives DEF WaitOK
<1> QED
  BY <1>1, <1>4, <1>6, <1>7

\* A call takes one off the life of the builder it tries.
LEMMA AgedFacts ==
  ASSUME NEW w \in Nat, NEW d, DecoderOK(d, w), d.next \in DOMAIN d.builders
  PROVE  LET e == Aged(d)
         IN  /\ DecoderOK(e, w) /\ e.next = d.next /\ e.next \in DOMAIN e.builders
             /\ ~Overdue(e) => e.builders[e.next].lifeTime + 1 = d.builders[d.next].lifeTime
<1>1. PICK b : b = d.builders[d.next]
  OBVIOUS
<1>2. BuilderOK(b, w)
  BY <1>1 DEF DecoderOK
<1>3. PICK l : l = IF b.lifeTime > 0 THEN b.lifeTime - 1 ELSE 0
  OBVIOUS
<1>4. l \in 0 .. Long * MaxDelay /\ (l # 0 => l + 1 = b.lifeTime)
  BY <1>2, <1>3, Lives DEF BuilderOK
<1>5. PICK c : c = [b EXCEPT !.lifeTime = l]
  OBVIOUS
<1>6. c = [fcount |-> b.fcount, frags |-> b.frags, damaged |-> b.damaged, lifeTime |-> l]
  BY <1>2, <1>5 DEF BuilderOK
<1>7. BuilderOK(c, w)
  BY <1>2, <1>4, <1>6 DEF BuilderOK
<1>8. PICK u : u = [d.builders EXCEPT ![d.next] = c]
  OBVIOUS
<1>9. /\ DOMAIN u = DOMAIN d.builders /\ u = [p \in DOMAIN u |-> u[p]] /\ u[d.next] = c
      /\ \A p \in DOMAIN u : p # d.next => u[p] = d.builders[p]
  BY <1>8 DEF DecoderOK
<1>10. PICK e : e = Aged(d)
  OBVIOUS
<1>11. e = [next |-> d.next, builders |-> u]
  <2>1. e = [d EXCEPT !.builders = u]
    BY <1>1, <1>3, <1>5, <1>8, <1>10 DEF Aged
  <2> QED
    BY <2>1 DEF DecoderOK
<1>12. DecoderOK(e, w)
  <2>1. \A p \in DOMAIN u : BuilderOK(u[p], w)
    BY <1>7, <1>9 DEF DecoderOK
  <2> QED
    BY <1>9, <1>11, <2>1 DEF DecoderOK
<1>13. ~Overdue(e) => e.builders[e.next].lifeTime + 1 = d.builders[d.next].lifeTime
  BY <1>1, <1>4, <1>6, <1>9, <1>11 DEF Overdue
<1> QED
  BY <1>9, <1>10, <1>11, <1>12, <1>13

\* Fragments of one packet give that packet, and the CRC finds a mixture out.
LEMMA ExtractFacts ==
  ASSUME NEW w \in Nat, NEW b, BuilderOK(b, w), NEW r
  PROVE  ExtractAF(b, r) \in 0 .. w
<1>1. CASE Contents(b, r) = Mixed
  BY <1>1 DEF ExtractAF, CheckCRC, NoAF
<1>2. CASE Contents(b, r) # Mixed
  <2>1. Cardinality({b.frags[i] : i \in DOMAIN b.frags}) = 1
    BY <1>2 DEF Contents
  <2>2. DOMAIN b.frags # {}
    <3>1. ASSUME DOMAIN b.frags = {} PROVE FALSE
      <4>1. {b.frags[i] : i \in DOMAIN b.frags} = {}
        BY <3>1
      <4> QED
        BY <2>1, <4>1, FS_EmptySet
    <3> QED
      BY <3>1
  <2>3. (CHOOSE i \in DOMAIN b.frags : TRUE) \in DOMAIN b.frags
    BY <2>2
  <2>4. Contents(b, r) \in 1 .. w
    BY <1>2, <2>1, <2>3 DEF Contents, BuilderOK
  <2> QED
    BY <2>4 DEF ExtractAF, NoAF
<1> QED
  BY <1>1, <1>2

LEMMA FewBuilders ==
  ASSUME NEW w \in Nat, NEW d, DecoderOK(d, w)
  PROVE  Cardinality(DOMAIN d.builders) \in Nat
<1>1. IsFiniteSet(0 .. PseqMod - 1)
  BY Constants, FS_Interval
<1>2. IsFiniteSet(DOMAIN d.builders)
  BY <1>1, FS_Subset DEF DecoderOK
<1> QED
  BY <1>2, FS_CardinalityType

\* One call of getNextAFPacket: without a builder the decoder stays where it is
\* and keeps at most MaxDelay others; with one it goes on to the next Pseq, or
\* has used up a part of the life of the builder.
LEMMA GetFacts ==
  ASSUME NEW w \in Nat, NEW d, DecoderOK(d, w), NEW n, WaitOK(d, n), NEW r
  PROVE  LET g == GetNextAFPacket(d, r)
         IN  /\ DecoderOK(g.decoder, w) /\ g.af \in 0 .. w
             /\ WaitOK(g.decoder, IF g.decoder.next = d.next /\ d.next \in DOMAIN g.decoder.builders
                                  THEN n + 1 ELSE 0)
             /\ d.next \notin DOMAIN d.builders =>
                  Cardinality(DOMAIN g.decoder.builders) <= MaxDelay
<1>1. PICK g : g = GetNextAFPacket(d, r)
  OBVIOUS
<1> DEFINE m == IF g.decoder.next = d.next /\ d.next \in DOMAIN g.decoder.builders
                THEN n + 1 ELSE 0
<1>2. CASE d.next \notin DOMAIN d.builders
  <2>1. g.af = NoAF /\ g.decoder = IF Cardinality(DOMAIN d.builders) > MaxDelay
                                   THEN [d EXCEPT !.builders = <<>>] ELSE d
    BY <1>1, <1>2 DEF GetNextAFPacket
  <2>2. CASE Cardinality(DOMAIN d.builders) > MaxDelay
    <3>1. g.decoder = [next |-> d.next, builders |-> <<>>]
      BY <2>1, <2>2 DEF DecoderOK
    <3>2. DOMAIN g.decoder.builders = {} /\ g.decoder.builders = [p \in {} |-> <<>>[p]]
      BY <3>1
    <3>3. Cardinality(DOMAIN g.decoder.builders) <= MaxDelay
      BY <3>2, FS_EmptySet, Constants
    <3>4. DecoderOK(g.decoder, w)
      BY <3>1, <3>2 DEF DecoderOK
    <3>5. WaitOK(g.decoder, m)
      BY <3>1, <3>2 DEF WaitOK
    <3> QED
      BY <1>1, <2>1, <3>3, <3>4, <3>5 DEF NoAF
  <2>3. CASE ~(Cardinality(DOMAIN d.builders) > MaxDelay)
    <3>1. Cardinality(DOMAIN g.decoder.builders) <= MaxDelay
      BY <2>1, <2>3, FewBuilders, Constants
    <3>2. WaitOK(g.decoder, m)
      BY <1>2, <2>1, <2>3 DEF WaitOK
    <3> QED
      BY <1>1, <2>1, <2>3, <3>1, <3>2 DEF NoAF
  <2> QED
    BY <2>2, <2>3
<1>3. CASE d.next \in DOMAIN d.builders
  <2>1. PICK b : b = d.builders[d.next]
    OBVIOUS
  <2>2. PICK a : a = Aged(d)
    OBVIOUS
  <2>3. BuilderOK(b, w) /\ ExtractAF(b, r) \in 0 .. w
    BY <1>3, <2>1, ExtractFacts DEF DecoderOK
  <2>4. /\ DecoderOK(a, w) /\ a.next = d.next /\ a.next \in DOMAIN a.builders
        /\ ~Overdue(a) => a.builders[a.next].lifeTime + 1 = b.lifeTime
    BY <1>3, <2>1, <2>2, AgedFacts
  <2>5. \/ g.decoder = IncrementNextPseq(d) /\ g.af \in 0 .. w
        \/ g.decoder = IncrementNextPseq(a) /\ g.af \in 0 .. w
        \/ g.decoder = a /\ g.af = NoAF /\ ~Overdue(a)
    <3>1. CanAttemptToDecode(b) \in {"no", "maybe", "yes"}
      BY DEF CanAttemptToDecode
    <3>2. PICK dar : dar = CanAttemptToDecode(b)
      OBVIOUS
    <3>3. g = CASE dar = "yes" ->
                     [decoder |-> IncrementNextPseq(d), af |-> ExtractAF(b, r)]
                [] dar = "maybe" /\ Overdue(a) ->
                     [decoder |-> IncrementNextPseq(a), af |-> ExtractAF(b, r)]
                [] dar = "no" /\ Overdue(a) ->
                     [decoder |-> IncrementNextPseq(a), af |-> NoAF]
                [] OTHER -> [decoder |-> a, af |-> NoAF]
      BY <1>1, <1>3, <2>1, <2>2, <3>2 DEF GetNextAFPacket
    <3>4. NoAF \in 0 .. w
      BY DEF NoAF
    <3>5. CASE dar = "yes"
      <4>1. g = [decoder |-> IncrementNextPseq(d), af |-> ExtractAF(b, r)]
        BY <3>3, <3>5
      <4> QED
        BY <2>3, <4>1
    <3>6. CASE dar = "maybe" /\ Overdue(a)
      <4>1. g = [decoder |-> IncrementNextPseq(a), af |-> ExtractAF(b, r)]
        BY <3>3, <3>6
      <4> QED
        BY <2>3, <4>1
    <3>7. CASE dar = "no" /\ Overdue(a)
      <4>1. g = [decoder |-> IncrementNextPseq(a), af |-> NoAF]
        BY <3>3, <3>7
      <4> QED
        BY <3>4, <4>1
    <3>8. CASE dar # "yes" /\ ~Overdue(a)
      <4>1. g = [decoder |-> a, af |-> NoAF]
        BY <3>3, <3>8
      <4> QED
        BY <3>8, <4>1
    <3> QED
      BY <3>1, <3>2, <3>5, <3>6, <3>7, <3>8
  <2>6. CASE g.decoder = IncrementNextPseq(d) /\ g.af \in 0 .. w
    <3>1. DecoderOK(g.decoder, w) /\ g.decoder.next # d.next /\ WaitOK(g.decoder, 0)
      BY <2>6, IncrementFacts
    <3> QED
      BY <1>1, <1>3, <2>6, <3>1
  <2>7. CASE g.decoder = IncrementNextPseq(a) /\ g.af \in 0 .. w
    <3>1. DecoderOK(g.decoder, w) /\ g.decoder.next # d.next /\ WaitOK(g.decoder, 0)
      BY <2>4, <2>7, IncrementFacts
    <3> QED
      BY <1>1, <1>3, <2>7, <3>1
  <2>8. CASE g.decoder = a /\ g.af = NoAF /\ ~Overdue(a)
    <3>1. n \in Nat /\ n + b.lifeTime <= Long * MaxDelay
      BY <1>3, <2>1 DEF WaitOK
    <3>2. a.builders[a.next].lifeTime \in Nat
      BY <2>4 DEF DecoderOK, BuilderOK
    <3>3. Long * MaxDelay \in Nat /\ b.lifeTime \in Nat
      BY <2>3, Lives DEF BuilderOK
    <3>4. (n + 1) + a.builders[a.next].lifeTime <= Long * MaxDelay
      BY <2>4, <2>8, <3>1, <3>2, <3>3
    <3>5. WaitOK(a, n + 1)
      BY <2>4, <3>1, <3>4 DEF WaitOK
    <3>6. m = n + 1
      BY <2>4, <2>8
    <3>7. 0 \in 0 .. w
      OBVIOUS
    <3> QED
      BY <1>1, <1>3, <2>4, <2>8, <3>5, <3>6, <3>7 DEF NoAF
  <2> QED
    BY <2>5, <2>6, <2>7, <2>8
<1> QED
  BY <1>2, <1>3
-----------------------------------------------------------------------------
(* The order of the pending fragments.                                     *)

\* The same for the keys of the map, which are overdue by b ticks at most.
LEMMA EarliestKey ==
  ASSUME NEW b \in Nat, NEW S, S # {}, \A t \in S : t \in Int /\ -b <= t
  PROVE  \E t \in S : \A u \in S : t <= u
<1> DEFINE N == {t + b : t \in S}
<1>1. N \subseteq Nat /\ N # {}
  OBVIOUS
<1>2. PICK n \in N : \A m \in N : n <= m
  <2> HIDE DEF N
  <2> QED
    BY <1>1, Minimum
<1>3. PICK t \in S : n = t + b
  OBVIOUS
<1>4. ASSUME NEW u \in S PROVE t <= u
  <2>1. n <= u + b
    BY <1>2
  <2> QED
    BY <1>3, <2>1
<1> QED
  BY <1>4

UpTo(V, t) == {u \in V : u <= t}

\* The map has a k-th key.
LEMMA KthKey ==
  ASSUME NEW b \in Nat, NEW V, IsFiniteSet(V), \A t \in V : t \in Int /\ -b <= t,
         NEW k \in 1 .. Cardinality(V)
  PROVE  \E t \in V : Cardinality(UpTo(V, t)) = k
<1> DEFINE Bad == {j \in Nat : j \in 1 .. Cardinality(V) /\ \A t \in V : Cardinality(UpTo(V, t)) # j}
<1>1. Cardinality(V) \in Nat
  BY FS_CardinalityType
<1>2. ASSUME Bad # {} PROVE FALSE
  <2>1. PICK j \in Bad : \A i \in Bad : j <= i
    <3>1. Bad \subseteq Nat
      OBVIOUS
    <3> HIDE DEF Bad
    <3> QED
      BY <1>2, <3>1, Minimum
  <2>2. /\ j \in Nat /\ 1 <= j /\ j <= Cardinality(V)
        /\ \A t \in V : Cardinality(UpTo(V, t)) # j
    BY <1>1
  <2>3. CASE j = 1
    <3>1. V # {}
      BY <1>1, <2>2, FS_EmptySet
    <3>2. PICK t \in V : \A u \in V : t <= u
      BY <3>1, EarliestKey
    <3>3. UpTo(V, t) = {t}
      <4>1. \A u \in V : u <= t <=> u = t
        BY <3>2
      <4> QED
        BY <4>1 DEF UpTo
    <3>4. Cardinality({t}) = 1
      BY FS_Singleton
    <3> QED
      BY <2>2, <2>3, <3>3, <3>4
  <2>4. CASE j # 1
    <3>1. j - 1 \in Nat /\ j - 1 \in 1 .. Cardinality(V) /\ ~(j <= j - 1)
      BY <1>1, <2>2, <2>4
    <3>2. PICK t \in V : Cardinality(UpTo(V, t)) = j - 1
      BY <2>1, <3>1
    <3> DEFINE W == {u \in V : u > t}
               U == UpTo(V, t)
    <3>3. IsFiniteSet(U) /\ U \subseteq V
      BY FS_Subset DEF UpTo
    <3>4. W # {}
      <4>1. U # V
        <5> HIDE DEF U
        <5> QED
          BY <1>1, <2>2, <3>2, <3>1 DEF U
      <4>2. PICK q \in V : q \notin U
        BY <3>3, <4>1
      <4>3. q > t
        BY <4>2 DEF UpTo
      <4> QED
        BY <4>3
    <3>5. PICK r \in W : \A q \in W : r <= q
      <4>1. \A u \in W : u \in Int /\ -b <= u
        OBVIOUS
      <4> HIDE DEF W
      <4> QED
        BY <3>4, <4>1, EarliestKey
    <3>6. r \in V /\ t < r /\ r \notin U /\ UpTo(V, r) = U \cup {r}
      <4>1. r \in V /\ t < r
        OBVIOUS
      <4>2. ASSUME NEW q \in V PROVE q <= r <=> q <= t \/ q = r
        BY <3>5, <4>1
      <4> QED
        BY <4>1, <4>2 DEF UpTo
    <3>7. Cardinality(U \cup {r}) = Cardinality(U) + 1
      BY <3>3, <3>6, FS_AddElement
    <3>8. Cardinality(UpTo(V, r)) = j
      BY <2>2, <3>2, <3>6, <3>7
    <3> QED
      BY <2>2, <3>6, <3>8
  <2> QED
    BY <2>3, <2>4
<1> QED
  BY <1>1, <1>2

LEMMA DueFacts ==
  ASSUME SenderInv
  PROVE  /\ IsFiniteSet(Due) /\ Cardinality(Due) \in Nat
         /\ InKeyOrder(Due) \in Seq(FragmentsUpTo(written))
         /\ Len(InKeyOrder(Due)) = Cardinality(Due)
         /\ \A k \in 1 .. Cardinality(Due) : \E t \in Due :
              Cardinality(UpTo(Due, t)) = k /\ InKeyOrder(Due)[k] = m_pending_frames[t]
<1>1. (Long + Short) * Wait \in Nat /\ -MaxLate \in Int
  BY Constants, Product
<1>2. IsFiniteSet(-MaxLate .. (Long + Short) * Wait)
  BY <1>1, FS_Interval
<1>3. Due \subseteq -MaxLate .. (Long + Short) * Wait
  BY DEF Due, SenderInv
<1>4. IsFiniteSet(Due)
  BY <1>2, <1>3, FS_Subset
<1>5. Cardinality(Due) \in Nat
  BY <1>4, FS_CardinalityType
<1>6. \A t \in Due : t \in Int /\ -MaxLate <= t
  BY <1>1, <1>3
<1>7. ASSUME NEW k \in 1 .. Cardinality(Due)
      PROVE  m_pending_frames[CHOOSE t \in Due : Cardinality({u \in Due : u <= t}) = k]
               \in FragmentsUpTo(written)
  <2>1. \E t \in Due : Cardinality(UpTo(Due, t)) = k
    BY <1>4, <1>6, Constants, KthKey
  <2>2. (CHOOSE t \in Due : Cardinality({u \in Due : u <= t}) = k) \in Due
    BY <2>1 DEF UpTo
  <2>3. \A t \in Due : m_pending_frames[t] \in FragmentsUpTo(written)
    BY DEF Due, SenderInv
  <2> QED
    BY <2>2, <2>3
<1>8. PICK q : q = InKeyOrder(Due)
  OBVIOUS
<1>9. q = [k \in 1 .. Cardinality(Due) |->
             m_pending_frames[CHOOSE t \in Due : Cardinality({u \in Due : u <= t}) = k]]
  BY <1>8 DEF InKeyOrder
<1>10. q \in [1 .. Cardinality(Due) -> FragmentsUpTo(written)]
  BY <1>7, <1>9
<1>11. q \in Seq(FragmentsUpTo(written)) /\ Len(q) = Cardinality(Due)
  BY <1>5, <1>10
<1>12. ASSUME NEW k \in 1 .. Cardinality(Due)
       PROVE  \E t \in Due : Cardinality(UpTo(Due, t)) = k /\ q[k] = m_pending_frames[t]
  <2>1. \E t \in Due : Cardinality(UpTo(Due, t)) = k
    BY <1>4, <1>6, Constants, KthKey
  <2>2. PICK t : t = CHOOSE x \in Due : Cardinality({u \in Due : u <= x}) = k
    OBVIOUS
  <2>3. t \in Due /\ Cardinality(UpTo(Due, t)) = k
    BY <2>1, <2>2 DEF UpTo
  <2> QED
    BY <1>9, <2>2, <2>3
<1> QED
  BY <1>4, <1>5, <1>8, <1>11, <1>12
-----------------------------------------------------------------------------
(* The steps of the sender.                                                *)

LEMMA FragmentsGrow ==
  ASSUME NEW v \in Nat, NEW w \in Nat, v <= w
  PROVE  FragmentsUpTo(v) \subseteq FragmentsUpTo(w)
<1>1. 1 .. v \subseteq 1 .. w
  OBVIOUS
<1> QED
  BY <1>1 DEF FragmentsUpTo

LEMMA Quotient ==
  ASSUME NEW i \in Nat, NEW c \in Nat \ {0}
  PROVE  (i * c) \div c = i
OBVIOUS

\* The fragments of a packet are due from now on, each with its own key.
LEMMA ScheduledFacts ==
  ASSUME NEW n \in Nat \ {0}, NEW q \in 0 .. PseqMod - 1
  PROVE  LET s == Scheduled(Assemble(n, q))
         IN  \A t \in DOMAIN s : /\ t \in -MaxLate .. (Long + Short) * Wait
                                 /\ s[t] \in FragmentsUpTo(n)
<1>1. FragmentsOf(n) \in {Short, Long} /\ FragmentsOf(n) \in Nat
  BY Constants DEF FragmentsOf
<1>2. PICK a : a = Assemble(n, q)
  OBVIOUS
<1>3. /\ DOMAIN a = 0 .. FragmentsOf(n) - 1
      /\ \A i \in DOMAIN a :
           a[i] = [pseq |-> q, findex |-> i, fcount |-> FragmentsOf(n), af |-> n,
                   damaged |-> FALSE]
  BY <1>2 DEF Assemble
<1>4. \A i \in DOMAIN a : a[i] \in FragmentsUpTo(n)
  <2>1. n \in 1 .. n /\ \A i \in DOMAIN a : i \in Nat
    BY <1>1, <1>3
  <2>2. PICK h \in BOOLEAN : h = FALSE
    OBVIOUS
  <2>3. ASSUME NEW i \in DOMAIN a
        PROVE  a[i] = [pseq |-> q, findex |-> i, fcount |-> FragmentsOf(n), af |-> n, damaged |-> h]
    BY <1>3, <2>2
  <2>4. ASSUME NEW i \in DOMAIN a
        PROVE  [pseq |-> q, findex |-> i, fcount |-> FragmentsOf(n), af |-> n, damaged |-> h]
                 \in FragmentsUpTo(n)
    BY <1>1, <2>1, Zenon DEF FragmentsUpTo
  <2> QED
    BY <2>3, <2>4
<1>5. PICK s : s = Scheduled(a)
  OBVIOUS
<1>6. /\ DOMAIN s = {i * Wait : i \in DOMAIN a}
      /\ \A t \in DOMAIN s : s[t] = a[t \div Wait]
  BY <1>5 DEF Scheduled
<1>7. ASSUME NEW t \in DOMAIN s
      PROVE  t \in -MaxLate .. (Long + Short) * Wait /\ s[t] \in FragmentsUpTo(n)
  <2>1. PICK i \in DOMAIN a : t = i * Wait
    BY <1>6
  <2>2. i \in Nat /\ i <= Long + Short /\ Long + Short \in Nat
    BY <1>1, <1>3, Constants
  <2>3. i * Wait \in Nat /\ (Long + Short) * Wait \in Nat /\ i * Wait <= (Long + Short) * Wait
    BY <2>2, Constants, Product
  <2>4. t \in -MaxLate .. (Long + Short) * Wait
    BY <2>1, <2>3, Constants
  <2>5. t \div Wait = i
    BY <2>1, <2>2, Constants, Quotient
  <2> QED
    BY <1>4, <1>6, <2>4, <2>5
<1> QED
  BY <1>2, <1>5, <1>7

LEMMA ConstantsOfInv ==
  ASSUME Inv
  PROVE  written \in Nat /\ net \in Seq(FragmentsUpTo(written))
BY Constants DEF Inv, SenderInv, NetInv

LEMMA WriteStep == Inv /\ LinkWrite => Inv'
<1> SUFFICES ASSUME Inv, LinkWrite PROVE Inv'
  OBVIOUS
<1>1. PICK n \in Frames : /\ Write(n) /\ lossy' = (lossy \/ Replaces(n))
                          /\ UNCHANGED <<net, mishaps, reordered, receiver>>
  BY DEF LinkWrite
<1>2. written \in Nat /\ n \in Nat \ {0} /\ n <= MaxFrames /\ written <= n /\ written' = n
  <2>1. n \in 1 .. MaxFrames /\ n \in written + 1 .. written + 1 + MaxGap /\ written' = n
    BY <1>1 DEF Write, Frames
  <2>2. written \in Nat /\ MaxFrames \in Nat
    BY ConstantsOfInv, Constants
  <2> QED
    BY <2>1, <2>2
<1>3. FragmentsUpTo(written) \subseteq FragmentsUpTo(n)
  BY <1>2, FragmentsGrow
<1>4. OverridePSeq(n) \in 0 .. PseqMod - 1
  <2>1. n % PseqMod \in 0 .. PseqMod - 1
    BY <1>2, Constants
  <2> QED
    BY <2>1 DEF OverridePSeq, Inv, SenderInv
<1>5. PICK q : q = OverridePSeq(n)
  OBVIOUS
<1>6. PICK s : s = Scheduled(Assemble(n, q))
  OBVIOUS
<1>7. \A t \in DOMAIN s : /\ t \in -MaxLate .. (Long + Short) * Wait
                          /\ s[t] \in FragmentsUpTo(n)
  BY <1>2, <1>4, <1>5, <1>6, ScheduledFacts
<1>8. /\ m_pending_frames' = Updated(m_pending_frames, s)
      /\ overlapped' = (overlapped \/ DOMAIN m_pending_frames # {})
      /\ m_pseq' = (q + 1) % PseqMod
      /\ m_running' = m_running
  BY <1>1, <1>5, <1>6 DEF Write
<1>9. m_pseq' \in 0 .. PseqMod - 1
  BY <1>4, <1>5, <1>8, NextPseq
<1>10. \A t \in DOMAIN m_pending_frames' :
         /\ t \in -MaxLate .. (Long + Short) * Wait
         /\ m_pending_frames'[t] \in FragmentsUpTo(n)
  BY <1>3, <1>7, <1>8 DEF Updated, Inv, SenderInv
<1>11. SenderInv'
  BY <1>2, <1>9, <1>10, Constants DEF SenderInv
<1>12. FlagInv'
  BY <1>8, Zenon DEF FlagInv, Inv
<1>13. UNCHANGED <<net, m_pft, latest, waited, stalled>>
  BY <1>1 DEF network, receiver
<1>14. NetInv'
  BY <1>2, <1>3, <1>13 DEF NetInv, Inv
<1>15. DecoderInv'
  <2>1. DecoderOK(m_pft, n)
    BY <1>2, DecoderGrows DEF DecoderInv, Inv
  <2>2. latest \in 0 .. n
    BY <1>2 DEF DecoderInv, Inv
  <2> QED
    BY <1>2, <1>13, <2>1, <2>2 DEF DecoderInv
<1>16. WaitInv' /\ StallInv'
  BY <1>13 DEF WaitInv, StallInv, Inv
<1> QED
  BY <1>11, <1>12, <1>14, <1>15, <1>16 DEF Inv

LEMMA TickStep == Inv /\ LinkTick => Inv'
<1> SUFFICES ASSUME Inv, LinkTick PROVE Inv'
  OBVIOUS
<1>1. /\ \A t \in DOMAIN m_pending_frames : t > -MaxLate
      /\ m_pending_frames' = [t \in {u - 1 : u \in DOMAIN m_pending_frames} |-> m_pending_frames[t + 1]]
      /\ UNCHANGED <<m_pseq, m_running, written, overlapped>>
      /\ UNCHANGED <<net, m_pft, latest, waited, stalled>>
  BY DEF LinkTick, Tick, network, receiver
<1>2. ASSUME NEW t \in DOMAIN m_pending_frames'
      PROVE  /\ t \in -MaxLate .. (Long + Short) * Wait
             /\ m_pending_frames'[t] \in FragmentsUpTo(written)
  <2>1. PICK u \in DOMAIN m_pending_frames : t = u - 1
    BY <1>1
  <2>2. u \in -MaxLate .. (Long + Short) * Wait /\ m_pending_frames[u] \in FragmentsUpTo(written)
    BY DEF Inv, SenderInv
  <2>3. (Long + Short) * Wait \in Nat /\ -MaxLate \in Int
    BY Constants, Product
  <2>4. u \in Int /\ u > -MaxLate /\ u <= (Long + Short) * Wait
    BY <1>1, <2>2, <2>3
  <2>5. t \in -MaxLate .. (Long + Short) * Wait /\ t + 1 = u
    BY <2>1, <2>3, <2>4
  <2> QED
    BY <1>1, <2>2, <2>5
<1>3. SenderInv'
  BY <1>1, <1>2 DEF SenderInv, Inv
<1> QED
  BY <1>1, <1>3 DEF Inv, FlagInv, NetInv, DecoderInv, WaitInv, StallInv

LEMMA TransmitStep == Inv /\ LinkTransmit => Inv'
<1> SUFFICES ASSUME Inv, LinkTransmit PROVE Inv'
  OBVIOUS
<1>1. /\ net' = net \o InKeyOrder(Due)
      /\ m_pending_frames' = [t \in DOMAIN m_pending_frames \ Due |-> m_pending_frames[t]]
      /\ UNCHANGED <<m_pseq, m_running, written, overlapped>>
      /\ UNCHANGED <<m_pft, latest, waited, stalled>>
  BY DEF LinkTransmit, Transmit, receiver
<1>2. NetInv'
  <2>1. InKeyOrder(Due) \in Seq(FragmentsUpTo(written))
    BY DueFacts DEF Inv
  <2>2. net \o InKeyOrder(Due) \in Seq(FragmentsUpTo(written))
    BY <2>1, ConcatProperties DEF Inv, NetInv
  <2> QED
    BY <1>1, <2>2 DEF NetInv
<1>3. SenderInv'
  BY <1>1 DEF SenderInv, Inv
<1> QED
  BY <1>1, <1>2, <1>3 DEF Inv, FlagInv, DecoderInv, WaitInv, StallInv

LEMMA ThrowsStep == Inv /\ LinkThrows => Inv'
<1> SUFFICES ASSUME Inv, LinkThrows PROVE Inv'
  OBVIOUS
<1>1. /\ \E k \in 0 .. Cardinality(Due) - 1 : net' = net \o SubSeq(InKeyOrder(Due), 1, k)
      /\ m_running' = FALSE /\ m_pending_frames' = <<>>
      /\ UNCHANGED <<m_pseq, written, overlapped>>
      /\ UNCHANGED <<m_pft, latest, waited, stalled>>
  BY DEF LinkThrows, SendThrows, receiver
<1>2. NetInv'
  <2>1. /\ InKeyOrder(Due) \in Seq(FragmentsUpTo(written)) /\ Cardinality(Due) \in Nat
        /\ Len(InKeyOrder(Due)) = Cardinality(Due)
    BY DueFacts DEF Inv
  <2>2. PICK k \in 0 .. Cardinality(Due) - 1 : net' = net \o SubSeq(InKeyOrder(Due), 1, k)
    BY <1>1
  <2>3. PICK q : q = InKeyOrder(Due)
    OBVIOUS
  <2>4. SubSeq(q, 1, k) \in Seq(FragmentsUpTo(written))
    BY <2>1, <2>3, SubSeqProperties
  <2>5. net \o SubSeq(q, 1, k) \in Seq(FragmentsUpTo(written))
    BY <2>4, ConcatProperties DEF Inv, NetInv
  <2> QED
    BY <1>1, <2>2, <2>3, <2>5 DEF NetInv
<1>3. SenderInv'
  BY <1>1 DEF SenderInv, Inv
<1> QED
  BY <1>1, <1>2, <1>3 DEF Inv, FlagInv, DecoderInv, WaitInv, StallInv

LEMMA StopStep == Inv /\ LinkStop => Inv'
<1> SUFFICES ASSUME Inv, LinkStop PROVE Inv'
  OBVIOUS
<1>1. /\ m_running' = FALSE /\ m_pending_frames' = <<>>
      /\ UNCHANGED <<m_pseq, written, overlapped>>
      /\ UNCHANGED <<net, m_pft, latest, waited, stalled>>
  BY DEF LinkStop, StopTransport, network, receiver
<1>2. SenderInv'
  BY <1>1 DEF SenderInv, Inv
<1> QED
  BY <1>1, <1>2 DEF Inv, FlagInv, NetInv, DecoderInv, WaitInv, StallInv
-----------------------------------------------------------------------------
(* The steps of the network and the receiver.                              *)

\* A call of push_packet, with a datagram that is damaged or not.
LEMMA PushPacketStep ==
  ASSUME Inv, NEW f \in FragmentsUpTo(written), NEW valid, PushPacket(f, valid),
         written' = written
  PROVE  DecoderInv' /\ WaitInv' /\ StallInv'
<1>1. PICK r \in BOOLEAN, e \in {LoadData(m_pft, f, valid)} :
        \E got \in {GetNextAFPacket(e, r)} :
          /\ m_pft' = got.decoder
          /\ latest' = IF got.af = NoAF THEN latest ELSE got.af
          /\ waited' = IF /\ got.decoder.next = e.next
                          /\ e.next \in DOMAIN got.decoder.builders
                       THEN waited + 1 ELSE 0
          /\ stalled' = (e.next \notin DOMAIN e.builders)
  BY DEF PushPacket
<1>2. PICK g \in {GetNextAFPacket(e, r)} :
        /\ m_pft' = g.decoder
        /\ latest' = IF g.af = NoAF THEN latest ELSE g.af
        /\ waited' = IF /\ g.decoder.next = e.next
                        /\ e.next \in DOMAIN g.decoder.builders
                     THEN waited + 1 ELSE 0
        /\ stalled' = (e.next \notin DOMAIN e.builders)
  BY <1>1
<1>3. PICK w, d, n : w = written /\ d = m_pft /\ n = waited
  OBVIOUS
<1>4. w \in Nat /\ DecoderOK(d, w) /\ WaitOK(d, n) /\ f \in FragmentsUpTo(w)
  BY <1>3, ConstantsOfInv DEF Inv, DecoderInv, WaitInv
<1>5. /\ DecoderOK(e, w) /\ WaitOK(e, n)
      /\ e.next # d.next => n = 0
  <2>1. CASE valid
    BY <1>1, <1>3, <1>4, <2>1, PushFacts DEF LoadData
  <2>2. CASE ~valid
    BY <1>1, <1>3, <1>4, <2>2 DEF LoadData
  <2> QED
    BY <2>1, <2>2
<1>6. /\ DecoderOK(g.decoder, w) /\ g.af \in 0 .. w
      /\ WaitOK(g.decoder, IF g.decoder.next = e.next /\ e.next \in DOMAIN g.decoder.builders
                           THEN n + 1 ELSE 0)
      /\ e.next \notin DOMAIN e.builders => Cardinality(DOMAIN g.decoder.builders) <= MaxDelay
  BY <1>2, <1>4, <1>5, GetFacts
<1>7. DecoderInv'
  <2>1. latest' \in 0 .. w
    BY <1>2, <1>3, <1>6 DEF Inv, DecoderInv
  <2> QED
    BY <1>2, <1>3, <1>6, <2>1 DEF DecoderInv
<1>8. StallInv'
  BY <1>2, <1>6 DEF StallInv
<1>9. WaitInv'
  <2>1. WaitOK(g.decoder, waited')
    BY <1>2, <1>3, <1>5, <1>6
  <2> QED
    BY <1>2, <2>1 DEF WaitInv
<1> QED
  BY <1>7, <1>8, <1>9

\* A datagram that is in flight arrives, and others stay there.
LEMMA DeliveryStep ==
  ASSUME Inv, NEW f \in FragmentsUpTo(written), NEW valid \in BOOLEAN, PushPacket(f, valid),
         NetInv', UNCHANGED transport
  PROVE  Inv'
<1>1. UNCHANGED <<m_pseq, m_pending_frames, m_running, written, overlapped>>
  BY DEF transport
<1>3. f \in FragmentsUpTo(written)
  OBVIOUS
<1>4. PushPacket(f, valid)
  OBVIOUS
<1>5. DecoderInv' /\ WaitInv' /\ StallInv'
  BY <1>1, <1>3, <1>4, PushPacketStep
<1>6. SenderInv' /\ FlagInv'
  BY <1>1 DEF SenderInv, FlagInv, Inv
<1> QED
  BY <1>5, <1>6 DEF Inv

\* Damage leaves the header of a fragment as it is.
LEMMA DamagedFragment ==
  ASSUME NEW w, NEW f \in FragmentsUpTo(w)
  PROVE  LET g == [f EXCEPT !.damaged = TRUE]
         IN  g \in FragmentsUpTo(w) /\ g.af = f.af /\ g.pseq = f.pseq
BY DEF FragmentsUpTo

LEMMA NetworkStep == Inv /\ (Arrive \/ Overtake \/ Duplicate \/ Lose \/ Garble) => Inv'
<1> SUFFICES ASSUME Inv, Arrive \/ Overtake \/ Duplicate \/ Lose \/ Garble PROVE Inv'
  OBVIOUS
<1>1. net \in Seq(FragmentsUpTo(written)) /\ Len(net) \in Nat
  BY ConstantsOfInv
<1>2. ASSUME net # <<>>
      PROVE  Head(net) \in FragmentsUpTo(written) /\ Tail(net) \in Seq(FragmentsUpTo(written))
  BY <1>1, <1>2
<1>3. ASSUME UNCHANGED transport
      PROVE  written' = written
  BY <1>3 DEF transport
<1>4. CASE Arrive
  <2>1. net # <<>> /\ PushPacket(Head(net), TRUE) /\ net' = Tail(net) /\ UNCHANGED transport
    BY <1>4 DEF Arrive
  <2>2. NetInv'
    BY <1>2, <1>3, <2>1 DEF NetInv
  <2> QED
    BY <1>2, <2>1, <2>2, DeliveryStep
<1>5. CASE Overtake
  <2>1. /\ Len(net) > 1 /\ PushPacket(net[2], TRUE) /\ UNCHANGED transport
        /\ net' = <<net[1]>> \o SubSeq(net, 3, Len(net))
    BY <1>5 DEF Overtake
  <2>2. net[2] \in FragmentsUpTo(written) /\ net[1] \in FragmentsUpTo(written)
    BY <1>1, <2>1
  <2>3. SubSeq(net, 3, Len(net)) \in Seq(FragmentsUpTo(written))
    BY <1>1, <2>1, SubSeqProperties
  <2>4. <<net[1]>> \o SubSeq(net, 3, Len(net)) \in Seq(FragmentsUpTo(written))
    BY <2>2, <2>3, ConcatProperties
  <2>5. NetInv'
    BY <1>3, <2>1, <2>4 DEF NetInv
  <2> QED
    BY <2>1, <2>2, <2>5, DeliveryStep
<1>6. CASE Duplicate
  <2>1. net # <<>> /\ PushPacket(Head(net), TRUE) /\ net' = net /\ UNCHANGED transport
    BY <1>6 DEF Duplicate
  <2>2. NetInv'
    BY <1>1, <1>3, <2>1 DEF NetInv
  <2> QED
    BY <1>2, <2>1, <2>2, DeliveryStep
<1>7. CASE Lose
  <2>1. /\ net # <<>> /\ net' = Tail(net)
        /\ UNCHANGED <<m_pseq, m_pending_frames, m_running, written, overlapped>>
        /\ UNCHANGED <<m_pft, latest, waited, stalled>>
    BY <1>7 DEF Lose, transport, receiver
  <2>2. NetInv'
    BY <1>2, <2>1 DEF NetInv
  <2>3. SenderInv' /\ FlagInv'
    BY <2>1 DEF SenderInv, FlagInv, Inv
  <2>4. DecoderInv' /\ WaitInv' /\ StallInv'
    BY <2>1 DEF DecoderInv, WaitInv, StallInv, Inv
  <2> QED
    BY <2>2, <2>3, <2>4 DEF Inv
<1>8. CASE Garble
  <2>1. PICK valid \in BOOLEAN :
          /\ net # <<>> /\ PushPacket([Head(net) EXCEPT !.damaged = TRUE], valid)
          /\ net' = Tail(net) /\ UNCHANGED transport
    BY <1>8 DEF Garble
  <2>2. NetInv'
    BY <1>2, <1>3, <2>1 DEF NetInv
  <2>3. PICK f : f = [Head(net) EXCEPT !.damaged = TRUE]
    OBVIOUS
  <2>4. f \in FragmentsUpTo(written)
    BY <1>2, <2>1, <2>3, DamagedFragment
  <2>5. PushPacket(f, valid)
    BY <2>1, <2>3
  <2> QED
    BY <2>1, <2>2, <2>4, <2>5, DeliveryStep
<1> QED
  BY <1>4, <1>5, <1>6, <1>7, <1>8
-----------------------------------------------------------------------------
(* The order of delivery.                                                  *)

\* V numbers the packets up to w that were written, the way Pseq does but without
\* wrapping round; 0 stands for what came before the first.
Increasing(V, w) ==
  /\ 0 \in DOMAIN V /\ w \in DOMAIN V /\ DOMAIN V \subseteq 0 .. w
  /\ \A a \in DOMAIN V : V[a] \in Int
  /\ \A a, b \in DOMAIN V : a < b => V[a] < V[b] /\ V[b] - V[a] <= b - a

\* The sequence numbers are those of the source, or count the packets.
Counted(V) ==
  IF overrides THEN \A a \in DOMAIN V : V[a] = a ELSE m_pseq = (V[written] + 1) % PseqMod

Bears(f, V) == f.af \in DOMAIN V /\ f.pseq = V[f.af] % PseqMod

SenderNumbers(V) == \A t \in DOMAIN m_pending_frames : Bears(m_pending_frames[t], V)

NetNumbers(V) == \A i \in 1 .. Len(net) : Bears(net[i], V)

\* The builder has fragments of the packet with number n, and of no other.
Holds(b, V, n) ==
  /\ DOMAIN b.frags # {}
  /\ \A i \in DOMAIN b.frags : b.frags[i] \in DOMAIN V /\ V[b.frags[i]] = n

\* The decoder waits for the packet with number N: it has delivered only packets
\* before N, and the builders from N on, up to those it keeps of the packets it
\* has passed, are of the packet their place stands for.
InStep(d, V, N, l, m) ==
  /\ d.next = N % PseqMod
  /\ V[l] < N /\ N <= V[m] + 1
  /\ \A n \in N .. N + PseqMod - Keep - 1 :
       n % PseqMod \in DOMAIN d.builders =>
         n <= V[m] /\ Holds(d.builders[n % PseqMod], V, n)

\* Where the decoder is when l was delivered last and m is the newest packet it
\* has a fragment of; without builders it starts anywhere, after l.
Position(d, V, l, m) ==
  /\ l \in DOMAIN V /\ m \in DOMAIN V
  /\ DOMAIN d.builders = {} => l = 0 \/ l < m
  /\ DOMAIN d.builders # {} => \E N \in Int : InStep(d, V, N, l, m)

Numbered(V) ==
  /\ Increasing(V, written) /\ Counted(V) /\ SenderNumbers(V) /\ NetNumbers(V)
  /\ Position(m_pft, V, latest, newest)

OrderInv == ~astray => ~repeated /\ \E V : Numbered(V)

LEMMA Modulus == PseqMod \in Nat \ {0} /\ PseqMod \in Nat /\ Keep \in Nat /\ 1 <= Keep /\ Keep < PseqMod
BY Constants

\* The numbers of two packets, compared.
LEMMA Compared ==
  ASSUME NEW w \in Nat, NEW V, Increasing(V, w), NEW a \in DOMAIN V, NEW b \in DOMAIN V
  PROVE  /\ a \in Nat /\ b \in Nat /\ V[a] \in Int /\ V[b] \in Int
         /\ a < b => V[a] < V[b]
         /\ a <= b => V[a] <= V[b] /\ V[b] - V[a] <= b - a
         /\ V[a] < V[b] => a < b
         /\ V[a] = V[b] => a = b
<1>1. a \in Nat /\ b \in Nat /\ V[a] \in Int /\ V[b] \in Int
  BY DEF Increasing
<1>2. a < b => V[a] < V[b] /\ V[b] - V[a] <= b - a
  BY DEF Increasing
<1>3. b < a => V[b] < V[a]
  BY DEF Increasing
<1> QED
  BY <1>1, <1>2, <1>3

\* A fragment joins a builder that has fragments of the same packet only.
LEMMA AddedHolds ==
  ASSUME NEW V, NEW n, NEW b, NEW w \in Nat, BuilderOK(b, w), Holds(b, V, n), NEW f,
         f.af \in DOMAIN V, V[f.af] = n
  PROVE  Holds(AddFragment(b, f), V, n)
<1>1. CASE CheckConsistency(b, f) /\ f.findex \notin DOMAIN b.frags
  <2>1. PICK u, h : u = Updated(b.frags, Entry(f.findex, f.af)) /\ h = (b.damaged \/ f.damaged)
    OBVIOUS
  <2>2. AddFragment(b, f) = [fcount |-> b.fcount, frags |-> u, damaged |-> h, lifeTime |-> b.lifeTime]
    BY <1>1, <2>1 DEF AddFragment, BuilderOK
  <2>3. /\ DOMAIN u = DOMAIN b.frags \cup {f.findex}
        /\ u[f.findex] = f.af
        /\ \A i \in DOMAIN b.frags : i # f.findex => u[i] = b.frags[i]
    BY <2>1 DEF Updated, Entry
  <2> QED
    BY <2>2, <2>3 DEF Holds
<1>2. CASE ~(CheckConsistency(b, f) /\ f.findex \notin DOMAIN b.frags)
  BY <1>2 DEF AddFragment
<1> QED
  BY <1>1, <1>2

LEMMA NewHolds ==
  ASSUME NEW V, NEW f, f.af \in DOMAIN V
  PROVE  Holds(AddFragment(NewBuilder(f), f), V, V[f.af])
<1>1. PICK b : b = NewBuilder(f)
  OBVIOUS
<1>2. b = [fcount |-> f.fcount, frags |-> <<>>, damaged |-> FALSE, lifeTime |-> f.fcount * MaxDelay]
  BY <1>1 DEF NewBuilder
<1>3. DOMAIN b.frags = {} /\ b.fcount = f.fcount
  BY <1>2
<1>4. PICK u, h : u = Updated(b.frags, Entry(f.findex, f.af)) /\ h = (b.damaged \/ f.damaged)
  OBVIOUS
<1>5. AddFragment(b, f) = [fcount |-> b.fcount, frags |-> u, damaged |-> h, lifeTime |-> b.lifeTime]
  BY <1>2, <1>3, <1>4 DEF AddFragment, CheckConsistency
<1>6. DOMAIN u = {f.findex} /\ u[f.findex] = f.af
  BY <1>3, <1>4 DEF Updated, Entry
<1> QED
  BY <1>1, <1>5, <1>6 DEF Holds

\* What a fragment does to the builders.
LEMMA PushedBuilders ==
  ASSUME NEW w \in Nat, NEW d, DecoderOK(d, w), NEW f \in FragmentsUpTo(w)
  PROVE  LET e == PushPFTFrag(d, f)
         IN  /\ DOMAIN e.builders = DOMAIN d.builders \cup {f.pseq}
             /\ e.next = IF DOMAIN d.builders = {} THEN f.pseq ELSE d.next
             /\ \A p \in DOMAIN d.builders : p # f.pseq => e.builders[p] = d.builders[p]
             /\ f.pseq \in DOMAIN d.builders => e.builders[f.pseq] = AddFragment(d.builders[f.pseq], f)
             /\ f.pseq \notin DOMAIN d.builders => e.builders[f.pseq] = AddFragment(NewBuilder(f), f)
<1>1. PICK c : c = AddFragment(IF f.pseq \in DOMAIN d.builders THEN d.builders[f.pseq]
                               ELSE NewBuilder(f), f)
  OBVIOUS
<1>2. PICK u : u = Updated(d.builders, Entry(f.pseq, c))
  OBVIOUS
<1>3. /\ DOMAIN u = DOMAIN d.builders \cup {f.pseq}
      /\ u[f.pseq] = c
      /\ \A p \in DOMAIN d.builders : p # f.pseq => u[p] = d.builders[p]
  BY <1>2 DEF Updated, Entry
<1>4. PICK e : e = PushPFTFrag(d, f)
  OBVIOUS
<1>5. e = [next |-> IF DOMAIN d.builders = {} THEN f.pseq ELSE d.next, builders |-> u]
  BY <1>1, <1>2, <1>4 DEF PushPFTFrag
<1> QED
  BY <1>1, <1>3, <1>4, <1>5

\* A fragment that comes in its turn leaves the decoder in step: it belongs to
\* the packet its place stands for, or to one far enough behind or ahead to share
\* the place of a builder that is kept.
LEMMA PushKeepsStep ==
  ASSUME NEW w \in Nat, NEW V, Increasing(V, w), NEW d, DecoderOK(d, w),
         NEW f \in FragmentsUpTo(w), Bears(f, V), NEW l, NEW m, Position(d, V, l, m),
         f.af \in m .. l + PseqMod
  PROVE  Position(PushPFTFrag(d, f), V, l, f.af)
<1>1. PICK e : e = PushPFTFrag(d, f)
  OBVIOUS
<1>2. /\ DOMAIN e.builders = DOMAIN d.builders \cup {f.pseq}
      /\ e.next = IF DOMAIN d.builders = {} THEN f.pseq ELSE d.next
      /\ \A p \in DOMAIN d.builders : p # f.pseq => e.builders[p] = d.builders[p]
      /\ f.pseq \in DOMAIN d.builders => e.builders[f.pseq] = AddFragment(d.builders[f.pseq], f)
      /\ f.pseq \notin DOMAIN d.builders => e.builders[f.pseq] = AddFragment(NewBuilder(f), f)
  BY <1>1, PushedBuilders
<1>3. l \in DOMAIN V /\ m \in DOMAIN V /\ f.af \in DOMAIN V /\ f.af \in 1 .. w
  BY DEF Position, Bears, FragmentsUpTo
<1>4. PICK a, v : a = f.af /\ v = V[f.af]
  OBVIOUS
<1>5. a \in Nat /\ a >= 1 /\ v \in Int /\ f.pseq = v % PseqMod /\ a \in DOMAIN V /\ V[a] = v
  BY <1>3, <1>4, Compared DEF Bears
<1>6. /\ l \in Nat /\ V[l] \in Int /\ (l < a => V[l] < v)
      /\ l <= a => v - V[l] <= a - l
      /\ a <= l => v <= V[l]
  <2>1. /\ a \in Nat /\ l \in Nat /\ V[a] \in Int /\ V[l] \in Int
        /\ l <= a => V[l] <= V[a] /\ V[a] - V[l] <= a - l
        /\ l < a => V[l] < V[a]
    BY <1>3, <1>5, Compared
  <2>2. a <= l => V[a] <= V[l]
    BY <1>3, <1>5, Compared
  <2> QED
    BY <1>5, <2>1, <2>2
<1>7. m \in Nat /\ V[m] \in Int /\ m <= a /\ V[m] <= v
  BY <1>3, <1>4, <1>5, Compared
<1>8. v <= V[l] + PseqMod
  BY <1>4, <1>5, <1>6, Modulus
<1>9. CASE DOMAIN d.builders = {}
  <2>1. l < a
    BY <1>5, <1>6, <1>7, <1>9 DEF Position
  <2>2. e.next = v % PseqMod /\ V[l] < v /\ v <= V[a] + 1
    BY <1>2, <1>5, <1>6, <1>9, <2>1
  <2>3. DOMAIN e.builders = {v % PseqMod} /\ Holds(e.builders[v % PseqMod], V, v)
    BY <1>2, <1>3, <1>4, <1>5, <1>9, NewHolds
  <2>4. ASSUME NEW n \in v .. v + PseqMod - Keep - 1, n % PseqMod \in DOMAIN e.builders
        PROVE  n <= V[a] /\ Holds(e.builders[n % PseqMod], V, n)
    <3>1. n \in Int /\ n % PseqMod = v % PseqMod /\ n - v < PseqMod /\ v - n < PseqMod
      BY <1>5, <2>3, <2>4, Modulus
    <3>2. n = v
      BY <1>5, <3>1, Congruent, Modulus
    <3> QED
      BY <1>5, <2>3, <3>2
  <2>5. InStep(e, V, v, l, a)
    BY <2>2, <2>4 DEF InStep
  <2>6. DOMAIN e.builders # {}
    BY <2>3
  <2> QED
    BY <1>1, <1>3, <1>4, <1>5, <2>5, <2>6 DEF Position
<1>10. CASE DOMAIN d.builders # {}
  <2>1. PICK N \in Int : InStep(d, V, N, l, m)
    BY <1>10 DEF Position
  <2>2. e.next = N % PseqMod /\ V[l] < N /\ N <= V[m] + 1
    BY <1>2, <1>10, <2>1 DEF InStep
  <2>3. N - 1 <= v /\ v <= N + PseqMod - 1 /\ N <= V[a] + 1
    BY <1>5, <1>6, <1>7, <1>8, <2>2, Modulus
  <2>4. ASSUME NEW n \in N .. N + PseqMod - Keep - 1, n % PseqMod \in DOMAIN e.builders
        PROVE  n <= V[a] /\ Holds(e.builders[n % PseqMod], V, n)
    <3>1. CASE n % PseqMod = f.pseq
      <4>1. n \in Int /\ n % PseqMod = v % PseqMod /\ n - v < PseqMod /\ v - n < PseqMod
        BY <1>5, <2>3, <3>1, Modulus
      <4>2. n = v
        BY <1>5, <4>1, Congruent, Modulus
      <4>3. CASE f.pseq \in DOMAIN d.builders
        <5>1. BuilderOK(d.builders[f.pseq], w)
          BY <4>3 DEF DecoderOK
        <5>2. Holds(d.builders[f.pseq], V, v)
          BY <2>1, <3>1, <4>2, <4>3 DEF InStep
        <5>3. Holds(AddFragment(d.builders[f.pseq], f), V, v)
          BY <1>4, <1>5, <5>1, <5>2, AddedHolds
        <5> QED
          BY <1>2, <1>5, <3>1, <4>2, <4>3, <5>3
      <4>4. CASE f.pseq \notin DOMAIN d.builders
        BY <1>2, <1>3, <1>4, <1>5, <3>1, <4>2, <4>4, NewHolds
      <4> QED
        BY <4>3, <4>4
    <3>2. CASE n % PseqMod # f.pseq
      <4>1. n % PseqMod \in DOMAIN d.builders /\ e.builders[n % PseqMod] = d.builders[n % PseqMod]
        BY <1>2, <2>4, <3>2
      <4>2. n <= V[m] /\ Holds(d.builders[n % PseqMod], V, n)
        BY <2>1, <4>1 DEF InStep
      <4> QED
        BY <1>5, <1>7, <4>1, <4>2
    <3> QED
      BY <3>1, <3>2
  <2>5. InStep(e, V, N, l, a)
    BY <2>2, <2>3, <2>4 DEF InStep
  <2>6. DOMAIN e.builders # {}
    BY <1>2
  <2> QED
    BY <1>1, <1>3, <1>4, <1>5, <2>5, <2>6 DEF Position
<1> QED
  BY <1>9, <1>10

\* IncrementNextPseq drops the builder whose place the decoder will look at next
\* from the other side of the round.
LEMMA IncrementKeepsStep ==
  ASSUME NEW w \in Nat, NEW V, Increasing(V, w), NEW d, DecoderOK(d, w), NEW N \in Int,
         NEW l, NEW m \in DOMAIN V, InStep(d, V, N, l, m),
         d.next \in DOMAIN d.builders, NEW k \in DOMAIN V, V[k] <= N
  PROVE  Position(IncrementNextPseq(d), V, k, m)
<1>1. PICK e : e = IncrementNextPseq(d)
  OBVIOUS
<1>2. PICK D, old : old = (d.next - Keep) % PseqMod /\ D = DOMAIN d.builders \ {old}
  OBVIOUS
<1>3. e = [next |-> (d.next + 1) % PseqMod, builders |-> [p \in D |-> d.builders[p]]]
  BY <1>1, <1>2 DEF IncrementNextPseq
<1>4. d.next = N % PseqMod
  BY DEF InStep
<1>5. /\ N + 1 \in Int /\ N - Keep \in Int
      /\ ((N % PseqMod) + 1) % PseqMod = (N + 1) % PseqMod
      /\ ((N % PseqMod) + (-Keep)) % PseqMod = (N + (-Keep)) % PseqMod
      /\ ((N - Keep) + PseqMod) % PseqMod = (N - Keep) % PseqMod
      /\ N % PseqMod \in Int
  <2>1. N + 1 \in Int /\ N - Keep \in Int /\ -Keep \in Int
    BY Modulus
  <2>2. ((N % PseqMod) + 1) % PseqMod = (N + 1) % PseqMod
    <3>1. PICK c : c = 1
      OBVIOUS
    <3>2. c \in Int
      BY <3>1
    <3>3. ((N % PseqMod) + c) % PseqMod = (N + c) % PseqMod
      BY <3>2, Modulus, RemainderShift
    <3> QED
      BY <3>1, <3>3
  <2>3. ((N % PseqMod) + (-Keep)) % PseqMod = (N + (-Keep)) % PseqMod
    BY <2>1, Modulus, RemainderShift
  <2>4. ((N - Keep) + PseqMod) % PseqMod = (N - Keep) % PseqMod
    BY <2>1, Modulus, RemainderShift
  <2>5. N % PseqMod \in Int
    BY Modulus, DivisionFacts
  <2> QED
    BY <2>1, <2>2, <2>3, <2>4, <2>5
<1>6. (N % PseqMod) + (-Keep) = (N % PseqMod) - Keep /\ N + (-Keep) = N - Keep
  BY <1>5, Modulus
<1>7. e.next = (N + 1) % PseqMod /\ old = (N - Keep) % PseqMod
  BY <1>2, <1>3, <1>4, <1>5, <1>6
<1>8. V[m] \in Int /\ V[k] \in Int
  BY DEF Increasing
<1>9. N <= V[m]
  <2>1. N \in N .. N + PseqMod - Keep - 1
    BY Modulus
  <2> QED
    BY <1>4, <2>1 DEF InStep
<1>10. DOMAIN e.builders # {}
  <2>1. ASSUME (N - Keep) % PseqMod = N % PseqMod PROVE FALSE
    <3>1. N - Keep - N < PseqMod /\ N - (N - Keep) < PseqMod
      BY Modulus
    <3>2. N - Keep = N
      BY <1>5, <2>1, <3>1, Congruent, Modulus
    <3> QED
      BY <3>2, Modulus
  <2>2. d.next \in D
    BY <1>2, <1>4, <1>7, <2>1
  <2> QED
    BY <1>3, <2>2
<1>11. ASSUME NEW n \in N + 1 .. N + 1 + PseqMod - Keep - 1, n % PseqMod \in DOMAIN e.builders
       PROVE  n <= V[m] /\ Holds(e.builders[n % PseqMod], V, n)
  <2>1. n % PseqMod \in D /\ e.builders[n % PseqMod] = d.builders[n % PseqMod]
    BY <1>3, <1>11
  <2>2. CASE n = N + PseqMod - Keep
    <3>1. n = (N - Keep) + PseqMod
      BY <2>2, Modulus
    <3> QED
      BY <1>2, <1>5, <1>7, <2>1, <3>1
  <2>3. CASE n # N + PseqMod - Keep
    <3>1. n \in N .. N + PseqMod - Keep - 1
      BY <2>3, Modulus
    <3>2. n % PseqMod \in DOMAIN d.builders
      BY <1>2, <2>1
    <3> QED
      BY <2>1, <3>1, <3>2 DEF InStep
  <2> QED
    BY <2>2, <2>3
<1>12. V[k] < N + 1 /\ N + 1 <= V[m] + 1
  BY <1>8, <1>9
<1>13. InStep(e, V, N + 1, k, m)
  BY <1>7, <1>11, <1>12 DEF InStep
<1> QED
  BY <1>1, <1>5, <1>10, <1>13 DEF Position

\* The life of a builder is not part of what it holds.
LEMMA AgedKeepsStep ==
  ASSUME NEW w \in Nat, NEW V, NEW d, DecoderOK(d, w), NEW N \in Int, NEW l, NEW m,
         InStep(d, V, N, l, m), d.next \in DOMAIN d.builders
  PROVE  InStep(Aged(d), V, N, l, m) /\ DOMAIN Aged(d).builders = DOMAIN d.builders
<1>1. PICK b, k : b = d.builders[d.next] /\ k = IF b.lifeTime > 0 THEN b.lifeTime - 1 ELSE 0
  OBVIOUS
<1>2. PICK c : c = [b EXCEPT !.lifeTime = k]
  OBVIOUS
<1>3. b = [fcount |-> b.fcount, frags |-> b.frags, damaged |-> b.damaged, lifeTime |-> b.lifeTime]
  BY <1>1 DEF DecoderOK, BuilderOK
<1>4. c.frags = b.frags
  BY <1>2, <1>3
<1>5. PICK u : u = [d.builders EXCEPT ![d.next] = c]
  OBVIOUS
<1>6. /\ DOMAIN u = DOMAIN d.builders /\ u[d.next] = c
      /\ \A p \in DOMAIN u : p # d.next => u[p] = d.builders[p]
  BY <1>5 DEF DecoderOK
<1>7. PICK e : e = Aged(d)
  OBVIOUS
<1>8. e = [next |-> d.next, builders |-> u]
  <2>1. e = [d EXCEPT !.builders = u]
    BY <1>1, <1>2, <1>5, <1>7 DEF Aged
  <2> QED
    BY <2>1 DEF DecoderOK
<1>9. \A p \in DOMAIN u : u[p].frags = d.builders[p].frags
  BY <1>1, <1>4, <1>6
<1>10. \A p \in DOMAIN u : \A n : Holds(d.builders[p], V, n) => Holds(u[p], V, n)
  BY <1>9 DEF Holds
<1> QED
  BY <1>6, <1>7, <1>8, <1>10 DEF InStep

\* What a builder gives is the packet its place stands for.
LEMMA ExtractedInTurn ==
  ASSUME NEW V, NEW n, NEW b, Holds(b, V, n), NEW r
  PROVE  ExtractAF(b, r) = NoAF \/ (ExtractAF(b, r) \in DOMAIN V /\ V[ExtractAF(b, r)] = n)
<1>1. CASE Contents(b, r) = Mixed
  BY <1>1 DEF ExtractAF, CheckCRC
<1>2. CASE Contents(b, r) # Mixed
  <2>1. (CHOOSE i \in DOMAIN b.frags : TRUE) \in DOMAIN b.frags
    BY DEF Holds
  <2>2. Contents(b, r) \in DOMAIN V /\ V[Contents(b, r)] = n
    BY <1>2, <2>1 DEF Contents, Holds
  <2> QED
    BY <2>2 DEF ExtractAF
<1> QED
  BY <1>1, <1>2

\* A decoder that has more builders than it keeps of the packets it has passed
\* has one of a packet it has not.
LEMMA OneAhead ==
  ASSUME NEW w \in Nat, NEW V, NEW d, DecoderOK(d, w), NEW N \in Int,
         Cardinality(DOMAIN d.builders) > MaxDelay
  PROVE  \E n \in N .. N + PseqMod - Keep - 1 : n % PseqMod \in DOMAIN d.builders
<1> SUFFICES ASSUME \A n \in N .. N + PseqMod - Keep - 1 : n % PseqMod \notin DOMAIN d.builders
             PROVE  FALSE
  OBVIOUS
<1>1. PICK I, K : I = N - Keep .. N - 1 /\ K = {n % PseqMod : n \in I}
  OBVIOUS
<1>2. IsFiniteSet(I) /\ Cardinality(I) = Keep
  <2>1. N - Keep \in Int /\ N - 1 \in Int /\ ~(N - Keep > N - 1) /\ (N - 1) - (N - Keep) + 1 = Keep
    BY Modulus
  <2> QED
    BY <1>1, <2>1, FS_Interval
<1>3. IsFiniteSet(K) /\ Cardinality(K) <= Cardinality(I)
  <2>1. PICK g : g = [n \in I |-> n % PseqMod]
    OBVIOUS
  <2>2. g \in Surjection(I, K)
    BY <1>1, <2>1 DEF Surjection
  <2> QED
    BY <1>2, <2>2, FS_Surjection
<1>4. DOMAIN d.builders \subseteq K
  <2> SUFFICES ASSUME NEW q \in DOMAIN d.builders PROVE q \in K
    OBVIOUS
  <2>1. q \in 0 .. PseqMod - 1
    BY DEF DecoderOK
  <2>2. PICK n \in N - Keep .. (N - Keep) + PseqMod - 1 : n % PseqMod = q
    <3>1. N - Keep \in Int
      BY Modulus
    <3> QED
      BY <2>1, <3>1, ResidueOccurs, Modulus
  <2>3. n \notin N .. N + PseqMod - Keep - 1
    BY <2>2
  <2>4. n \in N - Keep .. N - 1
    BY <2>3, Modulus
  <2> QED
    BY <1>1, <2>2, <2>4
<1>5. Cardinality(DOMAIN d.builders) <= Cardinality(K) /\ IsFiniteSet(DOMAIN d.builders)
  BY <1>3, <1>4, FS_Subset
<1>6. Cardinality(DOMAIN d.builders) \in Nat /\ Cardinality(K) \in Nat
  BY <1>3, <1>5, FS_CardinalityType
<1> QED
  BY <1>2, <1>3, <1>5, <1>6, KeepAssumption, Constants, Modulus

\* One call of getNextAFPacket hands on nothing, or a packet after the last one,
\* and leaves the decoder in step.
LEMMA GetKeepsStep ==
  ASSUME NEW w \in Nat, NEW V, Increasing(V, w), NEW d, DecoderOK(d, w), NEW l, NEW m,
         Position(d, V, l, m), NEW r
  PROVE  LET g == GetNextAFPacket(d, r)
         IN  \/ g.af = NoAF /\ Position(g.decoder, V, l, m)
             \/ g.af \in DOMAIN V /\ g.af > l /\ Position(g.decoder, V, g.af, m)
<1>1. PICK g : g = GetNextAFPacket(d, r)
  OBVIOUS
<1>2. l \in DOMAIN V /\ m \in DOMAIN V
  BY DEF Position
<1>3. CASE d.next \notin DOMAIN d.builders
  <2>1. g.af = NoAF /\ g.decoder = IF Cardinality(DOMAIN d.builders) > MaxDelay
                                   THEN [d EXCEPT !.builders = <<>>] ELSE d
    BY <1>1, <1>3 DEF GetNextAFPacket
  <2>2. CASE Cardinality(DOMAIN d.builders) > MaxDelay
    <3>1. g.decoder = [next |-> d.next, builders |-> <<>>]
      BY <2>1, <2>2 DEF DecoderOK
    <3>2. DOMAIN g.decoder.builders = {}
      BY <3>1
    <3>3. DOMAIN d.builders # {}
      BY <2>2, FS_EmptySet, Constants
    <3>4. PICK N \in Int : InStep(d, V, N, l, m)
      BY <3>3 DEF Position
    <3>5. PICK n \in N .. N + PseqMod - Keep - 1 : n % PseqMod \in DOMAIN d.builders
      BY <2>2, OneAhead
    <3>6. n <= V[m] /\ V[l] < N
      BY <3>4, <3>5 DEF InStep
    <3>7. V[l] \in Int /\ V[m] \in Int /\ (V[l] < V[m] => l < m)
      BY <1>2, Compared
    <3>8. l < m
      BY <3>6, <3>7
    <3>9. Position(g.decoder, V, l, m)
      BY <1>2, <3>2, <3>8 DEF Position
    <3> QED
      BY <1>1, <2>1, <3>9
  <2>3. CASE ~(Cardinality(DOMAIN d.builders) > MaxDelay)
    BY <1>1, <2>1, <2>3
  <2> QED
    BY <2>2, <2>3
<1>4. CASE d.next \in DOMAIN d.builders
  <2>1. PICK N \in Int : InStep(d, V, N, l, m)
    BY <1>4 DEF Position
  <2>2. PICK b, a : b = d.builders[d.next] /\ a = Aged(d)
    OBVIOUS
  <2>3. /\ DecoderOK(a, w) /\ a.next = d.next /\ a.next \in DOMAIN a.builders
        /\ InStep(a, V, N, l, m) /\ DOMAIN a.builders = DOMAIN d.builders
    BY <1>4, <2>1, <2>2, AgedFacts, AgedKeepsStep
  <2>4. Holds(b, V, N) /\ V[l] < N /\ V[l] \in Int
    <3>1. N \in N .. N + PseqMod - Keep - 1
      BY Modulus
    <3>2. V[l] \in Int
      BY <1>2, Compared
    <3> QED
      BY <1>4, <2>1, <2>2, <3>1, <3>2 DEF InStep
  <2>5. ASSUME NEW q, ExtractAF(b, q) # NoAF
        PROVE  ExtractAF(b, q) \in DOMAIN V /\ ExtractAF(b, q) > l /\ V[ExtractAF(b, q)] = N
    <3>1. PICK x : x = ExtractAF(b, q)
      OBVIOUS
    <3>2. x \in DOMAIN V /\ V[x] = N
      BY <2>4, <2>5, <3>1, ExtractedInTurn
    <3>3. V[l] < V[x] => l < x
      BY <1>2, <3>2, Compared
    <3>4. l \in Nat /\ x \in Nat
      BY <1>2, <3>2, Compared
    <3> QED
      BY <2>4, <3>1, <3>2, <3>3, <3>4
  <2>6. \A k \in DOMAIN V : V[k] <= N => Position(IncrementNextPseq(d), V, k, m)
    BY <1>2, <1>4, <2>1, IncrementKeepsStep
  <2>7. \A k \in DOMAIN V : V[k] <= N => Position(IncrementNextPseq(a), V, k, m)
    BY <1>2, <2>3, IncrementKeepsStep
  <2>8. /\ V[l] <= N
        /\ Position(IncrementNextPseq(d), V, l, m) /\ Position(IncrementNextPseq(a), V, l, m)
    BY <1>2, <2>4, <2>6, <2>7
  <2>9. Position(a, V, l, m)
    BY <1>2, <2>3 DEF Position
  <2>10. \/ \E q : g = [decoder |-> IncrementNextPseq(d), af |-> ExtractAF(b, q)]
         \/ \E q : g = [decoder |-> IncrementNextPseq(a), af |-> ExtractAF(b, q)]
         \/ g = [decoder |-> IncrementNextPseq(a), af |-> NoAF]
         \/ g = [decoder |-> a, af |-> NoAF]
    <3>1. PICK dar : dar = CanAttemptToDecode(b)
      OBVIOUS
    <3>2. dar \in {"no", "maybe", "yes"}
      BY <3>1 DEF CanAttemptToDecode
    <3>3. g = CASE dar = "yes" ->
                     [decoder |-> IncrementNextPseq(d), af |-> ExtractAF(b, r)]
                [] dar = "maybe" /\ Overdue(a) ->
                     [decoder |-> IncrementNextPseq(a), af |-> ExtractAF(b, r)]
                [] dar = "no" /\ Overdue(a) ->
                     [decoder |-> IncrementNextPseq(a), af |-> NoAF]
                [] OTHER -> [decoder |-> a, af |-> NoAF]
      BY <1>1, <1>4, <2>2, <3>1 DEF GetNextAFPacket
    <3>4. CASE dar = "yes"
      <4>1. g = [decoder |-> IncrementNextPseq(d), af |-> ExtractAF(b, r)]
        BY <3>3, <3>4
      <4> QED
        BY <4>1
    <3>5. CASE dar = "maybe" /\ Overdue(a)
      <4>1. g = [decoder |-> IncrementNextPseq(a), af |-> ExtractAF(b, r)]
        BY <3>3, <3>5
      <4> QED
        BY <4>1
    <3>6. CASE dar = "no" /\ Overdue(a)
      BY <3>3, <3>6
    <3>7. CASE dar # "yes" /\ ~Overdue(a)
      BY <3>3, <3>7
    <3> QED
      BY <3>2, <3>4, <3>5, <3>6, <3>7
  <2>11. CASE \E q : g = [decoder |-> IncrementNextPseq(d), af |-> ExtractAF(b, q)]
    <3>1. PICK q : g = [decoder |-> IncrementNextPseq(d), af |-> ExtractAF(b, q)]
      BY <2>11
    <3>2. PICK x : x = ExtractAF(b, q)
      OBVIOUS
    <3>3. CASE x = NoAF
      BY <1>1, <2>8, <3>1, <3>2, <3>3
    <3>4. CASE x # NoAF
      <4>1. x \in DOMAIN V /\ x > l /\ V[x] = N
        BY <2>5, <3>2, <3>4
      <4>2. Position(IncrementNextPseq(d), V, x, m)
        BY <2>6, <4>1
      <4> QED
        BY <1>1, <3>1, <3>2, <4>1, <4>2
    <3> QED
      BY <3>3, <3>4
  <2>12. CASE \E q : g = [decoder |-> IncrementNextPseq(a), af |-> ExtractAF(b, q)]
    <3>1. PICK q : g = [decoder |-> IncrementNextPseq(a), af |-> ExtractAF(b, q)]
      BY <2>12
    <3>2. PICK x : x = ExtractAF(b, q)
      OBVIOUS
    <3>3. CASE x = NoAF
      BY <1>1, <2>8, <3>1, <3>2, <3>3
    <3>4. CASE x # NoAF
      <4>1. x \in DOMAIN V /\ x > l /\ V[x] = N
        BY <2>5, <3>2, <3>4
      <4>2. Position(IncrementNextPseq(a), V, x, m)
        BY <2>7, <4>1
      <4> QED
        BY <1>1, <3>1, <3>2, <4>1, <4>2
    <3> QED
      BY <3>3, <3>4
  <2>13. CASE g = [decoder |-> IncrementNextPseq(a), af |-> NoAF]
    BY <1>1, <2>8, <2>13
  <2>14. CASE g = [decoder |-> a, af |-> NoAF]
    BY <1>1, <2>9, <2>14
  <2> QED
    BY <2>10, <2>11, <2>12, <2>13, <2>14
<1> QED
  BY <1>3, <1>4

Extends(V, W) == DOMAIN V \subseteq DOMAIN W /\ \A a \in DOMAIN V : W[a] = V[a]

\* A packet that is written changes nothing for the others.
LEMMA PositionExtends ==
  ASSUME NEW V, NEW W, Extends(V, W), NEW d, NEW l, NEW m, Position(d, V, l, m)
  PROVE  Position(d, W, l, m)
<1>1. l \in DOMAIN W /\ m \in DOMAIN W /\ W[l] = V[l] /\ W[m] = V[m]
  BY DEF Position, Extends
<1>2. \A b, n : Holds(b, V, n) => Holds(b, W, n)
  BY DEF Holds, Extends
<1>3. ASSUME NEW N \in Int, InStep(d, V, N, l, m) PROVE InStep(d, W, N, l, m)
  BY <1>1, <1>2, <1>3 DEF InStep
<1> QED
  BY <1>1, <1>3 DEF Position

LEMMA BearsExtends ==
  ASSUME NEW V, NEW W, Extends(V, W), NEW f, Bears(f, V)
  PROVE  Bears(f, W)
BY DEF Bears, Extends

LEMMA ScheduledBear ==
  ASSUME NEW n \in Nat \ {0}, NEW V, n \in DOMAIN V, NEW q, q = V[n] % PseqMod
  PROVE  LET s == Scheduled(Assemble(n, q))
         IN  \A t \in DOMAIN s : Bears(s[t], V)
<1>1. FragmentsOf(n) \in Nat
  BY Constants DEF FragmentsOf
<1>2. PICK a : a = Assemble(n, q)
  OBVIOUS
<1>3. /\ DOMAIN a = 0 .. FragmentsOf(n) - 1
      /\ \A i \in DOMAIN a : a[i].pseq = q /\ a[i].af = n
  BY <1>2 DEF Assemble
<1>4. PICK s : s = Scheduled(a)
  OBVIOUS
<1>5. ASSUME NEW t \in DOMAIN s PROVE Bears(s[t], V)
  <2>1. PICK i \in DOMAIN a : t = i * Wait
    BY <1>4 DEF Scheduled
  <2>2. s[t] = a[t \div Wait]
    BY <1>4 DEF Scheduled
  <2>3. i \in Nat
    BY <1>1, <1>3
  <2>4. (i * Wait) \div Wait = i
    BY <2>3, Constants, Quotient
  <2> QED
    BY <1>3, <2>1, <2>2, <2>4 DEF Bears
<1> QED
  BY <1>2, <1>4, <1>5

LEMMA OrderWrite == Inv /\ OrderInv /\ LinkWrite => OrderInv'
<1> SUFFICES ASSUME Inv, OrderInv, LinkWrite PROVE OrderInv'
  OBVIOUS
<1>1. PICK n \in Frames : /\ Write(n) /\ lossy' = (lossy \/ Replaces(n))
                          /\ UNCHANGED <<net, mishaps, reordered, receiver>>
  BY DEF LinkWrite
<1>2. UNCHANGED <<net, m_pft, latest, newest, repeated, astray>>
  BY <1>1 DEF network, receiver
<1> SUFFICES ASSUME ~astray PROVE ~repeated /\ \E V : Numbered(V)'
  BY <1>2, Zenon DEF OrderInv
<1>3. ~repeated /\ \E V : Numbered(V)
  BY Zenon DEF OrderInv
<1>4. PICK V : Numbered(V)
  BY <1>3
<1>5. /\ Increasing(V, written) /\ Counted(V) /\ SenderNumbers(V) /\ NetNumbers(V)
      /\ Position(m_pft, V, latest, newest)
  BY <1>4 DEF Numbered
<1>6. written \in Nat /\ n \in Nat \ {0} /\ n > written /\ written' = n
  <2>1. n \in 1 .. MaxFrames /\ n \in written + 1 .. written + 1 + MaxGap /\ written' = n
    BY <1>1 DEF Write, Frames
  <2>2. written \in Nat /\ MaxFrames \in Nat
    BY ConstantsOfInv, Constants
  <2> QED
    BY <2>1, <2>2
<1>7. PICK v, q : v = (IF overrides THEN n ELSE V[written] + 1) /\ q = OverridePSeq(n)
  OBVIOUS
<1>8. /\ 0 \in DOMAIN V /\ written \in DOMAIN V /\ V[written] \in Int /\ n \notin DOMAIN V
      /\ \A a \in DOMAIN V : a \in Nat /\ a <= written /\ V[a] \in Int
  BY <1>5, <1>6 DEF Increasing
<1>9. v \in Int /\ q = v % PseqMod
  BY <1>5, <1>6, <1>7, <1>8 DEF Counted, OverridePSeq
<1>10. ASSUME NEW a \in DOMAIN V
       PROVE  a < n /\ V[a] < v /\ v - V[a] <= n - a
  <2>1. V[a] <= V[written] /\ V[written] - V[a] <= written - a /\ V[a] \in Int /\ a \in Nat
    BY <1>5, <1>6, <1>8, Compared
  <2>2. overrides => V[a] = a
    BY <1>5 DEF Counted
  <2>3. CASE overrides
    BY <1>6, <1>7, <1>8, <2>1, <2>2, <2>3
  <2>4. CASE ~overrides
    BY <1>6, <1>7, <1>8, <2>1, <2>4
  <2> QED
    BY <2>3, <2>4
<1>11. PICK W : W = [a \in DOMAIN V \cup {n} |-> IF a = n THEN v ELSE V[a]]
  OBVIOUS
<1>12. DOMAIN W = DOMAIN V \cup {n} /\ W[n] = v /\ \A a \in DOMAIN V : W[a] = V[a]
  BY <1>8, <1>11
<1>13. Extends(V, W)
  BY <1>12 DEF Extends
<1>14. Increasing(W, n)
  <2>1. 0 \in DOMAIN W /\ n \in DOMAIN W /\ DOMAIN W \subseteq 0 .. n
    BY <1>6, <1>8, <1>12
  <2>2. \A a \in DOMAIN W : W[a] \in Int
    BY <1>8, <1>9, <1>12
  <2>3. ASSUME NEW a \in DOMAIN W, NEW b \in DOMAIN W, a < b
        PROVE  W[a] < W[b] /\ W[b] - W[a] <= b - a
    <3>1. CASE b = n
      <4>1. a \in DOMAIN V
        BY <1>6, <1>12, <2>3, <3>1
      <4> QED
        BY <1>10, <1>12, <3>1, <4>1
    <3>2. CASE b # n
      <4>1. b \in DOMAIN V /\ b < n
        BY <1>10, <1>12, <3>2
      <4>2. a # n
        BY <1>6, <1>8, <2>3, <4>1
      <4>3. a \in DOMAIN V
        BY <1>12, <4>2
      <4> QED
        BY <1>5, <1>12, <2>3, <4>1, <4>3 DEF Increasing
    <3> QED
      BY <3>1, <3>2
  <2> QED
    BY <2>1, <2>2, <2>3 DEF Increasing
<1>15. PICK s : s = Scheduled(Assemble(n, q))
  OBVIOUS
<1>16. /\ m_pending_frames' = Updated(m_pending_frames, s)
       /\ m_pseq' = (q + 1) % PseqMod /\ overrides' = overrides
  BY <1>1, <1>7, <1>15 DEF Write
<1>17. SenderNumbers(W)'
  <2>1. \A t \in DOMAIN s : Bears(s[t], W)
    BY <1>6, <1>9, <1>12, <1>15, ScheduledBear
  <2>2. \A t \in DOMAIN m_pending_frames : Bears(m_pending_frames[t], W)
    BY <1>5, <1>13, BearsExtends DEF SenderNumbers
  <2>3. \A t \in DOMAIN m_pending_frames' : Bears(m_pending_frames'[t], W)
    BY <1>16, <2>1, <2>2 DEF Updated
  <2> QED
    BY <2>3 DEF SenderNumbers
<1>18. NetNumbers(W)'
  BY <1>2, <1>5, <1>13, BearsExtends DEF NetNumbers
<1>19. Counted(W)'
  <2>1. CASE overrides
    <3>1. \A a \in DOMAIN W : W[a] = a
      BY <1>5, <1>7, <1>12, <2>1 DEF Counted
    <3> QED
      BY <1>16, <2>1, <3>1 DEF Counted
  <2>2. CASE ~overrides
    <3>1. PICK c : c = 1
      OBVIOUS
    <3>2. c \in Int
      BY <3>1
    <3>3. ((v % PseqMod) + c) % PseqMod = (v + c) % PseqMod
      BY <1>9, <3>2, Modulus, RemainderShift
    <3>4. m_pseq' = (W[n] + 1) % PseqMod
      BY <1>9, <1>12, <1>16, <3>1, <3>3
    <3> QED
      BY <1>6, <1>16, <2>2, <3>4 DEF Counted
  <2> QED
    BY <2>1, <2>2
<1>20. Position(m_pft, W, latest, newest)'
  <2>1. Position(m_pft, W, latest, newest)
    BY <1>5, <1>13, PositionExtends
  <2> QED
    BY <1>2, <2>1
<1>21. Increasing(W, written')
  BY <1>6, <1>14
<1>22. Numbered(W)'
  BY <1>17, <1>18, <1>19, <1>20, <1>21 DEF Numbered
<1> QED
  BY <1>3, <1>22

\* The fragments a pass sends are among the pending ones.
LEMMA SentBear ==
  ASSUME Inv, NEW V, SenderNumbers(V), NetNumbers(V), NEW k \in 0 .. Cardinality(Due),
         net' = net \o SubSeq(InKeyOrder(Due), 1, k)
  PROVE  NetNumbers(V)'
<1>1. PICK q, c : q = InKeyOrder(Due) /\ c = Cardinality(Due)
  OBVIOUS
<1>2. /\ c \in Nat /\ q \in Seq(FragmentsUpTo(written)) /\ Len(q) = c
      /\ \A j \in 1 .. c : \E t \in Due : q[j] = m_pending_frames[t]
  BY <1>1, DueFacts DEF Inv
<1>3. net \in Seq(FragmentsUpTo(written)) /\ Len(net) \in Nat
  BY ConstantsOfInv
<1>4. PICK s : s = SubSeq(q, 1, k)
  OBVIOUS
<1>5. k \in Nat /\ k <= c
  BY <1>1, <1>2
<1>6. s \in Seq(FragmentsUpTo(written)) /\ Len(s) = k /\ \A j \in 1 .. k : s[j] = q[j]
  BY <1>2, <1>4, <1>5, SubSeqProperties
<1>7. \A j \in 1 .. k : Bears(s[j], V)
  <2> SUFFICES ASSUME NEW j \in 1 .. k PROVE Bears(s[j], V)
    OBVIOUS
  <2>1. j \in 1 .. c
    BY <1>2, <1>5
  <2>2. PICK t \in Due : q[j] = m_pending_frames[t]
    BY <1>2, <2>1
  <2> QED
    BY <1>6, <2>2 DEF SenderNumbers, Due
<1>8. net' = net \o s
  BY <1>1, <1>4
<1>9. /\ Len(net \o s) = Len(net) + k
      /\ \A i \in 1 .. Len(net) + k : (net \o s)[i] = IF i <= Len(net) THEN net[i] ELSE s[i - Len(net)]
  BY <1>3, <1>6, ConcatProperties
<1>10. ASSUME NEW i \in 1 .. Len(net) + k PROVE Bears((net \o s)[i], V)
  <2>1. CASE i <= Len(net)
    BY <1>3, <1>9, <2>1 DEF NetNumbers
  <2>2. CASE ~(i <= Len(net))
    <3>1. i - Len(net) \in 1 .. k
      BY <1>3, <1>5, <2>2
    <3> QED
      BY <1>7, <1>9, <2>2, <3>1
  <2> QED
    BY <2>1, <2>2
<1> QED
  BY <1>8, <1>9, <1>10 DEF NetNumbers

\* The steps of the sender that write nothing.
LEMMA OrderSend ==
  Inv /\ OrderInv /\ (LinkTick \/ LinkTransmit \/ LinkThrows \/ LinkStop) => OrderInv'
<1> SUFFICES ASSUME Inv, OrderInv, LinkTick \/ LinkTransmit \/ LinkThrows \/ LinkStop
             PROVE  OrderInv'
  OBVIOUS
<1>1. /\ UNCHANGED <<m_pft, latest, newest, repeated, astray>>
      /\ UNCHANGED <<overrides, m_pseq, written>>
  BY DEF LinkTick, LinkTransmit, LinkThrows, LinkStop, Tick, Transmit, SendThrows, StopTransport,
         receiver
<1> SUFFICES ASSUME ~astray PROVE ~repeated /\ \E V : Numbered(V)'
  BY <1>1, Zenon DEF OrderInv
<1>2. ~repeated /\ \E V : Numbered(V)
  BY Zenon DEF OrderInv
<1>3. PICK V : Numbered(V)
  BY <1>2
<1>4. /\ Increasing(V, written) /\ Counted(V) /\ SenderNumbers(V) /\ NetNumbers(V)
      /\ Position(m_pft, V, latest, newest)
  BY <1>3 DEF Numbered
<1>5. Increasing(V, written') /\ Counted(V)' /\ Position(m_pft, V, latest, newest)'
  BY <1>1, <1>4 DEF Counted
<1>6. SenderNumbers(V)' /\ NetNumbers(V)'
  <2>1. CASE LinkTick
    <3>1. /\ m_pending_frames' = [t \in {u - 1 : u \in DOMAIN m_pending_frames} |-> m_pending_frames[t + 1]]
          /\ net' = net
      BY <2>1 DEF LinkTick, Tick, network
    <3>2. ASSUME NEW t \in DOMAIN m_pending_frames' PROVE Bears(m_pending_frames'[t], V)
      <4>1. PICK u \in DOMAIN m_pending_frames : t = u - 1
        BY <3>1
      <4>2. u \in Int
        BY DEF Inv, SenderInv
      <4> QED
        BY <1>4, <3>1, <4>1, <4>2 DEF SenderNumbers
    <3> QED
      BY <1>4, <3>1, <3>2 DEF SenderNumbers, NetNumbers
  <2>2. CASE LinkTransmit
    <3>1. /\ net' = net \o InKeyOrder(Due)
          /\ m_pending_frames' = [t \in DOMAIN m_pending_frames \ Due |-> m_pending_frames[t]]
      BY <2>2 DEF LinkTransmit, Transmit
    <3>2. PICK q, c : q = InKeyOrder(Due) /\ c = Cardinality(Due)
      OBVIOUS
    <3>3. c \in Nat /\ q \in Seq(FragmentsUpTo(written)) /\ Len(q) = c
      BY <3>2, DueFacts DEF Inv
    <3>4. SubSeq(q, 1, c) = q
      BY <3>3
    <3>5. c \in 0 .. c
      BY <3>3
    <3>6. NetNumbers(V)'
      BY <1>4, <3>1, <3>2, <3>4, <3>5, SentBear
    <3> QED
      BY <1>4, <3>1, <3>6 DEF SenderNumbers
  <2>3. CASE LinkThrows
    <3>1. /\ \E k \in 0 .. Cardinality(Due) - 1 : net' = net \o SubSeq(InKeyOrder(Due), 1, k)
          /\ m_pending_frames' = <<>>
      BY <2>3 DEF LinkThrows, SendThrows
    <3>2. Cardinality(Due) \in Nat
      BY DueFacts DEF Inv
    <3>3. PICK k \in 0 .. Cardinality(Due) - 1 : net' = net \o SubSeq(InKeyOrder(Due), 1, k)
      BY <3>1
    <3>4. k \in 0 .. Cardinality(Due)
      BY <3>2
    <3>5. NetNumbers(V)'
      BY <1>4, <3>3, <3>4, SentBear
    <3> QED
      BY <3>1, <3>5 DEF SenderNumbers
  <2>4. CASE LinkStop
    <3>1. m_pending_frames' = <<>> /\ net' = net
      BY <2>4 DEF LinkStop, StopTransport, network
    <3> QED
      BY <1>4, <3>1 DEF SenderNumbers, NetNumbers
  <2> QED
    BY <2>1, <2>2, <2>3, <2>4
<1> QED
  BY <1>2, <1>5, <1>6 DEF Numbered

\* A call of push_packet with a datagram that bears its number.
LEMMA OrderPush ==
  ASSUME Inv, OrderInv, NEW f \in FragmentsUpTo(written), NEW valid \in BOOLEAN,
         PushPacket(f, valid), UNCHANGED transport, NetInv',
         \A V : NetNumbers(V) => Bears(f, V) /\ NetNumbers(V)'
  PROVE  OrderInv'
<1>1. UNCHANGED <<overrides, m_pseq, m_pending_frames, written>>
  BY DEF transport
<1>2. PICK r \in BOOLEAN, e \in {LoadData(m_pft, f, valid)} :
        \E got \in {GetNextAFPacket(e, r)} :
          /\ m_pft' = got.decoder
          /\ latest' = IF got.af = NoAF THEN latest ELSE got.af
          /\ repeated' = (repeated \/ got.af \in 1 .. latest)
          /\ newest' = IF valid /\ f.af > newest THEN f.af ELSE newest
          /\ astray' = (astray \/ (valid /\ f.af \notin newest .. latest + PseqMod))
  BY DEF PushPacket
<1>3. PICK g \in {GetNextAFPacket(e, r)} :
        /\ m_pft' = g.decoder
        /\ latest' = IF g.af = NoAF THEN latest ELSE g.af
        /\ repeated' = (repeated \/ g.af \in 1 .. latest)
        /\ newest' = IF valid /\ f.af > newest THEN f.af ELSE newest
        /\ astray' = (astray \/ (valid /\ f.af \notin newest .. latest + PseqMod))
  BY <1>2
<1> SUFFICES ASSUME ~astray' PROVE ~repeated' /\ \E V : Numbered(V)'
  BY Zenon DEF OrderInv
<1>4. ~astray /\ (valid => f.af \in newest .. latest + PseqMod)
  BY <1>3, Zenon
<1>5. ~repeated /\ \E V : Numbered(V)
  BY <1>4, Zenon DEF OrderInv
<1>6. PICK V : Numbered(V)
  BY <1>5
<1>7. /\ Increasing(V, written) /\ Counted(V) /\ SenderNumbers(V) /\ NetNumbers(V)
      /\ Position(m_pft, V, latest, newest)
  BY <1>6 DEF Numbered
<1>8. Bears(f, V) /\ NetNumbers(V)'
  BY <1>7
<1>9. PICK w, d, n, l, m : w = written /\ d = m_pft /\ n = waited /\ l = latest /\ m = newest
  OBVIOUS
<1>10. w \in Nat /\ DecoderOK(d, w) /\ WaitOK(d, n) /\ f \in FragmentsUpTo(w) /\ Increasing(V, w)
  BY <1>7, <1>9, ConstantsOfInv DEF Inv, DecoderInv, WaitInv
<1>11. Position(d, V, l, m) /\ l \in DOMAIN V /\ m \in DOMAIN V /\ l \in Nat /\ m \in Nat
  <2>1. Position(d, V, l, m) /\ l \in DOMAIN V /\ m \in DOMAIN V
    BY <1>7, <1>9 DEF Position
  <2> QED
    BY <1>10, <2>1, Compared
<1>12. DecoderOK(e, w) /\ Position(e, V, l, newest')
  <2>1. CASE valid
    <3>1. e = PushPFTFrag(d, f)
      BY <1>2, <1>9, <2>1 DEF LoadData
    <3>2. f.af \in m .. l + PseqMod
      BY <1>4, <1>9, <2>1
    <3>3. DecoderOK(e, w)
      BY <1>10, <3>1, PushFacts
    <3>4. Position(e, V, l, f.af)
      BY <1>8, <1>10, <1>11, <3>1, <3>2, PushKeepsStep
    <3>5. f.af >= m
      BY <1>11, <3>2, Modulus
    <3>6. f.af \in Nat
      BY DEF FragmentsUpTo
    <3>7. newest' = f.af
      BY <1>3, <1>9, <1>11, <2>1, <3>5, <3>6
    <3> QED
      BY <3>3, <3>4, <3>7
  <2>2. CASE ~valid
    <3>1. e = d /\ newest' = m
      BY <1>2, <1>3, <1>9, <2>2 DEF LoadData
    <3> QED
      BY <1>10, <1>11, <3>1
  <2> QED
    BY <2>1, <2>2
<1>13. PICK mm : mm = newest'
  OBVIOUS
<1>14. Position(e, V, l, mm) /\ g = GetNextAFPacket(e, r)
  BY <1>3, <1>12, <1>13
<1>15. \/ g.af = NoAF /\ Position(g.decoder, V, l, mm)
       \/ g.af \in DOMAIN V /\ g.af > l /\ Position(g.decoder, V, g.af, mm)
  BY <1>10, <1>12, <1>14, GetKeepsStep
<1>16. Position(m_pft', V, latest', newest') /\ g.af \notin 1 .. latest
  <2>1. CASE g.af = NoAF /\ Position(g.decoder, V, l, mm)
    BY <1>3, <1>9, <1>13, <2>1 DEF NoAF
  <2>2. CASE g.af \in DOMAIN V /\ g.af > l /\ Position(g.decoder, V, g.af, mm)
    <3>1. g.af \in Nat
      BY <1>10, <2>2, Compared
    <3>2. g.af # NoAF /\ g.af \notin 1 .. l
      BY <1>11, <2>2, <3>1 DEF NoAF
    <3> QED
      BY <1>3, <1>9, <1>13, <2>2, <3>2
  <2> QED
    BY <1>15, <2>1, <2>2
<1>17. ~repeated'
  BY <1>3, <1>5, <1>16, Zenon
<1>18. Increasing(V, written') /\ Counted(V)' /\ SenderNumbers(V)'
  BY <1>1, <1>7 DEF Counted, SenderNumbers
<1>19. Numbered(V)'
  BY <1>8, <1>16, <1>18 DEF Numbered
<1> QED
  BY <1>17, <1>19

LEMMA OrderNetwork ==
  Inv /\ OrderInv /\ (Arrive \/ Overtake \/ Duplicate \/ Lose \/ Garble) => OrderInv'
<1> SUFFICES ASSUME Inv, OrderInv, Arrive \/ Overtake \/ Duplicate \/ Lose \/ Garble PROVE OrderInv'
  OBVIOUS
<1>1. net \in Seq(FragmentsUpTo(written)) /\ Len(net) \in Nat
  BY ConstantsOfInv
<1>2. NetInv'
  BY NetworkStep DEF Inv
<1>3. \A V : NetNumbers(V) => \A i \in 1 .. Len(net) : Bears(net[i], V)
  BY DEF NetNumbers
<1>4. ASSUME net # <<>>
      PROVE  /\ 1 \in 1 .. Len(net) /\ Head(net) = net[1] /\ net[1] \in FragmentsUpTo(written)
             /\ Len(Tail(net)) = Len(net) - 1
             /\ \A i \in 1 .. Len(net) - 1 : Tail(net)[i] = net[i + 1]
  BY <1>1, <1>4
<1>5. ASSUME net # <<>>, net' = Tail(net), NEW V, NetNumbers(V)
      PROVE  NetNumbers(V)'
  <2>1. \A i \in 1 .. Len(net) - 1 : i + 1 \in 1 .. Len(net)
    BY <1>1
  <2> QED
    BY <1>4, <1>5, <2>1 DEF NetNumbers
<1>6. CASE Arrive
  <2>1. net # <<>> /\ PushPacket(Head(net), TRUE) /\ net' = Tail(net) /\ UNCHANGED transport
    BY <1>6 DEF Arrive
  <2>2. PICK f : f = Head(net)
    OBVIOUS
  <2>3. f \in FragmentsUpTo(written) /\ \A V : NetNumbers(V) => Bears(f, V) /\ NetNumbers(V)'
    BY <1>3, <1>4, <1>5, <2>1, <2>2
  <2>4. PushPacket(f, TRUE)
    BY <2>1, <2>2
  <2> QED
    BY <1>2, <2>1, <2>3, <2>4, OrderPush
<1>7. CASE Overtake
  <2>1. /\ Len(net) > 1 /\ PushPacket(net[2], TRUE) /\ UNCHANGED transport
        /\ net' = <<net[1]>> \o SubSeq(net, 3, Len(net))
    BY <1>7 DEF Overtake
  <2>2. PICK f, s, k : f = net[2] /\ s = SubSeq(net, 3, Len(net)) /\ k = Len(net)
    OBVIOUS
  <2>3. k \in Nat /\ k > 1 /\ 2 \in 1 .. k /\ f \in FragmentsUpTo(written)
    BY <1>1, <2>1, <2>2
  <2>4. Len(s) = k - 2 /\ \A i \in 1 .. k - 2 : s[i] = net[i + 2]
    BY <1>1, <2>2, <2>3
  <2>5. s \in Seq(FragmentsUpTo(written))
    BY <1>1, <2>1, <2>2, SubSeqProperties
  <2>6. /\ Len(<<net[1]>> \o s) = k - 1
        /\ \A i \in 1 .. k - 1 : (<<net[1]>> \o s)[i] = IF i = 1 THEN net[1] ELSE net[i + 1]
    <3>1. PICK a, t : a = net[1] /\ t = <<a>>
      OBVIOUS
    <3>2. a \in FragmentsUpTo(written) /\ t \in Seq(FragmentsUpTo(written)) /\ Len(t) = 1 /\ t[1] = a
      BY <1>1, <2>2, <2>3, <3>1
    <3>3. /\ Len(t \o s) = 1 + (k - 2)
          /\ \A i \in 1 .. 1 + (k - 2) : (t \o s)[i] = IF i <= 1 THEN t[i] ELSE s[i - 1]
      <4>1. /\ Len(t \o s) = Len(t) + Len(s)
            /\ \A i \in 1 .. Len(t) + Len(s) :
                 (t \o s)[i] = IF i <= Len(t) THEN t[i] ELSE s[i - Len(t)]
        BY <2>5, <3>2, ConcatProperties
      <4> QED
        BY <2>4, <3>2, <4>1
    <3>4. ASSUME NEW i \in 1 .. k - 1 PROVE (t \o s)[i] = IF i = 1 THEN net[1] ELSE net[i + 1]
      <4>1. CASE i = 1
        BY <2>3, <3>1, <3>2, <3>3, <4>1
      <4>2. CASE i # 1
        <5>1. i \in 1 .. 1 + (k - 2) /\ i - 1 \in 1 .. k - 2 /\ ~(i <= 1) /\ (i - 1) + 2 = i + 1
          BY <2>3, <4>2
        <5> QED
          BY <2>4, <3>3, <4>2, <5>1
      <4> QED
        BY <4>1, <4>2
    <3> QED
      BY <2>3, <3>1, <3>3, <3>4
  <2>7. ASSUME NEW V, NetNumbers(V) PROVE Bears(f, V) /\ NetNumbers(V)'
    <3>1. \A i \in 1 .. k : Bears(net[i], V)
      BY <1>3, <2>2, <2>7
    <3>2. \A i \in 1 .. k - 1 : 1 \in 1 .. k /\ i + 1 \in 1 .. k
      BY <2>3
    <3>3. PICK x : x = <<net[1]>> \o s
      OBVIOUS
    <3>4. \A i \in 1 .. Len(x) : Bears(x[i], V)
      BY <2>6, <3>1, <3>2, <3>3
    <3>5. net' = x
      BY <2>1, <2>2, <3>3
    <3> QED
      BY <2>2, <2>3, <3>1, <3>4, <3>5 DEF NetNumbers
  <2>8. PushPacket(f, TRUE)
    BY <2>1, <2>2
  <2> QED
    BY <1>2, <2>1, <2>3, <2>7, <2>8, OrderPush
<1>8. CASE Duplicate
  <2>1. net # <<>> /\ PushPacket(Head(net), TRUE) /\ net' = net /\ UNCHANGED transport
    BY <1>8 DEF Duplicate
  <2>2. PICK f : f = Head(net)
    OBVIOUS
  <2>3. f \in FragmentsUpTo(written) /\ \A V : NetNumbers(V) => Bears(f, V) /\ NetNumbers(V)'
    BY <1>3, <1>4, <2>1, <2>2 DEF NetNumbers
  <2>4. PushPacket(f, TRUE)
    BY <2>1, <2>2
  <2> QED
    BY <1>2, <2>1, <2>3, <2>4, OrderPush
<1>9. CASE Lose
  <2>1. /\ net # <<>> /\ net' = Tail(net)
        /\ UNCHANGED <<overrides, m_pseq, m_pending_frames, written>>
        /\ UNCHANGED <<m_pft, latest, newest, repeated, astray>>
    BY <1>9 DEF Lose, transport, receiver
  <2>2. ASSUME NEW V, Numbered(V) PROVE Numbered(V)'
    <3>1. NetNumbers(V)'
      BY <1>5, <2>1, <2>2 DEF Numbered
    <3>2. Increasing(V, written') /\ Counted(V)' /\ SenderNumbers(V)' /\ Position(m_pft, V, latest, newest)'
      BY <2>1, <2>2 DEF Numbered, Counted, SenderNumbers
    <3> QED
      BY <3>1, <3>2 DEF Numbered
  <2>3. (\E V : Numbered(V)) => \E V : Numbered(V)'
    BY <2>2
  <2> QED
    BY <2>1, <2>3, Zenon DEF OrderInv
<1>10. CASE Garble
  <2>1. PICK valid \in BOOLEAN :
          /\ net # <<>> /\ PushPacket([Head(net) EXCEPT !.damaged = TRUE], valid)
          /\ net' = Tail(net) /\ UNCHANGED transport
    BY <1>10 DEF Garble
  <2>2. PICK h, f : h = Head(net) /\ f = [h EXCEPT !.damaged = TRUE]
    OBVIOUS
  <2>3. h \in FragmentsUpTo(written) /\ \A V : NetNumbers(V) => Bears(h, V) /\ NetNumbers(V)'
    BY <1>3, <1>4, <1>5, <2>1, <2>2
  <2>4. f \in FragmentsUpTo(written) /\ f.af = h.af /\ f.pseq = h.pseq
    BY <2>2, <2>3, DamagedFragment
  <2>5. \A V : NetNumbers(V) => Bears(f, V) /\ NetNumbers(V)'
    BY <2>3, <2>4 DEF Bears
  <2>6. PushPacket(f, valid)
    BY <2>1, <2>2
  <2> QED
    BY <1>2, <2>1, <2>4, <2>5, <2>6, OrderPush
<1> QED
  BY <1>6, <1>7, <1>8, <1>9, <1>10

LEMMA OrderInit == LinkInit => OrderInv
<1> SUFFICES ASSUME LinkInit PROVE OrderInv
  OBVIOUS
<1>1. /\ m_pseq = 0 /\ m_pending_frames = <<>> /\ written = 0 /\ net = <<>>
      /\ m_pft = [next |-> 0, builders |-> <<>>] /\ latest = 0 /\ newest = 0 /\ repeated = FALSE
  BY DEF LinkInit, TransportInit, EmptyDecoder, NoAF
<1>2. PICK v : v = IF overrides THEN 0 ELSE -1
  OBVIOUS
<1>3. PICK V : V = [a \in {0} |-> v]
  OBVIOUS
<1>4. DOMAIN V = {0} /\ V[0] = v /\ v \in Int
  BY <1>2, <1>3
<1>5. Increasing(V, written)
  BY <1>1, <1>4 DEF Increasing
<1>6. Counted(V)
  <2>1. 0 % PseqMod = 0
    BY Modulus
  <2> QED
    BY <1>1, <1>2, <1>4, <2>1 DEF Counted
<1>7. SenderNumbers(V) /\ NetNumbers(V)
  BY <1>1 DEF SenderNumbers, NetNumbers
<1>8. Position(m_pft, V, latest, newest)
  BY <1>1, <1>4 DEF Position
<1>9. Numbered(V)
  BY <1>5, <1>6, <1>7, <1>8 DEF Numbered
<1>10. ~repeated
  BY <1>1, Zenon
<1> QED
  BY <1>9, <1>10 DEF OrderInv

LEMMA OrderNext == Inv /\ OrderInv /\ [LinkNext]_linkVars => OrderInv'
<1> SUFFICES ASSUME Inv, OrderInv, [LinkNext]_linkVars PROVE OrderInv'
  OBVIOUS
<1>1. CASE LinkNext
  BY <1>1, OrderWrite, OrderSend, OrderNetwork DEF LinkNext
<1>2. CASE UNCHANGED linkVars
  <2>1. /\ UNCHANGED <<overrides, m_pseq, m_pending_frames, written, net>>
        /\ UNCHANGED <<m_pft, latest, newest, repeated, astray>>
    BY <1>2 DEF linkVars, transport, network, receiver
  <2>2. ASSUME NEW V, Numbered(V) PROVE Numbered(V)'
    BY <2>1, <2>2 DEF Numbered, Counted, SenderNumbers, NetNumbers
  <2>3. (\E V : Numbered(V)) => \E V : Numbered(V)'
    BY <2>2
  <2> QED
    BY <2>1, <2>3, Zenon DEF OrderInv
<1> QED
  BY <1>1, <1>2
-----------------------------------------------------------------------------
(* A perfect network.                                                      *)

\* The Pseq of packet a, if every packet is written; z is 0 if the numbers are
\* those of the source and 1 if they count the packets from 0.
PseqOf(z, a) == (a - z) % PseqMod

Frag(z, a, i) == [pseq |-> PseqOf(z, a), findex |-> i, fcount |-> FragmentsOf(a), af |-> a,
                  damaged |-> FALSE]

IsFrag(z, f) ==
  f.af \in Nat \ {0} /\ f.findex \in 0 .. FragmentsOf(f.af) - 1 /\ f = Frag(z, f.af, f.findex)

\* The fragment that is sent after f.
NextFrag(z, f) ==
  IF f.findex + 1 < f.fcount THEN Frag(z, f.af, f.findex + 1) ELSE Frag(z, f.af + 1, 0)

\* s is the run of fragments from c up to but not including e.
InLine(z, c, s, e) ==
  /\ \A k \in 1 .. Len(s) : IsFrag(z, s[k])
  /\ \A k \in 1 .. Len(s) - 1 : s[k + 1] = NextFrag(z, s[k])
  /\ Len(s) = 0 => e = c
  /\ Len(s) > 0 => s[1] = c /\ e = NextFrag(z, s[Len(s)])

\* The fragments j to the last of packet w wait to be sent, in order of their keys.
Waits(z, pending, w, j) ==
  /\ \A t \in DOMAIN pending : \E i \in j .. FragmentsOf(w) - 1 : pending[t] = Frag(z, w, i)
  /\ \A i \in j .. FragmentsOf(w) - 1 : \E t \in DOMAIN pending : pending[t] = Frag(z, w, i)
  /\ \A t, u \in DOMAIN pending : t < u => pending[t].findex < pending[u].findex

\* e is the fragment to be sent next.
Pending(z, pending, w, e) ==
  /\ DOMAIN pending = {} => e = Frag(z, w + 1, 0)
  /\ DOMAIN pending # {} => /\ w \in Nat \ {0}
                            /\ \E j \in 0 .. FragmentsOf(w) - 1 :
                                 e = Frag(z, w, j) /\ Waits(z, pending, w, j)

\* The builder of a packet whose fragments before index i have arrived.
PartOf(a, i) ==
  [fcount |-> FragmentsOf(a), frags |-> [k \in 0 .. i - 1 |-> a], damaged |-> FALSE,
   lifeTime |-> FragmentsOf(a) * MaxDelay - i]

\* The decoder has delivered all that came before c, and c is what it lacks.
Ready(z, d, c, l) ==
  /\ IsFrag(z, c) /\ l = c.af - 1
  /\ DOMAIN d.builders = {} => c.findex = 0
  /\ DOMAIN d.builders # {} => d.next = c.pseq
  /\ \A p \in DOMAIN d.builders : p = c.pseq \/ \E k \in 1 .. Keep : p = PseqOf(z, c.af - k)
  /\ c.findex = 0 => c.pseq \notin DOMAIN d.builders
  /\ c.findex > 0 => c.pseq \in DOMAIN d.builders /\ d.builders[c.pseq] = PartOf(c.af, c.findex)

Undisturbed == ~(gap \/ lossy \/ reordered \/ overlapped)

\* z for this sender.
First == IF overrides THEN 0 ELSE 1

Flows(z) ==
  /\ ~overrides => m_pseq = written % PseqMod
  /\ \E c, e : /\ Ready(z, m_pft, c, latest)
               /\ InLine(z, c, net, e)
               /\ m_running => Pending(z, m_pending_frames, written, e)

LosslessInv == Undisturbed => ~skipped /\ ~repeated /\ Flows(First)

LEMMA SomeFragments ==
  ASSUME NEW a
  PROVE  FragmentsOf(a) \in Nat /\ FragmentsOf(a) > 0
BY Constants DEF FragmentsOf

LEMMA FragFields ==
  ASSUME NEW z, NEW a, NEW i
  PROVE  /\ Frag(z, a, i).pseq = PseqOf(z, a) /\ Frag(z, a, i).findex = i
         /\ Frag(z, a, i).fcount = FragmentsOf(a) /\ Frag(z, a, i).af = a
BY DEF Frag

LEMMA IsFragFacts ==
  ASSUME NEW z, NEW a \in Nat \ {0}, NEW i \in 0 .. FragmentsOf(a) - 1
  PROVE  IsFrag(z, Frag(z, a, i))
BY FragFields DEF IsFrag

LEMMA FragUndamaged ==
  ASSUME NEW z, NEW c, IsFrag(z, c)
  PROVE  ~c.damaged
BY DEF IsFrag, Frag

LEMMA FieldsOf ==
  ASSUME NEW z, NEW c, IsFrag(z, c)
  PROVE  /\ c.af \in Nat \ {0} /\ c.findex \in Nat /\ c.findex < FragmentsOf(c.af)
         /\ c.fcount = FragmentsOf(c.af) /\ c.pseq = PseqOf(z, c.af)
<1>1. c.af \in Nat \ {0} /\ c.findex \in 0 .. FragmentsOf(c.af) - 1 /\ c = Frag(z, c.af, c.findex)
  BY DEF IsFrag
<1>2. PICK a, i : a = c.af /\ i = c.findex
  OBVIOUS
<1>3. c.fcount = FragmentsOf(a) /\ c.pseq = PseqOf(z, a)
  BY <1>1, <1>2, FragFields
<1>4. i \in Nat /\ i < FragmentsOf(a)
  BY <1>1, <1>2, SomeFragments
<1> QED
  BY <1>1, <1>2, <1>3, <1>4

\* Pseq from one packet to the others that the decoder knows of.
LEMMA PseqFacts ==
  ASSUME NEW z \in Int, NEW a \in Int
  PROVE  /\ PseqOf(z, a) \in 0 .. PseqMod - 1
         /\ (PseqOf(z, a) + 1) % PseqMod = PseqOf(z, a + 1)
         /\ (PseqOf(z, a) - Keep) % PseqMod = PseqOf(z, a - Keep)
         /\ \A k \in 1 .. Keep : PseqOf(z, a - k) # PseqOf(z, a)
<1>1. PICK x : x = a - z
  OBVIOUS
<1>2. x \in Int /\ PseqOf(z, a) = x % PseqMod /\ x % PseqMod \in 0 .. PseqMod - 1
  BY <1>1, DivisionFacts, Modulus DEF PseqOf
<1>3. ASSUME NEW c \in Int PROVE ((x % PseqMod) + c) % PseqMod = (x + c) % PseqMod
  BY <1>2, <1>3, RemainderShift, Modulus
<1>4. 1 \in Int /\ -Keep \in Int /\ x % PseqMod \in Int
  BY <1>2, Modulus
<1>5. ((x % PseqMod) + 1) % PseqMod = (x + 1) % PseqMod
  BY <1>3, <1>4
<1>6. ((x % PseqMod) + (-Keep)) % PseqMod = (x + (-Keep)) % PseqMod
  BY <1>3, <1>4
<1>7. (x % PseqMod) + (-Keep) = (x % PseqMod) - Keep /\ x + 1 = (a + 1) - z /\ x + (-Keep) = (a - Keep) - z
  BY <1>1, <1>4, Modulus
<1>8. ASSUME NEW k \in 1 .. Keep, PseqOf(z, a - k) = PseqOf(z, a) PROVE FALSE
  <2>1. PICK y : y = (a - k) - z
    OBVIOUS
  <2>2. y \in Int /\ y % PseqMod = x % PseqMod /\ x - y < PseqMod /\ y - x < PseqMod /\ x # y
    BY <1>1, <1>2, <1>8, <2>1, Modulus DEF PseqOf
  <2> QED
    BY <1>2, <2>2, Congruent, Modulus
<1>9. PseqOf(z, a + 1) = ((a + 1) - z) % PseqMod /\ PseqOf(z, a - Keep) = ((a - Keep) - z) % PseqMod
  BY DEF PseqOf
<1> QED
  BY <1>2, <1>5, <1>6, <1>7, <1>8, <1>9

\* That builder when fragment i has joined it.
Joined(a, i) ==
  [fcount |-> FragmentsOf(a), frags |-> [k \in 0 .. i |-> a], damaged |-> FALSE,
   lifeTime |-> FragmentsOf(a) * MaxDelay - i]

\* The fragment the decoder lacks joins its builder.
LEMMA PushInLine ==
  ASSUME NEW w \in Nat, NEW d, DecoderOK(d, w), NEW z \in Int, NEW c \in FragmentsUpTo(w), NEW l,
         Ready(z, d, c, l)
  PROVE  LET e == PushPFTFrag(d, c)
         IN  /\ e.next = c.pseq /\ DOMAIN e.builders = DOMAIN d.builders \cup {c.pseq}
             /\ e.builders[c.pseq] = Joined(c.af, c.findex)
<1>1. PICK e : e = PushPFTFrag(d, c)
  OBVIOUS
<1>2. /\ DOMAIN e.builders = DOMAIN d.builders \cup {c.pseq}
      /\ e.next = IF DOMAIN d.builders = {} THEN c.pseq ELSE d.next
      /\ c.pseq \in DOMAIN d.builders => e.builders[c.pseq] = AddFragment(d.builders[c.pseq], c)
      /\ c.pseq \notin DOMAIN d.builders => e.builders[c.pseq] = AddFragment(NewBuilder(c), c)
  BY <1>1, PushedBuilders
<1>3. e.next = c.pseq
  BY <1>2 DEF Ready
<1>4. PICK a, i, n : a = c.af /\ i = c.findex /\ n = FragmentsOf(c.af)
  OBVIOUS
<1>5. /\ a \in Nat \ {0} /\ i \in Nat /\ i < n /\ c.fcount = n /\ n \in Nat /\ n * MaxDelay \in Nat
  <2>1. IsFrag(z, c)
    BY DEF Ready
  <2>2. a \in Nat \ {0} /\ i \in Nat /\ i < n /\ c.fcount = n /\ n \in Nat
    BY <1>4, <2>1, FieldsOf, SomeFragments
  <2> QED
    BY <2>2, Constants, Product
<1>8. PICK h : h = FALSE /\ ~c.damaged
  BY FragUndamaged DEF Ready
<1>9. (h \/ c.damaged) = h
  BY <1>8
<1>6. CASE i = 0
  <2>1. c.pseq \notin DOMAIN d.builders
    BY <1>4, <1>6 DEF Ready
  <2>2. PICK b : b = NewBuilder(c)
    OBVIOUS
  <2>3. b = [fcount |-> n, frags |-> <<>>, damaged |-> h, lifeTime |-> n * MaxDelay]
    BY <1>5, <1>8, <2>2 DEF NewBuilder
  <2>4. PICK u : u = Updated(b.frags, Entry(i, a))
    OBVIOUS
  <2>5. u = [k \in 0 .. i |-> a]
    <3>1. DOMAIN b.frags = {}
      BY <2>3
    <3>2. {i} = 0 .. i
      BY <1>6
    <3> QED
      BY <2>4, <3>1, <3>2 DEF Updated, Entry
  <2>6. AddFragment(b, c) = [fcount |-> n, frags |-> u, damaged |-> h, lifeTime |-> n * MaxDelay]
    <3>1. c.findex \notin DOMAIN b.frags /\ CheckConsistency(b, c)
      BY <1>4, <1>5, <2>3 DEF CheckConsistency
    <3> QED
      BY <1>4, <1>9, <2>3, <2>4, <3>1 DEF AddFragment
  <2>7. n * MaxDelay = n * MaxDelay - i
    BY <1>5, <1>6
  <2> QED
    BY <1>1, <1>2, <1>3, <1>4, <1>5, <1>8, <2>1, <2>2, <2>5, <2>6, <2>7 DEF Joined
<1>7. CASE i > 0
  <2>1. c.pseq \in DOMAIN d.builders /\ d.builders[c.pseq] = PartOf(a, i)
    BY <1>4, <1>7 DEF Ready
  <2>2. PICK b : b = d.builders[c.pseq]
    OBVIOUS
  <2>3. b = [fcount |-> n, frags |-> [k \in 0 .. i - 1 |-> a], damaged |-> h,
             lifeTime |-> n * MaxDelay - i]
    BY <1>4, <1>8, <2>1, <2>2 DEF PartOf
  <2>4. PICK u : u = Updated(b.frags, Entry(i, a))
    OBVIOUS
  <2>5. u = [k \in 0 .. i |-> a]
    <3>1. {i} \cup (0 .. i - 1) = 0 .. i
      BY <1>5, <1>7
    <3>2. PICK v : v = [k \in 0 .. i - 1 |-> a]
      OBVIOUS
    <3>3. b.frags = v /\ DOMAIN v = 0 .. i - 1 /\ \A k \in 0 .. i - 1 : v[k] = a
      BY <2>3, <3>2
    <3>4. u = [k \in {i} \cup (0 .. i - 1) |-> IF k \in {i} THEN Entry(i, a)[k] ELSE v[k]]
      BY <2>4, <3>3 DEF Updated, Entry
    <3>5. \A k \in {i} : Entry(i, a)[k] = a
      BY DEF Entry
    <3> QED
      BY <3>1, <3>3, <3>4, <3>5
  <2>6. AddFragment(b, c) = [fcount |-> n, frags |-> u, damaged |-> h, lifeTime |-> n * MaxDelay - i]
    <3>1. c.findex \notin DOMAIN b.frags /\ CheckConsistency(b, c)
      BY <1>4, <1>5, <2>3 DEF CheckConsistency
    <3> QED
      BY <1>4, <1>9, <2>3, <2>4, <3>1 DEF AddFragment
  <2> QED
    BY <1>1, <1>2, <1>3, <1>4, <1>5, <1>8, <2>1, <2>2, <2>5, <2>6 DEF Joined
<1> QED
  BY <1>5, <1>6, <1>7

\* With that fragment the packet is complete, or its builder has life left.
LEMMA TryInLine ==
  ASSUME NEW a \in Nat \ {0}, NEW i \in Nat, i < FragmentsOf(a), NEW b,
         b = Joined(a, i), NEW r
  PROVE  /\ i + 1 = FragmentsOf(a) => CanAttemptToDecode(b) = "yes" /\ ExtractAF(b, r) = a
         /\ i + 1 # FragmentsOf(a) => /\ CanAttemptToDecode(b) \in {"maybe", "no"}
                                      /\ b.lifeTime \in Nat /\ b.lifeTime > 1
<1>1. PICK n, u : n = FragmentsOf(a) /\ u = [k \in 0 .. i |-> a]
  OBVIOUS
<1>2. /\ n \in Nat /\ n > 0 /\ i < n
      /\ b = [fcount |-> n, frags |-> u, damaged |-> FALSE, lifeTime |-> n * MaxDelay - i]
  BY <1>1, SomeFragments DEF Joined
<1>3. DOMAIN u = 0 .. i /\ \A k \in 0 .. i : u[k] = a
  BY <1>1
<1>4. Cardinality(0 .. i) = i + 1
  BY FS_Interval
<1>5. Cardinality(DOMAIN b.frags) = i + 1
  BY <1>2, <1>3, <1>4
<1>6. CASE i + 1 = n
  <2>1. CanAttemptToDecode(b) = "yes"
    BY <1>2, <1>5, <1>6 DEF CanAttemptToDecode
  <2>2. {b.frags[k] : k \in DOMAIN b.frags} = {a}
    <3>1. 0 \in 0 .. i
      OBVIOUS
    <3> QED
      BY <1>2, <1>3, <3>1
  <2>3. Cardinality({b.frags[k] : k \in DOMAIN b.frags}) = 1
    BY <2>2, FS_Singleton
  <2>4. (CHOOSE k \in DOMAIN b.frags : TRUE) \in DOMAIN b.frags
    <3>1. 0 \in DOMAIN b.frags
      BY <1>2, <1>3
    <3> QED
      BY <3>1
  <2>5. Contents(b, r) = a
    BY <1>2, <1>3, <2>3, <2>4 DEF Contents
  <2>6. CheckCRC(a)
    BY DEF CheckCRC, Mixed
  <2>7. ExtractAF(b, r) = a
    BY <2>1, <2>5, <2>6 DEF ExtractAF
  <2> QED
    BY <1>1, <1>6, <2>1, <2>7
<1>7. CASE i + 1 # n
  <2>1. CanAttemptToDecode(b) \in {"maybe", "no"}
    BY <1>2, <1>5, <1>7 DEF CanAttemptToDecode
  <2>2. n <= n * MaxDelay /\ n * MaxDelay \in Nat
    <3>1. 1 * n <= MaxDelay * n
      BY <1>2, Constants, Product
    <3>2. MaxDelay * n = n * MaxDelay /\ 1 * n = n /\ n * MaxDelay \in Nat
      BY <1>2, Constants
    <3> QED
      BY <3>1, <3>2
  <2>3. b.lifeTime = n * MaxDelay - i
    BY <1>2
  <2>4. b.lifeTime \in Nat /\ b.lifeTime > 1
    BY <1>2, <1>7, <2>2, <2>3
  <2> QED
    BY <1>1, <1>7, <2>1, <2>4
<1> QED
  BY <1>6, <1>7

\* A call that was given fragment c returns nothing, or the packet after l.
Advances(z, g, c, l) ==
  \/ g.af = NoAF /\ Ready(z, g.decoder, NextFrag(z, c), l)
  \/ g.af = l + 1 /\ g.af # NoAF /\ Ready(z, g.decoder, NextFrag(z, c), g.af)

\* The fragment the decoder lacks makes it wait for the one after it; the last of
\* a packet makes it hand the packet on.
LEMMA ReceiveInLine ==
  ASSUME NEW w \in Nat, NEW d, DecoderOK(d, w), NEW n, WaitOK(d, n), NEW z \in Int,
         NEW c \in FragmentsUpTo(w), NEW l, Ready(z, d, c, l), NEW r
  PROVE  Advances(z, GetNextAFPacket(PushPFTFrag(d, c), r), c, l)
<1>1. PICK e : e = PushPFTFrag(d, c)
  OBVIOUS
<1>2. PICK a, i, F, q : a = c.af /\ i = c.findex /\ F = FragmentsOf(c.af) /\ q = c.pseq
  OBVIOUS
<1>3. PICK b : b = e.builders[q]
  OBVIOUS
<1>4. /\ a \in Nat \ {0} /\ i \in Nat /\ i < F /\ c.fcount = F /\ F \in Nat /\ F * MaxDelay \in Nat
      /\ q = PseqOf(z, a) /\ l = a - 1
  <2>1. IsFrag(z, c) /\ l = a - 1
    BY <1>2 DEF Ready
  <2>2. a \in Nat \ {0} /\ i \in Nat /\ i < F /\ c.fcount = F /\ F \in Nat /\ q = PseqOf(z, a)
    BY <1>2, <2>1, FieldsOf, SomeFragments
  <2> QED
    BY <2>1, <2>2, Constants, Product
<1>5. /\ e.next = q /\ DOMAIN e.builders = DOMAIN d.builders \cup {q}
      /\ b = Joined(a, i)
  BY <1>1, <1>2, <1>3, PushInLine
<1>6. DecoderOK(e, w)
  BY <1>1, PushFacts
<1>7. e.next \in DOMAIN e.builders /\ b = e.builders[e.next]
  BY <1>3, <1>5
<1>8. /\ i + 1 = F => CanAttemptToDecode(b) = "yes" /\ ExtractAF(b, r) = a
      /\ i + 1 # F => /\ CanAttemptToDecode(b) \in {"maybe", "no"}
                      /\ b.lifeTime \in Nat /\ b.lifeTime > 1
  <2>1. F = FragmentsOf(a) /\ i < FragmentsOf(a)
    BY <1>2, <1>4
  <2>2. /\ i + 1 = FragmentsOf(a) => CanAttemptToDecode(b) = "yes" /\ ExtractAF(b, r) = a
        /\ i + 1 # FragmentsOf(a) => /\ CanAttemptToDecode(b) \in {"maybe", "no"}
                                     /\ b.lifeTime \in Nat /\ b.lifeTime > 1
    BY <1>4, <1>5, <2>1, TryInLine
  <2> QED
    BY <2>1, <2>2
<1>9. \A p \in DOMAIN e.builders : p = q \/ \E k \in 1 .. Keep : p = PseqOf(z, a - k)
  BY <1>2, <1>5 DEF Ready
<1>10. PICK g : g = GetNextAFPacket(e, r)
  OBVIOUS
<1>11. PICK o, dar : o = Aged(e) /\ dar = CanAttemptToDecode(b)
  OBVIOUS
<1>12. g = CASE dar = "yes" ->
                  [decoder |-> IncrementNextPseq(e), af |-> ExtractAF(b, r)]
             [] dar = "maybe" /\ Overdue(o) ->
                  [decoder |-> IncrementNextPseq(o), af |-> ExtractAF(b, r)]
             [] dar = "no" /\ Overdue(o) ->
                  [decoder |-> IncrementNextPseq(o), af |-> NoAF]
             [] OTHER -> [decoder |-> o, af |-> NoAF]
  BY <1>7, <1>10, <1>11 DEF GetNextAFPacket
<1>13. CASE i + 1 # F
  <2>1. b.lifeTime \in Nat /\ b.lifeTime > 1 /\ b.lifeTime = F * MaxDelay - i /\ dar \in {"maybe", "no"}
    BY <1>2, <1>5, <1>8, <1>11, <1>13 DEF Joined
  <2>2. PICK y : y = [b EXCEPT !.lifeTime = b.lifeTime - 1]
    OBVIOUS
  <2>3. o = [next |-> q, builders |-> [e.builders EXCEPT ![q] = y]]
    <3>1. PICK u : u = [e.builders EXCEPT ![q] = y]
      OBVIOUS
    <3>2. (IF b.lifeTime > 0 THEN b.lifeTime - 1 ELSE 0) = b.lifeTime - 1
      BY <2>1
    <3>3. o = [e EXCEPT !.builders = u]
      BY <1>5, <1>7, <1>11, <2>2, <3>1, <3>2 DEF Aged
    <3> QED
      BY <1>5, <1>6, <3>1, <3>3 DEF DecoderOK
  <2>4. PICK u : u = o.builders
    OBVIOUS
  <2>5. DOMAIN u = DOMAIN e.builders /\ u[q] = y /\ o.next = q /\ q \in DOMAIN u
    BY <1>5, <2>3, <2>4
  <2>6. y = PartOf(a, i + 1) /\ y.lifeTime = b.lifeTime - 1
    <3>1. y = [fcount |-> F, frags |-> [k \in 0 .. i |-> a], damaged |-> FALSE,
               lifeTime |-> b.lifeTime - 1]
      BY <1>2, <1>5, <2>2 DEF Joined
    <3>2. b.lifeTime - 1 = F * MaxDelay - (i + 1) /\ (i + 1) - 1 = i
      BY <1>4, <2>1
    <3> QED
      BY <1>2, <3>1, <3>2 DEF PartOf
  <2>7. ~Overdue(o)
    BY <2>1, <2>4, <2>5, <2>6 DEF Overdue
  <2>8. g = [decoder |-> o, af |-> NoAF]
    BY <1>12, <2>1, <2>7
  <2>9. PICK x : x = NextFrag(z, c)
    OBVIOUS
  <2>10. x = Frag(z, a, i + 1)
    BY <1>2, <1>4, <1>13, <2>9 DEF NextFrag
  <2>11. x.pseq = q /\ x.findex = i + 1 /\ x.af = a /\ IsFrag(z, x)
    <3>1. i + 1 \in 0 .. FragmentsOf(a) - 1
      BY <1>2, <1>4, <1>13
    <3>2. x.pseq = q /\ x.findex = i + 1 /\ x.af = a
      BY <1>4, <2>10, FragFields
    <3> QED
      BY <1>4, <2>10, <3>1, <3>2, IsFragFacts
  <2>12. Ready(z, o, x, l)
    <3>1. IsFrag(z, x) /\ l = x.af - 1 /\ DOMAIN o.builders # {} /\ o.next = x.pseq
      BY <1>4, <2>4, <2>5, <2>11
    <3>2. \A p \in DOMAIN o.builders : p = x.pseq \/ \E k \in 1 .. Keep : p = PseqOf(z, x.af - k)
      BY <1>9, <2>4, <2>5, <2>11
    <3>3. x.findex # 0
      BY <1>4, <2>11
    <3>4. x.pseq \in DOMAIN o.builders /\ o.builders[x.pseq] = PartOf(x.af, x.findex)
      BY <2>4, <2>5, <2>6, <2>11
    <3> QED
      BY <3>1, <3>2, <3>3, <3>4 DEF Ready
  <2> QED
    BY <1>1, <1>10, <2>8, <2>9, <2>12 DEF Advances
<1>14. CASE i + 1 = F
  <2>1. g = [decoder |-> IncrementNextPseq(e), af |-> a]
    BY <1>8, <1>11, <1>12, <1>14
  <2>2. PICK o2, D : o2 = g.decoder /\ D = DOMAIN e.builders \ {(q - Keep) % PseqMod}
    OBVIOUS
  <2>3. o2 = [next |-> (q + 1) % PseqMod, builders |-> [p \in D |-> e.builders[p]]]
    BY <1>5, <2>1, <2>2 DEF IncrementNextPseq
  <2>4. /\ (q + 1) % PseqMod = PseqOf(z, a + 1)
        /\ (q - Keep) % PseqMod = PseqOf(z, a - Keep)
        /\ \A k \in 1 .. Keep : PseqOf(z, a - k) # q
    BY <1>4, PseqFacts
  <2>5. \A k \in 1 .. Keep : PseqOf(z, (a + 1) - k) # PseqOf(z, a + 1)
    BY <1>4, PseqFacts
  <2>6. PICK x : x = NextFrag(z, c)
    OBVIOUS
  <2>7. x = Frag(z, a + 1, 0)
    BY <1>2, <1>4, <1>14, <2>6 DEF NextFrag
  <2>8. x.pseq = PseqOf(z, a + 1) /\ x.findex = 0 /\ x.af = a + 1 /\ IsFrag(z, x)
    <3>1. 0 \in 0 .. FragmentsOf(a + 1) - 1 /\ a + 1 \in Nat \ {0}
      BY <1>4, SomeFragments
    <3>2. x.pseq = PseqOf(z, a + 1) /\ x.findex = 0 /\ x.af = a + 1
      BY <2>7, FragFields
    <3> QED
      BY <2>7, <3>1, <3>2, IsFragFacts
  <2>9. Keep \in 1 .. Keep
    BY Modulus
  <2>10. q \in D /\ DOMAIN o2.builders = D /\ o2.next = x.pseq
    BY <1>5, <2>2, <2>3, <2>4, <2>8, <2>9
  <2>11. ASSUME NEW p \in D
         PROVE  \E k \in 1 .. Keep : p = PseqOf(z, (a + 1) - k)
    <3>1. p = q \/ \E k \in 1 .. Keep : p = PseqOf(z, a - k)
      BY <1>9, <2>2
    <3>2. CASE p = q
      <4>1. 1 \in 1 .. Keep /\ (a + 1) - 1 = a
        BY <1>4, Modulus
      <4> QED
        BY <1>4, <3>2, <4>1
    <3>3. CASE \E k \in 1 .. Keep : p = PseqOf(z, a - k)
      <4>1. PICK k \in 1 .. Keep : p = PseqOf(z, a - k)
        BY <3>3
      <4>2. k # Keep
        BY <2>2, <2>4, <4>1
      <4>3. k + 1 \in 1 .. Keep /\ (a + 1) - (k + 1) = a - k
        BY <1>4, <4>2, Modulus
      <4> QED
        BY <4>1, <4>3
    <3> QED
      BY <3>1, <3>2, <3>3
  <2>12. x.pseq \notin D
    BY <2>5, <2>8, <2>11
  <2>13. Ready(z, o2, x, a)
    <3>1. a = x.af - 1
      BY <1>4, <2>8
    <3>2. \A p \in DOMAIN o2.builders : \E k \in 1 .. Keep : p = PseqOf(z, x.af - k)
      BY <2>8, <2>10, <2>11
    <3>3. DOMAIN o2.builders # {}
      BY <2>10
    <3>4. ~(x.findex > 0)
      BY <2>8
    <3> QED
      BY <2>8, <2>10, <2>12, <3>1, <3>2, <3>3, <3>4 DEF Ready
  <2>14. a = l + 1 /\ a # NoAF
    BY <1>4 DEF NoAF
  <2> QED
    BY <1>1, <1>10, <2>1, <2>2, <2>6, <2>13, <2>14 DEF Advances
<1> QED
  BY <1>13, <1>14

LEMMA LineHead ==
  ASSUME NEW S, NEW s \in Seq(S), s # <<>>, NEW z, NEW c, NEW e, InLine(z, c, s, e)
  PROVE  s[1] = c /\ IsFrag(z, c) /\ InLine(z, NextFrag(z, c), Tail(s), e)
<1>1. PICK n, q : n = Len(s) /\ q = Tail(s)
  OBVIOUS
<1>2. n \in Nat /\ n > 0 /\ Len(q) = n - 1 /\ \A k \in 1 .. n - 1 : q[k] = s[k + 1]
  BY <1>1
<1>3. /\ \A k \in 1 .. n : IsFrag(z, s[k])
      /\ \A k \in 1 .. n - 1 : s[k + 1] = NextFrag(z, s[k])
      /\ s[1] = c /\ e = NextFrag(z, s[n])
  BY <1>1, <1>2 DEF InLine
<1>4. IsFrag(z, c)
  BY <1>2, <1>3
<1>5. \A k \in 1 .. n - 1 : IsFrag(z, q[k])
  BY <1>2, <1>3
<1>6. \A k \in 1 .. (n - 1) - 1 : q[k + 1] = NextFrag(z, q[k])
  BY <1>2, <1>3
<1>7. n - 1 = 0 => e = NextFrag(z, c)
  BY <1>2, <1>3
<1>8. n - 1 > 0 => q[1] = NextFrag(z, c) /\ e = NextFrag(z, q[n - 1])
  BY <1>2, <1>3
<1>9. InLine(z, NextFrag(z, c), q, e)
  BY <1>2, <1>5, <1>6, <1>7, <1>8 DEF InLine
<1> QED
  BY <1>1, <1>3, <1>4, <1>9

LEMMA LineJoin ==
  ASSUME NEW S, NEW s \in Seq(S), NEW q \in Seq(S), NEW z, NEW c, NEW e, NEW x,
         InLine(z, c, s, e), InLine(z, e, q, x)
  PROVE  InLine(z, c, s \o q, x)
<1>1. PICK n, m, y : n = Len(s) /\ m = Len(q) /\ y = s \o q
  OBVIOUS
<1>2. n \in Nat /\ m \in Nat
  BY <1>1
<1>3. Len(y) = n + m /\ \A k \in 1 .. n + m : y[k] = IF k <= n THEN s[k] ELSE q[k - n]
  BY <1>1, ConcatProperties
<1>4. /\ \A k \in 1 .. n : IsFrag(z, s[k])
      /\ \A k \in 1 .. n - 1 : s[k + 1] = NextFrag(z, s[k])
      /\ n = 0 => e = c
      /\ n > 0 => s[1] = c /\ e = NextFrag(z, s[n])
  BY <1>1 DEF InLine
<1>5. /\ \A k \in 1 .. m : IsFrag(z, q[k])
      /\ \A k \in 1 .. m - 1 : q[k + 1] = NextFrag(z, q[k])
      /\ m = 0 => x = e
      /\ m > 0 => q[1] = e /\ x = NextFrag(z, q[m])
  BY <1>1 DEF InLine
<1>6. ASSUME NEW k \in 1 .. n + m PROVE IsFrag(z, y[k])
  <2>1. CASE k <= n
    BY <1>2, <1>3, <1>4, <2>1
  <2>2. CASE ~(k <= n)
    <3>1. k - n \in 1 .. m
      BY <1>2, <2>2
    <3> QED
      BY <1>3, <1>5, <2>2, <3>1
  <2> QED
    BY <2>1, <2>2
<1>7. ASSUME NEW k \in 1 .. (n + m) - 1 PROVE y[k + 1] = NextFrag(z, y[k])
  <2>1. k \in 1 .. n + m /\ k + 1 \in 1 .. n + m
    BY <1>2
  <2>2. CASE k + 1 <= n
    <3>1. k \in 1 .. n - 1 /\ k <= n
      BY <1>2, <2>2
    <3> QED
      BY <1>3, <1>4, <2>1, <2>2, <3>1
  <2>3. CASE k = n
    <3>1. n > 0 /\ m > 0 /\ (k + 1) - n = 1 /\ ~(k + 1 <= n) /\ k <= n
      BY <1>2, <2>1, <2>3
    <3> QED
      BY <1>3, <1>4, <1>5, <2>1, <2>3, <3>1
  <2>4. CASE k > n
    <3>1. k - n \in 1 .. m - 1 /\ (k + 1) - n = (k - n) + 1 /\ ~(k <= n) /\ ~(k + 1 <= n)
      BY <1>2, <2>4
    <3> QED
      BY <1>3, <1>5, <2>1, <3>1
  <2> QED
    BY <1>2, <2>2, <2>3, <2>4
<1>8. n + m = 0 => x = c
  BY <1>2, <1>4, <1>5
<1>9. n + m > 0 => y[1] = c /\ x = NextFrag(z, y[n + m])
  <2>1. CASE n = 0 /\ m > 0
    <3>1. 1 \in 1 .. n + m /\ n + m \in 1 .. n + m /\ ~(1 <= n) /\ ~(n + m <= n) /\ 1 - n = 1 /\ (n + m) - n = m
      BY <1>2, <2>1
    <3> QED
      BY <1>3, <1>4, <1>5, <2>1, <3>1
  <2>2. CASE n > 0 /\ m = 0
    <3>1. 1 \in 1 .. n + m /\ n + m \in 1 .. n + m /\ 1 <= n /\ n + m <= n /\ n + m = n
      BY <1>2, <2>2
    <3> QED
      BY <1>3, <1>4, <1>5, <2>2, <3>1
  <2>3. CASE n > 0 /\ m > 0
    <3>1. 1 \in 1 .. n + m /\ n + m \in 1 .. n + m /\ 1 <= n /\ ~(n + m <= n) /\ (n + m) - n = m
      BY <1>2, <2>3
    <3> QED
      BY <1>3, <1>4, <1>5, <2>3, <3>1
  <2> QED
    BY <1>2, <2>1, <2>2, <2>3
<1>10. InLine(z, c, y, x)
  BY <1>3, <1>6, <1>7, <1>8, <1>9 DEF InLine
<1> QED
  BY <1>1, <1>10

\* The fragments i to k - 1 of packet w.
LEMMA LineOf ==
  ASSUME NEW S, NEW q \in Seq(S), NEW z, NEW w \in Nat \ {0}, NEW j \in Nat,
         j + Len(q) <= FragmentsOf(w),
         \A k \in 1 .. Len(q) : q[k] = Frag(z, w, j + k - 1)
  PROVE  /\ Len(q) = 0 => InLine(z, Frag(z, w, j), q, Frag(z, w, j))
         /\ Len(q) > 0 => InLine(z, Frag(z, w, j), q, NextFrag(z, Frag(z, w, j + Len(q) - 1)))
<1>1. PICK n, F : n = Len(q) /\ F = FragmentsOf(w)
  OBVIOUS
<1>2. n \in Nat /\ F \in Nat /\ j + n <= F
  BY <1>1, SomeFragments
<1>3. ASSUME NEW k \in 1 .. n PROVE IsFrag(z, q[k])
  <2>1. j + k - 1 \in 0 .. F - 1
    BY <1>2
  <2> QED
    BY <1>1, <2>1, IsFragFacts
<1>4. ASSUME NEW k \in 1 .. n - 1 PROVE q[k + 1] = NextFrag(z, q[k])
  <2>1. PICK f, i : f = q[k] /\ i = j + k - 1
    OBVIOUS
  <2>2. k \in 1 .. n /\ k + 1 \in 1 .. n /\ j + (k + 1) - 1 = i + 1 /\ i + 1 < F /\ i \in Nat
    BY <1>2, <2>1
  <2>3. f = Frag(z, w, i) /\ q[k + 1] = Frag(z, w, i + 1)
    BY <1>1, <2>1, <2>2
  <2>4. f.findex = i /\ f.fcount = F /\ f.af = w
    BY <1>1, <2>3, FragFields
  <2> QED
    BY <2>1, <2>2, <2>3, <2>4 DEF NextFrag
<1>5. n > 0 => q[1] = Frag(z, w, j) /\ q[n] = Frag(z, w, j + n - 1)
  <2>1. n > 0 => 1 \in 1 .. n /\ n \in 1 .. n /\ j + 1 - 1 = j
    BY <1>2
  <2> QED
    BY <1>1, <2>1
<1> QED
  BY <1>1, <1>2, <1>3, <1>4, <1>5 DEF InLine

\* As many fragments are due up to key t as come before its index.
LEMMA DueCount ==
  ASSUME SenderInv, NEW z, NEW w, w = written, NEW j \in Nat, Waits(z, m_pending_frames, w, j),
         NEW t \in Due, NEW i \in Nat, m_pending_frames[t] = Frag(z, w, i)
  PROVE  Cardinality(UpTo(Due, t)) = i - j + 1 /\ j <= i /\ i < FragmentsOf(w)
<1>1. PICK P, U, F : P = m_pending_frames /\ U = UpTo(Due, t) /\ F = FragmentsOf(w)
  OBVIOUS
<1>2. F \in Nat /\ \A u \in DOMAIN P : u \in Int
  <2>1. (Long + Short) * Wait \in Nat /\ -MaxLate \in Int
    BY Constants, Product
  <2> QED
    BY <1>1, <2>1, SomeFragments DEF SenderInv
<1>3. /\ \A u \in DOMAIN P : \E k \in j .. F - 1 : P[u] = Frag(z, w, k)
      /\ \A k \in j .. F - 1 : \E u \in DOMAIN P : P[u] = Frag(z, w, k)
      /\ \A u, v \in DOMAIN P : u < v => P[u].findex < P[v].findex
  BY <1>1 DEF Waits
<1>4. t \in DOMAIN P /\ t <= 0 /\ P[t].findex = i
  BY <1>1, FragFields DEF Due
<1>5. \A u : u \in U <=> u \in DOMAIN P /\ u <= t
  <2>1. \A u \in DOMAIN P : u <= t => u <= 0
    BY <1>2, <1>4
  <2> QED
    BY <1>1, <2>1 DEF UpTo, Due
<1>6. \A u \in DOMAIN P : P[u].findex \in j .. F - 1
  BY <1>3, FragFields
<1>7. i \in j .. F - 1
  BY <1>4, <1>6
<1>8. PICK g : g = [u \in U |-> P[u].findex]
  OBVIOUS
<1>9. g \in [U -> j .. i]
  <2> SUFFICES ASSUME NEW u \in U PROVE P[u].findex \in j .. i
    BY <1>8
  <2>1. u \in DOMAIN P /\ u \in Int /\ t \in Int /\ P[u].findex \in j .. F - 1
    BY <1>2, <1>4, <1>5, <1>6
  <2>2. u = t \/ u < t
    BY <1>5, <2>1
  <2>3. u = t => P[u].findex = i
    BY <1>4
  <2>4. u < t => P[u].findex < i
    BY <1>3, <1>4, <2>1
  <2> QED
    BY <1>2, <1>7, <2>1, <2>2, <2>3, <2>4
<1>10. ASSUME NEW u \in U, NEW v \in U, g[u] = g[v] PROVE u = v
  <2>1. /\ u \in DOMAIN P /\ v \in DOMAIN P /\ u \in Int /\ v \in Int
        /\ P[u].findex = P[v].findex /\ P[u].findex \in Int /\ P[v].findex \in Int
    BY <1>2, <1>5, <1>6, <1>8, <1>10
  <2>2. (u < v => P[u].findex < P[v].findex) /\ (v < u => P[v].findex < P[u].findex)
    BY <1>3, <2>1
  <2> QED
    BY <2>1, <2>2
<1>11. ASSUME NEW k \in j .. i PROVE \E u \in U : g[u] = k
  <2>1. k \in j .. F - 1
    BY <1>2, <1>7
  <2>2. PICK u \in DOMAIN P : P[u] = Frag(z, w, k)
    BY <1>3, <2>1
  <2>3. P[u].findex = k
    BY <2>2, FragFields
  <2>4. u \in Int /\ t \in Int /\ (t < u => i < k)
    BY <1>2, <1>3, <1>4, <2>3
  <2>5. u <= t
    BY <1>7, <2>4
  <2>6. u \in U
    BY <1>5, <2>5
  <2> QED
    BY <1>8, <2>3, <2>6
<1>12. g \in Bijection(U, j .. i)
  <2>1. DOMAIN g = U
    BY <1>8
  <2>2. IsInjective(g)
    BY <1>10, <2>1 DEF IsInjective
  <2> QED
    BY <1>9, <1>11, <2>2 DEF Bijection, Injection, Surjection
<1>13. IsFiniteSet(j .. i) /\ Cardinality(j .. i) = i - j + 1
  BY <1>7, FS_Interval
<1>14. IsFiniteSet(U)
  <2>1. IsFiniteSet(Due) /\ U \subseteq Due
    BY <1>1, DueFacts DEF UpTo
  <2> QED
    BY <2>1, FS_Subset
<1>15. Cardinality(U) = Cardinality(j .. i)
  <2>1. ExistsBijection(U, j .. i)
    BY <1>12 DEF ExistsBijection
  <2> QED
    BY <1>14, <2>1, FS_Bijection
<1> QED
  BY <1>1, <1>2, <1>7, <1>13, <1>15

\* A pass sends the fragments in the order of their indices, from the first that
\* has not been sent.
LEMMA DueInLine ==
  ASSUME SenderInv, NEW z, NEW w, w = written, NEW j \in Nat, Waits(z, m_pending_frames, w, j)
  PROVE  /\ \A k \in 1 .. Cardinality(Due) : /\ InKeyOrder(Due)[k] = Frag(z, w, j + k - 1)
                                             /\ j + k <= FragmentsOf(w)
                                             /\ \E t \in Due : m_pending_frames[t] = Frag(z, w, j + k - 1)
         /\ \A t \in Due, i \in Nat : m_pending_frames[t] = Frag(z, w, i) => i < j + Cardinality(Due)
<1>1. PICK n, q : n = Cardinality(Due) /\ q = InKeyOrder(Due)
  OBVIOUS
<1>2. /\ IsFiniteSet(Due) /\ n \in Nat
      /\ \A k \in 1 .. n : \E t \in Due : Cardinality(UpTo(Due, t)) = k /\ q[k] = m_pending_frames[t]
  BY <1>1, DueFacts
<1>3. FragmentsOf(w) \in Nat
  BY SomeFragments
<1>4. ASSUME NEW k \in 1 .. n
      PROVE  /\ q[k] = Frag(z, w, j + k - 1) /\ j + k <= FragmentsOf(w)
             /\ \E t \in Due : m_pending_frames[t] = Frag(z, w, j + k - 1)
  <2>1. PICK t \in Due : Cardinality(UpTo(Due, t)) = k /\ q[k] = m_pending_frames[t]
    BY <1>2
  <2>2. t \in DOMAIN m_pending_frames
    BY DEF Due
  <2>3. PICK i \in j .. FragmentsOf(w) - 1 : m_pending_frames[t] = Frag(z, w, i)
    BY <2>2 DEF Waits
  <2>4. i \in Nat
    BY <1>3
  <2>5. Cardinality(UpTo(Due, t)) = i - j + 1 /\ j <= i /\ i < FragmentsOf(w)
    BY <2>3, <2>4, DueCount
  <2>6. i = j + k - 1
    BY <2>1, <2>4, <2>5
  <2> QED
    BY <1>3, <2>1, <2>3, <2>4, <2>5, <2>6
<1>5. ASSUME NEW t \in Due, NEW i \in Nat, m_pending_frames[t] = Frag(z, w, i)
      PROVE  i < j + n
  <2>1. Cardinality(UpTo(Due, t)) = i - j + 1
    BY <1>5, DueCount
  <2>2. UpTo(Due, t) \subseteq Due
    BY DEF UpTo
  <2>3. Cardinality(UpTo(Due, t)) <= n
    BY <1>1, <1>2, <2>2, FS_Subset
  <2> QED
    BY <1>2, <2>1, <2>3
<1> QED
  BY <1>1, <1>4, <1>5

\* A pass that sends k of the fragments that are due goes on from e.
LEMMA PassInLine ==
  ASSUME Inv, NEW z, NEW w, w = written, NEW e, Pending(z, m_pending_frames, w, e), Due # {},
         NEW k \in 0 .. Cardinality(Due)
  PROVE  \E x : /\ InLine(z, e, SubSeq(InKeyOrder(Due), 1, k), x)
                /\ k = Cardinality(Due) =>
                     Pending(z, [t \in DOMAIN m_pending_frames \ Due |-> m_pending_frames[t]], w, x)
<1>1. PICK n, q, s : n = Cardinality(Due) /\ q = InKeyOrder(Due) /\ s = SubSeq(q, 1, k)
  OBVIOUS
<1>2. IsFiniteSet(Due) /\ n \in Nat /\ q \in Seq(FragmentsUpTo(w)) /\ Len(q) = n
  BY <1>1, DueFacts DEF Inv
<1>3. k \in Nat /\ k <= n /\ n > 0
  BY <1>1, <1>2, FS_EmptySet
<1>4. s \in Seq(FragmentsUpTo(w)) /\ Len(s) = k /\ \A m \in 1 .. k : s[m] = q[m]
  BY <1>1, <1>2, <1>3, SubSeqProperties
<1>5. w \in Nat \ {0} /\ DOMAIN m_pending_frames # {}
  BY DEF Pending, Due
<1>6. PICK j \in 0 .. FragmentsOf(w) - 1 : e = Frag(z, w, j) /\ Waits(z, m_pending_frames, w, j)
  BY <1>5 DEF Pending
<1>7. j \in Nat /\ FragmentsOf(w) \in Nat
  BY SomeFragments
<1>8. /\ \A m \in 1 .. n : /\ q[m] = Frag(z, w, j + m - 1) /\ j + m <= FragmentsOf(w)
                           /\ \E t \in Due : m_pending_frames[t] = Frag(z, w, j + m - 1)
      /\ \A t \in Due, i \in Nat : m_pending_frames[t] = Frag(z, w, i) => i < j + n
  BY <1>1, <1>6, <1>7, DueInLine DEF Inv
<1>9. \A m \in 1 .. k : s[m] = Frag(z, w, j + m - 1)
  <2> SUFFICES ASSUME NEW m \in 1 .. k PROVE s[m] = Frag(z, w, j + m - 1)
    OBVIOUS
  <2>1. m \in 1 .. n
    BY <1>2, <1>3
  <2>2. q[m] = Frag(z, w, j + m - 1)
    BY <1>8, <2>1
  <2> QED
    BY <1>4, <2>2
<1>10. j + k <= FragmentsOf(w)
  <2>1. CASE k = 0
    BY <1>7, <2>1
  <2>2. CASE k > 0
    BY <1>3, <1>8, <2>2
  <2> QED
    BY <1>3, <2>1, <2>2
<1>11. /\ k = 0 => InLine(z, e, s, e)
       /\ k > 0 => InLine(z, e, s, NextFrag(z, Frag(z, w, j + k - 1)))
  BY <1>4, <1>5, <1>6, <1>7, <1>9, <1>10, LineOf
<1>12. CASE k # n
  BY <1>1, <1>3, <1>11, <1>12
<1>13. CASE k = n
  <2>1. PICK x, R : /\ x = NextFrag(z, Frag(z, w, j + n - 1))
                    /\ R = [t \in DOMAIN m_pending_frames \ Due |-> m_pending_frames[t]]
    OBVIOUS
  <2>2. InLine(z, e, s, x)
    BY <1>3, <1>11, <1>13, <2>1
  <2>3. DOMAIN R = DOMAIN m_pending_frames \ Due /\ \A t \in DOMAIN R : R[t] = m_pending_frames[t]
    BY <2>1
  <2>4. j + n - 1 \in Nat /\ (j + n - 1) + 1 = j + n /\ j + n <= FragmentsOf(w) /\ n \in 1 .. n
    BY <1>2, <1>3, <1>7, <1>10, <1>13
  <2>5. x = IF j + n < FragmentsOf(w) THEN Frag(z, w, j + n) ELSE Frag(z, w + 1, 0)
    BY <2>1, <2>4, FragFields DEF NextFrag
  <2>6. CASE DOMAIN R = {}
    <3>1. FragmentsOf(w) - 1 \in j .. FragmentsOf(w) - 1 /\ FragmentsOf(w) - 1 \in Nat
      BY <1>6, <1>7
    <3>2. PICK t \in DOMAIN m_pending_frames : m_pending_frames[t] = Frag(z, w, FragmentsOf(w) - 1)
      BY <1>6, <3>1 DEF Waits
    <3>3. t \in Due
      BY <2>3, <2>6
    <3>4. FragmentsOf(w) - 1 < j + n
      BY <1>8, <3>1, <3>2, <3>3
    <3>5. x = Frag(z, w + 1, 0)
      BY <1>2, <1>7, <2>4, <2>5, <3>4
    <3>6. Pending(z, R, w, x)
      BY <2>6, <3>5 DEF Pending
    <3> QED
      BY <1>1, <2>1, <2>2, <3>6
  <2>7. CASE DOMAIN R # {}
    <3>1. /\ \A t \in DOMAIN m_pending_frames : \E i \in j .. FragmentsOf(w) - 1 :
               m_pending_frames[t] = Frag(z, w, i)
          /\ \A i \in j .. FragmentsOf(w) - 1 : \E t \in DOMAIN m_pending_frames :
               m_pending_frames[t] = Frag(z, w, i)
          /\ \A t, u \in DOMAIN m_pending_frames :
               t < u => m_pending_frames[t].findex < m_pending_frames[u].findex
      BY <1>6 DEF Waits
    <3>2. PICK v \in Due : m_pending_frames[v] = Frag(z, w, j + n - 1)
      BY <1>8, <2>4
    <3>3. \A t \in DOMAIN m_pending_frames : t \in Int
      <4>1. (Long + Short) * Wait \in Nat /\ -MaxLate \in Int
        BY Constants, Product
      <4> QED
        BY <4>1 DEF Inv, SenderInv
    <3>4. ASSUME NEW t \in DOMAIN R
          PROVE  \E i \in j + n .. FragmentsOf(w) - 1 : R[t] = Frag(z, w, i)
      <4>1. t \in DOMAIN m_pending_frames /\ t \notin Due /\ R[t] = m_pending_frames[t] /\ t \in Int
        BY <2>3, <3>3
      <4>2. v \in DOMAIN m_pending_frames /\ v <= 0 /\ v \in Int
        BY <3>3 DEF Due
      <4>3. v < t
        BY <4>1, <4>2 DEF Due
      <4>4. m_pending_frames[v].findex < m_pending_frames[t].findex
        BY <3>1, <4>1, <4>2, <4>3
      <4>5. PICK i \in j .. FragmentsOf(w) - 1 : m_pending_frames[t] = Frag(z, w, i)
        BY <3>1, <4>1
      <4>6. j + n - 1 < i
        BY <3>2, <4>4, <4>5, FragFields
      <4>7. i \in j + n .. FragmentsOf(w) - 1
        BY <1>2, <1>7, <4>6
      <4> QED
        BY <4>1, <4>5, <4>7
    <3>5. ASSUME NEW i \in j + n .. FragmentsOf(w) - 1
          PROVE  \E t \in DOMAIN R : R[t] = Frag(z, w, i)
      <4>1. i \in j .. FragmentsOf(w) - 1 /\ i \in Nat /\ ~(i < j + n)
        BY <1>2, <1>7
      <4>2. PICK t \in DOMAIN m_pending_frames : m_pending_frames[t] = Frag(z, w, i)
        BY <3>1, <4>1
      <4>3. t \notin Due
        BY <1>8, <4>1, <4>2
      <4> QED
        BY <2>3, <4>2, <4>3
    <3>6. Waits(z, R, w, j + n)
      BY <2>3, <3>1, <3>4, <3>5 DEF Waits
    <3>7. j + n \in 0 .. FragmentsOf(w) - 1
      <4>1. PICK t \in DOMAIN R : TRUE
        BY <2>7
      <4>2. PICK i \in j + n .. FragmentsOf(w) - 1 : R[t] = Frag(z, w, i)
        BY <3>4
      <4> QED
        BY <1>2, <1>7, <4>2
    <3>8. x = Frag(z, w, j + n)
      BY <1>2, <1>7, <2>5, <3>7
    <3>9. Pending(z, R, w, x)
      BY <1>5, <2>7, <3>6, <3>7, <3>8 DEF Pending
    <3> QED
      BY <1>1, <2>1, <2>2, <3>9
  <2> QED
    BY <2>6, <2>7
<1> QED
  BY <1>12, <1>13

LEMMA WrittenInLine ==
  ASSUME NEW z, NEW n \in Nat \ {0}, NEW s, s = Scheduled(Assemble(n, PseqOf(z, n)))
  PROVE  DOMAIN s # {} /\ Waits(z, s, n, 0)
<1>1. PICK a, F : a = Assemble(n, PseqOf(z, n)) /\ F = FragmentsOf(n)
  OBVIOUS
<1>2. F \in Nat /\ F > 0
  BY <1>1, SomeFragments
<1>3. DOMAIN a = 0 .. F - 1 /\ \A i \in 0 .. F - 1 : a[i] = Frag(z, n, i)
  BY <1>1 DEF Assemble, Frag
<1>4. s = [t \in {i * Wait : i \in 0 .. F - 1} |-> a[t \div Wait]]
  BY <1>1, <1>3 DEF Scheduled
<1>5. ASSUME NEW i \in 0 .. F - 1
      PROVE  i \in Nat /\ i * Wait \in Nat /\ i * Wait \in DOMAIN s /\ s[i * Wait] = Frag(z, n, i)
  <2>1. i \in Nat /\ i * Wait \in Nat
    BY <1>2, Constants
  <2>2. (i * Wait) \div Wait = i
    BY <2>1, Constants, Quotient
  <2> QED
    BY <1>3, <1>4, <2>1, <2>2
<1>6. \A t \in DOMAIN s : \E i \in 0 .. F - 1 : t = i * Wait /\ s[t] = Frag(z, n, i)
  BY <1>4, <1>5
<1>7. ASSUME NEW t \in DOMAIN s, NEW u \in DOMAIN s, t < u PROVE s[t].findex < s[u].findex
  <2>1. PICK i \in 0 .. F - 1 : t = i * Wait /\ s[t] = Frag(z, n, i)
    BY <1>6
  <2>2. PICK k \in 0 .. F - 1 : u = k * Wait /\ s[u] = Frag(z, n, k)
    BY <1>6
  <2>3. i \in Nat /\ k \in Nat /\ i * Wait \in Nat /\ k * Wait \in Nat
    BY <1>5
  <2>4. k <= i => k * Wait <= i * Wait
    BY <2>3, Constants, Product
  <2>5. i < k
    BY <1>7, <2>1, <2>2, <2>3, <2>4
  <2> QED
    BY <2>1, <2>2, <2>5, FragFields
<1>8. 0 \in 0 .. F - 1
  BY <1>2
<1> QED
  BY <1>1, <1>5, <1>6, <1>7, <1>8 DEF Waits

LEMMA FirstFacts == First \in Int
BY DEF First

LEMMA LosslessWrite == Inv /\ LosslessInv /\ LinkWrite => LosslessInv'
<1> SUFFICES ASSUME Inv, LosslessInv, LinkWrite PROVE LosslessInv'
  OBVIOUS
<1>1. PICK n \in Frames : /\ Write(n) /\ lossy' = (lossy \/ Replaces(n))
                          /\ UNCHANGED <<net, mishaps, reordered, receiver>>
  BY DEF LinkWrite
<1>2. UNCHANGED <<net, m_pft, latest, skipped, repeated, reordered>> /\ (lossy => lossy')
  BY <1>1 DEF receiver
<1>3. /\ m_running /\ m_running' = m_running /\ overrides' = overrides
      /\ n \in written + 1 .. written + 1 + MaxGap /\ written' = n
      /\ m_pending_frames' = Updated(m_pending_frames, Scheduled(Assemble(n, OverridePSeq(n))))
      /\ m_pseq' = (OverridePSeq(n) + 1) % PseqMod
      /\ gap' = (gap \/ n > written + 1)
      /\ overlapped' = (overlapped \/ DOMAIN m_pending_frames # {})
  BY <1>1 DEF Write
<1> SUFFICES ASSUME Undisturbed' PROVE ~skipped' /\ ~repeated' /\ Flows(First)'
  BY DEF LosslessInv
<1>4. Undisturbed /\ ~(n > written + 1) /\ DOMAIN m_pending_frames = {}
  BY <1>2, <1>3, Zenon DEF Undisturbed
<1>5. ~skipped /\ ~repeated /\ Flows(First)
  BY <1>4 DEF LosslessInv
<1>6. ~skipped' /\ ~repeated'
  BY <1>2, <1>5, Zenon
<1>7. written \in Nat /\ n \in Nat \ {0} /\ n = written + 1
  <2>1. written \in Nat /\ MaxGap \in Nat
    BY ConstantsOfInv, TransportAssumption
  <2> QED
    BY <1>3, <1>4, <2>1
<1>8. PICK z : z = First
  OBVIOUS
<1>9. z \in Int /\ First' = z /\ z = IF overrides THEN 0 ELSE 1
  BY <1>3, <1>8, FirstFacts DEF First
<1>10. ~overrides => m_pseq = written % PseqMod
  BY <1>5, <1>8 DEF Flows
<1>11. OverridePSeq(n) = PseqOf(z, n)
  <2>1. n - 0 = n /\ n - 1 = written
    BY <1>7
  <2> QED
    BY <1>9, <1>10, <2>1 DEF OverridePSeq, PseqOf
<1>12. ~overrides' => m_pseq' = written' % PseqMod
  <2>1. PICK k : k = 1
    OBVIOUS
  <2>2. k \in Int /\ written \in Int
    BY <1>7, <2>1
  <2>3. ((written % PseqMod) + k) % PseqMod = (written + k) % PseqMod
    BY <2>2, Modulus, RemainderShift
  <2>4. ~overrides => OverridePSeq(n) = written % PseqMod
    BY <1>10 DEF OverridePSeq
  <2> QED
    BY <1>3, <1>7, <2>1, <2>3, <2>4
<1>13. PICK c, e : /\ Ready(z, m_pft, c, latest)
                   /\ InLine(z, c, net, e)
                   /\ m_running => Pending(z, m_pending_frames, written, e)
  BY <1>5, <1>8 DEF Flows
<1>14. e = Frag(z, n, 0)
  BY <1>3, <1>4, <1>7, <1>13 DEF Pending
<1>15. PICK s : s = Scheduled(Assemble(n, PseqOf(z, n)))
  OBVIOUS
<1>16. DOMAIN s # {} /\ Waits(z, s, n, 0)
  BY <1>7, <1>15, WrittenInLine
<1>17. /\ DOMAIN m_pending_frames' = DOMAIN s
       /\ \A t \in DOMAIN s : m_pending_frames'[t] = s[t]
  BY <1>3, <1>4, <1>11, <1>15 DEF Updated
<1>18. Waits(z, m_pending_frames', n, 0)
  BY <1>16, <1>17 DEF Waits
<1>19. 0 \in 0 .. FragmentsOf(n) - 1
  BY SomeFragments
<1>20. Pending(z, m_pending_frames', n, e)
  BY <1>7, <1>14, <1>16, <1>17, <1>18, <1>19 DEF Pending
<1>21. Ready(z, m_pft', c, latest') /\ InLine(z, c, net', e)
  BY <1>2, <1>13
<1>22. Flows(z)'
  BY <1>3, <1>12, <1>20, <1>21 DEF Flows
<1> QED
  BY <1>6, <1>9, <1>22

LEMMA LosslessSend ==
  Inv /\ LosslessInv /\ (LinkTick \/ LinkTransmit \/ LinkThrows \/ LinkStop) => LosslessInv'
<1> SUFFICES ASSUME Inv, LosslessInv, LinkTick \/ LinkTransmit \/ LinkThrows \/ LinkStop
             PROVE  LosslessInv'
  OBVIOUS
<1>1. /\ UNCHANGED <<m_pft, latest, skipped, repeated, lossy, reordered>>
      /\ UNCHANGED <<overrides, m_pseq, written, gap, overlapped>>
      /\ m_running
  BY DEF LinkTick, LinkTransmit, LinkThrows, LinkStop, Tick, Transmit, SendThrows, StopTransport,
         receiver, network
<1> SUFFICES ASSUME Undisturbed' PROVE ~skipped' /\ ~repeated' /\ Flows(First)'
  BY DEF LosslessInv
<1>2. Undisturbed
  BY <1>1, Zenon DEF Undisturbed
<1>3. ~skipped /\ ~repeated /\ Flows(First)
  BY <1>2 DEF LosslessInv
<1>4. ~skipped' /\ ~repeated'
  BY <1>1, <1>3, Zenon
<1>5. PICK z, w : z = First /\ w = written
  OBVIOUS
<1>6. First' = z /\ written' = w
  BY <1>1, <1>5 DEF First
<1>7. PICK c, e : /\ Ready(z, m_pft, c, latest)
                  /\ InLine(z, c, net, e)
                  /\ Pending(z, m_pending_frames, w, e)
  BY <1>1, <1>3, <1>5 DEF Flows
<1>8. ~overrides' => m_pseq' = written' % PseqMod
  BY <1>1, <1>3, <1>5 DEF Flows
<1>9. Ready(z, m_pft', c, latest')
  BY <1>1, <1>7
<1>10. net \in Seq(FragmentsUpTo(w))
  BY <1>5, ConstantsOfInv
<1>11. \E x : InLine(z, c, net', x) /\ (m_running' => Pending(z, m_pending_frames', w, x))
  <2>1. CASE LinkTick
    <3>1. /\ m_pending_frames' = [t \in {u - 1 : u \in DOMAIN m_pending_frames} |-> m_pending_frames[t + 1]]
          /\ net' = net /\ DOMAIN m_pending_frames # {}
      BY <2>1 DEF LinkTick, Tick, network
    <3>2. PICK P, Q : P = m_pending_frames /\ Q = m_pending_frames'
      OBVIOUS
    <3>3. \A u \in DOMAIN P : u \in Int
      <4>1. (Long + Short) * Wait \in Nat /\ -MaxLate \in Int
        BY Constants, Product
      <4> QED
        BY <3>2, <4>1 DEF Inv, SenderInv
    <3>4. /\ \A u \in DOMAIN P : u - 1 \in DOMAIN Q /\ Q[u - 1] = P[u]
          /\ \A t \in DOMAIN Q : t \in Int /\ t + 1 \in DOMAIN P /\ Q[t] = P[t + 1]
      BY <3>1, <3>2, <3>3
    <3>5. ASSUME NEW j, Waits(z, P, w, j) PROVE Waits(z, Q, w, j)
      <4>1. \A t \in DOMAIN Q : \E i \in j .. FragmentsOf(w) - 1 : Q[t] = Frag(z, w, i)
        BY <3>4, <3>5 DEF Waits
      <4>2. \A i \in j .. FragmentsOf(w) - 1 : \E t \in DOMAIN Q : Q[t] = Frag(z, w, i)
        BY <3>4, <3>5 DEF Waits
      <4>3. \A t, u \in DOMAIN Q : t < u => Q[t].findex < Q[u].findex
        <5> SUFFICES ASSUME NEW t \in DOMAIN Q, NEW u \in DOMAIN Q, t < u
                     PROVE  Q[t].findex < Q[u].findex
          OBVIOUS
        <5>1. t + 1 \in DOMAIN P /\ u + 1 \in DOMAIN P /\ t + 1 < u + 1
          BY <3>4
        <5> QED
          BY <3>4, <3>5, <5>1 DEF Waits
      <4> QED
        BY <4>1, <4>2, <4>3 DEF Waits
    <3>6. DOMAIN P # {} /\ DOMAIN Q # {}
      BY <3>1, <3>2, <3>4
    <3>7. Pending(z, Q, w, e)
      BY <1>7, <3>2, <3>5, <3>6 DEF Pending
    <3> QED
      BY <1>7, <3>1, <3>2, <3>7
  <2>2. CASE LinkTransmit
    <3>1. /\ net' = net \o InKeyOrder(Due) /\ Due # {}
          /\ m_pending_frames' = [t \in DOMAIN m_pending_frames \ Due |-> m_pending_frames[t]]
      BY <2>2 DEF LinkTransmit, Transmit
    <3>2. PICK q, k : q = InKeyOrder(Due) /\ k = Cardinality(Due)
      OBVIOUS
    <3>3. k \in Nat /\ q \in Seq(FragmentsUpTo(w)) /\ Len(q) = k
      BY <1>5, <3>2, DueFacts DEF Inv
    <3>4. SubSeq(q, 1, k) = q /\ k \in 0 .. k
      BY <3>3
    <3>5. PICK x : /\ InLine(z, e, SubSeq(InKeyOrder(Due), 1, k), x)
                   /\ k = Cardinality(Due) =>
                        Pending(z, [t \in DOMAIN m_pending_frames \ Due |-> m_pending_frames[t]], w, x)
      BY <1>5, <1>7, <3>1, <3>2, <3>4, PassInLine
    <3>6. InLine(z, e, q, x) /\ Pending(z, m_pending_frames', w, x)
      BY <3>1, <3>2, <3>4, <3>5
    <3>7. InLine(z, c, net \o q, x)
      BY <1>7, <1>10, <3>3, <3>6, LineJoin
    <3> QED
      BY <3>1, <3>2, <3>6, <3>7
  <2>3. CASE LinkThrows
    <3>1. /\ \E k \in 0 .. Cardinality(Due) - 1 : net' = net \o SubSeq(InKeyOrder(Due), 1, k)
          /\ m_running' = FALSE
      BY <2>3 DEF LinkThrows, SendThrows
    <3>2. PICK q, n : q = InKeyOrder(Due) /\ n = Cardinality(Due)
      OBVIOUS
    <3>3. n \in Nat /\ q \in Seq(FragmentsUpTo(w)) /\ Len(q) = n
      BY <1>5, <3>2, DueFacts DEF Inv
    <3>4. PICK k \in 0 .. n - 1 : net' = net \o SubSeq(q, 1, k)
      BY <3>1, <3>2
    <3>5. k \in 0 .. n /\ n > 0
      BY <3>3
    <3>6. Due # {}
      BY <3>2, <3>5, FS_EmptySet
    <3>7. PICK x : InLine(z, e, SubSeq(InKeyOrder(Due), 1, k), x)
      BY <1>5, <1>7, <3>2, <3>5, <3>6, PassInLine
    <3>8. SubSeq(q, 1, k) \in Seq(FragmentsUpTo(w))
      BY <3>3, <3>5, SubSeqProperties
    <3>9. InLine(z, c, net \o SubSeq(q, 1, k), x)
      BY <1>7, <1>10, <3>2, <3>7, <3>8, LineJoin
    <3> QED
      BY <3>1, <3>4, <3>9
  <2>4. CASE LinkStop
    <3>1. m_running' = FALSE /\ net' = net
      BY <2>4 DEF LinkStop, StopTransport, network
    <3> QED
      BY <1>7, <3>1
  <2> QED
    BY <2>1, <2>2, <2>3, <2>4
<1>12. Flows(z)'
  BY <1>6, <1>8, <1>9, <1>11 DEF Flows
<1> QED
  BY <1>4, <1>6, <1>12

\* The datagram that arrives is the one the decoder lacks.
LEMMA LosslessArrive == Inv /\ LosslessInv /\ Arrive => LosslessInv'
<1> SUFFICES ASSUME Inv, LosslessInv, Arrive PROVE LosslessInv'
  OBVIOUS
<1>1. /\ net # <<>> /\ PushPacket(Head(net), TRUE) /\ net' = Tail(net)
      /\ UNCHANGED <<overrides, m_pseq, m_pending_frames, m_running, written, gap, overlapped>>
      /\ UNCHANGED <<lossy, reordered>>
  BY DEF Arrive, transport
<1> SUFFICES ASSUME Undisturbed' PROVE ~skipped' /\ ~repeated' /\ Flows(First)'
  BY DEF LosslessInv
<1>2. Undisturbed
  BY <1>1, Zenon DEF Undisturbed
<1>3. ~skipped /\ ~repeated /\ Flows(First)
  BY <1>2 DEF LosslessInv
<1>4. PICK z, w : z = First /\ w = written
  OBVIOUS
<1>5. First' = z /\ z \in Int
  BY <1>1, <1>4, FirstFacts DEF First
<1>6. PICK c, e : /\ Ready(z, m_pft, c, latest)
                  /\ InLine(z, c, net, e)
                  /\ m_running => Pending(z, m_pending_frames, written, e)
  BY <1>3, <1>4 DEF Flows
<1>7. w \in Nat /\ net \in Seq(FragmentsUpTo(w))
  BY <1>4, ConstantsOfInv
<1>8. net[1] = c /\ IsFrag(z, c) /\ InLine(z, NextFrag(z, c), Tail(net), e)
  BY <1>1, <1>6, <1>7, LineHead
<1>9. Head(net) = c /\ c \in FragmentsUpTo(w)
  BY <1>1, <1>7, <1>8
<1>10. PushPacket(c, TRUE)
  BY <1>1, <1>9
<1>11. PICK r \in BOOLEAN, b \in {LoadData(m_pft, c, TRUE)} :
         \E got \in {GetNextAFPacket(b, r)} :
           /\ m_pft' = got.decoder
           /\ latest' = IF got.af = NoAF THEN latest ELSE got.af
           /\ skipped' = (skipped \/ got.af > latest + 1)
           /\ repeated' = (repeated \/ got.af \in 1 .. latest)
  BY <1>10 DEF PushPacket
<1>12. PICK g \in {GetNextAFPacket(b, r)} :
         /\ m_pft' = g.decoder
         /\ latest' = IF g.af = NoAF THEN latest ELSE g.af
         /\ skipped' = (skipped \/ g.af > latest + 1)
         /\ repeated' = (repeated \/ g.af \in 1 .. latest)
  BY <1>11
<1>13. PICK d, n, l : d = m_pft /\ n = waited /\ l = latest
  OBVIOUS
<1>14. DecoderOK(d, w) /\ WaitOK(d, n) /\ Ready(z, d, c, l) /\ l \in Nat
  <2>1. latest \in 0 .. written
    BY DEF Inv, DecoderInv
  <2> QED
    BY <1>4, <1>6, <1>7, <1>13, <2>1 DEF Inv, DecoderInv, WaitInv
<1>15. g = GetNextAFPacket(PushPFTFrag(d, c), r)
  BY <1>11, <1>12, <1>13 DEF LoadData
<1>16. Advances(z, g, c, l)
  BY <1>5, <1>7, <1>9, <1>14, <1>15, ReceiveInLine
<1>17. Ready(z, m_pft', NextFrag(z, c), latest') /\ ~(g.af > latest + 1) /\ g.af \notin 1 .. latest
  <2>1. PICK x, o, f : x = g.af /\ o = g.decoder /\ f = NextFrag(z, c)
    OBVIOUS
  <2>2. m_pft' = o /\ latest' = (IF x = NoAF THEN l ELSE x)
    BY <1>12, <1>13, <2>1
  <2>3. CASE x = NoAF /\ Ready(z, o, f, l)
    <3>1. ~(x > l + 1) /\ x \notin 1 .. l
      BY <1>14, <2>3 DEF NoAF
    <3> QED
      BY <1>13, <2>1, <2>2, <2>3, <3>1
  <2>4. CASE x = l + 1 /\ x # NoAF /\ Ready(z, o, f, x)
    <3>1. ~(x > l + 1) /\ x \notin 1 .. l
      BY <1>14, <2>4
    <3> QED
      BY <1>13, <2>1, <2>2, <2>4, <3>1
  <2> QED
    BY <1>16, <2>1, <2>3, <2>4 DEF Advances
<1>18. ~skipped' /\ ~repeated'
  BY <1>3, <1>12, <1>17, Zenon
<1>19. ~overrides' => m_pseq' = written' % PseqMod
  BY <1>1, <1>3 DEF Flows
<1>20. InLine(z, NextFrag(z, c), net', e) /\ (m_running' => Pending(z, m_pending_frames', written', e))
  BY <1>1, <1>6, <1>8
<1>21. Flows(z)'
  BY <1>17, <1>19, <1>20 DEF Flows
<1> QED
  BY <1>5, <1>18, <1>21

LEMMA LosslessInit == LinkInit => LosslessInv
<1> SUFFICES ASSUME LinkInit PROVE LosslessInv
  OBVIOUS
<1>1. /\ m_pseq = 0 /\ m_pending_frames = <<>> /\ written = 0 /\ net = <<>>
      /\ m_pft = [next |-> 0, builders |-> <<>>] /\ latest = 0
      /\ skipped = FALSE /\ repeated = FALSE
  BY DEF LinkInit, TransportInit, EmptyDecoder, NoAF
<1>2. PICK z, c : z = First /\ c = Frag(First, 1, 0)
  OBVIOUS
<1>3. c.findex = 0 /\ c.af = 1 /\ IsFrag(z, c)
  <2>1. 0 \in 0 .. FragmentsOf(1) - 1 /\ 1 \in Nat \ {0}
    BY SomeFragments
  <2>2. c = Frag(z, 1, 0)
    BY <1>2
  <2> QED
    BY <2>1, <2>2, FragFields, IsFragFacts
<1>4. Ready(z, m_pft, c, latest)
  <2>1. DOMAIN m_pft.builders = {}
    BY <1>1
  <2> QED
    BY <1>1, <1>3, <2>1 DEF Ready
<1>5. InLine(z, c, net, c)
  BY <1>1 DEF InLine
<1>6. Pending(z, m_pending_frames, written, c)
  <2>1. DOMAIN m_pending_frames = {} /\ written + 1 = 1
    BY <1>1
  <2> QED
    BY <1>2, <2>1 DEF Pending
<1>7. m_pseq = written % PseqMod
  <2>1. 0 % PseqMod = 0
    BY Modulus
  <2> QED
    BY <1>1, <2>1
<1>8. Flows(First)
  BY <1>2, <1>4, <1>5, <1>6, <1>7 DEF Flows
<1>9. ~skipped /\ ~repeated
  BY <1>1, Zenon
<1> QED
  BY <1>8, <1>9 DEF LosslessInv

LEMMA LosslessNext == Inv /\ LosslessInv /\ [LinkNext]_linkVars => LosslessInv'
<1> SUFFICES ASSUME Inv, LosslessInv, [LinkNext]_linkVars PROVE LosslessInv'
  OBVIOUS
<1>1. CASE LinkWrite
  BY <1>1, LosslessWrite
<1>2. CASE LinkTick \/ LinkTransmit \/ LinkThrows \/ LinkStop
  BY <1>2, LosslessSend
<1>3. CASE Arrive
  BY <1>3, LosslessArrive
<1>4. CASE Overtake \/ Duplicate \/ Lose \/ Garble
  <2>1. (reordered' = TRUE) \/ (lossy' = TRUE)
    BY <1>4 DEF Overtake, Duplicate, Lose, Garble
  <2>2. ~Undisturbed'
    BY <2>1, Zenon DEF Undisturbed
  <2> QED
    BY <2>2 DEF LosslessInv
<1>5. CASE UNCHANGED linkVars
  <2>1. /\ UNCHANGED <<overrides, m_pseq, m_pending_frames, m_running, written, gap, overlapped>>
        /\ UNCHANGED <<net, lossy, reordered, m_pft, latest, skipped, repeated>>
    BY <1>5 DEF linkVars, transport, network, receiver
  <2>2. Undisturbed' => Undisturbed
    BY <2>1, Zenon DEF Undisturbed
  <2>3. Flows(First) => Flows(First)'
    BY <2>1 DEF Flows, First
  <2> QED
    BY <2>1, <2>2, <2>3, Zenon DEF LosslessInv
<1> QED
  BY <1>1, <1>2, <1>3, <1>4, <1>5 DEF LinkNext
-----------------------------------------------------------------------------
(* The theorems.                                                           *)

LEMMA InvInit == LinkInit => Inv
<1> SUFFICES ASSUME LinkInit PROVE Inv
  OBVIOUS
<1>1. /\ m_pseq = 0 /\ m_pending_frames = <<>> /\ m_running = TRUE /\ written = 0
      /\ overlapped = FALSE /\ net = <<>> /\ m_pft = [next |-> 0, builders |-> <<>>]
      /\ latest = 0 /\ waited = 0 /\ stalled = FALSE
  BY DEF LinkInit, TransportInit, EmptyDecoder, NoAF
<1>2. FlagInv /\ SenderInv /\ NetInv
  <2>1. FlagInv
    BY <1>1, Zenon DEF FlagInv
  <2>2. SenderInv
    <3>1. 0 \in 0 .. PseqMod - 1 /\ 0 \in 0 .. MaxFrames
      BY Constants
    <3>2. DOMAIN m_pending_frames = {}
      BY <1>1
    <3> QED
      BY <1>1, <3>1, <3>2 DEF SenderInv
  <2>3. NetInv
    BY <1>1 DEF NetInv
  <2> QED
    BY <2>1, <2>2, <2>3
<1>3. DecoderInv
  <2>1. <<>> = [p \in DOMAIN <<>> |-> <<>>[p]] /\ DOMAIN <<>> = {}
    OBVIOUS
  <2> QED
    BY <1>1, <2>1, Constants DEF DecoderInv, DecoderOK
<1>4. WaitInv /\ StallInv
  BY <1>1 DEF WaitInv, WaitOK, StallInv
<1> QED
  BY <1>2, <1>3, <1>4 DEF Inv

LEMMA InvNext == Inv /\ [LinkNext]_linkVars => Inv'
<1> SUFFICES ASSUME Inv, [LinkNext]_linkVars PROVE Inv'
  OBVIOUS
<1>1. CASE LinkNext
  BY <1>1, WriteStep, TickStep, TransmitStep, ThrowsStep, StopStep, NetworkStep DEF LinkNext
<1>2. CASE UNCHANGED linkVars
  <2>1. /\ UNCHANGED <<m_pseq, m_pending_frames, m_running, written, overlapped>>
        /\ UNCHANGED <<net, m_pft, latest, waited, stalled>>
    BY <1>2 DEF linkVars, transport, network, receiver
  <2>2. SenderInv' /\ FlagInv' /\ NetInv'
    BY <2>1 DEF SenderInv, FlagInv, NetInv, Inv
  <2>3. DecoderInv' /\ WaitInv' /\ StallInv'
    BY <2>1 DEF DecoderInv, WaitInv, StallInv, Inv
  <2> QED
    BY <2>2, <2>3 DEF Inv
<1> QED
  BY <1>1, <1>2

\* The inductive invariant of the link: what is pending, in flight and in the
\* builders are fragments that write() made, and the Pseq the decoder waits for
\* has not been tried longer than its builder has lived (lib/edi/PFT.cpp:515-635,
\* lib/edioutput/Transport.cpp:126-260).
LEMMA InvIsInvariant == LinkSpec => []Inv
BY InvInit, InvNext, PTL DEF LinkSpec

\* The sender and the decoder keep their types: Pseq stays in its range on both
\* sides, and no fragment is due later than the spreading of two packets or is
\* overdue by more than run() may be late (lib/edioutput/Transport.cpp:126-260,
\* lib/edi/PFT.cpp:515-635).
THEOREM TypeCorrect == LinkSpec => []LinkTypeOK
<1>1. Inv => LinkTypeOK
  BY DEF Inv, FlagInv, SenderInv, DecoderInv, DecoderOK, LinkTypeOK
<1> QED
  BY <1>1, InvIsInvariant, PTL

\* Whatever the network does, every AF packet that the decoder hands on is one
\* that the sender wrote: a builder that has collected fragments of two packets
\* with the same Pseq gives none (lib/edi/PFT.cpp:320-470, AFBuilder::extractAF).
THEOREM PacketsAreIntact == LinkSpec => []DeliveredIntact
<1>1. Inv => DeliveredIntact
  BY DEF Inv, DecoderInv, DeliveredIntact
<1> QED
  BY <1>1, InvIsInvariant, PTL

\* The decoder gives a Pseq up after as many calls as MaxDelay of the longest
\* packets have fragments, and a call that finds it missing keeps MaxDelay
\* builders at most (lib/edi/PFT.cpp:554-613, PFT::getNextAFPacket).
THEOREM PseqIsAbandoned == LinkSpec => []AbandonsInTime
<1>1. Inv => AbandonsInTime
  <2> SUFFICES ASSUME Inv PROVE AbandonsInTime
    OBVIOUS
  <2>1. waited <= Long * MaxDelay
    <3>1. waited \in Nat /\ Long * MaxDelay \in Nat
      BY Lives DEF Inv, WaitInv, WaitOK
    <3>2. CASE m_pft.next \in DOMAIN m_pft.builders
      <4>1. waited + m_pft.builders[m_pft.next].lifeTime <= Long * MaxDelay
        BY <3>2 DEF Inv, WaitInv, WaitOK
      <4>2. m_pft.builders[m_pft.next].lifeTime \in Nat
        BY <3>2 DEF Inv, DecoderInv, DecoderOK, BuilderOK
      <4> QED
        BY <3>1, <4>1, <4>2
    <3>3. CASE m_pft.next \notin DOMAIN m_pft.builders
      BY <3>1, <3>3 DEF Inv, WaitInv, WaitOK
    <3> QED
      BY <3>2, <3>3
  <2> QED
    BY <2>1 DEF Inv, StallInv, AbandonsInTime
<1> QED
  BY <1>1, InvIsInvariant, PTL

\* As long as no datagram comes after one of a newer packet, or a whole round of
\* Pseq after the packet delivered last, no AF packet is handed on twice or out
\* of order, for every range of Pseq, every number of builders that are kept and
\* every loss (lib/edi/PFT.cpp:515-635, PFT::getNextAFPacket, incrementNextPseq).
THEOREM OrderIsKept == LinkSpec => []OrderKept
<1>1. OrderInv => OrderKept
  BY DEF OrderInv, OrderKept
<1>2. LinkInit => OrderInv
  BY OrderInit
<1>3. Inv /\ OrderInv /\ [LinkNext]_linkVars => OrderInv'
  BY OrderNext
<1> QED
  BY <1>1, <1>2, <1>3, InvIsInvariant, PTL DEF LinkSpec

\* On a network that neither loses nor reorders, and if the fragments of each
\* packet are sent before the next is written, every AF packet is delivered, once,
\* in order, and as soon as its last fragment arrives, for every spreading of the
\* fragments and every strength of the FEC (lib/edioutput/Transport.cpp:126-260,
\* lib/edi/PFT.cpp:515-635).
THEOREM NothingIsLost == LinkSpec => []LosslessDelivery
<1>1. Inv /\ LosslessInv => LosslessDelivery
  <2> SUFFICES ASSUME Inv, LosslessInv, Undisturbed
               PROVE  ~skipped /\ ~repeated /\ ((m_running /\ InFlight = 0) => latest = written)
    BY Zenon DEF LosslessDelivery, Undisturbed
  <2>1. ~skipped /\ ~repeated /\ Flows(First)
    BY DEF LosslessInv
  <2>2. ASSUME m_running, InFlight = 0 PROVE latest = written
    <3>1. written \in Nat /\ Len(net) \in Nat
      BY ConstantsOfInv
    <3>2. IsFiniteSet(DOMAIN m_pending_frames)
      <4>1. (Long + Short) * Wait \in Nat /\ -MaxLate \in Int
        BY Constants, Product
      <4>2. IsFiniteSet(-MaxLate .. (Long + Short) * Wait)
        BY <4>1, FS_Interval
      <4>3. DOMAIN m_pending_frames \subseteq -MaxLate .. (Long + Short) * Wait
        BY DEF Inv, SenderInv
      <4> QED
        BY <4>2, <4>3, FS_Subset
    <3>3. Cardinality(DOMAIN m_pending_frames) \in Nat
      BY <3>2, FS_CardinalityType
    <3>4. Len(net) = 0 /\ Cardinality(DOMAIN m_pending_frames) = 0
      BY <2>2, <3>1, <3>3 DEF InFlight
    <3>5. DOMAIN m_pending_frames = {}
      BY <3>2, <3>4, FS_EmptySet
    <3>6. PICK z : z = First
      OBVIOUS
    <3>7. PICK c, e : /\ Ready(z, m_pft, c, latest) /\ InLine(z, c, net, e)
                      /\ Pending(z, m_pending_frames, written, e)
      BY <2>1, <2>2, <3>6 DEF Flows
    <3>8. c = Frag(z, written + 1, 0) /\ latest = c.af - 1
      BY <3>4, <3>5, <3>7 DEF InLine, Pending, Ready
    <3> QED
      BY <3>1, <3>8, FragFields
  <2> QED
    BY <2>1, <2>2
<1>2. LinkInit => LosslessInv
  BY LosslessInit
<1>3. Inv /\ LosslessInv /\ [LinkNext]_linkVars => LosslessInv'
  BY LosslessNext
<1> QED
  BY <1>1, <1>2, <1>3, InvIsInvariant, PTL DEF LinkSpec
=============================================================================
