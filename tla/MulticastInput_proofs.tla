------------------------ MODULE MulticastInput_proofs ------------------------
(***************************************************************************)
(* The safety properties of MulticastInput, proved for sections and PDUs   *)
(* of any number and length, TS packets of any size, any continuity        *)
(* counter, and any number of lost packets.                                *)
(***************************************************************************)
EXTENDS MulticastInput, SequenceTheorems, NumberFacts

Cell == Nat \X Nat
Sections == 1 .. Len(SectionLen)
-----------------------------------------------------------------------------
(* The stream of the multiplexer.                                          *)

LEMMA EndFacts ==
  /\ Len(SectionLen) \in Nat /\ PsiHeader \in Nat \ {0} /\ TsBody \in Nat
  /\ PsiHeader <= TsBody
  /\ SectionEnd \in [0 .. Len(SectionLen) -> Nat] /\ SectionEnd[0] = 0
  /\ \A a \in Sections : /\ SectionLen[a] \in Nat /\ SectionLen[a] >= PsiHeader
                         /\ a - 1 \in 0 .. Len(SectionLen)
                         /\ SectionEnd[a - 1] \in Nat /\ SectionEnd[a] \in Nat
                         /\ SectionEnd[a] = SectionEnd[a - 1] + SectionLen[a]
<1> DEFINE N == Len(SectionLen)
           Ends(g) == g = [a \in 0 .. N |-> IF a = 0 THEN 0 ELSE g[a - 1] + SectionLen[a]]
           step == [a \in 1 .. N |-> [x \in Nat |-> x + SectionLen[a]]]
<1>1. /\ SectionLen \in Seq(Nat) /\ PsiHeader \in Nat \ {0} /\ TsBody \in Nat /\ PsiHeader <= TsBody
      /\ \A a \in 1 .. N : SectionLen[a] >= PsiHeader
  BY McastAssumption
<1>2. N \in Nat /\ \A a \in 1 .. N : SectionLen[a] \in Nat
  BY <1>1, LenProperties
<1>3. step \in [1 .. N -> [Nat -> Nat]]
  BY <1>2
<1>4. PICK g \in [0 .. N -> Nat] : g[0] = 0 /\ \A k \in 1 .. N : g[k] = step[k][g[k - 1]]
  <2>1. N \in Nat /\ 0 \in Nat
    BY <1>2
  <2> HIDE DEF step, N
  <2>2. \E g : Iterates(N, Nat, 0, step, g)
    BY <1>3, <2>1, Recursion
  <2> QED
    BY <2>2 DEF Iterates
<1>5. Ends(g)
  <2>1. \A k \in 1 .. N : k - 1 \in 0 .. N /\ g[k - 1] \in Nat
    <3> HIDE DEF step, N
    <3> QED
      BY <1>2, <1>4
  <2>2. \A k \in 1 .. N : g[k] = g[k - 1] + SectionLen[k]
    BY <1>4, <2>1
  <2>3. g = [a \in 0 .. N |-> g[a]]
    BY <1>4
  <2>4. \A a \in 0 .. N : g[a] = IF a = 0 THEN 0 ELSE g[a - 1] + SectionLen[a]
    BY <1>2, <1>4, <2>2
  <2> HIDE DEF step, N
  <2> QED
    BY <2>3, <2>4
<1>6. Ends(SectionEnd)
  <2>1. SectionEnd = CHOOSE h : Ends(h)
    BY DEF SectionEnd
  <2> HIDE DEF Ends
  <2> QED
    BY <1>5, <2>1
<1>7. /\ SectionEnd[0] = 0 /\ DOMAIN SectionEnd = 0 .. N
      /\ \A a \in 1 .. N : SectionEnd[a] = SectionEnd[a - 1] + SectionLen[a]
  BY <1>2, <1>6
<1> DEFINE S == {a \in 0 .. N : SectionEnd[a] \in Nat}
<1>8. \A a \in 0 .. N : a \in S
  <2>1. 0 \in S
    BY <1>2, <1>7
  <2>2. ASSUME NEW m \in 0 .. N - 1, m \in S PROVE m + 1 \in S
    <3>1. m + 1 \in 1 .. N /\ (m + 1) - 1 = m /\ SectionEnd[m] \in Nat
      BY <1>2, <2>2
    <3>2. SectionEnd[m + 1] = SectionEnd[m] + SectionLen[m + 1]
      BY <1>7, <3>1
    <3> QED
      BY <1>2, <3>1, <3>2
  <2> HIDE DEF S, N
  <2> QED
    BY <1>2, <2>1, <2>2, Induction
<1>9. SectionEnd = [a \in 0 .. N |-> SectionEnd[a]]
  BY <1>6
<1>10. SectionEnd \in [0 .. N -> Nat]
  BY <1>8, <1>9
<1>11. ASSUME NEW a \in 1 .. N
       PROVE  a - 1 \in 0 .. N /\ a \in 0 .. N /\ SectionEnd[a - 1] \in Nat /\ SectionEnd[a] \in Nat
  <2>1. a - 1 \in 0 .. N /\ a \in 0 .. N
    BY <1>2
  <2> QED
    BY <1>10, <2>1
<1> HIDE DEF step, S, Ends
<1> QED
  BY <1>1, <1>2, <1>7, <1>10, <1>11 DEF Sections

LEMMA StreamEndType == StreamEnd \in Nat
<1>1. PICK n \in Nat : n = Len(SectionLen) /\ n \in 0 .. n
  BY EndFacts
<1>2. SectionEnd \in [0 .. n -> Nat]
  BY <1>1, EndFacts
<1>3. SectionEnd[n] \in Nat
  BY <1>1, <1>2
<1> QED
  BY <1>1, <1>3 DEF StreamEnd

LEMMA EndsRise ==
  ASSUME NEW a \in 0 .. Len(SectionLen), NEW b \in 0 .. Len(SectionLen)
  PROVE  /\ a <= b => SectionEnd[a] <= SectionEnd[b]
         /\ a < b => SectionEnd[a] < SectionEnd[b]
<1> DEFINE N == Len(SectionLen)
           S == {m \in 0 .. N : \A k \in 0 .. m - 1 : SectionEnd[k] < SectionEnd[m]}
<1>1. N \in Nat /\ \A k \in 0 .. N : SectionEnd[k] \in Nat
  BY EndFacts
<1>2. 0 \in S
  BY <1>1
<1>3. ASSUME NEW m \in 0 .. N - 1, m \in S PROVE m + 1 \in S
  <2>1. m + 1 \in Sections /\ (m + 1) - 1 = m /\ m \in 0 .. N /\ m + 1 \in 0 .. N
    BY <1>1 DEF Sections
  <2>2. SectionEnd[m] < SectionEnd[m + 1]
    BY <2>1, EndFacts
  <2>3. ASSUME NEW k \in 0 .. m PROVE SectionEnd[k] < SectionEnd[m + 1]
    <3>1. k = m \/ k \in 0 .. m - 1
      BY <1>1
    <3>2. k \in 0 .. N
      BY <1>1
    <3> QED
      BY <1>1, <1>3, <2>1, <2>2, <3>1, <3>2
  <2> QED
    BY <2>1, <2>3
<1>4. b \in S
  <2>1. b \in 0 .. N
    OBVIOUS
  <2> HIDE DEF S, N
  <2> QED
    BY <1>1, <1>2, <1>3, <2>1, Induction
<1>5. a < b => SectionEnd[a] < SectionEnd[b]
  BY <1>1, <1>4
<1> QED
  BY <1>1, <1>5

\* Position p of the stream is in section a.
Within(p, a) == a \in Sections /\ SectionEnd[a - 1] < p /\ p <= SectionEnd[a]

LEMMA Located ==
  ASSUME NEW p \in 1 .. StreamEnd
  PROVE  /\ Within(p, SectionAt(p))
         /\ \A a : Within(p, a) => SectionAt(p) = a
<1> DEFINE N == Len(SectionLen)
           S == {a \in 0 .. N : p <= SectionEnd[a]}
<1>1. N \in Nat /\ \A k \in 0 .. N : SectionEnd[k] \in Nat /\ SectionEnd[0] = 0
  BY EndFacts
<1>2. N \in S /\ S \subseteq Nat
  BY <1>1 DEF StreamEnd
<1>3. PICK a \in S : \A b \in S : a <= b
  <2> HIDE DEF S
  <2> QED
    BY <1>2, Minimum
<1>4. a \in 1 .. N /\ a - 1 \in 0 .. N /\ ~(a <= a - 1)
  BY <1>1
<1>5. SectionEnd[a - 1] < p /\ p <= SectionEnd[a]
  <2>1. a - 1 \notin S
    <3> HIDE DEF S
    <3> QED
      BY <1>3, <1>4
  <2> QED
    BY <1>1, <1>4, <2>1
<1>6. Within(p, SectionAt(p))
  BY <1>4, <1>5 DEF SectionAt, Within, Sections
<1>7. ASSUME NEW b, Within(p, b), NEW c, Within(p, c), b # c PROVE FALSE
  <2>1. b \in 1 .. N /\ c \in 1 .. N
    BY <1>7 DEF Within, Sections
  <2>2. ASSUME NEW x \in 1 .. N, NEW y \in 1 .. N, x < y, p <= SectionEnd[x], SectionEnd[y - 1] < p
        PROVE  FALSE
    <3>1. x \in 0 .. N /\ y - 1 \in 0 .. N /\ x <= y - 1
      BY <1>1, <2>2
    <3>2. SectionEnd[x] <= SectionEnd[y - 1]
      BY <3>1, EndsRise
    <3> QED
      BY <1>1, <2>2, <3>1, <3>2
  <2>3. b < c \/ c < b
    BY <1>1, <1>7, <2>1
  <2> QED
    BY <1>7, <2>1, <2>2, <2>3 DEF Within
<1> QED
  BY <1>6, <1>7

\* Sections that begin at different places have different numbers.
LEMMA LaterSection ==
  ASSUME NEW a \in Sections, NEW b \in Sections
  PROVE  /\ SectionEnd[a - 1] < SectionEnd[b - 1] => a < b
         /\ a < b => SectionEnd[a] <= SectionEnd[b - 1]
         /\ a <= b => SectionEnd[a - 1] <= SectionEnd[b - 1] /\ SectionEnd[a] <= SectionEnd[b]
<1>1. /\ Len(SectionLen) \in Nat /\ a - 1 \in 0 .. Len(SectionLen) /\ b - 1 \in 0 .. Len(SectionLen)
      /\ a \in 0 .. Len(SectionLen) /\ b \in 0 .. Len(SectionLen) /\ a \in Nat /\ b \in Nat
      /\ SectionEnd[a - 1] \in Nat /\ SectionEnd[b - 1] \in Nat
  BY EndFacts DEF Sections
<1>2. b <= a => SectionEnd[b - 1] <= SectionEnd[a - 1]
  <2>1. b <= a => b - 1 <= a - 1
    BY <1>1
  <2> QED
    BY <1>1, <2>1, EndsRise
<1>3. a < b => SectionEnd[a] <= SectionEnd[b - 1]
  <2>1. a < b => a <= b - 1
    BY <1>1
  <2> QED
    BY <1>1, <2>1, EndsRise
<1>4. a <= b => SectionEnd[a - 1] <= SectionEnd[b - 1] /\ SectionEnd[a] <= SectionEnd[b]
  <2>1. a <= b => a - 1 <= b - 1
    BY <1>1
  <2> QED
    BY <1>1, <2>1, EndsRise
<1> QED
  BY <1>1, <1>2, <1>3, <1>4
-----------------------------------------------------------------------------
(* The TS packets.                                                         *)

\* The body of packet ts has the pieces after p up to e, which is in section z.
Carries(ts, p, e, z) ==
  /\ p \in Nat /\ e \in 1 .. StreamEnd /\ p < e /\ e <= p + TsBody /\ e \in Nat
  /\ Within(e, z)
  /\ e = p + TsBody \/ e = SectionEnd[z]
  /\ ts.body \in Seq(Cell) /\ Len(ts.body) = e - p
  /\ ts.body[e - p] = <<z, e - SectionEnd[z - 1]>>

\* Section z goes on in the packet, and no other starts.
GoesOn(ts, p, e, z) ==
  /\ SectionEnd[z - 1] < p
  /\ \A k \in 1 .. e - p : ts.body[k] = <<z, p + k - SectionEnd[z - 1]>>

\* Section f is the first that starts in the packet; the end of the section
\* before it comes first.
Starts(ts, p, e, z, f) ==
  /\ f \in Sections /\ f <= z
  /\ ts.ptr \in 0 .. e - p - 1 /\ SectionEnd[f - 1] = p + ts.ptr
  /\ ts.body[ts.ptr + 1] = <<f, 1>>
  /\ ts.ptr > 0 =>
       /\ f - 1 \in Sections /\ SectionEnd[f - 2] < p
       /\ \A k \in 1 .. ts.ptr : ts.body[k] = <<f - 1, p + k - SectionEnd[f - 2]>>

LEMMA PieceFacts ==
  ASSUME NEW q \in 1 .. StreamEnd, NEW a, Within(q, a)
  PROVE  /\ PieceAt(q) = <<a, q - SectionEnd[a - 1]>> /\ PieceAt(q) \in Cell
         /\ q - SectionEnd[a - 1] \in Nat /\ q \in Nat
<1>1. SectionAt(q) = a /\ a \in Sections /\ SectionEnd[a - 1] < q /\ q <= SectionEnd[a]
  BY Located DEF Within
<1>2. SectionEnd[a - 1] \in Nat /\ a \in Nat /\ StreamEnd \in Nat
  BY <1>1, EndFacts, StreamEndType DEF Sections
<1>3. q - SectionEnd[a - 1] \in Nat /\ q \in Nat
  BY <1>1, <1>2
<1> QED
  BY <1>1, <1>2, <1>3 DEF PieceAt, Cell

LEMMA CarriesPieces ==
  ASSUME mux.pos \in Nat, NEW e \in PacketEnds
  PROVE  /\ Carries(TSPacket(e), mux.pos, e, SectionAt(e))
         /\ \A k \in 1 .. e - mux.pos : /\ mux.pos + k \in 1 .. StreamEnd
                                        /\ TSPacket(e).body[k] = PieceAt(mux.pos + k)
         /\ TSPacket(e).cc = mux.cc
<1> DEFINE p == mux.pos
           z == SectionAt(e)
           body == [k \in 1 .. e - p |-> PieceAt(p + k)]
<1>1. StreamEnd \in Nat /\ TsBody \in Nat
  BY EndFacts, StreamEndType
<1>2. /\ e \in Nat /\ e \in 1 .. StreamEnd /\ p < e /\ e <= p + TsBody
      /\ e = p + TsBody \/ EndsSection(PieceAt(e))
  BY <1>1 DEF PacketEnds
<1>3. Within(e, z)
  BY <1>2, Located
<1>4. PieceAt(e) = <<z, e - SectionEnd[z - 1]>>
  BY <1>2, <1>3, PieceFacts
<1>5. e = p + TsBody \/ e = SectionEnd[z]
  <2>1. /\ SectionEnd[z - 1] \in Nat /\ SectionLen[z] \in Nat
        /\ SectionEnd[z] = SectionEnd[z - 1] + SectionLen[z]
    BY <1>3, EndFacts DEF Within
  <2> HIDE DEF z
  <2> QED
    BY <1>2, <1>4, <2>1 DEF EndsSection
<1>6. \A k \in 1 .. e - p : p + k \in 1 .. StreamEnd /\ PieceAt(p + k) \in Cell
  <2> TAKE k \in 1 .. e - p
  <2>1. p + k \in 1 .. StreamEnd
    BY <1>1, <1>2
  <2> QED
    BY <2>1, Located, PieceFacts
<1>7. e - p \in Nat /\ e - p \in 1 .. e - p /\ p + (e - p) = e
  BY <1>2
<1>8. body \in Seq(Cell) /\ Len(body) = e - p
  <2>1. body \in [1 .. e - p -> Cell]
    BY <1>6
  <2> HIDE DEF body
  <2> QED
    BY <1>7, <2>1
<1>9. body[e - p] = PieceAt(e)
  BY <1>7
<1>10. TSPacket(e).body = body /\ TSPacket(e).cc = mux.cc
  BY DEF TSPacket
<1>11. Carries(TSPacket(e), p, e, z)
  <2> HIDE DEF body, z
  <2> QED
    BY <1>2, <1>3, <1>4, <1>5, <1>8, <1>9, <1>10 DEF Carries
<1>12. \A k \in 1 .. e - p : body[k] = PieceAt(p + k)
  OBVIOUS
<1> QED
  BY <1>6, <1>10, <1>11, <1>12

LEMMA PacketFacts ==
  ASSUME mux.pos \in Nat, NEW e \in PacketEnds, NEW ts, ts = TSPacket(e)
  PROVE  LET p == mux.pos
             z == SectionAt(e)
         IN /\ Carries(ts, p, e, z) /\ ts.cc = mux.cc
            /\ ~ts.start => GoesOn(ts, p, e, z)
            /\ ts.start => \E f : Starts(ts, p, e, z, f)
<1> DEFINE p == mux.pos
           z == SectionAt(e)
           K == {k \in 1 .. Len(ts.body) : ts.body[k][2] = 1}
<1>1. /\ Carries(ts, p, e, z) /\ ts.cc = mux.cc
      /\ \A k \in 1 .. e - p : p + k \in 1 .. StreamEnd /\ ts.body[k] = PieceAt(p + k)
  BY CarriesPieces
<1>2. /\ p \in Nat /\ e \in Nat /\ p < e /\ Len(ts.body) = e - p /\ Within(e, z)
  BY <1>1 DEF Carries
<1>3. /\ ts.start = (K # {})
      /\ ts.ptr = IF K = {} THEN 0 ELSE (CHOOSE k \in K : \A j \in K : k <= j) - 1
  <2> DEFINE B == [k \in 1 .. e - mux.pos |-> PieceAt(mux.pos + k)]
             L == {k \in 1 .. Len(B) : B[k][2] = 1}
  <2>1. /\ ts.body = B /\ ts.start = (L # {})
        /\ ts.ptr = IF L = {} THEN 0 ELSE (CHOOSE k \in L : \A j \in L : k <= j) - 1
    BY DEF TSPacket
  <2>2. L = K
    <3> HIDE DEF B
    <3> QED
      BY <2>1
  <2> HIDE DEF K, L
  <2> QED
    BY <2>1, <2>2
<1>4. ASSUME NEW k \in 1 .. e - p, NEW a, Within(p + k, a)
      PROVE  ts.body[k] = <<a, p + k - SectionEnd[a - 1]>>
  <2>1. PICK q : q = p + k
    OBVIOUS
  <2>2. q \in 1 .. StreamEnd /\ ts.body[k] = PieceAt(q) /\ Within(q, a)
    BY <1>1, <1>4, <2>1
  <2>3. PieceAt(q) = <<a, q - SectionEnd[a - 1]>>
    BY <2>2, PieceFacts
  <2>4. q \in Nat /\ SectionEnd[a - 1] \in Nat
    BY <2>2, EndFacts, PieceFacts DEF Within
  <2> QED
    BY <1>2, <2>1, <2>2, <2>3, <2>4
<1>5. ASSUME NEW k \in 1 .. e - p, NEW a \in Sections, SectionEnd[a - 1] + 1 = p + k
      PROVE  k \in K
  <2>1. /\ SectionEnd[a - 1] \in Nat /\ SectionEnd[a] > SectionEnd[a - 1] /\ SectionEnd[a] \in Nat
    BY EndFacts
  <2>2. Within(p + k, a)
    BY <1>2, <1>5, <2>1 DEF Within
  <2>3. ts.body[k] = <<a, p + k - SectionEnd[a - 1]>>
    BY <1>4, <2>2
  <2>4. p + k - SectionEnd[a - 1] = 1
    BY <1>2, <1>5, <2>1
  <2> QED
    BY <1>2, <2>3, <2>4
<1>6. ASSUME K = {} PROVE GoesOn(ts, p, e, z)
  <2>1. SectionEnd[z - 1] \in Nat /\ z \in Sections /\ SectionEnd[z - 1] < e /\ e <= SectionEnd[z] /\ SectionEnd[z] \in Nat
    BY <1>2, EndFacts DEF Within
  <2>2. SectionEnd[z - 1] < p
    <3>1. SUFFICES ASSUME p <= SectionEnd[z - 1] PROVE FALSE
      BY <1>2, <2>1
    <3> DEFINE k == SectionEnd[z - 1] + 1 - p
    <3>2. k \in 1 .. e - p /\ SectionEnd[z - 1] + 1 = p + k
      BY <1>2, <2>1, <3>1
    <3> HIDE DEF K, k
    <3> QED
      BY <1>5, <1>6, <2>1, <3>2
  <2>3. ASSUME NEW k \in 1 .. e - p PROVE ts.body[k] = <<z, p + k - SectionEnd[z - 1]>>
    <3>1. Within(p + k, z)
      BY <1>2, <2>1, <2>2 DEF Within
    <3> QED
      BY <1>4, <3>1
  <2> QED
    BY <2>2, <2>3 DEF GoesOn
<1>7. ASSUME K # {} PROVE \E f : Starts(ts, p, e, z, f)
  <2>1. K \subseteq Nat
    BY <1>2
  <2>2. PICK k \in K : (\A j \in K : k <= j) /\ ts.ptr = k - 1
    <3> HIDE DEF K
    <3>1. \E k \in K : \A j \in K : k <= j
      BY <1>7, <2>1, Minimum
    <3> QED
      BY <1>3, <1>7, <3>1
  <2>3. k \in 1 .. e - p /\ k \in Nat /\ ts.body[k][2] = 1
    BY <1>2
  <2> HIDE DEF K
  <2>4. PICK q : q = p + k
    OBVIOUS
  <2> DEFINE f == SectionAt(q)
  <2>0. q \in 1 .. StreamEnd
    BY <1>1, <2>3, <2>4
  <2>5. Within(q, f)
    BY <2>0, Located
  <2>6. ts.body[k] = <<f, q - SectionEnd[f - 1]>>
    <3> HIDE DEF f
    <3>1. Within(p + k, f)
      BY <2>4, <2>5
    <3>2. ts.body[k] = <<f, p + k - SectionEnd[f - 1]>>
      BY <1>4, <2>3, <3>1
    <3>3. q \in Nat /\ SectionEnd[f - 1] \in Nat
      BY <2>0, <2>5, EndFacts, PieceFacts DEF Within
    <3> QED
      BY <1>2, <2>3, <2>4, <3>2, <3>3
  <2>7. /\ f \in Sections /\ SectionEnd[f - 1] \in Nat /\ f \in Nat \ {0}
        /\ SectionEnd[f - 1] < q /\ q <= SectionEnd[f]
    BY <2>5, EndFacts DEF Within, Sections
  <2>8. SectionEnd[f - 1] = p + ts.ptr /\ ts.ptr \in 0 .. e - p - 1 /\ ts.ptr + 1 = k
        /\ ts.body[k] = <<f, 1>>
    <3> HIDE DEF f, p
    <3>1. q - SectionEnd[f - 1] = 1
      BY <2>3, <2>6
    <3>2. ts.body[k] = <<f, 1>>
      BY <2>6, <3>1
    <3>3. ts.ptr + 1 = k /\ ts.ptr \in 0 .. e - p - 1
      BY <1>2, <2>2, <2>3
    <3>4. SectionEnd[f - 1] = p + ts.ptr
      BY <1>2, <2>3, <2>4, <2>7, <3>1, <3>3, SMTT(30)
    <3> QED
      BY <3>2, <3>3, <3>4
  <2>9. f <= z
    <3>1. z \in Sections /\ z \in Nat /\ SectionEnd[z - 1] < e /\ e <= SectionEnd[z] /\ SectionEnd[z] \in Nat
      BY <1>2, EndFacts DEF Within, Sections
    <3>2. z < f => SectionEnd[z] <= SectionEnd[f - 1]
      BY <2>7, <3>1, LaterSection
    <3> HIDE DEF f, z, p
    <3> QED
      BY <1>2, <2>3, <2>4, <2>7, <2>8, <3>1, <3>2, SMTT(30)
  <2>10. ASSUME ts.ptr > 0
         PROVE  /\ f - 1 \in Sections /\ SectionEnd[f - 2] < p
                /\ \A j \in 1 .. ts.ptr : ts.body[j] = <<f - 1, p + j - SectionEnd[f - 2]>>
    <3> HIDE DEF f, p, z
    <3>1. f # 1
      <4>1. SectionEnd[0] = 0 /\ SectionEnd[f - 1] > 0
        BY <1>2, <2>8, <2>10, EndFacts
      <4> QED
        BY <4>1
    <3>2. f - 1 \in Sections /\ (f - 1) - 1 = f - 2
      BY <2>7, <3>1, EndFacts DEF Sections
    <3>3. /\ SectionEnd[f - 2] \in Nat /\ SectionEnd[f - 2] < SectionEnd[f - 1]
      BY <3>2, EndFacts
    <3>4. SectionEnd[f - 2] < p
      <4>1. SUFFICES ASSUME p <= SectionEnd[f - 2] PROVE FALSE
        BY <1>2, <3>3
      <4> DEFINE y == SectionEnd[f - 2] + 1 - p
      <4>2. y \in 1 .. e - p /\ SectionEnd[f - 2] + 1 = p + y /\ ~(k <= y)
        <5>1. SectionEnd[f - 2] + 1 <= p + ts.ptr
          BY <1>2, <2>8, <3>3
        <5>2. ts.ptr \in Int /\ k = ts.ptr + 1 /\ k <= e - p /\ k \in Nat
          BY <1>2, <2>3, <2>8
        <5>3. /\ p \in Int /\ e \in Int /\ SectionEnd[f - 2] \in Int
              /\ p <= SectionEnd[f - 2] /\ y \in Int
          BY <1>2, <3>3, <4>1
        <5>4. SectionEnd[f - 2] + 1 = p + y /\ 1 <= y
          BY <5>3
        <5> HIDE DEF y
        <5>5. y <= ts.ptr
          BY <5>1, <5>2, <5>3, <5>4
        <5> QED
          BY <5>2, <5>3, <5>4, <5>5
      <4> HIDE DEF y
      <4>3. y \in K
        BY <1>5, <3>2, <4>2
      <4> QED
        BY <2>2, <4>2, <4>3
    <3>5. ASSUME NEW j \in 1 .. ts.ptr
          PROVE  ts.body[j] = <<f - 1, p + j - SectionEnd[f - 2]>>
      <4>1. j \in 1 .. e - p /\ SectionEnd[f - 2] < p + j /\ p + j <= SectionEnd[f - 1]
        BY <1>2, <2>8, <3>3, <3>4
      <4>2. Within(p + j, f - 1)
        BY <3>2, <4>1 DEF Within
      <4> QED
        BY <1>4, <3>2, <4>1, <4>2
    <3> QED
      BY <3>2, <3>4, <3>5
  <2> HIDE DEF f
  <2> QED
    BY <2>7, <2>8, <2>9, <2>10 DEF Starts
<1> QED
  BY <1>1, <1>3, <1>6, <1>7
-----------------------------------------------------------------------------
(* The sections that start in a packet.                                    *)

\* The first n pieces of section a.
Prefix(a, n) == [k \in 1 .. n |-> <<a, k>>]
Section(a) == Prefix(a, SectionLen[a])

LEMMA PrefixFacts ==
  ASSUME NEW a \in Nat, NEW n \in Nat
  PROVE  /\ Prefix(a, n) \in Seq(Cell) /\ Len(Prefix(a, n)) = n
         /\ \A k \in 1 .. n : Prefix(a, n)[k] = <<a, k>>
         /\ n > 0 => Prefix(a, n) # <<>>
<1>1. \A k \in 1 .. n : Prefix(a, n)[k] = <<a, k>> /\ <<a, k>> \in Cell
  BY DEF Prefix, Cell
<1>2. Prefix(a, n) \in [1 .. n -> Cell]
  BY <1>1 DEF Prefix
<1>3. Prefix(a, n) \in Seq(Cell) /\ Len(Prefix(a, n)) = n
  BY <1>2
<1>4. n > 0 => Prefix(a, n) # <<>>
  BY <1>3, EmptySeq
<1> QED
  BY <1>1, <1>3, <1>4

\* What is left of section z at the end of a packet at e.
Begun(e, z, cc) ==
  [cc |-> cc,
   size |-> IF e - SectionEnd[z - 1] < PsiHeader THEN 0 ELSE SectionLen[z],
   buffer |-> IF e = SectionEnd[z] THEN <<>> ELSE Prefix(z, e - SectionEnd[z - 1])]

\* The sections from f on that are complete at e.
Completed(out, e, z, f) ==
  /\ out \in Seq(Seq(Cell))
  /\ Len(out) = (IF e = SectionEnd[z] THEN z ELSE z - 1) - f + 1
  /\ \A i \in 1 .. Len(out) : /\ f + i - 1 \in Sections /\ out[i] = Section(f + i - 1)
                              /\ SectionEnd[f + i - 1] <= e /\ f + i - 1 >= f

LEMMA StartingFacts ==
  ASSUME NEW ts, NEW p, NEW e, NEW z, NEW f, Carries(ts, p, e, z), Starts(ts, p, e, z, f)
  PROVE  /\ Starting(ts).psi = Begun(e, z, ts.cc)
         /\ Completed(Starting(ts).out, e, z, f)
<1> DEFINE n == e - SectionEnd[z - 1]
           w == IF e = SectionEnd[z] THEN z ELSE z - 1
           of(a) == [k \in 1 .. (IF a = z THEN n ELSE SectionLen[a]) |-> <<a, k>>]
           out == [i \in 1 .. w - f + 1 |-> of(f + i - 1)]
<1>1. /\ p \in Nat /\ e \in Nat /\ p < e /\ z \in Sections /\ f \in Sections /\ f <= z
      /\ SectionEnd[z - 1] < e /\ e <= SectionEnd[z]
      /\ ts.body[Len(ts.body)] = <<z, n>> /\ ts.body[ts.ptr + 1] = <<f, 1>>
  BY DEF Carries, Starts, Within
<1>2. /\ SectionEnd[z - 1] \in Nat /\ SectionEnd[z] \in Nat /\ SectionLen[z] \in Nat
      /\ SectionEnd[z] = SectionEnd[z - 1] + SectionLen[z] /\ z \in Nat /\ f \in Nat \ {0}
      /\ Len(SectionLen) \in Nat
  BY <1>1, EndFacts DEF Sections
<1>3. n \in Nat /\ n > 0 /\ (n = SectionLen[z] <=> e = SectionEnd[z])
  BY <1>1, <1>2, SMTT(30)
<1>4. EndsSection(<<z, n>>) <=> e = SectionEnd[z]
  BY <1>3 DEF EndsSection
<1>5. Starting(ts).psi = Begun(e, z, ts.cc) /\ Starting(ts).out = out
  <2> HIDE DEF n
  <2> DEFINE O(end, b) == [k \in 1 .. (IF b = end[1] THEN end[2] ELSE SectionLen[b]) |-> <<b, k>>]
             G(end, first) ==
               [psi |-> [cc |-> ts.cc, size |-> IF end[2] < PsiHeader THEN 0 ELSE SectionLen[end[1]],
                         buffer |-> IF EndsSection(end) THEN <<>> ELSE O(end, end[1])],
                out |-> [i \in 1 .. (IF EndsSection(end) THEN end[1] ELSE end[1] - 1) - first + 1 |->
                           O(end, first + i - 1)]]
  <2>4. Starting(ts) = G(ts.body[Len(ts.body)], ts.body[ts.ptr + 1][1])
    BY DEF Starting
  <2>5. ts.body[ts.ptr + 1][1] = f
    BY <1>1
  <2>6. Starting(ts) = G(<<z, n>>, f)
    <3> HIDE DEF G
    <3> QED
      BY <1>1, <2>4, <2>5
  <2>7. \A b : O(<<z, n>>, b) = of(b)
    OBVIOUS
  <2>1. Starting(ts) =
          [psi |-> [cc |-> ts.cc, size |-> IF n < PsiHeader THEN 0 ELSE SectionLen[z],
                    buffer |-> IF e = SectionEnd[z] THEN <<>> ELSE of(z)],
           out |-> out]
    <3> HIDE DEF O, of
    <3> QED
      BY <1>4, <2>6, <2>7
  <2>2. of(z) = Prefix(z, n)
    BY DEF Prefix
  <2> HIDE DEF of, out
  <2>3. Starting(ts).psi = [cc |-> ts.cc, size |-> IF n < PsiHeader THEN 0 ELSE SectionLen[z],
                    buffer |-> IF e = SectionEnd[z] THEN <<>> ELSE Prefix(z, n)]
        /\ Starting(ts).out = out
    BY <2>1, <2>2
  <2> QED
    BY <2>3 DEF Begun, n
<1>6. w - f + 1 \in Nat /\ w \in Nat /\ w <= z
  BY <1>1, <1>2
<1>7. ASSUME NEW i \in 1 .. w - f + 1
      PROVE  /\ f + i - 1 \in Sections /\ out[i] = Section(f + i - 1)
             /\ SectionEnd[f + i - 1] <= e /\ f + i - 1 >= f /\ out[i] \in Seq(Cell)
  <2>1. PICK a : a = f + i - 1
    OBVIOUS
  <2>2. a \in Sections /\ a \in Nat /\ a >= f /\ a <= w
    <3> HIDE DEF w
    <3> QED
      BY <1>1, <1>2, <1>6, <2>1 DEF Sections
  <2>3. SectionLen[a] \in Nat /\ SectionEnd[a] \in Nat
    BY <2>2, EndFacts
  <2>4. of(a) = Section(a)
    <3>1. (IF a = z THEN n ELSE SectionLen[a]) = SectionLen[a]
      BY <1>2, <1>3, <2>2
    <3> QED
      BY <3>1 DEF Section, Prefix
  <2>5. SectionEnd[a] <= e
    <3>1. CASE a = z
      BY <1>1, <1>2, <2>2, <3>1
    <3>2. CASE a # z
      <4>1. a < z
        BY <1>2, <1>6, <2>2, <3>2
      <4>2. SectionEnd[a] <= SectionEnd[z - 1]
        BY <1>1, <2>2, <4>1, LaterSection
      <4> QED
        BY <1>1, <1>2, <2>3, <4>2
    <3> QED
      BY <3>1, <3>2
  <2>6. out[i] = of(a)
    BY <2>1
  <2>7. Section(a) \in Seq(Cell)
    BY <2>2, <2>3, PrefixFacts DEF Section
  <2> HIDE DEF out, of
  <2> QED
    BY <2>1, <2>2, <2>4, <2>5, <2>6, <2>7
<1>8. out \in Seq(Seq(Cell)) /\ Len(out) = w - f + 1
  <2>1. out \in [1 .. w - f + 1 -> Seq(Cell)]
    <3> HIDE DEF of, w
    <3> QED
      BY <1>7
  <2> HIDE DEF out, w
  <2> QED
    BY <1>6, <2>1
<1> HIDE DEF out, of, n
<1> QED
  BY <1>5, <1>7, <1>8 DEF Completed
-----------------------------------------------------------------------------
(* Where the sections that MPEDeframer hands out begin, whatever was lost. *)

Num(o) == o[1][1]
HeadOK(o) == o \in Seq(Cell) /\ o # <<>> /\ Num(o) \in Sections /\ o[1][2] = 1
Origin(o) == SectionEnd[Num(o) - 1]

PsiType == [cc : 0 .. CcMod - 1, size : Nat, buffer : Seq(Cell)]
PsiOK(psi, p) ==
  psi \in PsiType /\ (psi.buffer # <<>> => HeadOK(psi.buffer) /\ Origin(psi.buffer) < p)

\* o is the section that was being collected, or it starts after p.
Since(o, psi, p) ==
  \/ p <= Origin(o)
  \/ (psi.buffer # <<>> /\ Num(o) = Num(psi.buffer))

ResultOK(r, psi, p, e) ==
  /\ PsiOK(r.psi, e) /\ r.out \in Seq(Seq(Cell))
  /\ \A k \in 1 .. Len(r.out) :
       HeadOK(r.out[k]) /\ Origin(r.out[k]) < e /\ Since(r.out[k], psi, p)
  /\ \A j, k \in 1 .. Len(r.out) : j < k => Num(r.out[j]) < Num(r.out[k])
  /\ r.psi.buffer # <<>> => /\ Since(r.psi.buffer, psi, p)
                            /\ \A k \in 1 .. Len(r.out) : Num(r.out[k]) < Num(r.psi.buffer)

LEMMA CellSeqs ==
  ASSUME NEW s \in Seq(Cell)
  PROVE  /\ Len(s) \in Nat /\ (s # <<>> <=> Len(s) > 0)
         /\ \A k \in 1 .. Len(s) : s[k] \in Cell
<1>1. Len(s) \in Nat /\ (s # <<>> => Len(s) \in Nat \ {0}) /\ Len(<<>>) = 0
  BY LenProperties, EmptySeq
<1>2. \A k \in 1 .. Len(s) : s[k] \in Cell
  BY ElementOfSeq, Zenon
<1> QED
  BY <1>1, <1>2

LEMMA LongerHead ==
  ASSUME NEW b, HeadOK(b), NEW t \in Seq(Cell)
  PROVE  HeadOK(b \o t) /\ Num(b \o t) = Num(b) /\ Len(b \o t) = Len(b) + Len(t)
<1>1. b \in Seq(Cell) /\ Len(b) \in Nat /\ Len(b) > 0 /\ Len(t) \in Nat
  BY CellSeqs DEF HeadOK
<1>2. /\ b \o t \in Seq(Cell) /\ Len(b \o t) = Len(b) + Len(t)
      /\ (b \o t)[1] = b[1]
  BY <1>1, ConcatProperties
<1>3. b \o t # <<>>
  BY <1>1, <1>2, EmptySeq
<1> QED
  BY <1>2, <1>3 DEF HeadOK, Num

LEMMA ShorterHead ==
  ASSUME NEW b, HeadOK(b), NEW n \in 1 .. Len(b)
  PROVE  HeadOK(SubSeq(b, 1, n)) /\ Num(SubSeq(b, 1, n)) = Num(b)
<1>1. b \in Seq(Cell) /\ Len(b) \in Nat /\ n \in Nat /\ 1 <= n
  BY CellSeqs DEF HeadOK
<1>2. \A k \in 1 .. n : b[k] \in Cell
  BY <1>1, CellSeqs
<1>3. /\ SubSeq(b, 1, n) \in Seq(Cell) /\ Len(SubSeq(b, 1, n)) = n
      /\ SubSeq(b, 1, n)[1] = b[1]
  BY <1>1, <1>2, SubSeqProperties
<1>4. SubSeq(b, 1, n) # <<>>
  BY <1>1, <1>3, EmptySeq
<1> QED
  BY <1>3, <1>4 DEF HeadOK, Num

LEMMA SizeType ==
  ASSUME NEW b, HeadOK(b), NEW any \in Nat
  PROVE  SizeOf(b, any) \in Nat
<1>1. b[PsiHeader][2] = PsiHeader /\ b[1] = <<b[PsiHeader][1], 1>> => b[PsiHeader][1] \in Sections
  BY DEF HeadOK, Num
<1> QED
  BY <1>1, EndFacts DEF SizeOf

LEMMA ContinueHeads ==
  ASSUME NEW psi, NEW ts, NEW p \in Nat, NEW e \in Nat, p < e, PsiOK(psi, p), NEW any \in Nat,
         ts.body \in Seq(Cell), ts.cc \in 0 .. CcMod - 1
  PROVE  ResultOK(Continue(psi, ts, any), psi, p, e)
<1> DEFINE b == psi.buffer \o ts.body
           size == IF psi.size > 0 THEN psi.size
                   ELSE IF Len(b) < PsiHeader THEN any ELSE SizeOf(b, any)
           r == Continue(psi, ts, any)
<1>1. /\ psi.cc \in 0 .. CcMod - 1 /\ psi.size \in Nat /\ psi.buffer \in Seq(Cell)
      /\ psi = [cc |-> psi.cc, size |-> psi.size, buffer |-> psi.buffer]
  BY DEF PsiOK, PsiType
<1>2. r = IF psi.buffer = <<>> THEN [psi |-> psi, out |-> <<>>]
          ELSE IF ~NextCc(psi, ts) \/ size = 0 THEN [psi |-> Dropped(psi), out |-> <<>>]
          ELSE IF Len(b) >= size
            THEN [psi |-> [cc |-> ts.cc, size |-> size, buffer |-> <<>>], out |-> <<SubSeq(b, 1, size)>>]
            ELSE [psi |-> [cc |-> ts.cc, size |-> size, buffer |-> b], out |-> <<>>]
  BY DEF Continue
<1>3. Dropped(psi) = [cc |-> psi.cc, size |-> psi.size, buffer |-> <<>>]
  BY <1>1 DEF Dropped
<1>4. <<>> \in Seq(Cell) /\ <<>> \in Seq(Seq(Cell)) /\ Len(<<>>) = 0
  BY EmptySeq
<1>5. ASSUME psi.buffer # <<>>
      PROVE  /\ HeadOK(b) /\ Num(b) = Num(psi.buffer) /\ Len(b) \in Nat /\ size \in Nat
             /\ Origin(b) < p /\ Origin(b) \in Nat
  <2>1. HeadOK(b) /\ Num(b) = Num(psi.buffer)
    BY <1>5, LongerHead DEF PsiOK
  <2>2. Len(b) \in Nat /\ SizeOf(b, any) \in Nat /\ Origin(b) \in Nat
    BY <2>1, CellSeqs, SizeType, EndFacts DEF HeadOK, Origin
  <2>3. Origin(b) < p
    BY <1>5, <2>1 DEF PsiOK, Origin
  <2> HIDE DEF b
  <2> QED
    BY <1>1, <2>1, <2>2, <2>3
<1> HIDE DEF b, size, r
<1> SUFFICES ResultOK(r, psi, p, e)
  BY DEF r
<1>6. CASE psi.buffer = <<>>
  <2>1. r.psi = psi /\ r.out = <<>>
    BY <1>2, <1>6
  <2> QED
    BY <1>4, <1>6, <2>1 DEF ResultOK, PsiOK
<1>7. CASE psi.buffer # <<>> /\ (~NextCc(psi, ts) \/ size = 0)
  <2>1. r.psi = [cc |-> psi.cc, size |-> psi.size, buffer |-> <<>>] /\ r.out = <<>>
    BY <1>2, <1>3, <1>7
  <2>2. PsiOK(r.psi, e) /\ r.psi.buffer = <<>>
    BY <1>1, <1>4, <2>1 DEF PsiOK, PsiType
  <2> QED
    BY <1>4, <2>1, <2>2 DEF ResultOK
<1>8. CASE psi.buffer # <<>> /\ NextCc(psi, ts) /\ size # 0 /\ Len(b) >= size
  <2> DEFINE o == SubSeq(b, 1, size)
  <2>1. r.psi = [cc |-> ts.cc, size |-> size, buffer |-> <<>>] /\ r.out = <<o>>
    BY <1>2, <1>8
  <2>2. size \in 1 .. Len(b)
    BY <1>5, <1>8
  <2>3. HeadOK(o) /\ Num(o) = Num(psi.buffer)
    BY <1>5, <1>8, <2>2, ShorterHead
  <2> HIDE DEF o
  <2>4. PsiOK(r.psi, e) /\ r.psi.buffer = <<>>
    BY <1>4, <1>5, <1>8, <2>1 DEF PsiOK, PsiType
  <2>5. Origin(o) < e
    <3>1. Origin(o) = Origin(b)
      BY <1>5, <1>8, <2>3 DEF Origin
    <3> QED
      BY <1>5, <1>8, <3>1
  <2>6. r.out \in Seq(Seq(Cell)) /\ Len(r.out) = 1 /\ r.out[1] = o
    BY <2>1, <2>3 DEF HeadOK
  <2>7. Since(o, psi, p)
    BY <1>8, <2>3 DEF Since
  <2> QED
    BY <2>3, <2>4, <2>5, <2>6, <2>7 DEF ResultOK
<1>9. CASE psi.buffer # <<>> /\ NextCc(psi, ts) /\ size # 0 /\ ~(Len(b) >= size)
  <2>1. r.psi = [cc |-> ts.cc, size |-> size, buffer |-> b] /\ r.out = <<>>
    BY <1>2, <1>9
  <2>2. Origin(b) < e
    BY <1>5, <1>9
  <2>3. PsiOK(r.psi, e)
    BY <1>5, <1>9, <2>1, <2>2 DEF PsiOK, PsiType, HeadOK
  <2>4. Since(b, psi, p)
    BY <1>5, <1>9 DEF Since
  <2> QED
    BY <1>4, <2>1, <2>3, <2>4 DEF ResultOK
<1> QED
  BY <1>6, <1>7, <1>8, <1>9

LEMMA StartingHeads ==
  ASSUME NEW ts, NEW p, NEW e, NEW z, NEW f, Carries(ts, p, e, z), Starts(ts, p, e, z, f),
         ts.cc \in 0 .. CcMod - 1
  PROVE  ResultOK(Starting(ts), NoSection, p, e)
<1> DEFINE r == Starting(ts)
           n == e - SectionEnd[z - 1]
<1>1. r.psi = Begun(e, z, ts.cc) /\ Completed(r.out, e, z, f)
  BY StartingFacts
<1>2. /\ p \in Nat /\ e \in Nat /\ z \in Sections /\ f \in Sections /\ f <= z /\ z \in Nat /\ f \in Nat
      /\ SectionEnd[z - 1] < e /\ e <= SectionEnd[z] /\ SectionEnd[z - 1] \in Nat
      /\ SectionLen[z] \in Nat /\ p <= SectionEnd[f - 1] /\ SectionEnd[f - 1] \in Nat
  <2>1. p \in Nat /\ e \in Nat /\ z \in Sections /\ SectionEnd[z - 1] < e /\ e <= SectionEnd[z]
    BY DEF Carries, Within
  <2>2. f \in Sections /\ f <= z /\ ts.ptr \in 0 .. e - p - 1 /\ SectionEnd[f - 1] = p + ts.ptr
    BY DEF Starts
  <2>3. z \in Nat /\ f \in Nat
    BY <2>1, <2>2 DEF Sections
  <2>4. SectionEnd[z - 1] \in Nat /\ SectionLen[z] \in Nat /\ SectionEnd[f - 1] \in Nat
    BY <2>1, <2>2, EndFacts
  <2>5. p <= p + ts.ptr
    BY <2>1, <2>2
  <2> QED
    BY <2>1, <2>2, <2>3, <2>4, <2>5
<1> HIDE DEF r
<1>3. ASSUME NEW a \in Sections, a >= f
      PROVE  p <= SectionEnd[a - 1] /\ SectionEnd[a - 1] \in Nat /\ SectionEnd[a - 1] < SectionEnd[a]
             /\ SectionEnd[a] \in Nat /\ a \in Nat
  <2>1. /\ SectionEnd[a - 1] \in Nat /\ SectionEnd[a - 1] < SectionEnd[a] /\ a \in Nat /\ SectionEnd[a] \in Nat
    BY EndFacts DEF Sections
  <2>2. SectionEnd[f - 1] <= SectionEnd[a - 1]
    BY <1>2, <1>3, <2>1, LaterSection
  <2> QED
    BY <1>2, <2>1, <2>2
<1>4. ASSUME NEW k \in 1 .. Len(r.out)
      PROVE  /\ HeadOK(r.out[k]) /\ Num(r.out[k]) = f + k - 1 /\ p <= Origin(r.out[k])
             /\ Origin(r.out[k]) < e
  <2>1. PICK a : a = f + k - 1
    OBVIOUS
  <2>2. a \in Sections /\ r.out[k] = Section(a) /\ SectionEnd[a] <= e /\ a >= f
    BY <1>1, <2>1 DEF Completed
  <2>3. SectionLen[a] \in Nat /\ SectionLen[a] > 0
    BY <2>2, EndFacts
  <2>4. p <= SectionEnd[a - 1] /\ SectionEnd[a - 1] < e /\ a \in Nat
    BY <1>2, <1>3, <2>2, SMTT(30)
  <2>5. Section(a) \in Seq(Cell) /\ Section(a) # <<>> /\ Section(a)[1] = <<a, 1>>
    <3>1. PICK len \in Nat : len = SectionLen[a] /\ len > 0 /\ 1 \in 1 .. len
      BY <2>3
    <3>2. Section(a) = Prefix(a, len)
      BY <3>1 DEF Section
    <3>3. Prefix(a, len) \in Seq(Cell) /\ Prefix(a, len) # <<>> /\ Prefix(a, len)[1] = <<a, 1>>
      BY <2>4, <3>1, PrefixFacts
    <3> QED
      BY <3>2, <3>3
  <2> QED
    BY <2>1, <2>2, <2>4, <2>5 DEF HeadOK, Num, Origin
<1>5. Len(r.out) \in Nat /\ r.out \in Seq(Seq(Cell))
      /\ Len(r.out) = (IF e = SectionEnd[z] THEN z ELSE z - 1) - f + 1
  BY <1>1, LenProperties DEF Completed
<1>6. n \in Nat /\ n > 0 /\ 1 \in 1 .. n
  BY <1>2
<1>7. Prefix(z, n) \in Seq(Cell) /\ Prefix(z, n) # <<>> /\ Prefix(z, n)[1] = <<z, 1>>
  <2> HIDE DEF n
  <2> QED
    BY <1>2, <1>6, PrefixFacts
<1>8. /\ r.psi.cc \in 0 .. CcMod - 1 /\ r.psi.size \in Nat
      /\ r.psi = [cc |-> r.psi.cc, size |-> r.psi.size, buffer |-> r.psi.buffer]
      /\ r.psi.buffer = IF e = SectionEnd[z] THEN <<>> ELSE Prefix(z, n)
  BY <1>1, <1>2 DEF Begun
<1> HIDE DEF n
<1>9. r.psi.buffer # <<>> =>
        /\ HeadOK(r.psi.buffer) /\ Num(r.psi.buffer) = z /\ Origin(r.psi.buffer) < e
        /\ p <= Origin(r.psi.buffer) /\ e # SectionEnd[z]
  <2>1. p <= SectionEnd[z - 1]
    BY <1>2, <1>3
  <2> QED
    BY <1>2, <1>7, <1>8, <2>1, SMTT(30) DEF HeadOK, Num, Origin
<1>10. PsiOK(r.psi, e)
  <2>1. r.psi.buffer \in Seq(Cell)
    BY <1>7, <1>8, EmptySeq
  <2> QED
    BY <1>8, <1>9, <2>1 DEF PsiOK, PsiType
<1>11. ASSUME NEW j \in 1 .. Len(r.out), NEW k \in 1 .. Len(r.out), j < k
       PROVE  Num(r.out[j]) < Num(r.out[k])
  <2>1. Num(r.out[j]) = f + j - 1 /\ Num(r.out[k]) = f + k - 1
    BY <1>4
  <2>2. j \in Nat /\ k \in Nat
    BY <1>5
  <2> QED
    BY <1>2, <1>11, <2>1, <2>2
<1>12. r.psi.buffer # <<>> => \A k \in 1 .. Len(r.out) : Num(r.out[k]) < Num(r.psi.buffer)
  <2>1. ASSUME r.psi.buffer # <<>>, NEW k \in 1 .. Len(r.out) PROVE f + k - 1 < z
    BY <1>2, <1>5, <1>9, <2>1
  <2> QED
    BY <1>4, <1>9, <2>1
<1>13. ResultOK(r, NoSection, p, e)
  BY <1>4, <1>5, <1>9, <1>10, <1>11, <1>12 DEF ResultOK, Since
<1> QED
  BY <1>13 DEF r

LEMMA OneBefore ==
  ASSUME NEW T, NEW o \in T, NEW s \in Seq(T), NEW t, t = <<o>> \o s
  PROVE  /\ Len(s) \in Nat /\ Len(t) = Len(s) + 1 /\ t \in Seq(T) /\ t[1] = o
         /\ \A k \in 2 .. Len(s) + 1 : t[k] = s[k - 1]
<1>1. <<o>> \in Seq(T) /\ Len(<<o>>) = 1 /\ <<o>>[1] = o
  OBVIOUS
<1>2. PICK u : u = <<o>>
  OBVIOUS
<1>3. Len(s) \in Nat
  BY LenProperties
<1>4. u \o s \in Seq(T) /\ Len(u \o s) = 1 + Len(s)
  BY <1>1, <1>2, ConcatProperties
<1>5. \A k \in 1 .. 1 + Len(s) : (u \o s)[k] = IF k <= 1 THEN u[k] ELSE s[k - 1]
  BY <1>1, <1>2, ConcatProperties
<1> QED
  BY <1>1, <1>2, <1>3, <1>4, <1>5

LEMMA SectionBefore ==
  ASSUME NEW o \in Seq(Cell), NEW s \in Seq(Seq(Cell)), NEW t, t = <<o>> \o s
  PROVE  /\ Len(s) \in Nat /\ Len(t) = Len(s) + 1 /\ t \in Seq(Seq(Cell)) /\ t[1] = o
         /\ \A k \in 2 .. Len(s) + 1 : t[k] = s[k - 1]
<1>1. PICK T : T = Seq(Cell)
  OBVIOUS
<1>2. o \in T /\ s \in Seq(T)
  BY <1>1
<1>3. /\ Len(s) \in Nat /\ Len(t) = Len(s) + 1 /\ t \in Seq(T) /\ t[1] = o
      /\ \A k \in 2 .. Len(s) + 1 : t[k] = s[k - 1]
  BY <1>2, OneBefore
<1> QED
  BY <1>1, <1>3

LEMMA FinishHeads ==
  ASSUME NEW psi, NEW ts, NEW p, NEW e, NEW z, NEW f, Carries(ts, p, e, z), Starts(ts, p, e, z, f),
         ts.cc \in 0 .. CcMod - 1, PsiOK(psi, p), psi.buffer # <<>>,
         NEW o, o = psi.buffer \o SubSeq(ts.body, 1, ts.ptr),
         NEW r, r.psi = Starting(ts).psi, r.out = <<o>> \o Starting(ts).out
  PROVE  ResultOK(r, psi, p, e)
<1> DEFINE s == Starting(ts)
           n == Len(s.out)
<1>1. ResultOK(s, NoSection, p, e)
  BY StartingHeads
<1>2. /\ p \in Nat /\ e \in Nat /\ p < e /\ ts.body \in Seq(Cell) /\ Len(ts.body) = e - p
      /\ ts.ptr \in 0 .. e - p - 1
  BY DEF Carries, Starts
<1>3. SubSeq(ts.body, 1, ts.ptr) \in Seq(Cell)
  <2>1. \A k \in 1 .. ts.ptr : ts.body[k] \in Cell
    BY <1>2, CellSeqs
  <2>2. ts.ptr \in Nat
    BY <1>2
  <2> QED
    BY <1>2, <2>1, <2>2, SubSeqProperties
<1>4. HeadOK(o) /\ Num(o) = Num(psi.buffer) /\ HeadOK(psi.buffer) /\ Origin(psi.buffer) < p
  BY <1>3, LongerHead DEF PsiOK
<1> HIDE DEF s
<1>5. Origin(o) < p /\ Origin(o) \in Nat
  BY <1>4, EndFacts DEF Origin, HeadOK
<1>6. /\ s.out \in Seq(Seq(Cell)) /\ PsiOK(s.psi, e)
      /\ \A k \in 1 .. n : HeadOK(s.out[k]) /\ Origin(s.out[k]) < e /\ p <= Origin(s.out[k])
      /\ \A j, k \in 1 .. n : j < k => Num(s.out[j]) < Num(s.out[k])
      /\ s.psi.buffer # <<>> => /\ HeadOK(s.psi.buffer) /\ p <= Origin(s.psi.buffer)
                                /\ \A k \in 1 .. n : Num(s.out[k]) < Num(s.psi.buffer)
  BY <1>1 DEF ResultOK, Since, NoSection, PsiOK
<1>7. ASSUME NEW q, HeadOK(q), p <= Origin(q) PROVE Num(o) < Num(q)
  <2>1. Num(q) \in Sections /\ Num(o) \in Sections /\ Origin(q) \in Nat
    BY <1>4, <1>7, EndFacts DEF HeadOK, Origin
  <2>2. Origin(o) < Origin(q)
    BY <1>2, <1>5, <1>7, <2>1
  <2> QED
    BY <2>1, <2>2, LaterSection DEF Origin
<1>8. r.psi = s.psi /\ r.out = <<o>> \o s.out
  BY DEF s
<1>9. /\ n \in Nat /\ Len(r.out) = n + 1 /\ r.out \in Seq(Seq(Cell)) /\ r.out[1] = o
      /\ \A k \in 2 .. n + 1 : r.out[k] = s.out[k - 1]
  <2>1. o \in Seq(Cell)
    BY <1>4 DEF HeadOK
  <2> HIDE DEF n
  <2> QED
    BY <1>6, <1>8, <2>1, SectionBefore, ZenonT(60) DEF n
<1>10. ASSUME NEW k \in 1 .. Len(r.out)
       PROVE  HeadOK(r.out[k]) /\ Origin(r.out[k]) < e /\ Since(r.out[k], psi, p)
  <2>1. CASE k = 1
    <3>1. Since(o, psi, p)
      BY <1>4 DEF Since
    <3>2. Origin(o) < e
      BY <1>2, <1>5
    <3> QED
      BY <1>4, <1>9, <2>1, <3>1, <3>2
  <2>2. CASE k # 1
    <3>1. k \in 2 .. n + 1 /\ k - 1 \in 1 .. n
      <4>1. n \in Nat /\ k \in 1 .. n + 1
        BY <1>9
      <4> HIDE DEF n
      <4> QED
        BY <2>2, <4>1
    <3> QED
      BY <1>6, <1>9, <3>1 DEF Since
  <2> QED
    BY <2>1, <2>2
<1>11. ASSUME NEW j \in 1 .. Len(r.out), NEW k \in 1 .. Len(r.out), j < k
       PROVE  Num(r.out[j]) < Num(r.out[k])
  <2>1. k \in 2 .. n + 1 /\ k - 1 \in 1 .. n /\ j \in Nat /\ k \in Nat
    BY <1>9, <1>11
  <2>2. CASE j = 1
    BY <1>6, <1>7, <1>9, <2>1, <2>2
  <2>3. CASE j # 1
    <3>1. j \in 2 .. n + 1 /\ j - 1 \in 1 .. n /\ j - 1 < k - 1
      BY <1>9, <1>11, <2>1, <2>3
    <3> QED
      BY <1>6, <1>9, <2>1, <3>1
  <2> QED
    BY <2>2, <2>3
<1>12. ASSUME r.psi.buffer # <<>>
       PROVE  /\ Since(r.psi.buffer, psi, p)
              /\ \A k \in 1 .. Len(r.out) : Num(r.out[k]) < Num(r.psi.buffer)
  <2>1. Since(r.psi.buffer, psi, p)
    BY <1>6, <1>8, <1>12 DEF Since
  <2>2. ASSUME NEW k \in 1 .. Len(r.out) PROVE Num(r.out[k]) < Num(r.psi.buffer)
    <3>1. CASE k = 1
      BY <1>6, <1>7, <1>8, <1>9, <1>12, <3>1
    <3>2. CASE k # 1
      <4>1. k \in 2 .. n + 1 /\ k - 1 \in 1 .. n
        <5>1. n \in Nat /\ k \in 1 .. n + 1
          BY <1>9
        <5> HIDE DEF n
        <5> QED
          BY <3>2, <5>1
      <4> QED
        BY <1>6, <1>8, <1>9, <1>12, <4>1
    <3> QED
      BY <3>1, <3>2
  <2> QED
    BY <2>1, <2>2
<1> HIDE DEF n
<1> QED
  BY <1>6, <1>8, <1>9, <1>10, <1>11, <1>12 DEF ResultOK

LEMMA ProcessHeads ==
  ASSUME NEW psi, NEW ts, NEW p, NEW e, NEW z, Carries(ts, p, e, z), NEW any \in Nat,
         ts.cc \in 0 .. CcMod - 1, PsiOK(psi, p), ts.start => \E f : Starts(ts, p, e, z, f)
  PROVE  ResultOK(ProcessTS(psi, ts, any), psi, p, e)
<1> DEFINE r == ProcessTS(psi, ts, any)
           o == psi.buffer \o SubSeq(ts.body, 1, ts.ptr)
<1>1. p \in Nat /\ e \in Nat /\ p < e /\ ts.body \in Seq(Cell)
  BY DEF Carries
<1>2. CASE ~ts.start
  <2>1. r = Continue(psi, ts, any)
    BY <1>2 DEF ProcessTS
  <2> HIDE DEF r
  <2>2. ResultOK(r, psi, p, e)
    BY <1>1, <2>1, ContinueHeads
  <2> QED
    BY <2>2 DEF r
<1>3. CASE ts.start /\ (ts.ptr = 0 \/ psi.buffer = <<>>)
  <2>1. r = Starting(ts)
    BY <1>3 DEF ProcessTS
  <2> HIDE DEF r
  <2>2. ResultOK(r, NoSection, p, e)
    BY <1>3, <2>1, StartingHeads
  <2>3. ResultOK(r, psi, p, e)
    BY <2>2 DEF ResultOK, Since, NoSection
  <2> QED
    BY <2>3 DEF r
<1>4. CASE ts.start /\ ts.ptr # 0 /\ psi.buffer # <<>> /\ ~Finish(psi, ts, any).ok
  <2>1. r = [psi |-> Dropped(psi), out |-> <<>>]
    BY <1>4 DEF ProcessTS
  <2>2. /\ psi.cc \in 0 .. CcMod - 1 /\ psi.size \in Nat
        /\ psi = [cc |-> psi.cc, size |-> psi.size, buffer |-> psi.buffer]
    BY DEF PsiOK, PsiType
  <2>3. Dropped(psi) = [cc |-> psi.cc, size |-> psi.size, buffer |-> <<>>]
    BY <2>2 DEF Dropped
  <2>4. <<>> \in Seq(Cell) /\ <<>> \in Seq(Seq(Cell)) /\ Len(<<>>) = 0
    BY EmptySeq
  <2> HIDE DEF r
  <2>5. r.psi = [cc |-> psi.cc, size |-> psi.size, buffer |-> <<>>] /\ r.out = <<>>
    BY <2>1, <2>3
  <2>6. PsiOK(r.psi, e) /\ r.psi.buffer = <<>>
    BY <2>2, <2>4, <2>5 DEF PsiOK, PsiType
  <2>7. ResultOK(r, psi, p, e)
    BY <2>4, <2>5, <2>6 DEF ResultOK
  <2> QED
    BY <2>7 DEF r
<1>5. CASE ts.start /\ ts.ptr # 0 /\ psi.buffer # <<>> /\ Finish(psi, ts, any).ok
  <2>1. r = [psi |-> Starting(ts).psi, out |-> <<o>> \o Starting(ts).out]
    BY <1>5 DEF ProcessTS, Finish
  <2> HIDE DEF r, o
  <2>2. r.psi = Starting(ts).psi /\ r.out = <<o>> \o Starting(ts).out
    BY <2>1
  <2>3. ResultOK(r, psi, p, e)
    BY <1>5, <2>2, FinishHeads DEF o
  <2> QED
    BY <2>3 DEF r
<1> QED
  BY <1>2, <1>3, <1>4, <1>5
-----------------------------------------------------------------------------
(* extract_edi() keeps what is for this address, in its order.             *)

Rising(s) == \A j, k \in 1 .. Len(s) : j < k => Num(s[j]) < Num(s[k])

\* x has those of the first m elements of s that are for this address.
Kept(x, s, m) ==
  /\ \A k \in 1 .. Len(x) : \E i \in 1 .. m : x[k] = s[i]
  /\ \A i \in 1 .. m : s[i][1][1] \notin OtherAddress => \E k \in 1 .. Len(x) : x[k] = s[i]
  /\ Rising(s) => Rising(x)

LEMMA ExtractIterates ==
  ASSUME NEW T, NEW s \in Seq(T)
  PROVE  \E g \in [0 .. Len(s) -> Seq(T)] :
           /\ g[0] = <<>> /\ ExtractEdi(s) = g[Len(s)]
           /\ \A k \in 1 .. Len(s) :
                g[k] = IF s[k][1][1] \in OtherAddress THEN g[k - 1] ELSE Append(g[k - 1], s[k])
<1> DEFINE N == Len(s)
           V == Seq(T)
           next(k, x) == IF s[k][1][1] \in OtherAddress THEN x ELSE Append(x, s[k])
           Edi(g) == g = [k \in 0 .. N |-> IF k = 0 THEN <<>>
                                           ELSE IF s[k][1][1] \in OtherAddress THEN g[k - 1]
                                           ELSE Append(g[k - 1], s[k])]
           step == [k \in 1 .. N |-> [x \in V |-> next(k, x)]]
<1>1. N \in Nat /\ <<>> \in V /\ \A k \in 1 .. N : s[k] \in T
  BY LenProperties, EmptySeq, ElementOfSeq
<1>2. \A k \in 1 .. N, x \in V : next(k, x) \in V
  BY <1>1, AppendProperties
<1>3. step \in [1 .. N -> [V -> V]]
  <2> HIDE DEF next, V
  <2> QED
    BY <1>2
<1>4. PICK g : Iterates(N, V, <<>>, step, g)
  <2> HIDE DEF step, N, V
  <2> QED
    BY <1>1, <1>3, Recursion
<1>5. g \in [0 .. N -> V] /\ g[0] = <<>> /\ \A k \in 1 .. N : g[k] = step[k][g[k - 1]]
  <2> HIDE DEF step, N, V
  <2> QED
    BY <1>4 DEF Iterates
<1>6. \A k \in 1 .. N : k - 1 \in 0 .. N /\ g[k - 1] \in V /\ k # 0 /\ k \in 0 .. N
  <2> HIDE DEF step, V
  <2> QED
    BY <1>1, <1>5
<1>7. \A k \in 1 .. N : g[k] = next(k, g[k - 1])
  <2> HIDE DEF next, V
  <2> QED
    BY <1>5, <1>6
<1> HIDE DEF V, step
<1>8. Edi(g)
  <2>1. g = [k \in 0 .. N |-> g[k]]
    BY <1>5
  <2>2. \A k \in 0 .. N : k = 0 \/ k \in 1 .. N
    BY <1>1
  <2>3. \A k \in 0 .. N : g[k] = IF k = 0 THEN <<>>
                                 ELSE IF s[k][1][1] \in OtherAddress THEN g[k - 1]
                                 ELSE Append(g[k - 1], s[k])
    BY <1>5, <1>6, <1>7, <2>2
  <2> QED
    BY <2>1, <2>3
<1>9. \E h : Edi(h) /\ ExtractEdi(s) = h[N]
  <2>1. ExtractEdi(s) = (CHOOSE h : Edi(h))[N]
    BY DEF ExtractEdi
  <2> HIDE DEF Edi, N
  <2> QED
    BY <1>8, <2>1
<1>10. PICK h : Edi(h) /\ ExtractEdi(s) = h[N]
  <2> HIDE DEF Edi, N
  <2> QED
    BY <1>9
<1>11. h[0] = <<>> /\ \A k \in 1 .. N : h[k] = next(k, h[k - 1])
  <2>1. \A k \in 0 .. N : h[k] = IF k = 0 THEN <<>>
                                 ELSE IF s[k][1][1] \in OtherAddress THEN h[k - 1]
                                 ELSE Append(h[k - 1], s[k])
    <3>1. h = [k \in 0 .. N |-> IF k = 0 THEN <<>>
                                ELSE IF s[k][1][1] \in OtherAddress THEN h[k - 1]
                                ELSE Append(h[k - 1], s[k])]
      BY <1>10
    <3> QED
      BY <3>1, Zenon
  <2>2. 0 \in 0 .. N
    BY <1>1
  <2>3. ASSUME NEW k \in 1 .. N PROVE h[k] = next(k, h[k - 1])
    <3>1. k \in 0 .. N /\ k # 0
      BY <1>6
    <3> QED
      BY <2>1, <3>1, Zenon
  <2> QED
    BY <2>1, <2>2, <2>3
<1> DEFINE S == {k \in 0 .. N : h[k] \in V}
<1>12. \A k \in 0 .. N : k \in S
  <2>1. 0 \in S
    BY <1>1, <1>11
  <2>2. ASSUME NEW m \in 0 .. N - 1, m \in S PROVE m + 1 \in S
    <3>1. m + 1 \in 1 .. N /\ (m + 1) - 1 = m /\ m + 1 \in 0 .. N
      BY <1>1
    <3>2. h[m + 1] = next(m + 1, h[m])
      <4> HIDE DEF next
      <4> QED
        BY <1>11, <3>1
    <3>3. h[m] \in V
      BY <2>2
    <3> HIDE DEF next
    <3> QED
      BY <1>2, <3>1, <3>2, <3>3
  <2> HIDE DEF S, N
  <2> QED
    BY <1>1, <2>1, <2>2, Induction
<1>13. h \in [0 .. N -> V]
  <2>1. h = [k \in 0 .. N |-> h[k]]
    BY <1>10
  <2> QED
    BY <1>12, <2>1
<1> QED
  BY <1>10, <1>11, <1>13 DEF V

LEMMA AppendFacts ==
  ASSUME NEW T, NEW x \in Seq(T), NEW o \in T, NEW t, t = Append(x, o)
  PROVE  /\ t \in Seq(T) /\ Len(x) \in Nat /\ Len(t) = Len(x) + 1 /\ t[Len(t)] = o
         /\ \A k \in 1 .. Len(x) : t[k] = x[k]
         /\ \A k \in 1 .. Len(t) : k \in 1 .. Len(x) \/ k = Len(t)
<1>1. Len(x) \in Nat /\ t \in Seq(T) /\ Len(t) = Len(x) + 1
  BY LenProperties, AppendProperties
<1>2. t[Len(x) + 1] = o /\ \A k \in 1 .. Len(x) : t[k] = x[k]
  BY <1>1, AppendProperties
<1>3. \A k \in 1 .. Len(t) : k \in 1 .. Len(x) \/ k = Len(t)
  BY <1>1
<1> QED
  BY <1>1, <1>2, <1>3

LEMMA KeptStep ==
  ASSUME NEW T, NEW s \in Seq(T), NEW m \in Nat, m + 1 \in 1 .. Len(s), NEW x \in Seq(T), Kept(x, s, m),
         NEW t, t = IF s[m + 1][1][1] \in OtherAddress THEN x ELSE Append(x, s[m + 1])
  PROVE  Kept(t, s, m + 1)
<1>1. Len(s) \in Nat /\ Len(x) \in Nat /\ s[m + 1] \in T
  BY LenProperties, ElementOfSeq
<1>2. \A i \in 1 .. m + 1 : i \in 1 .. m \/ i = m + 1
  OBVIOUS
<1>3. (1 .. m) \subseteq (1 .. m + 1) /\ m + 1 \in 1 .. m + 1 /\ (1 .. m + 1) \subseteq (1 .. Len(s))
  BY <1>1
<1>4. CASE s[m + 1][1][1] \in OtherAddress
  <2>1. t = x
    BY <1>4
  <2>2. \A k \in 1 .. Len(t) : \E i \in 1 .. m + 1 : t[k] = s[i]
    BY <1>3, <2>1 DEF Kept
  <2>3. ASSUME NEW i \in 1 .. m + 1, s[i][1][1] \notin OtherAddress
        PROVE  \E k \in 1 .. Len(t) : t[k] = s[i]
    <3>1. i \in 1 .. m
      BY <1>2, <1>4, <2>3
    <3> QED
      BY <2>1, <2>3, <3>1 DEF Kept
  <2>4. Rising(s) => Rising(t)
    BY <2>1 DEF Kept
  <2> QED
    BY <2>2, <2>3, <2>4 DEF Kept
<1>5. CASE s[m + 1][1][1] \notin OtherAddress
  <2>1. PICK o \in T : o = s[m + 1]
    BY <1>1
  <2>2. t = Append(x, o)
    BY <1>5, <2>1
  <2>3. /\ Len(t) = Len(x) + 1 /\ t[Len(t)] = o
        /\ \A k \in 1 .. Len(x) : t[k] = x[k]
        /\ \A k \in 1 .. Len(t) : k \in 1 .. Len(x) \/ k = Len(t)
    BY <2>2, AppendFacts
  <2>4. (1 .. Len(x)) \subseteq (1 .. Len(t)) /\ Len(t) \in 1 .. Len(t)
    BY <1>1, <2>3
  <2>5. ASSUME NEW k \in 1 .. Len(t) PROVE \E i \in 1 .. m + 1 : t[k] = s[i]
    <3>1. CASE k = Len(t)
      BY <1>3, <2>1, <2>3, <3>1
    <3>2. CASE k \in 1 .. Len(x)
      BY <1>3, <2>3, <3>2 DEF Kept
    <3> QED
      BY <2>3, <3>1, <3>2
  <2>6. ASSUME NEW i \in 1 .. m + 1, s[i][1][1] \notin OtherAddress
        PROVE  \E k \in 1 .. Len(t) : t[k] = s[i]
    <3>1. CASE i = m + 1
      BY <2>1, <2>3, <2>4, <3>1
    <3>2. CASE i \in 1 .. m
      <4>1. PICK k \in 1 .. Len(x) : x[k] = s[i]
        BY <2>6, <3>2 DEF Kept
      <4> QED
        BY <2>3, <2>4, <4>1
    <3> QED
      BY <1>2, <3>1, <3>2
  <2>7. ASSUME Rising(s), NEW j \in 1 .. Len(t), NEW k \in 1 .. Len(t), j < k
        PROVE  Num(t[j]) < Num(t[k])
    <3>1. j \in 1 .. Len(x)
      BY <1>1, <2>3, <2>7
    <3>2. t[j] = x[j]
      BY <2>3, <3>1
    <3>3. CASE k = Len(t)
      <4>1. PICK i \in 1 .. m : x[j] = s[i]
        BY <3>1 DEF Kept
      <4>2. i \in 1 .. Len(s) /\ i < m + 1
        BY <1>3
      <4>3. Num(s[i]) < Num(s[m + 1])
        BY <2>7, <4>2 DEF Rising
      <4> QED
        BY <2>1, <2>3, <3>2, <3>3, <4>1, <4>3
    <3>4. CASE k \in 1 .. Len(x)
      <4>1. Rising(x)
        BY <2>7 DEF Kept
      <4> QED
        BY <2>3, <2>7, <3>1, <3>2, <3>4, <4>1 DEF Rising
    <3> QED
      BY <2>3, <3>3, <3>4
  <2>8. Rising(s) => Rising(t)
    BY <2>7 DEF Rising
  <2> QED
    BY <2>5, <2>6, <2>8 DEF Kept
<1> QED
  BY <1>4, <1>5

LEMMA ExtractKept ==
  ASSUME NEW T, NEW s \in Seq(T)
  PROVE  ExtractEdi(s) \in Seq(T) /\ Kept(ExtractEdi(s), s, Len(s))
<1> DEFINE N == Len(s)
<1>1. PICK g \in [0 .. N -> Seq(T)] :
           /\ g[0] = <<>> /\ ExtractEdi(s) = g[N]
           /\ \A k \in 1 .. N :
                g[k] = IF s[k][1][1] \in OtherAddress THEN g[k - 1] ELSE Append(g[k - 1], s[k])
  BY ExtractIterates
<1>2. N \in Nat /\ N \in 0 .. N
  BY LenProperties
<1> DEFINE S == {m \in 0 .. N : Kept(g[m], s, m)}
<1>3. 0 \in S
  <2>1. Len(<<>>) = 0
    OBVIOUS
  <2>2. Kept(<<>>, s, 0)
    BY <2>1 DEF Kept, Rising
  <2> QED
    BY <1>1, <1>2, <2>2
<1>4. ASSUME NEW m \in 0 .. N - 1, m \in S PROVE m + 1 \in S
  <2>1. m + 1 \in 1 .. N /\ (m + 1) - 1 = m /\ m \in Nat /\ m + 1 \in 0 .. N /\ m \in 0 .. N
    BY <1>2
  <2>2. PICK x \in Seq(T) : x = g[m]
    BY <1>1, <2>1
  <2>3. PICK t : t = g[m + 1]
    OBVIOUS
  <2>4. t = IF s[m + 1][1][1] \in OtherAddress THEN x ELSE Append(x, s[m + 1])
    BY <1>1, <2>1, <2>2, <2>3
  <2>5. Kept(x, s, m)
    BY <1>4, <2>2
  <2>6. Kept(t, s, m + 1)
    <3> HIDE DEF N
    <3>1. m + 1 \in 1 .. Len(s)
      BY <2>1 DEF N
    <3> QED
      BY <2>1, <2>2, <2>4, <2>5, <3>1, KeptStep
  <2> QED
    BY <2>1, <2>3, <2>6
<1>5. N \in S
  <2> HIDE DEF S, N
  <2> QED
    BY <1>2, <1>3, <1>4, Induction
<1> QED
  BY <1>1, <1>2, <1>5
-----------------------------------------------------------------------------
(* The PDUs that GSEDeframer takes from a BBFrame, each known by its last  *)
(* fragment, whatever the ones before it are.                              *)

Tip(o) == o[Len(o)]
Collecting == [f : [0 .. FragIds - 1 -> Seq(Cell)], out : Seq(Seq(Cell))]
Frames == 1 .. Len(BBFrames)

\* The PDUs in out end in different fragments among the first m of BBFrame b.
Tips(out, b, m) ==
  /\ \A k \in 1 .. Len(out) : out[k] # <<>> /\ \E j \in 1 .. m : Tip(out[k]) = BBFrames[b][j]
  /\ \A i, k \in 1 .. Len(out) : i < k => Tip(out[i]) # Tip(out[k])

LEMMA FragmentFacts ==
  ASSUME NEW b \in Frames, NEW k \in 1 .. FrameLen
  PROVE  /\ BBFrames[b][k] \in Cell /\ BBFrames[b][k][1] \in Nat \ {0}
         /\ BBFrames[b][k][2] \in Nat \ {0} /\ PduLen[BBFrames[b][k][1]] \in Nat \ {0}
         /\ FragId(BBFrames[b][k]) \in 0 .. FragIds - 1
         /\ \A c \in Frames, j \in 1 .. FrameLen : BBFrames[c][j] = BBFrames[b][k] => c = b /\ j = k
<1> DEFINE g == BBFrames[b][k]
<1>1. /\ PduLen \in Seq(Nat \ {0}) /\ BBFrames \in Seq(Seq(Cell)) /\ Len(BBFrames[b]) = FrameLen
      /\ g[1] \in 1 .. Len(PduLen) /\ g[2] \in 1 .. PduLen[g[1]] /\ FragIds \in Nat \ {0}
      /\ \A c \in Frames, j \in 1 .. FrameLen : BBFrames[c][j] = g => c = b /\ j = k
  BY McastAssumption DEF Frames, Cell
<1>2. BBFrames[b] \in Seq(Cell)
  <2>1. PICK T : T = Seq(Cell)
    OBVIOUS
  <2> QED
    BY <1>1, <2>1, ElementOfSeq DEF Frames
<1>3. g \in Cell
  BY <1>1, <1>2, CellSeqs
<1>4. PduLen[g[1]] \in Nat \ {0} /\ Len(PduLen) \in Nat
  <2>1. PICK T : T = Nat \ {0}
    OBVIOUS
  <2>2. PICK i : i = g[1]
    OBVIOUS
  <2>3. PduLen[i] \in T
    BY <1>1, <2>1, <2>2, ElementOfSeq
  <2> QED
    BY <1>1, <2>1, <2>2, <2>3, LenProperties
<1> HIDE DEF g
<1>5. g[1] \in Nat \ {0} /\ g[2] \in Nat \ {0}
  <2>1. PICK i, j, n, len : i = g[1] /\ j = g[2] /\ n = Len(PduLen) /\ len = PduLen[g[1]]
    OBVIOUS
  <2>2. n \in Nat /\ len \in Nat /\ i \in 1 .. n /\ j \in 1 .. len
    BY <1>1, <1>4, <2>1
  <2>3. i \in Nat \ {0} /\ j \in Nat \ {0}
    BY <2>2
  <2> QED
    BY <2>1, <2>3
<1>6. FragId(g) \in 0 .. FragIds - 1
  <2>1. PICK i \in Nat : i = g[1]
    BY <1>5
  <2>2. i % FragIds \in 0 .. FragIds - 1
    BY <1>1
  <2> QED
    BY <2>1, <2>2 DEF FragId
<1> QED
  BY <1>1, <1>3, <1>4, <1>5, <1>6 DEF g

LEMMA GseStep ==
  ASSUME NEW r \in Collecting, NEW b \in Frames, NEW k \in 1 .. FrameLen,
         NEW g, g = BBFrames[b][k], NEW t, t = ProcessGSE(r, g)
  PROVE  /\ t \in Collecting
         /\ t.out # r.out => \E o \in Seq(Cell) : t.out = Append(r.out, o) /\ o # <<>> /\ Tip(o) = g
<1> DEFINE id == FragId(g)
           pdu == Append(r.f[id], g)
<1>1. /\ r.f \in [0 .. FragIds - 1 -> Seq(Cell)] /\ r.out \in Seq(Seq(Cell))
      /\ r = [f |-> r.f, out |-> r.out]
  BY DEF Collecting
<1>2. g \in Cell /\ id \in 0 .. FragIds - 1 /\ g[2] \in Nat \ {0} /\ PduLen[g[1]] \in Nat \ {0}
  BY FragmentFacts
<1>3. r.f[id] \in Seq(Cell)
  BY <1>1, <1>2
<1> HIDE DEF id
<1>4. pdu \in Seq(Cell) /\ pdu # <<>> /\ Tip(pdu) = g
  <2>1. PICK x \in Seq(Cell) : x = r.f[id]
    BY <1>3
  <2>2. PICK y : y = Append(x, g)
    OBVIOUS
  <2>3. y \in Seq(Cell) /\ Len(x) \in Nat /\ Len(y) = Len(x) + 1 /\ y[Len(y)] = g
    BY <1>2, <2>2, AppendFacts
  <2>4. y # <<>>
    BY <2>3, EmptySeq
  <2> QED
    BY <2>1, <2>2, <2>3, <2>4 DEF Tip
<1>5. <<g>> \in Seq(Cell) /\ <<g>> # <<>> /\ Tip(<<g>>) = g /\ <<>> \in Seq(Cell)
  BY <1>2 DEF Tip
<1>6. \/ t = [f |-> r.f, out |-> Append(r.out, <<g>>)]
      \/ t = [f |-> [r.f EXCEPT ![id] = pdu], out |-> r.out]
      \/ t = r
      \/ t = [f |-> [r.f EXCEPT ![id] = <<>>], out |-> Append(r.out, pdu)]
  <2>1. t = CASE PduLen[g[1]] = 1 -> [r EXCEPT !.out = Append(@, <<g>>)]
              [] PduLen[g[1]] > 1 /\ g[2] = 1 -> [r EXCEPT !.f[id] = pdu]
              [] g[2] > 1 /\ r.f[id] = <<>> -> r
              [] g[2] > 1 /\ r.f[id] /= <<>> /\ g[2] < PduLen[g[1]] -> [r EXCEPT !.f[id] = pdu]
              [] OTHER -> [f |-> [r.f EXCEPT ![id] = <<>>], out |-> Append(r.out, pdu)]
    BY DEF ProcessGSE, id
  <2>2. /\ [r EXCEPT !.out = Append(@, <<g>>)] = [f |-> r.f, out |-> Append(r.out, <<g>>)]
        /\ [r EXCEPT !.f[id] = pdu] = [f |-> [r.f EXCEPT ![id] = pdu], out |-> r.out]
    <3> HIDE DEF pdu
    <3>1. PICK rf, ro : rf = r.f /\ ro = r.out /\ r = [f |-> rf, out |-> ro]
      BY <1>1
    <3>2. ASSUME NEW x PROVE [r EXCEPT !.out = x] = [f |-> rf, out |-> x]
      BY <3>1
    <3>3. ASSUME NEW x PROVE [r EXCEPT !.f = x] = [f |-> x, out |-> ro]
      BY <3>1
    <3>4. [r EXCEPT !.f[id] = pdu] = [r EXCEPT !.f = [r.f EXCEPT ![id] = pdu]]
      OBVIOUS
    <3> QED
      BY <3>1, <3>2, <3>3, <3>4
  <2> HIDE DEF pdu
  <2> QED
    BY <2>1, <2>2
<1>7. ASSUME NEW o \in Seq(Cell) PROVE Append(r.out, o) \in Seq(Seq(Cell))
  <2>1. PICK T : T = Seq(Cell)
    OBVIOUS
  <2>2. PICK x \in Seq(T) : x = r.out
    BY <1>1, <2>1
  <2>3. o \in T
    BY <2>1
  <2>4. Append(x, o) \in Seq(T)
    BY <2>2, <2>3, AppendProperties
  <2> QED
    BY <2>1, <2>2, <2>4
<1>8. ASSUME NEW o \in Seq(Cell) PROVE [r.f EXCEPT ![id] = o] \in [0 .. FragIds - 1 -> Seq(Cell)]
  BY <1>1
<1>9. Append(r.out, <<g>>) \in Seq(Seq(Cell)) /\ Append(r.out, pdu) \in Seq(Seq(Cell))
  <2> HIDE DEF pdu
  <2> QED
    BY <1>4, <1>5, <1>7
<1>10. /\ [r.f EXCEPT ![id] = pdu] \in [0 .. FragIds - 1 -> Seq(Cell)]
       /\ [r.f EXCEPT ![id] = <<>>] \in [0 .. FragIds - 1 -> Seq(Cell)]
  <2> HIDE DEF pdu
  <2> QED
    BY <1>4, <1>5, <1>8
<1> HIDE DEF pdu
<1>11. CASE t = [f |-> r.f, out |-> Append(r.out, <<g>>)]
  <2>1. t \in Collecting
    BY <1>1, <1>9, <1>11 DEF Collecting
  <2>2. t.out = Append(r.out, <<g>>)
    BY <1>11
  <2> QED
    BY <1>5, <2>1, <2>2
<1>12. CASE t = [f |-> [r.f EXCEPT ![id] = pdu], out |-> r.out]
  BY <1>1, <1>10, <1>12 DEF Collecting
<1>13. CASE t = r
  BY <1>13
<1>14. CASE t = [f |-> [r.f EXCEPT ![id] = <<>>], out |-> Append(r.out, pdu)]
  <2>1. t \in Collecting
    BY <1>9, <1>10, <1>14 DEF Collecting
  <2>2. t.out = Append(r.out, pdu)
    BY <1>14
  <2> QED
    BY <1>4, <2>1, <2>2
<1> QED
  BY <1>6, <1>11, <1>12, <1>13, <1>14

\* The fragments of BBFrame f, one by one, as far as they are in step.
Fold(f, g) ==
  /\ g \in [0 .. FrameLen -> Collecting] /\ g[0] = [f |-> fragments, out |-> <<>>]
  /\ \A k \in 1 .. FrameLen :
       g[k] = IF k \in InStep(f) THEN ProcessGSE(g[k - 1], BBFrames[f[1][1]][k]) ELSE g[k - 1]

LEMMA BBFrameFold ==
  ASSUME fragments \in [0 .. FragIds - 1 -> Seq(Cell)], NEW f, f[1][1] \in Frames, NEW how, NEW id
  PROVE  \E g : /\ Fold(f, g)
                /\ ProcessBBFrame(f, how, id) =
                     IF f[1][1] \in OtherStream THEN [f |-> fragments, out |-> <<>>]
                     ELSE IF FrameLen \in InStep(f) THEN g[FrameLen]
                     ELSE Misread(g[FrameLen], how, id)
<1> DEFINE N == FrameLen
           V == Collecting
           base == [f |-> fragments, out |-> <<>>]
           gse(k) == GsePacket(f[k + 1])
           next(k, x) == IF k \in InStep(f) THEN ProcessGSE(x, gse(k)) ELSE x
           After(g) == g = [k \in 0 .. N |-> IF k = 0 THEN base
                                             ELSE IF k \in InStep(f) THEN ProcessGSE(g[k - 1], gse(k))
                                             ELSE g[k - 1]]
           step == [k \in 1 .. N |-> [x \in V |-> next(k, x)]]
<1>1. N \in Nat /\ N \in 0 .. N /\ 0 \in 0 .. N
  BY McastAssumption
<1>2. base \in V
  <2>1. <<>> \in Seq(Seq(Cell))
    OBVIOUS
  <2> QED
    BY <2>1 DEF Collecting
<1>3. ASSUME NEW k \in 1 .. N, k \in InStep(f) PROVE gse(k) = BBFrames[f[1][1]][k]
  <2>1. f[k + 1] = <<f[1][1], k>>
    <3>1. \A j \in 1 .. k : f[j + 1] = <<f[1][1], j>>
      BY <1>3, Zenon DEF InStep
    <3>2. k \in 1 .. k
      BY <1>1
    <3> QED
      BY <3>1, <3>2, Zenon
  <2> QED
    BY <2>1 DEF GsePacket
<1> HIDE DEF base, gse
<1>4. ASSUME NEW k \in 1 .. N, NEW x \in V PROVE next(k, x) \in V
  <2>1. CASE k \in InStep(f)
    <3>1. PICK b \in Frames : b = f[1][1]
      OBVIOUS
    <3>2. PICK c : c = BBFrames[b][k]
      OBVIOUS
    <3>3. PICK t : t = ProcessGSE(x, c)
      OBVIOUS
    <3>4. t \in V
      BY <3>2, <3>3, GseStep
    <3> QED
      BY <1>3, <2>1, <3>1, <3>2, <3>3, <3>4
  <2>2. CASE k \notin InStep(f)
    BY <2>2
  <2> QED
    BY <2>1, <2>2
<1> HIDE DEF next, V
<1>5. step \in [1 .. N -> [V -> V]]
  BY <1>4
<1>6. PICK g : Iterates(N, V, base, step, g)
  <2> HIDE DEF step, N
  <2> QED
    BY <1>1, <1>2, <1>5, Recursion
<1>7. g \in [0 .. N -> V] /\ g[0] = base /\ \A k \in 1 .. N : g[k] = step[k][g[k - 1]]
  <2> HIDE DEF step, N
  <2> QED
    BY <1>6 DEF Iterates
<1>8. \A k \in 1 .. N : k - 1 \in 0 .. N /\ k # 0 /\ k \in 0 .. N
  BY <1>1
<1>9. \A k \in 1 .. N : g[k] = next(k, g[k - 1])
  BY <1>7, <1>8
<1> HIDE DEF step
<1>10. After(g)
  <2>1. g = [k \in 0 .. N |-> g[k]]
    BY <1>7
  <2>2. \A k \in 0 .. N : k = 0 \/ k \in 1 .. N
    BY <1>1
  <2>3. \A k \in 0 .. N : g[k] = IF k = 0 THEN base
                                 ELSE IF k \in InStep(f) THEN ProcessGSE(g[k - 1], gse(k))
                                 ELSE g[k - 1]
    BY <1>7, <1>8, <1>9, <2>2, Zenon DEF next
  <2> QED
    BY <2>1, <2>3
<1>11. PICK h : h = CHOOSE x : After(x)
  OBVIOUS
<1>12. After(h)
  <2> HIDE DEF After
  <2> QED
    BY <1>10, <1>11
<1>13. ProcessBBFrame(f, how, id) =
         IF f[1][1] \in OtherStream THEN base
         ELSE IF FrameLen \in InStep(f) THEN h[FrameLen]
         ELSE Misread(h[FrameLen], how, id)
  BY <1>11 DEF ProcessBBFrame, base, gse
<1>14. h[0] = base /\ \A k \in 1 .. N : h[k] = next(k, h[k - 1])
  <2>1. \A k \in 0 .. N : h[k] = IF k = 0 THEN base
                                 ELSE IF k \in InStep(f) THEN ProcessGSE(h[k - 1], gse(k))
                                 ELSE h[k - 1]
    <3>1. h = [k \in 0 .. N |-> IF k = 0 THEN base
                                ELSE IF k \in InStep(f) THEN ProcessGSE(h[k - 1], gse(k))
                                ELSE h[k - 1]]
      BY <1>12
    <3> QED
      BY <3>1, Zenon
  <2>2. ASSUME NEW k \in 1 .. N PROVE h[k] = next(k, h[k - 1])
    BY <1>8, <2>1, Zenon DEF next
  <2> QED
    BY <1>1, <2>1, <2>2
<1> DEFINE S == {k \in 0 .. N : h[k] \in V}
<1>15. \A k \in 0 .. N : k \in S
  <2>1. 0 \in S
    BY <1>1, <1>2, <1>14
  <2>2. ASSUME NEW m \in 0 .. N - 1, m \in S PROVE m + 1 \in S
    <3>1. m + 1 \in 1 .. N /\ (m + 1) - 1 = m /\ m + 1 \in 0 .. N
      BY <1>1
    <3>2. h[m + 1] = next(m + 1, h[m])
      BY <1>14, <3>1
    <3>3. h[m] \in V
      BY <2>2
    <3> QED
      BY <1>4, <3>1, <3>2, <3>3
  <2> HIDE DEF S, N
  <2> QED
    BY <1>1, <2>1, <2>2, Induction
<1>16. h \in [0 .. N -> V]
  <2>1. h = [k \in 0 .. N |-> h[k]]
    BY <1>12
  <2> QED
    BY <1>15, <2>1
<1>17. \A k \in 1 .. N :
         h[k] = IF k \in InStep(f) THEN ProcessGSE(h[k - 1], BBFrames[f[1][1]][k]) ELSE h[k - 1]
  BY <1>3, <1>14 DEF next
<1>18. Fold(f, h)
  BY <1>14, <1>16, <1>17 DEF Fold, V, base
<1> QED
  BY <1>13, <1>18 DEF base

LEMMA TipsStep ==
  ASSUME NEW b \in Frames, NEW m \in 0 .. FrameLen - 1, NEW x \in Seq(Seq(Cell)), Tips(x, b, m),
         NEW t \in Seq(Seq(Cell)),
         t # x => \E o \in Seq(Cell) : t = Append(x, o) /\ o # <<>> /\ Tip(o) = BBFrames[b][m + 1]
  PROVE  Tips(t, b, m + 1)
<1>1. FrameLen \in Nat /\ m \in Nat
  BY McastAssumption
<1>2. (1 .. m) \subseteq (1 .. m + 1) /\ m + 1 \in 1 .. m + 1 /\ (1 .. m + 1) \subseteq (1 .. FrameLen)
      /\ m + 1 \notin 1 .. m
  BY <1>1
<1>3. CASE t = x
  BY <1>2, <1>3 DEF Tips
<1>4. CASE t # x
  <2>1. PICK o \in Seq(Cell) : t = Append(x, o) /\ o # <<>> /\ Tip(o) = BBFrames[b][m + 1]
    BY <1>4
  <2>2. PICK T : T = Seq(Cell)
    OBVIOUS
  <2>3. x \in Seq(T) /\ o \in T /\ t = Append(x, o)
    BY <2>1, <2>2
  <2>4. /\ Len(x) \in Nat /\ Len(t) = Len(x) + 1 /\ t[Len(t)] = o
        /\ \A k \in 1 .. Len(x) : t[k] = x[k]
        /\ \A k \in 1 .. Len(t) : k \in 1 .. Len(x) \/ k = Len(t)
    <3> HIDE <2>1, <2>2
    <3> QED
      BY <2>3, AppendFacts
  <2>5. ASSUME NEW k \in 1 .. Len(t) PROVE t[k] # <<>> /\ \E j \in 1 .. m + 1 : Tip(t[k]) = BBFrames[b][j]
    <3>1. CASE k = Len(t)
      BY <1>2, <2>1, <2>4, <3>1
    <3>2. CASE k \in 1 .. Len(x)
      BY <1>2, <2>4, <3>2, ZenonT(60) DEF Tips
    <3> QED
      BY <2>4, <3>1, <3>2
  <2>6. ASSUME NEW i \in 1 .. Len(t), NEW k \in 1 .. Len(t), i < k PROVE Tip(t[i]) # Tip(t[k])
    <3>1. i \in 1 .. Len(x)
      BY <2>4, <2>6
    <3>2. t[i] = x[i]
      BY <2>4, <3>1
    <3>3. CASE k = Len(t)
      <4>1. PICK j \in 1 .. m : Tip(x[i]) = BBFrames[b][j]
        BY <3>1 DEF Tips
      <4>2. BBFrames[b][j] # BBFrames[b][m + 1]
        <5>1. j \in 1 .. FrameLen /\ m + 1 \in 1 .. FrameLen /\ j # m + 1
          BY <1>2
        <5>2. PICK l : l = m + 1
          OBVIOUS
        <5> QED
          BY <5>1, <5>2, FragmentFacts
      <4> QED
        BY <2>1, <2>4, <3>2, <3>3, <4>1, <4>2
    <3>4. CASE k \in 1 .. Len(x)
      BY <2>4, <2>6, <3>1, <3>2, <3>4 DEF Tips
    <3> QED
      BY <2>4, <3>3, <3>4
  <2> QED
    BY <2>5, <2>6 DEF Tips
<1> QED
  BY <1>3, <1>4

\* The PDUs in out end in different fragments of BBFrame b, or in junk.
Ended(out, b) ==
  /\ \A k \in 1 .. Len(out) :
       /\ out[k] # <<>>
       /\ Tip(out[k]) = Junk \/ \E j \in 1 .. FrameLen : Tip(out[k]) = BBFrames[b][j]
  /\ \A i, k \in 1 .. Len(out) : i < k => (Tip(out[i]) # Junk => Tip(out[i]) # Tip(out[k]))

LEMMA FoldTips ==
  ASSUME NEW f, f[1][1] \in Frames, NEW g, Fold(f, g)
  PROVE  g[FrameLen] \in Collecting /\ Tips(g[FrameLen].out, f[1][1], FrameLen)
<1> DEFINE N == FrameLen
           S == {m \in 0 .. N : Tips(g[m].out, f[1][1], m)}
<1>1. N \in Nat /\ N \in 0 .. N
  BY McastAssumption
<1>2. PICK b \in Frames : b = f[1][1]
  OBVIOUS
<1>3. 0 \in S
  <2>1. g[0].out = <<>> /\ Len(<<>>) = 0
    BY DEF Fold
  <2>2. Tips(<<>>, b, 0)
    BY <2>1 DEF Tips
  <2> QED
    BY <1>1, <1>2, <2>1, <2>2
<1>4. ASSUME NEW m \in 0 .. N - 1, m \in S PROVE m + 1 \in S
  <2>1. m + 1 \in 1 .. N /\ (m + 1) - 1 = m /\ m + 1 \in 0 .. N /\ m \in 0 .. N
    BY <1>1
  <2>2. PICK k \in 1 .. N : k = m + 1
    BY <2>1
  <2>3. PICK r \in Collecting, t \in Collecting : r = g[m] /\ t = g[m + 1]
    BY <2>1 DEF Fold
  <2>4. PICK c : c = BBFrames[b][k]
    OBVIOUS
  <2>5. t = IF k \in InStep(f) THEN ProcessGSE(r, c) ELSE r
    BY <1>2, <2>1, <2>2, <2>3, <2>4 DEF Fold
  <2>6. t.out # r.out => \E o \in Seq(Cell) : t.out = Append(r.out, o) /\ o # <<>> /\ Tip(o) = c
    <3>1. CASE k \in InStep(f)
      <4>1. t = ProcessGSE(r, c)
        BY <2>5, <3>1
      <4> QED
        BY <2>4, <4>1, GseStep
    <3>2. CASE k \notin InStep(f)
      BY <2>5, <3>2
    <3> QED
      BY <3>1, <3>2
  <2>7. PICK x \in Seq(Seq(Cell)), y \in Seq(Seq(Cell)) : x = r.out /\ y = t.out
    BY <2>3 DEF Collecting
  <2>8. Tips(x, b, m)
    BY <1>2, <1>4, <2>3, <2>7
  <2>9. y # x => \E o \in Seq(Cell) : y = Append(x, o) /\ o # <<>> /\ Tip(o) = BBFrames[b][m + 1]
    BY <2>2, <2>4, <2>6, <2>7
  <2>10. Tips(y, b, m + 1)
    BY <2>7, <2>8, <2>9, TipsStep
  <2> QED
    BY <1>2, <2>1, <2>3, <2>7, <2>10
<1>5. N \in S
  <2> HIDE DEF S, N
  <2> QED
    BY <1>1, <1>3, <1>4, Induction
<1> QED
  BY <1>1, <1>5 DEF Fold

LEMMA MisreadTips ==
  ASSUME NEW r \in Collecting, NEW b \in Frames, Tips(r.out, b, FrameLen),
         NEW how \in {"break", "start", "end", "full"}, NEW id \in 0 .. FragIds - 1,
         NEW t, t = Misread(r, how, id)
  PROVE  t \in Collecting /\ Ended(t.out, b)
<1>1. /\ r.f \in [0 .. FragIds - 1 -> Seq(Cell)] /\ r.out \in Seq(Seq(Cell))
      /\ r = [f |-> r.f, out |-> r.out]
  BY DEF Collecting
<1>2. PICK rf \in [0 .. FragIds - 1 -> Seq(Cell)], ro \in Seq(Seq(Cell)) :
        rf = r.f /\ ro = r.out /\ r = [f |-> rf, out |-> ro]
  BY <1>1
<1>3. PICK y : y = Append(rf[id], Junk)
  OBVIOUS
<1>4. y \in Seq(Cell) /\ y # <<>> /\ Tip(y) = Junk
  <2>1. PICK x \in Seq(Cell) : x = rf[id]
    BY <1>2
  <2>2. Junk \in Cell
    BY DEF Junk, Cell
  <2>3. y = Append(x, Junk)
    BY <1>3, <2>1
  <2>4. y \in Seq(Cell) /\ Len(x) \in Nat /\ Len(y) = Len(x) + 1 /\ y[Len(y)] = Junk
    BY <2>2, <2>3, AppendFacts
  <2>5. y # <<>>
    BY <2>4, EmptySeq
  <2> QED
    BY <2>4, <2>5 DEF Tip
<1>5. PICK w : w = <<Junk>>
  OBVIOUS
<1>6. w \in Seq(Cell) /\ w # <<>> /\ Tip(w) = Junk
  BY <1>5 DEF Tip, Junk, Cell
<1>7. \/ t = [f |-> rf, out |-> ro]
      \/ t = [f |-> [rf EXCEPT ![id] = y], out |-> ro]
      \/ t = [f |-> [rf EXCEPT ![id] = <<>>], out |-> Append(ro, y)]
      \/ t = [f |-> rf, out |-> Append(ro, w)]
  <2>1. /\ [r EXCEPT !.f[id] = Append(@, Junk)] = [f |-> [rf EXCEPT ![id] = y], out |-> ro]
        /\ [r EXCEPT !.out = Append(@, <<Junk>>)] = [f |-> rf, out |-> Append(ro, w)]
    <3>1. ASSUME NEW x PROVE [r EXCEPT !.out = x] = [f |-> rf, out |-> x]
      BY <1>2
    <3>2. ASSUME NEW x PROVE [r EXCEPT !.f = x] = [f |-> x, out |-> ro]
      BY <1>2
    <3>3. [r EXCEPT !.f[id] = Append(@, Junk)] = [r EXCEPT !.f = [r.f EXCEPT ![id] = Append(r.f[id], Junk)]]
      OBVIOUS
    <3> QED
      BY <1>2, <1>3, <1>5, <3>1, <3>2, <3>3
  <2>2. /\ how = "break" => t = r
        /\ how = "start" => t = [r EXCEPT !.f[id] = Append(@, Junk)]
        /\ how = "end" => \/ t = r
                          \/ t = [f |-> [r.f EXCEPT ![id] = <<>>], out |-> Append(r.out, Append(r.f[id], Junk))]
        /\ how = "full" => t = [r EXCEPT !.out = Append(@, <<Junk>>)]
    BY DEF Misread
  <2> QED
    BY <1>2, <1>3, <2>1, <2>2
<1>8. Ended(ro, b)
  BY <1>2 DEF Ended, Tips
<1>9. ASSUME NEW o \in Seq(Cell), o # <<>>, Tip(o) = Junk, NEW u, u = Append(ro, o)
      PROVE  u \in Seq(Seq(Cell)) /\ Ended(u, b)
  <2>1. PICK T : T = Seq(Cell)
    OBVIOUS
  <2>2. ro \in Seq(T) /\ o \in T
    BY <1>2, <2>1
  <2>3. /\ u \in Seq(T) /\ Len(ro) \in Nat /\ Len(u) = Len(ro) + 1 /\ u[Len(u)] = o
        /\ \A k \in 1 .. Len(ro) : u[k] = ro[k]
        /\ \A k \in 1 .. Len(u) : k \in 1 .. Len(ro) \/ k = Len(u)
    BY <1>9, <2>2, AppendFacts
  <2>4. ASSUME NEW k \in 1 .. Len(u)
        PROVE  /\ u[k] # <<>>
               /\ Tip(u[k]) = Junk \/ \E j \in 1 .. FrameLen : Tip(u[k]) = BBFrames[b][j]
    BY <1>8, <1>9, <2>3 DEF Ended
  <2>5. ASSUME NEW i \in 1 .. Len(u), NEW k \in 1 .. Len(u), i < k, Tip(u[i]) # Junk
        PROVE  Tip(u[i]) # Tip(u[k])
    <3>1. i \in 1 .. Len(ro)
      BY <2>3, <2>5
    <3>2. CASE k = Len(u)
      BY <1>9, <2>3, <2>5, <3>2
    <3>3. CASE k \in 1 .. Len(ro)
      BY <1>8, <2>3, <2>5, <3>1, <3>3 DEF Ended
    <3> QED
      BY <2>3, <3>2, <3>3
  <2> QED
    BY <2>1, <2>3, <2>4, <2>5 DEF Ended
<1>10. ASSUME NEW o \in Seq(Cell) PROVE [rf EXCEPT ![id] = o] \in [0 .. FragIds - 1 -> Seq(Cell)]
  BY <1>2
<1>11. PICK u, v : u = Append(ro, y) /\ v = Append(ro, w)
  OBVIOUS
<1>12. u \in Seq(Seq(Cell)) /\ Ended(u, b) /\ v \in Seq(Seq(Cell)) /\ Ended(v, b)
  BY <1>4, <1>6, <1>9, <1>11
<1>13. <<>> \in Seq(Cell)
  OBVIOUS
<1>14. PICK e \in [0 .. FragIds - 1 -> Seq(Cell)], d \in [0 .. FragIds - 1 -> Seq(Cell)] :
         e = [rf EXCEPT ![id] = <<>>] /\ d = [rf EXCEPT ![id] = y]
  BY <1>4, <1>10, <1>13
<1>15. \/ t = [f |-> rf, out |-> ro] \/ t = [f |-> d, out |-> ro]
       \/ t = [f |-> e, out |-> u] \/ t = [f |-> rf, out |-> v]
  BY <1>7, <1>11, <1>14
<1>16. ASSUME NEW x \in [0 .. FragIds - 1 -> Seq(Cell)], NEW o \in Seq(Seq(Cell)), Ended(o, b),
              t = [f |-> x, out |-> o]
       PROVE  t \in Collecting /\ Ended(t.out, b)
  BY <1>16 DEF Collecting
<1> QED
  BY <1>2, <1>8, <1>12, <1>14, <1>15, <1>16

LEMMA BBFrameTips ==
  ASSUME fragments \in [0 .. FragIds - 1 -> Seq(Cell)], NEW f, f[1][1] \in Frames,
         NEW how \in {"break", "start", "end", "full"}, NEW id \in 0 .. FragIds - 1,
         NEW t, t = ProcessBBFrame(f, how, id)
  PROVE  t \in Collecting /\ Ended(t.out, f[1][1])
<1>1. PICK g : /\ Fold(f, g)
               /\ t = IF f[1][1] \in OtherStream THEN [f |-> fragments, out |-> <<>>]
                      ELSE IF FrameLen \in InStep(f) THEN g[FrameLen]
                      ELSE Misread(g[FrameLen], how, id)
  BY BBFrameFold
<1>2. PICK r \in Collecting, b \in Frames : r = g[FrameLen] /\ b = f[1][1] /\ Tips(r.out, b, FrameLen)
  BY <1>1, FoldTips
<1>3. CASE t = [f |-> fragments, out |-> <<>>]
  <2>1. <<>> \in Seq(Seq(Cell)) /\ Len(<<>>) = 0
    OBVIOUS
  <2>2. t.out = <<>> /\ t \in Collecting
    BY <1>3, <2>1 DEF Collecting
  <2> QED
    BY <2>1, <2>2 DEF Ended
<1>4. CASE t = r
  BY <1>2, <1>4 DEF Ended, Tips
<1>5. CASE t = Misread(r, how, id)
  BY <1>2, <1>5, MisreadTips
<1> QED
  BY <1>1, <1>2, <1>3, <1>4, <1>5
-----------------------------------------------------------------------------
(* What was handed out: to edi::Sender, and to the loop that will push it. *)

Handed(F, E) == {F[k] : k \in 1 .. Len(F)} \cup {E[k] : k \in 1 .. Len(E)}
Elements(s) == {s[k] : k \in 1 .. Len(s)}

\* o was sent before q, or is at least another packet.
Apart(m, o, q) ==
  IF m = "mpe" THEN Num(o) < Num(q) ELSE (Tip(o) # Junk => Tip(o) # Tip(q))
AllApart(m, s) == \A i, k \in 1 .. Len(s) : i < k => Apart(m, s[i], s[k])
NoneEmpty(s) == \A k \in 1 .. Len(s) : s[k] # <<>>

Chain(m, F, E) ==
  /\ F \in Seq(Seq(Cell)) /\ E \in Seq(Seq(Cell)) /\ NoneEmpty(F) /\ NoneEmpty(E)
  /\ AllApart(m, F) /\ AllApart(m, E)
  /\ \A i \in 1 .. Len(F), k \in 1 .. Len(E) : Apart(m, F[i], E[k])

Joined(t, E, R, T) ==
  /\ t \in Seq(T) /\ Len(E) \in Nat /\ Len(R) \in Nat /\ Len(t) = Len(E) + Len(R)
  /\ \A k \in 1 .. Len(E) : t[k] = E[k] /\ k \in 1 .. Len(t)
  /\ \A k \in 1 .. Len(R) : t[Len(E) + k] = R[k] /\ Len(E) + k \in 1 .. Len(t)
  /\ \A k \in 1 .. Len(t) : \/ k \in 1 .. Len(E)
                            \/ \E l \in 1 .. Len(R) : k = Len(E) + l

Follows(m, F, E, R) == \A o \in Handed(F, E), k \in 1 .. Len(R) : Apart(m, o, R[k])

LEMMA JoinFacts ==
  ASSUME NEW T, NEW E \in Seq(T), NEW R \in Seq(T)
  PROVE  Joined(E \o R, E, R, T)
<1>0. PICK t : t = E \o R
  OBVIOUS
<1>1. Len(E) \in Nat /\ Len(R) \in Nat /\ t \in Seq(T) /\ Len(t) = Len(E) + Len(R)
  BY <1>0, LenProperties, ConcatProperties
<1>2. \A k \in 1 .. Len(E) + Len(R) : t[k] = IF k <= Len(E) THEN E[k] ELSE R[k - Len(E)]
  BY <1>0, ConcatProperties
<1>3. PICK a \in Nat, b \in Nat : a = Len(E) /\ b = Len(R)
  BY <1>1
<1>4. ASSUME NEW k \in 1 .. a PROVE t[k] = E[k] /\ k \in 1 .. a + b
  <2>1. k \in 1 .. a + b /\ k <= a
    OBVIOUS
  <2> QED
    BY <1>2, <1>3, <2>1
<1>5. ASSUME NEW k \in 1 .. b PROVE t[a + k] = R[k] /\ a + k \in 1 .. a + b
  <2>1. a + k \in 1 .. a + b /\ ~(a + k <= a) /\ (a + k) - a = k
    OBVIOUS
  <2> QED
    BY <1>2, <1>3, <2>1
<1>6. ASSUME NEW k \in 1 .. a + b PROVE k \in 1 .. a \/ \E l \in 1 .. b : k = a + l
  <2>1. CASE ~(k <= a)
    <3>1. k - a \in 1 .. b /\ k = a + (k - a)
      BY <2>1
    <3> QED
      BY <3>1
  <2> QED
    BY <2>1
<1>7. Joined(t, E, R, T)
  BY <1>1, <1>3, <1>4, <1>5, <1>6 DEF Joined
<1> QED
  BY <1>0, <1>7

LEMMA ChainExtend ==
  ASSUME NEW m, NEW F, NEW E, Chain(m, F, E), NEW R \in Seq(Seq(Cell)), NoneEmpty(R), AllApart(m, R),
         Follows(m, F, E, R)
  PROVE  Chain(m, F, E \o R) /\ Handed(F, E \o R) = Handed(F, E) \cup Elements(R)
<1>0. PICK t : t = E \o R
  OBVIOUS
<1>1. PICK T : T = Seq(Cell)
  OBVIOUS
<1>2. F \in Seq(T) /\ E \in Seq(T) /\ R \in Seq(T)
  BY <1>1 DEF Chain
<1>3. /\ t \in Seq(T) /\ Len(E) \in Nat /\ Len(R) \in Nat /\ Len(t) = Len(E) + Len(R)
      /\ \A k \in 1 .. Len(E) : t[k] = E[k] /\ k \in 1 .. Len(t)
      /\ \A k \in 1 .. Len(R) : t[Len(E) + k] = R[k] /\ Len(E) + k \in 1 .. Len(t)
      /\ \A k \in 1 .. Len(t) : \/ k \in 1 .. Len(E)
                                \/ \E l \in 1 .. Len(R) : k = Len(E) + l
  <2>1. Joined(E \o R, E, R, T)
    BY <1>2, JoinFacts
  <2>2. Joined(t, E, R, T)
    BY <1>0, <2>1
  <2> QED
    BY <2>2, Zenon DEF Joined
<1>4. \A k \in 1 .. Len(E) : E[k] \in Handed(F, E)
  BY DEF Handed
<1>5. \A k \in 1 .. Len(F) : F[k] \in Handed(F, E)
  BY DEF Handed
<1>6. NoneEmpty(t)
  <2>1. ASSUME NEW k \in 1 .. Len(t) PROVE t[k] # <<>>
    <3>1. CASE k \in 1 .. Len(E)
      BY <1>3, <3>1 DEF NoneEmpty, Chain
    <3>2. CASE k \notin 1 .. Len(E)
      <4>1. PICK l \in 1 .. Len(R) : k = Len(E) + l
        BY <1>3, <3>2
      <4>2. t[k] = R[l]
        BY <1>3, <4>1
      <4> QED
        BY <4>2 DEF NoneEmpty
    <3> QED
      BY <3>1, <3>2
  <2> QED
    BY <2>1 DEF NoneEmpty
<1>7. ASSUME NEW i \in 1 .. Len(t), NEW k \in 1 .. Len(t), i < k PROVE Apart(m, t[i], t[k])
  <2>1. CASE i \in 1 .. Len(E) /\ k \in 1 .. Len(E)
    BY <1>3, <1>7, <2>1 DEF Chain, AllApart
  <2>2. CASE i \in 1 .. Len(E) /\ k \notin 1 .. Len(E)
    <3>1. PICK l \in 1 .. Len(R) : k = Len(E) + l
      BY <1>3, <2>2
    <3>2. t[i] = E[i] /\ t[k] = R[l]
      BY <1>3, <2>2, <3>1
    <3> QED
      BY <1>4, <2>2, <3>2 DEF Follows
  <2>3. CASE i \notin 1 .. Len(E)
    <3>1. PICK j \in 1 .. Len(R) : i = Len(E) + j
      BY <1>3, <2>3
    <3>2. k \notin 1 .. Len(E)
      BY <1>3, <1>7, <3>1
    <3>3. PICK l \in 1 .. Len(R) : k = Len(E) + l
      BY <1>3, <3>2
    <3>4. j < l
      BY <1>3, <1>7, <3>1, <3>3
    <3>5. t[i] = R[j] /\ t[k] = R[l]
      BY <1>3, <3>1, <3>3
    <3> QED
      BY <3>4, <3>5 DEF AllApart
  <2> QED
    BY <2>1, <2>2, <2>3
<1>8. ASSUME NEW i \in 1 .. Len(F), NEW k \in 1 .. Len(t) PROVE Apart(m, F[i], t[k])
  <2>1. CASE k \in 1 .. Len(E)
    BY <1>3, <2>1 DEF Chain
  <2>2. CASE k \notin 1 .. Len(E)
    <3>1. PICK l \in 1 .. Len(R) : k = Len(E) + l
      BY <1>3, <2>2
    <3>2. t[k] = R[l]
      BY <1>3, <3>1
    <3> QED
      BY <1>5, <3>2 DEF Follows
  <2> QED
    BY <2>1, <2>2
<1>9. Handed(F, t) = Handed(F, E) \cup Elements(R)
  <2>1. ASSUME NEW k \in 1 .. Len(t) PROVE t[k] \in {E[i] : i \in 1 .. Len(E)} \cup {R[i] : i \in 1 .. Len(R)}
    <3>1. CASE k \in 1 .. Len(E)
      BY <1>3, <3>1
    <3>2. CASE k \notin 1 .. Len(E)
      <4>1. PICK l \in 1 .. Len(R) : k = Len(E) + l
        BY <1>3, <3>2
      <4>2. t[k] = R[l]
        BY <1>3, <4>1
      <4> QED
        BY <4>2
    <3> QED
      BY <3>1, <3>2
  <2>2. \A k \in 1 .. Len(E) : E[k] \in {t[i] : i \in 1 .. Len(t)}
    BY <1>3
  <2>3. \A k \in 1 .. Len(R) : R[k] \in {t[i] : i \in 1 .. Len(t)}
    BY <1>3
  <2>4. {t[i] : i \in 1 .. Len(t)} = {E[i] : i \in 1 .. Len(E)} \cup {R[i] : i \in 1 .. Len(R)}
    BY <2>1, <2>2, <2>3, Zenon
  <2> QED
    BY <2>4, Zenon DEF Handed, Elements
<1>10. Chain(m, F, t)
  BY <1>1, <1>3, <1>6, <1>7, <1>8 DEF Chain, AllApart
<1> QED
  BY <1>0, <1>9, <1>10

LEMMA TailFacts ==
  ASSUME NEW T, NEW E \in Seq(T), E # <<>>, NEW t, t = Tail(E)
  PROVE  /\ t \in Seq(T) /\ Len(E) \in Nat \ {0} /\ Len(t) = Len(E) - 1 /\ Head(E) = E[1] /\ E[1] \in T
         /\ \A k \in 1 .. Len(t) : t[k] = E[k + 1] /\ k + 1 \in 1 .. Len(E) /\ 1 < k + 1
<1>1. Len(E) \in Nat \ {0} /\ t \in Seq(T) /\ Len(t) = Len(E) - 1 /\ Head(E) = E[1]
  BY EmptySeq, LenProperties, HeadTailProperties
<1>2. \A k \in 1 .. Len(t) : t[k] = E[k + 1]
  BY <1>1, HeadTailProperties
<1>3. \A k \in 1 .. Len(t) : k + 1 \in 1 .. Len(E) /\ 1 < k + 1
  BY <1>1
<1>4. E[1] \in T
  BY <1>1, ElementOfSeq
<1> QED
  BY <1>1, <1>2, <1>3, <1>4

LEMMA ChainPush ==
  ASSUME NEW m, NEW F, NEW E, Chain(m, F, E), E # <<>>, NEW G, G = F \/ G = Append(F, Head(E)),
         NEW t, t = Tail(E)
  PROVE  /\ Chain(m, G, t) /\ Handed(G, t) \subseteq Handed(F, E)
         /\ \A o \in Handed(F, E) : o \in Handed(G, t) \/ (o = Head(E) /\ G = F)
<1>1. PICK T : T = Seq(Cell)
  OBVIOUS
<1>2. F \in Seq(T) /\ E \in Seq(T)
  BY <1>1 DEF Chain
<1>3. /\ t \in Seq(T) /\ Len(E) \in Nat \ {0} /\ Len(t) = Len(E) - 1 /\ Head(E) = E[1] /\ E[1] \in T
      /\ \A k \in 1 .. Len(t) : t[k] = E[k + 1] /\ k + 1 \in 1 .. Len(E) /\ 1 < k + 1
  <2> HIDE <1>1
  <2> QED
    BY <1>2, TailFacts
<1>4. 1 \in 1 .. Len(E) /\ \A k \in 1 .. Len(E) : k = 1 \/ (k - 1 \in 1 .. Len(t) /\ t[k - 1] = E[k])
  <2>1. PICK n \in Nat \ {0} : n = Len(E)
    BY <1>3
  <2>2. 1 \in 1 .. n
    OBVIOUS
  <2>3. \A k \in 1 .. n : k = 1 \/ (k - 1 \in 1 .. n - 1 /\ (k - 1) + 1 = k)
    OBVIOUS
  <2> QED
    BY <1>3, <2>1, <2>2, <2>3
<1>5. NoneEmpty(t) /\ AllApart(m, t)
  <2>1. NoneEmpty(t)
    BY <1>3 DEF NoneEmpty, Chain
  <2>2. ASSUME NEW i \in 1 .. Len(t), NEW k \in 1 .. Len(t), i < k PROVE Apart(m, t[i], t[k])
    <3>1. i + 1 < k + 1
      BY <1>3, <2>2
    <3> QED
      BY <1>3, <3>1 DEF Chain, AllApart
  <2> QED
    BY <2>1, <2>2 DEF AllApart
<1>6. \A i \in 1 .. Len(F), k \in 1 .. Len(t) : Apart(m, F[i], t[k])
  BY <1>3 DEF Chain
<1>7. \A k \in 1 .. Len(t) : Apart(m, E[1], t[k])
  BY <1>3, <1>4 DEF Chain, AllApart
<1>8. /\ \A k \in 1 .. Len(t) : t[k] \in Handed(F, E)
      /\ \A k \in 1 .. Len(F) : F[k] \in Handed(F, E)
      /\ E[1] \in Handed(F, E)
  BY <1>3, <1>4 DEF Handed
<1>9. CASE G = F
  <2>1. Chain(m, G, t)
    BY <1>1, <1>3, <1>5, <1>6, <1>9 DEF Chain
  <2>2. Handed(G, t) \subseteq Handed(F, E)
    BY <1>8, <1>9 DEF Handed
  <2>3. ASSUME NEW o \in Handed(F, E) PROVE o \in Handed(G, t) \/ o = Head(E)
    <3>1. CASE \E k \in 1 .. Len(F) : o = F[k]
      BY <1>9, <3>1 DEF Handed
    <3>2. CASE \E k \in 1 .. Len(E) : o = E[k]
      <4>1. PICK k \in 1 .. Len(E) : o = E[k]
        BY <3>2
      <4>2. k = 1 \/ (k - 1 \in 1 .. Len(t) /\ t[k - 1] = o)
        BY <1>4, <4>1
      <4>3. k = 1 => o = Head(E)
        BY <1>3, <4>1
      <4>4. \A i \in 1 .. Len(t) : t[i] \in Handed(G, t)
        BY DEF Handed
      <4> QED
        BY <4>2, <4>3, <4>4
    <3> QED
      BY <3>1, <3>2 DEF Handed
  <2> QED
    BY <1>9, <2>1, <2>2, <2>3
<1>10. CASE G = Append(F, Head(E))
  <2>1. PICK q \in T : q = E[1] /\ q = Head(E)
    BY <1>3
  <2>2. G = Append(F, q)
    BY <1>10, <2>1
  <2>3. /\ G \in Seq(T) /\ Len(F) \in Nat /\ Len(G) = Len(F) + 1 /\ G[Len(G)] = q
        /\ \A k \in 1 .. Len(F) : G[k] = F[k]
        /\ \A k \in 1 .. Len(G) : k \in 1 .. Len(F) \/ k = Len(G)
    <3> HIDE <1>1
    <3> QED
      BY <1>2, <2>2, AppendFacts
  <2>4. \A k \in 1 .. Len(F) : k \in 1 .. Len(G)
    BY <2>3
  <2>5. Len(G) \in 1 .. Len(G)
    BY <2>3
  <2>6. NoneEmpty(G)
    BY <1>4, <2>1, <2>3 DEF NoneEmpty, Chain
  <2>7. ASSUME NEW i \in 1 .. Len(G), NEW k \in 1 .. Len(G), i < k PROVE Apart(m, G[i], G[k])
    <3>1. i \in 1 .. Len(F)
      BY <2>3, <2>7
    <3>2. CASE k \in 1 .. Len(F)
      BY <2>3, <2>7, <3>1, <3>2 DEF Chain, AllApart
    <3>3. CASE k = Len(G)
      BY <1>4, <2>1, <2>3, <3>1, <3>3 DEF Chain
    <3> QED
      BY <2>3, <3>2, <3>3
  <2>8. ASSUME NEW i \in 1 .. Len(G), NEW k \in 1 .. Len(t) PROVE Apart(m, G[i], t[k])
    <3>1. CASE i \in 1 .. Len(F)
      BY <1>6, <2>3, <3>1
    <3>2. CASE i = Len(G)
      BY <1>7, <2>1, <2>3, <3>2
    <3> QED
      BY <2>3, <3>1, <3>2
  <2>9. Chain(m, G, t)
    BY <1>1, <1>3, <1>5, <2>3, <2>6, <2>7, <2>8 DEF Chain, AllApart
  <2>10. Handed(G, t) \subseteq Handed(F, E)
    <3>1. \A k \in 1 .. Len(G) : G[k] \in Handed(F, E)
      BY <1>8, <2>1, <2>3
    <3> QED
      BY <1>8, <3>1 DEF Handed
  <2>11. ASSUME NEW o \in Handed(F, E) PROVE o \in Handed(G, t)
    <3>1. CASE \E k \in 1 .. Len(F) : o = F[k]
      BY <2>3, <2>4, <3>1 DEF Handed
    <3>2. CASE \E k \in 1 .. Len(E) : o = E[k]
      <4>1. PICK k \in 1 .. Len(E) : o = E[k]
        BY <3>2
      <4>2. CASE k = 1
        BY <2>1, <2>3, <2>5, <4>1, <4>2 DEF Handed
      <4>3. CASE k # 1
        BY <1>4, <4>1, <4>3 DEF Handed
      <4> QED
        BY <4>2, <4>3
    <3> QED
      BY <3>1, <3>2 DEF Handed
  <2> QED
    BY <2>9, <2>10, <2>11
<1> QED
  BY <1>9, <1>10

\* o began before p, and before the section that is being collected.
Older(o, psi, p) ==
  HeadOK(o) /\ Origin(o) < p /\ (psi.buffer # <<>> => Num(o) < Num(psi.buffer))
AllOlder(F, E, psi, p) == \A o \in Handed(F, E) : Older(o, psi, p)

LEMMA OlderStep ==
  ASSUME NEW psi, NEW p \in Nat, NEW e \in Nat, p < e, NEW o, Older(o, psi, p), NEW r, ResultOK(r, psi, p, e)
  PROVE  Older(o, r.psi, e) /\ \A k \in 1 .. Len(r.out) : Num(o) < Num(r.out[k])
<1>1. Num(o) \in Sections /\ Origin(o) \in Nat /\ Origin(o) < p
  BY EndFacts DEF Older, HeadOK, Origin
<1>2. ASSUME NEW q, HeadOK(q), Since(q, psi, p) PROVE Num(o) < Num(q)
  <2>1. CASE p <= Origin(q)
    <3>1. Num(q) \in Sections /\ Origin(q) \in Nat
      BY <1>2, EndFacts DEF HeadOK, Origin
    <3>2. Origin(o) < Origin(q)
      BY <1>1, <2>1, <3>1
    <3> QED
      BY <1>1, <3>1, <3>2, LaterSection DEF Origin
  <2>2. CASE psi.buffer # <<>> /\ Num(q) = Num(psi.buffer)
    BY <2>2 DEF Older
  <2> QED
    BY <1>2, <2>1, <2>2 DEF Since
<1>3. Origin(o) < e
  BY <1>1
<1> QED
  BY <1>2, <1>3 DEF Older, ResultOK, PsiOK

LEMMA MpeChain ==
  ASSUME NEW psi, NEW p \in Nat, NEW e \in Nat, p < e, NEW r, ResultOK(r, psi, p, e),
         NEW F, NEW E, Chain("mpe", F, E), AllOlder(F, E, psi, p),
         NEW X, X = ExtractEdi(r.out)
  PROVE  /\ Chain("mpe", F, E \o X) /\ AllOlder(F, E \o X, r.psi, e)
         /\ Handed(F, E \o X) = Handed(F, E) \cup Elements(X)
<1>1. PICK T, s : T = Seq(Cell) /\ s = r.out
  OBVIOUS
<1>2. s \in Seq(T)
  BY <1>1 DEF ResultOK
<1>3. ExtractEdi(s) \in Seq(T) /\ Kept(ExtractEdi(s), s, Len(s))
  <2> HIDE <1>1
  <2> QED
    BY <1>2, ExtractKept
<1>4. X \in Seq(Seq(Cell)) /\ Kept(X, s, Len(s))
  BY <1>1, <1>3
<1>5. ASSUME NEW k \in 1 .. Len(X) PROVE \E i \in 1 .. Len(s) : X[k] = r.out[i]
  BY <1>1, <1>4 DEF Kept
<1>6. Rising(X)
  BY <1>1, <1>4 DEF Kept, Rising, ResultOK
<1>7. ASSUME NEW k \in 1 .. Len(X) PROVE Older(X[k], r.psi, e) /\ X[k] # <<>>
  BY <1>1, <1>5 DEF ResultOK, Older, HeadOK
<1>8. NoneEmpty(X) /\ AllApart("mpe", X)
  BY <1>6, <1>7 DEF NoneEmpty, AllApart, Apart, Rising
<1>9. ASSUME NEW o \in Handed(F, E) PROVE Older(o, r.psi, e) /\ \A k \in 1 .. Len(X) : Apart("mpe", o, X[k])
  <2>1. Older(o, r.psi, e) /\ \A i \in 1 .. Len(s) : Num(o) < Num(r.out[i])
    BY <1>1, OlderStep DEF AllOlder
  <2> QED
    BY <1>5, <2>1 DEF Apart
<1>10. Follows("mpe", F, E, X)
  BY <1>9 DEF Follows
<1>11. Chain("mpe", F, E \o X) /\ Handed(F, E \o X) = Handed(F, E) \cup Elements(X)
  BY <1>4, <1>8, <1>10, ChainExtend
<1>12. \A o \in Handed(F, E \o X) : Older(o, r.psi, e)
  <2>1. \A o \in Elements(X) : Older(o, r.psi, e)
    BY <1>7 DEF Elements
  <2> QED
    BY <1>9, <1>11, <2>1
<1> QED
  BY <1>11, <1>12 DEF AllOlder
-----------------------------------------------------------------------------
(* The inductive invariant.                                                *)

MaxCc == IF mode = "gse" THEN FrameLen ELSE CcMod - 1

TypeInv ==
  /\ mode \in Modes /\ mux \in [pos : Nat, cc : 0 .. MaxCc]
  /\ PsiOK(m_psi, mux.pos)
  /\ m_bbframe \in Seq(Cell) /\ Len(m_bbframe) <= FrameLen
  /\ fragments \in [0 .. FragIds - 1 -> Seq(Cell)]
  /\ mcast_loop \in {"receive", "push", "last push", "thrown", "done"}
  /\ losses \in 0 .. MaxLost /\ marred \subseteq Sections

OutInv ==
  /\ Chain(mode, forwarded, extracted)
  /\ \A k \in 1 .. Len(forwarded) : IsWhole(forwarded[k])

\* A BBFrame that is being collected was begun, and not the one before it.
FrameOK(bb, m) ==
  bb # <<>> => \E b \in Frames : bb[1] = <<b, 0>> /\ b <= m.pos + 1 /\ (m.cc = 0 => b <= m.pos)
\* The last BBFrame that will not be looked at any more.
Limit(bb, m) == IF bb # <<>> THEN bb[1][1] - 1 ELSE IF m.cc = 0 THEN m.pos ELSE m.pos + 1
EndsBy(o, l) == \/ Tip(o) = Junk
                \/ \E b \in Frames, j \in 1 .. FrameLen : b <= l /\ Tip(o) = BBFrames[b][j]
SentBy(o, p) == Tip(o) = Junk \/ (Tip(o)[1] \in Nat /\ Tip(o)[1] <= p)
AllEnd(F, E, l) == \A o \in Handed(F, E) : EndsBy(o, l)
AllSent(F, E, p) == \A o \in Handed(F, E) : SentBy(o, p)

MpeInv == mode = "mpe" => AllOlder(forwarded, extracted, m_psi, mux.pos)
GseInv == mode = "gse" =>
  /\ FrameOK(m_bbframe, mux)
  /\ AllEnd(forwarded, extracted, Limit(m_bbframe, mux))
UdpInv == mode = "udp" => AllSent(forwarded, extracted, mux.pos)

Inv == TypeInv /\ OutInv /\ MpeInv /\ GseInv /\ UdpInv

LEMMA ConstantFacts ==
  /\ FrameLen \in Nat \ {0} /\ CcMod \in Nat \ {0} /\ FragIds \in Nat \ {0} /\ MaxLost \in Nat
  /\ TsBody \in Nat
BY McastAssumption

LEMMA InitInv ==
  ASSUME McastInit
  PROVE  Inv
<1>1. <<>> \in Seq(Cell) /\ Len(<<>>) = 0 /\ <<>> \in Seq(Seq(Cell))
  OBVIOUS
<1>2. TypeInv
  <2>1. m_psi \in PsiType /\ m_psi.buffer = <<>>
    BY <1>1, ConstantFacts DEF McastInit, NoSection, PsiType
  <2>2. mux \in [pos : Nat, cc : 0 .. MaxCc]
    BY ConstantFacts DEF McastInit, MaxCc
  <2>3. fragments \in [0 .. FragIds - 1 -> Seq(Cell)]
    BY <1>1 DEF McastInit
  <2>4. Len(m_bbframe) <= FrameLen /\ losses \in 0 .. MaxLost
    BY <1>1, ConstantFacts DEF McastInit
  <2> QED
    BY <1>1, <2>1, <2>2, <2>3, <2>4 DEF McastInit, TypeInv, PsiOK
<1>3. OutInv /\ Handed(forwarded, extracted) = {}
  <2>1. forwarded = <<>> /\ extracted = <<>>
    BY DEF McastInit
  <2>2. Handed(<<>>, <<>>) = {}
    BY <1>1 DEF Handed
  <2>3. Chain(mode, <<>>, <<>>)
    BY <1>1 DEF Chain, NoneEmpty, AllApart
  <2> QED
    BY <1>1, <2>1, <2>2, <2>3 DEF OutInv
<1>4. FrameOK(m_bbframe, mux)
  BY DEF FrameOK, McastInit
<1> QED
  BY <1>2, <1>3, <1>4 DEF Inv, MpeInv, AllOlder, GseInv, AllEnd, UdpInv, AllSent

LEMMA PacketSections ==
  ASSUME mux.pos \in Nat, NEW e \in PacketEnds
  PROVE  SectionsIn(TSPacket(e)) \subseteq Sections
<1>1. PICK ts : ts = TSPacket(e)
  OBVIOUS
<1>2. /\ Carries(ts, mux.pos, e, SectionAt(e))
      /\ \A k \in 1 .. e - mux.pos : /\ mux.pos + k \in 1 .. StreamEnd
                                     /\ ts.body[k] = PieceAt(mux.pos + k)
  BY <1>1, CarriesPieces
<1>3. ASSUME NEW k \in 1 .. Len(ts.body) PROVE ts.body[k][1] \in Sections
  <2>1. k \in 1 .. e - mux.pos
    BY <1>2 DEF Carries
  <2>2. PICK q \in 1 .. StreamEnd : ts.body[k] = PieceAt(q)
    BY <1>2, <2>1
  <2>3. Within(q, SectionAt(q))
    BY Located
  <2> QED
    BY <2>2, <2>3 DEF PieceAt, Within
<1> QED
  BY <1>1, <1>3 DEF SectionsIn

LEMMA Later ==
  ASSUME NEW p \in Nat, NEW q \in Nat, p <= q
  PROVE  /\ \A psi : PsiOK(psi, p) => PsiOK(psi, q)
         /\ \A o, psi : Older(o, psi, p) => Older(o, psi, q)
         /\ \A o : SentBy(o, p) => SentBy(o, q)
         /\ \A o : EndsBy(o, p) => EndsBy(o, q)
<1>1. ASSUME NEW o, HeadOK(o), Origin(o) < p PROVE Origin(o) < q
  <2>1. Origin(o) \in Nat
    BY <1>1, EndFacts DEF HeadOK, Origin
  <2> QED
    BY <1>1, <2>1
<1>2. \A b \in Frames : b <= p => b <= q
  <2>1. Len(BBFrames) \in Nat
    BY McastAssumption, LenProperties
  <2>2. \A b \in Frames : b \in Nat
    BY <2>1 DEF Frames
  <2> QED
    BY <2>2
<1>3. \A psi : PsiOK(psi, p) => PsiOK(psi, q)
  BY <1>1 DEF PsiOK
<1>4. \A o, psi : Older(o, psi, p) => Older(o, psi, q)
  BY <1>1 DEF Older
<1>5. \A o : SentBy(o, p) => SentBy(o, q)
  BY DEF SentBy
<1>6. \A o : EndsBy(o, p) => EndsBy(o, q)
  BY <1>2 DEF EndsBy
<1> QED
  BY <1>3, <1>4, <1>5, <1>6

\* What a packet of MPEDeframer does to the deframer, wherever it comes.
LEMMA ReceivedMPE ==
  ASSUME TypeInv, mode = "mpe", NEW e \in PacketEnds, NEW any \in 0 .. TsBody + 1,
         NEW r, r = ProcessTS(m_psi, TSPacket(e), any)
  PROVE  /\ ResultOK(r, m_psi, mux.pos, e) /\ mux.pos \in Nat /\ e \in Nat /\ mux.pos < e
         /\ Passed(e) \in [pos : Nat, cc : 0 .. CcMod - 1] /\ Passed(e).pos = e
<1>1. mux.pos \in Nat /\ mux.cc \in 0 .. CcMod - 1 /\ PsiOK(m_psi, mux.pos) /\ any \in Nat
  <2>1. any \in Nat
    BY ConstantFacts
  <2>2. MaxCc = CcMod - 1
    BY DEF MaxCc
  <2> QED
    BY <2>1, <2>2 DEF TypeInv
<1>2. PICK ts, z : ts = TSPacket(e) /\ z = SectionAt(e)
  OBVIOUS
<1>3. /\ Carries(ts, mux.pos, e, z) /\ ts.cc = mux.cc
      /\ ts.start => \E f : Starts(ts, mux.pos, e, z, f)
  BY <1>1, <1>2, PacketFacts
<1>4. r = ProcessTS(m_psi, ts, any) /\ ts.cc \in 0 .. CcMod - 1
  BY <1>1, <1>2, <1>3
<1>5. ResultOK(r, m_psi, mux.pos, e)
  BY <1>1, <1>3, <1>4, ProcessHeads
<1>6. e \in Nat /\ mux.pos < e
  BY <1>3 DEF Carries
<1>7. (mux.cc + 1) % CcMod \in 0 .. CcMod - 1
  BY <1>1, ConstantFacts
<1> QED
  BY <1>1, <1>5, <1>6, <1>7 DEF Passed

LEMMA ReceiveMPEInv ==
  ASSUME Inv, ReceiveMPE
  PROVE  Inv'
<1>1. PICK e \in PacketEnds, any \in 0 .. TsBody + 1 :
        /\ m_psi' = ProcessTS(m_psi, TSPacket(e), any).psi
        /\ extracted' = extracted \o ExtractEdi(ProcessTS(m_psi, TSPacket(e), any).out)
        /\ mux' = Passed(e)
        /\ marred' = IF lossRun.now > 0 THEN marred \cup SectionsIn(TSPacket(e)) ELSE marred
  BY DEF ReceiveMPE
<1>2. mode = "mpe" /\ UNCHANGED <<mode, m_bbframe, fragments, mcast_loop, forwarded, losses>>
  BY DEF ReceiveMPE
<1>3. TypeInv /\ Chain("mpe", forwarded, extracted)
      /\ AllOlder(forwarded, extracted, m_psi, mux.pos)
  BY <1>2 DEF Inv, OutInv, MpeInv
<1>4. PICK r, X : r = ProcessTS(m_psi, TSPacket(e), any) /\ X = ExtractEdi(r.out)
  OBVIOUS
<1>5. /\ ResultOK(r, m_psi, mux.pos, e) /\ mux.pos \in Nat /\ e \in Nat /\ mux.pos < e
      /\ mux' \in [pos : Nat, cc : 0 .. CcMod - 1] /\ mux'.pos = e
  BY <1>1, <1>2, <1>3, <1>4, ReceivedMPE
<1>6. /\ Chain("mpe", forwarded, extracted \o X)
      /\ AllOlder(forwarded, extracted \o X, r.psi, e)
  BY <1>3, <1>4, <1>5, MpeChain
<1>7. extracted' = extracted \o X /\ m_psi' = r.psi /\ forwarded' = forwarded
  BY <1>1, <1>2, <1>4
<1>8. marred' \subseteq Sections
  <2>1. SectionsIn(TSPacket(e)) \subseteq Sections
    BY <1>5, PacketSections
  <2>2. marred \subseteq Sections
    BY <1>3 DEF TypeInv
  <2> QED
    BY <1>1, <2>1, <2>2
<1>9. PsiOK(m_psi', mux'.pos)
  BY <1>5, <1>7 DEF ResultOK
<1>10. TypeInv'
  <2>1. MaxCc' = CcMod - 1
    BY <1>2 DEF MaxCc
  <2> QED
    BY <1>2, <1>3, <1>5, <1>8, <1>9, <2>1 DEF TypeInv
<1>11. OutInv'
  <2>1. \A d : IsWhole(d)' <=> IsWhole(d)
    BY <1>2 DEF IsWhole, Whole, Lens
  <2> QED
    BY <1>2, <1>6, <1>7, <2>1 DEF OutInv, Inv
<1> QED
  BY <1>2, <1>5, <1>6, <1>7, <1>10, <1>11 DEF Inv, MpeInv, GseInv, UdpInv

LEMMA LoseMPEInv ==
  ASSUME Inv, LoseMPE
  PROVE  Inv'
<1>1. PICK e \in PacketEnds : mux' = Passed(e) /\ marred' = marred \cup SectionsIn(TSPacket(e))
  BY DEF LoseMPE
<1>2. /\ mode = "mpe" /\ losses < MaxLost /\ losses' = losses + 1
      /\ UNCHANGED <<mode, m_psi, m_bbframe, fragments, extracted, mcast_loop, forwarded>>
  BY DEF LoseMPE, PacketLost
<1>3. TypeInv /\ OutInv /\ AllOlder(forwarded, extracted, m_psi, mux.pos)
  BY <1>2 DEF Inv, OutInv, MpeInv
<1>4. mux.pos \in Nat /\ e \in Nat /\ mux.pos < e /\ mux' \in [pos : Nat, cc : 0 .. CcMod - 1] /\ mux'.pos = e
  <2>1. 0 \in 0 .. TsBody + 1
    BY ConstantFacts
  <2>2. PICK r : r = ProcessTS(m_psi, TSPacket(e), 0)
    OBVIOUS
  <2> QED
    BY <1>1, <1>2, <1>3, <2>1, <2>2, ReceivedMPE
<1>5. marred' \subseteq Sections
  <2>1. SectionsIn(TSPacket(e)) \subseteq Sections
    BY <1>4, PacketSections
  <2> QED
    BY <1>1, <1>3, <2>1 DEF TypeInv
<1>6. PsiOK(m_psi', mux'.pos) /\ AllOlder(forwarded', extracted', m_psi', mux'.pos)
  <2>1. PsiOK(m_psi, e) /\ AllOlder(forwarded, extracted, m_psi, e)
    <3>1. PICK p \in Nat : p = mux.pos /\ p <= e
      BY <1>4
    <3>2. /\ PsiOK(m_psi, p) => PsiOK(m_psi, e)
          /\ \A o : Older(o, m_psi, p) => Older(o, m_psi, e)
      BY <1>4, <3>1, Later
    <3>3. PsiOK(m_psi, p)
      BY <1>3, <3>1 DEF TypeInv
    <3> QED
      BY <1>3, <3>1, <3>2, <3>3 DEF AllOlder
  <2> QED
    BY <1>2, <1>4, <2>1
<1>7. TypeInv'
  <2>1. MaxCc' = CcMod - 1
    BY <1>2 DEF MaxCc
  <2>2. losses' \in 0 .. MaxLost
    <3>1. losses \in 0 .. MaxLost /\ MaxLost \in Nat
      BY <1>3, ConstantFacts DEF TypeInv
    <3> QED
      BY <1>2, <3>1
  <2> QED
    BY <1>2, <1>3, <1>4, <1>5, <1>6, <2>1, <2>2 DEF TypeInv
<1>8. OutInv'
  <2>1. \A d : IsWhole(d)' <=> IsWhole(d)
    BY <1>2 DEF IsWhole, Whole, Lens
  <2> QED
    BY <1>2, <1>3, <2>1 DEF OutInv
<1> QED
  BY <1>2, <1>6, <1>7, <1>8 DEF Inv, MpeInv, GseInv, UdpInv

\* The BBFrame that is being collected, when its next piece has passed.
LEMMA FrameStep ==
  ASSUME TypeInv, mode = "gse", mux.pos < Len(BBFrames), FrameOK(m_bbframe, mux)
  PROVE  /\ PassedBB \in [pos : Nat, cc : 0 .. FrameLen] /\ mux.pos \in Nat /\ mux.pos <= PassedBB.pos
         /\ Collected \in Seq(Cell) /\ Len(Collected) \in Nat /\ Len(Collected) <= FrameLen + 1
         /\ Limit(m_bbframe, mux) \in Nat
         /\ \A bb \in {m_bbframe, Collected} :
              /\ FrameOK(bb, PassedBB) /\ Limit(bb, PassedBB) \in Nat
              /\ Limit(m_bbframe, mux) <= Limit(bb, PassedBB)
         /\ Len(Collected) = FrameLen + 1 =>
              /\ Collected[1][1] \in Frames /\ Collected[1][1] \in Nat
              /\ Limit(m_bbframe, mux) < Collected[1][1]
              /\ Collected[1][1] <= Limit(<<>>, PassedBB) /\ Limit(<<>>, PassedBB) \in Nat
<1>1. /\ FrameLen \in Nat \ {0} /\ mux.pos \in Nat /\ mux.cc \in 0 .. FrameLen /\ mux.cc \in Nat
      /\ mux = [pos |-> mux.pos, cc |-> mux.cc]
      /\ m_bbframe \in Seq(Cell) /\ Len(m_bbframe) <= FrameLen /\ Len(m_bbframe) \in Nat
  <2>1. MaxCc = FrameLen
    BY DEF MaxCc
  <2>2. mux \in [pos : Nat, cc : 0 .. FrameLen]
    BY <2>1 DEF TypeInv
  <2>3. /\ m_bbframe \in Seq(Cell) /\ Len(m_bbframe) <= FrameLen /\ Len(m_bbframe) \in Nat
    BY LenProperties DEF TypeInv
  <2> QED
    BY <2>2, <2>3, ConstantFacts
<1>2. PICK p \in Nat, c \in Nat : p = mux.pos /\ c = mux.cc /\ c <= FrameLen
  BY <1>1
<1>3. PICK q, d : q = PassedBB.pos /\ d = PassedBB.cc
  OBVIOUS
<1>4. /\ PassedBB = [pos |-> q, cc |-> d] /\ q \in Nat /\ d \in 0 .. FrameLen /\ d \in Nat /\ p <= q
      /\ \/ (q = p /\ d = c + 1 /\ c < FrameLen) \/ (q = p + 1 /\ d = 0 /\ c = FrameLen)
  <2>1. PassedBB = IF c < FrameLen THEN [pos |-> p, cc |-> c + 1] ELSE [pos |-> p + 1, cc |-> 0]
    BY <1>1, <1>2 DEF PassedBB
  <2>2. CASE c < FrameLen
    <3>1. PassedBB = [pos |-> p, cc |-> c + 1]
      BY <2>1, <2>2
    <3>2. q = p /\ d = c + 1
      BY <1>3, <3>1
    <3> QED
      BY <1>1, <1>2, <2>2, <3>1, <3>2
  <2>3. CASE ~(c < FrameLen)
    <3>1. PassedBB = [pos |-> p + 1, cc |-> 0]
      BY <2>1, <2>3
    <3>2. q = p + 1 /\ d = 0
      BY <1>3, <3>1
    <3> QED
      BY <1>1, <1>2, <2>3, <3>1, <3>2
  <2> QED
    BY <2>2, <2>3
<1>5. PICK x : x = <<p + 1, c>>
  OBVIOUS
<1>6. x \in Cell /\ BBPiece = x
  BY <1>2, <1>5 DEF Cell, BBPiece
<1>7. PICK y : y = Append(m_bbframe, x)
  OBVIOUS
<1>8. /\ y \in Seq(Cell) /\ Len(y) = Len(m_bbframe) + 1 /\ y[Len(y)] = x
      /\ \A k \in 1 .. Len(m_bbframe) : y[k] = m_bbframe[k]
  BY <1>1, <1>6, <1>7, AppendFacts
<1>9. m_bbframe = <<>> <=> Len(m_bbframe) = 0
  BY <1>1, EmptySeq
<1>10. Collected = IF m_bbframe = <<>> /\ c # 0 THEN <<>> ELSE y
  BY <1>5, <1>6, <1>7 DEF Collected
<1>11. Len(BBFrames) \in Nat /\ \A b \in Frames : b \in Nat \ {0}
  BY McastAssumption, LenProperties DEF Frames
<1>12. /\ Limit(<<>>, PassedBB) = IF d = 0 THEN q ELSE q + 1
       /\ m_bbframe = <<>> => Limit(m_bbframe, mux) = IF c = 0 THEN p ELSE p + 1
  BY <1>2, <1>3 DEF Limit
<1>13. CASE m_bbframe = <<>> /\ c # 0
  <2>1. Collected = <<>>
    BY <1>10, <1>13
  <2>2. Limit(m_bbframe, mux) = p + 1 /\ Limit(<<>>, PassedBB) = p + 1
    BY <1>2, <1>4, <1>12, <1>13
  <2>3. FrameOK(<<>>, PassedBB)
    BY DEF FrameOK
  <2>4. <<>> \in Seq(Cell) /\ Len(<<>>) = 0
    OBVIOUS
  <2>5. 0 <= FrameLen + 1 /\ 0 # FrameLen + 1 /\ p + 1 \in Nat /\ p + 1 <= p + 1
    BY <1>1
  <2> QED
    BY <1>2, <1>3, <1>4, <1>13, <2>1, <2>2, <2>3, <2>4, <2>5
<1>14. CASE m_bbframe = <<>> /\ c = 0
  <2>1. Collected = y /\ Len(y) = 1 /\ y # <<>> /\ y[1] = <<p + 1, 0>>
    <3>1. Collected = y
      BY <1>10, <1>14
    <3>2. Len(m_bbframe) = 0
      BY <1>9, <1>14
    <3>3. Len(y) = 1 /\ x = <<p + 1, 0>>
      BY <1>5, <1>8, <1>14, <3>2
    <3>4. y[1] = x
      BY <1>8, <3>3
    <3>5. y # <<>>
      BY <1>8, <3>3, EmptySeq
    <3> QED
      BY <3>1, <3>3, <3>4, <3>5
  <2>2. q = p /\ d = 1
    BY <1>1, <1>4, <1>14
  <2>3. Limit(m_bbframe, mux) = p /\ Limit(<<>>, PassedBB) = p + 1
    BY <1>12, <1>14, <2>2
  <2>4. y[1][1] = p + 1 /\ Limit(y, PassedBB) = (p + 1) - 1
    BY <2>1 DEF Limit
  <2>5. p + 1 \in Frames
    BY <1>2, <1>11 DEF Frames
  <2>6. FrameOK(y, PassedBB)
    BY <1>3, <2>1, <2>2, <2>5 DEF FrameOK
  <2>7. FrameOK(<<>>, PassedBB)
    BY DEF FrameOK
  <2>8. 1 <= FrameLen + 1 /\ 1 # FrameLen + 1 /\ (p + 1) - 1 = p /\ p + 1 \in Nat /\ p <= p + 1 /\ p <= p
    BY <1>1
  <2> QED
    BY <1>2, <1>3, <1>4, <1>8, <1>14, <2>1, <2>3, <2>4, <2>6, <2>7, <2>8
<1>15. CASE m_bbframe # <<>>
  <2>1. PICK b \in Frames : m_bbframe[1] = <<b, 0>> /\ b <= p + 1 /\ (c = 0 => b <= p)
    BY <1>2, <1>15 DEF FrameOK
  <2>2. Collected = y /\ 1 \in 1 .. Len(m_bbframe)
    BY <1>1, <1>9, <1>10, <1>15
  <2>3. y[1] = <<b, 0>> /\ y # <<>> /\ Len(y) \in Nat /\ Len(y) <= FrameLen + 1
    BY <1>1, <1>8, <2>1, <2>2, EmptySeq, SMTT(30)
  <2>4. b \in Nat \ {0} /\ b - 1 \in Nat /\ b - 1 < b /\ b - 1 <= b - 1
    BY <1>11
  <2>5. b <= q + 1 /\ (d = 0 => b <= q)
    BY <1>2, <1>4, <2>1, <2>4
  <2>6. /\ Limit(m_bbframe, mux) = b - 1 /\ Limit(m_bbframe, PassedBB) = b - 1
        /\ Limit(y, PassedBB) = b - 1
    BY <1>15, <2>1, <2>3 DEF Limit
  <2>7. FrameOK(m_bbframe, PassedBB) /\ FrameOK(y, PassedBB)
    BY <1>3, <2>1, <2>3, <2>5 DEF FrameOK
  <2>8. Limit(<<>>, PassedBB) \in Nat /\ b <= Limit(<<>>, PassedBB)
    BY <1>4, <1>12, <2>4, <2>5
  <2>9. y[1][1] = b
    BY <2>3
  <2> QED
    BY <1>2, <1>3, <1>4, <1>8, <2>2, <2>3, <2>4, <2>6, <2>7, <2>8, <2>9
<1> QED
  BY <1>13, <1>14, <1>15

LEMMA GseChain ==
  ASSUME NEW F, NEW E, Chain("gse", F, E), NEW l \in Nat, AllEnd(F, E, l), NEW n \in Nat,
         NEW b \in Frames, l < b, b <= n, NEW R \in Seq(Seq(Cell)), Ended(R, b)
  PROVE  Chain("gse", F, E \o R) /\ AllEnd(F, E \o R, n)
<1>1. \A c \in Frames : c \in Nat
  <2>1. Len(BBFrames) \in Nat
    BY McastAssumption, LenProperties
  <2> QED
    BY <2>1 DEF Frames
<1>2. NoneEmpty(R) /\ AllApart("gse", R)
  BY DEF Ended, NoneEmpty, AllApart, Apart
<1>3. ASSUME NEW o \in Handed(F, E), NEW k \in 1 .. Len(R) PROVE Apart("gse", o, R[k])
  <2>1. SUFFICES ASSUME Tip(o) # Junk, Tip(o) = Tip(R[k]) PROVE FALSE
    BY DEF Apart
  <2>2. PICK c \in Frames, i \in 1 .. FrameLen : c <= l /\ Tip(o) = BBFrames[c][i]
    BY <2>1 DEF AllEnd, EndsBy
  <2>3. PICK j \in 1 .. FrameLen : Tip(R[k]) = BBFrames[b][j]
    BY <2>1 DEF Ended
  <2>4. c = b
    BY <2>1, <2>2, <2>3, FragmentFacts
  <2> QED
    BY <1>1, <2>2, <2>4
<1>4. Follows("gse", F, E, R)
  BY <1>3 DEF Follows
<1>5. Chain("gse", F, E \o R) /\ Handed(F, E \o R) = Handed(F, E) \cup Elements(R)
  BY <1>2, <1>4, ChainExtend
<1>6. \A o \in Handed(F, E) : EndsBy(o, n)
  <2>1. l <= n
    BY <1>1
  <2>2. \A o : EndsBy(o, l) => EndsBy(o, n)
    BY <2>1, Later
  <2> QED
    BY <2>2 DEF AllEnd
<1>7. \A o \in Elements(R) : EndsBy(o, n)
  BY DEF Elements, Ended, EndsBy
<1> QED
  BY <1>5, <1>6, <1>7 DEF AllEnd

LEMMA GSETypes ==
  ASSUME Inv, mode = "gse", mux' \in [pos : Nat, cc : 0 .. FrameLen], mux.pos \in Nat, mux.pos <= mux'.pos,
         UNCHANGED <<mode, m_psi, mcast_loop, forwarded, marred>>,
         m_bbframe' \in Seq(Cell), Len(m_bbframe') <= FrameLen,
         fragments' \in [0 .. FragIds - 1 -> Seq(Cell)], losses' \in 0 .. MaxLost,
         Chain("gse", forwarded, extracted'), FrameOK(m_bbframe', mux'),
         AllEnd(forwarded, extracted', Limit(m_bbframe', mux'))
  PROVE  Inv'
<1>1. PsiOK(m_psi', mux'.pos)
  <2>1. PICK p \in Nat, q \in Nat : p = mux.pos /\ q = mux'.pos /\ p <= q
    OBVIOUS
  <2>2. PsiOK(m_psi, p) => PsiOK(m_psi, q)
    BY <2>1, Later
  <2>3. PsiOK(m_psi, p)
    BY <2>1 DEF Inv, TypeInv
  <2> QED
    BY <2>1, <2>2, <2>3
<1>2. MaxCc' = FrameLen
  BY DEF MaxCc
<1>3. TypeInv'
  BY <1>1, <1>2 DEF Inv, TypeInv
<1>4. \A d : IsWhole(d)' <=> IsWhole(d)
  BY DEF IsWhole, Whole, Lens
<1>5. OutInv'
  BY <1>4 DEF Inv, OutInv
<1>6. mode' = "gse" /\ forwarded' = forwarded
  OBVIOUS
<1> QED
  BY <1>3, <1>5, <1>6 DEF Inv, MpeInv, GseInv, UdpInv

LEMMA LoseGSEInv ==
  ASSUME Inv, LoseGSE
  PROVE  Inv'
<1>1. /\ mode = "gse" /\ mux.pos < Len(BBFrames) /\ mux' = PassedBB /\ losses < MaxLost /\ losses' = losses + 1
      /\ UNCHANGED <<mode, m_psi, m_bbframe, fragments, extracted, mcast_loop, forwarded, marred>>
  BY DEF LoseGSE, MoreBB, PacketLost
<1>2. TypeInv /\ FrameOK(m_bbframe, mux) /\ Chain("gse", forwarded, extracted)
      /\ AllEnd(forwarded, extracted, Limit(m_bbframe, mux))
  BY <1>1 DEF Inv, OutInv, GseInv
<1>3. /\ mux' \in [pos : Nat, cc : 0 .. FrameLen] /\ mux.pos \in Nat /\ mux.pos <= mux'.pos
      /\ Limit(m_bbframe, mux) \in Nat /\ FrameOK(m_bbframe, mux') /\ Limit(m_bbframe, mux') \in Nat
      /\ Limit(m_bbframe, mux) <= Limit(m_bbframe, mux')
  BY <1>1, <1>2, FrameStep
<1>4. PICK l \in Nat, n \in Nat : l = Limit(m_bbframe, mux) /\ n = Limit(m_bbframe, mux') /\ l <= n
  BY <1>3
<1>5. \A o : EndsBy(o, l) => EndsBy(o, n)
  BY <1>4, Later
<1>6. AllEnd(forwarded, extracted', Limit(m_bbframe', mux'))
  BY <1>1, <1>2, <1>4, <1>5 DEF AllEnd
<1>7. losses' \in 0 .. MaxLost
  <2>1. losses \in 0 .. MaxLost /\ MaxLost \in Nat
    BY <1>2, ConstantFacts DEF TypeInv
  <2> QED
    BY <1>1, <2>1
<1>8. /\ m_bbframe' \in Seq(Cell) /\ Len(m_bbframe') <= FrameLen
      /\ fragments' \in [0 .. FragIds - 1 -> Seq(Cell)] /\ extracted' = extracted
      /\ FrameOK(m_bbframe', mux')
  BY <1>1, <1>2, <1>3 DEF TypeInv
<1> QED
  BY <1>1, <1>2, <1>3, <1>6, <1>7, <1>8, GSETypes

LEMMA ReceiveGSEInv ==
  ASSUME Inv, ReceiveGSE
  PROVE  Inv'
<1>1. PICK how \in {"break", "start", "end", "full"}, id \in 0 .. FragIds - 1 :
        IF Len(Collected) < FrameLen + 1
          THEN m_bbframe' = Collected /\ UNCHANGED <<fragments, extracted>>
          ELSE LET r == ProcessBBFrame(Collected, how, id) IN
            m_bbframe' = <<>> /\ fragments' = r.f /\ extracted' = extracted \o r.out
  BY DEF ReceiveGSE
<1>2. /\ mode = "gse" /\ mux.pos < Len(BBFrames) /\ mux' = PassedBB
      /\ UNCHANGED <<mode, m_psi, mcast_loop, forwarded, losses, marred>>
  BY DEF ReceiveGSE, MoreBB
<1>3. TypeInv /\ FrameOK(m_bbframe, mux) /\ Chain("gse", forwarded, extracted)
      /\ AllEnd(forwarded, extracted, Limit(m_bbframe, mux))
  BY <1>2 DEF Inv, OutInv, GseInv
<1>4. PICK c \in {Collected}, l \in Nat : c = Collected /\ l = Limit(m_bbframe, mux)
  BY <1>2, <1>3, FrameStep
<1>5. /\ mux' \in [pos : Nat, cc : 0 .. FrameLen] /\ mux.pos \in Nat /\ mux.pos <= mux'.pos
      /\ c \in Seq(Cell) /\ Len(c) \in Nat /\ Len(c) <= FrameLen + 1
      /\ FrameOK(c, mux') /\ Limit(c, mux') \in Nat /\ l <= Limit(c, mux')
      /\ Len(c) = FrameLen + 1 =>
           /\ c[1][1] \in Frames /\ c[1][1] \in Nat /\ l < c[1][1]
           /\ c[1][1] <= Limit(<<>>, mux') /\ Limit(<<>>, mux') \in Nat
  BY <1>2, <1>3, <1>4, FrameStep
<1>6. /\ losses' \in 0 .. MaxLost /\ fragments \in [0 .. FragIds - 1 -> Seq(Cell)] /\ FrameLen \in Nat
  BY <1>2, <1>3, ConstantFacts DEF TypeInv
<1>7. CASE Len(c) < FrameLen + 1
  <2>1. m_bbframe' = c /\ fragments' = fragments /\ extracted' = extracted
    BY <1>1, <1>4, <1>7
  <2>2. Len(c) <= FrameLen
    BY <1>5, <1>6, <1>7
  <2>3. PICK n \in Nat : n = Limit(c, mux') /\ l <= n
    BY <1>5
  <2>4. \A o : EndsBy(o, l) => EndsBy(o, n)
    BY <2>3, Later
  <2>5. AllEnd(forwarded, extracted', Limit(m_bbframe', mux'))
    BY <1>3, <1>4, <2>1, <2>3, <2>4 DEF AllEnd
  <2>6. Chain("gse", forwarded, extracted') /\ FrameOK(m_bbframe', mux') /\ m_bbframe' \in Seq(Cell)
        /\ Len(m_bbframe') <= FrameLen /\ fragments' \in [0 .. FragIds - 1 -> Seq(Cell)]
    BY <1>3, <1>5, <1>6, <2>1, <2>2
  <2> QED
    BY <1>2, <1>5, <1>6, <2>5, <2>6, GSETypes
<1>8. CASE ~(Len(c) < FrameLen + 1)
  <2>1. Len(c) = FrameLen + 1
    BY <1>5, <1>6, <1>8
  <2>2. PICK r : r = ProcessBBFrame(c, how, id)
    OBVIOUS
  <2>3. m_bbframe' = <<>> /\ fragments' = r.f /\ extracted' = extracted \o r.out
    BY <1>1, <1>4, <1>8, <2>2
  <2>4. PICK b \in Frames, n \in Nat : b = c[1][1] /\ n = Limit(<<>>, mux') /\ l < b /\ b <= n
    BY <1>5, <2>1
  <2>5. r \in Collecting /\ Ended(r.out, b)
    BY <1>6, <2>2, <2>4, BBFrameTips
  <2>6. PICK R \in Seq(Seq(Cell)) : R = r.out /\ r.f \in [0 .. FragIds - 1 -> Seq(Cell)]
    BY <2>5 DEF Collecting
  <2>7. Chain("gse", forwarded, extracted \o R) /\ AllEnd(forwarded, extracted \o R, n)
    BY <1>3, <1>4, <2>4, <2>5, <2>6, GseChain
  <2>8. Chain("gse", forwarded, extracted') /\ AllEnd(forwarded, extracted', Limit(m_bbframe', mux'))
    BY <2>3, <2>4, <2>6, <2>7
  <2>9. FrameOK(<<>>, mux') /\ <<>> \in Seq(Cell) /\ Len(<<>>) = 0
    BY DEF FrameOK
  <2>10. FrameOK(m_bbframe', mux') /\ m_bbframe' \in Seq(Cell)
        /\ Len(m_bbframe') <= FrameLen /\ fragments' \in [0 .. FragIds - 1 -> Seq(Cell)]
    BY <1>6, <2>3, <2>6, <2>9
  <2> QED
    BY <1>2, <1>5, <1>6, <2>8, <2>10, GSETypes
<1> QED
  BY <1>7, <1>8

LEMMA ReceiveUDPInv ==
  ASSUME Inv, ReceiveUDP
  PROVE  Inv'
<1>1. PICK d \in {Whole(mux.pos + 1), <<Junk>>} : extracted' = Append(extracted, d)
  BY DEF ReceiveUDP
<1>2. /\ mode = "udp" /\ mux.pos < Len(SectionLen) /\ mux' = [mux EXCEPT !.pos = @ + 1]
      /\ UNCHANGED <<mode, m_psi, m_bbframe, fragments, mcast_loop, forwarded, losses, marred>>
  BY DEF ReceiveUDP, mcastHistory
<1>3. TypeInv /\ Chain("udp", forwarded, extracted) /\ AllSent(forwarded, extracted, mux.pos)
  BY <1>2 DEF Inv, OutInv, UdpInv
<1>4. PICK p \in Nat, a \in Nat \ {0} : p = mux.pos /\ a = p + 1 /\ p < a /\ p <= a
  <2>1. PICK p \in Nat : p = mux.pos
    BY <1>3 DEF TypeInv
  <2>2. p + 1 \in Nat \ {0} /\ p < p + 1 /\ p <= p + 1
    OBVIOUS
  <2> QED
    BY <2>1, <2>2
<1>5. mux' \in [pos : Nat, cc : 0 .. MaxCc] /\ mux'.pos = a
  <2>1. mux \in [pos : Nat, cc : 0 .. MaxCc]
    BY <1>3 DEF TypeInv
  <2>2. mux' = [pos |-> a, cc |-> mux.cc]
    BY <1>2, <1>4, <2>1
  <2> QED
    BY <1>4, <2>1, <2>2
<1>6. d \in Seq(Cell) /\ d # <<>> /\ (Tip(d) = Junk \/ Tip(d)[1] = a)
  <2>1. CASE d = <<Junk>>
    BY <2>1 DEF Tip, Junk, Cell
  <2>2. CASE d = Whole(mux.pos + 1)
    <3>1. a \in Sections
      BY <1>2, <1>4, EndFacts DEF Sections
    <3>2. PICK n \in Nat : n = SectionLen[a] /\ n > 0 /\ n \in 1 .. n
      BY <3>1, EndFacts
    <3>3. d = Prefix(a, n)
      BY <1>2, <1>4, <2>2, <3>2 DEF Whole, Lens, Prefix
    <3>4. /\ Prefix(a, n) \in Seq(Cell) /\ Len(Prefix(a, n)) = n
          /\ Prefix(a, n)[n] = <<a, n>> /\ Prefix(a, n) # <<>>
      BY <1>4, <3>2, PrefixFacts, ZenonT(60)
    <3>5. d \in Seq(Cell) /\ Len(d) = n /\ d[n] = <<a, n>> /\ d # <<>>
      BY <3>3, <3>4
    <3> QED
      BY <3>5 DEF Tip
  <2> QED
    BY <2>1, <2>2
<1>7. PICK R : R = <<d>>
  OBVIOUS
<1>8. R \in Seq(Seq(Cell)) /\ Len(R) = 1 /\ R[1] = d
  BY <1>6, <1>7
<1>9. extracted' = extracted \o R
  <2>1. extracted \in Seq(Seq(Cell))
    BY <1>3 DEF Chain
  <2>2. PICK T : T = Seq(Cell)
    OBVIOUS
  <2>3. PICK E \in Seq(T) : E = extracted
    BY <2>1, <2>2
  <2>4. d \in T
    BY <1>6, <2>2
  <2>5. Append(E, d) = E \o <<d>>
    <3> HIDE <2>2
    <3> QED
      BY <2>3, <2>4, AppendIsConcat
  <2> QED
    BY <1>1, <1>7, <2>3, <2>5
<1>10. NoneEmpty(R) /\ AllApart("udp", R)
  BY <1>6, <1>8 DEF NoneEmpty, AllApart
<1>11. ASSUME NEW o \in Handed(forwarded, extracted), NEW k \in 1 .. Len(R) PROVE Apart("udp", o, R[k])
  <2>1. SentBy(o, p) /\ R[k] = d
    BY <1>3, <1>4, <1>8 DEF AllSent
  <2> QED
    BY <1>4, <1>6, <2>1 DEF Apart, SentBy
<1>12. Follows("udp", forwarded, extracted, R)
  BY <1>11 DEF Follows
<1>13. Chain("udp", forwarded, extracted') /\ Handed(forwarded, extracted') = Handed(forwarded, extracted) \cup Elements(R)
  BY <1>3, <1>8, <1>9, <1>10, <1>12, ChainExtend
<1>14. AllSent(forwarded, extracted', a)
  <2>1. \A o : SentBy(o, p) => SentBy(o, a)
    BY <1>4, Later
  <2>2. \A o \in Elements(R) : SentBy(o, a)
    BY <1>4, <1>6, <1>8 DEF Elements, SentBy
  <2> QED
    BY <1>3, <1>4, <1>13, <2>1, <2>2 DEF AllSent
<1>15. TypeInv'
  <2>1. PsiOK(m_psi, p) /\ (PsiOK(m_psi, p) => PsiOK(m_psi, a))
    BY <1>3, <1>4, Later DEF TypeInv
  <2>2. MaxCc' = MaxCc
    BY <1>2 DEF MaxCc
  <2>3. mux' \in [pos : Nat, cc : 0 .. MaxCc'] /\ PsiOK(m_psi', mux'.pos)
    BY <1>2, <1>5, <2>1, <2>2
  <2> QED
    BY <1>2, <1>3, <2>3 DEF TypeInv
<1>16. OutInv'
  <2>1. \A o : IsWhole(o)' <=> IsWhole(o)
    BY <1>2 DEF IsWhole, Whole, Lens
  <2> QED
    BY <1>2, <1>13, <2>1 DEF Inv, OutInv
<1> QED
  BY <1>2, <1>5, <1>14, <1>15, <1>16 DEF Inv, MpeInv, GseInv, UdpInv

\* A step that takes nothing from the stream keeps what it hands out in order.
LEMMA PushedInv ==
  ASSUME Inv, Chain(mode, forwarded', extracted'),
         Handed(forwarded', extracted') \subseteq Handed(forwarded, extracted),
         \A k \in 1 .. Len(forwarded') : IsWhole(forwarded'[k]),
         mcast_loop' \in {"receive", "push", "last push", "thrown", "done"},
         UNCHANGED <<mode, mux, m_psi, m_bbframe, fragments, losses, marred>>
  PROVE  Inv'
<1>1. TypeInv'
  BY DEF Inv, TypeInv, MaxCc
<1>2. OutInv'
  <2>1. \A o : IsWhole(o)' <=> IsWhole(o)
    BY DEF IsWhole, Whole, Lens
  <2> QED
    BY <2>1 DEF Inv, OutInv
<1>3. MpeInv' /\ GseInv' /\ UdpInv'
  BY DEF Inv, MpeInv, GseInv, UdpInv, AllOlder, AllEnd, AllSent
<1> QED
  BY <1>1, <1>2, <1>3 DEF Inv

LEMMA PushInv ==
  ASSUME Inv, StartPush \/ PushExtracted \/ PushJunk \/ PushedAll
  PROVE  Inv'
<1>1. /\ Chain(mode, forwarded, extracted) /\ \A k \in 1 .. Len(forwarded) : IsWhole(forwarded[k])
      /\ mcast_loop \in {"receive", "push", "last push", "thrown", "done"}
  BY DEF Inv, OutInv, TypeInv
<1>2. UNCHANGED <<mode, mux, m_psi, m_bbframe, fragments, losses, marred>>
  BY DEF StartPush, PushExtracted, PushJunk, PushedAll, mcastHistory
<1>3. mcast_loop' \in {"receive", "push", "last push", "thrown", "done"}
  BY <1>1 DEF StartPush, PushExtracted, PushJunk, PushedAll
<1>4. CASE StartPush \/ PushedAll
  <2>1. forwarded' = forwarded /\ extracted' = extracted
    BY <1>4 DEF StartPush, PushedAll
  <2> QED
    BY <1>1, <1>2, <1>3, <2>1, PushedInv
<1>5. CASE PushExtracted
  <2>1. /\ extracted # <<>> /\ extracted' = Tail(extracted)
        /\ \/ forwarded' = forwarded
           \/ forwarded' = Append(forwarded, Head(extracted)) /\ IsWhole(Head(extracted))
    BY <1>5 DEF PushExtracted, CrcMatches
  <2>2. /\ Chain(mode, forwarded', extracted')
        /\ Handed(forwarded', extracted') \subseteq Handed(forwarded, extracted)
    BY <1>1, <2>1, ChainPush, ZenonT(60)
  <2>3. ASSUME NEW k \in 1 .. Len(forwarded') PROVE IsWhole(forwarded'[k])
    <3>1. CASE forwarded' = forwarded
      BY <1>1, <3>1
    <3>2. CASE forwarded' = Append(forwarded, Head(extracted)) /\ IsWhole(Head(extracted))
      <4>1. forwarded \in Seq(Seq(Cell)) /\ extracted \in Seq(Seq(Cell))
        BY <1>1 DEF Chain
      <4>2. PICK T : T = Seq(Cell)
        OBVIOUS
      <4>3. forwarded \in Seq(T) /\ extracted \in Seq(T)
        BY <4>1, <4>2
      <4>4. Head(extracted) \in T
        BY <2>1, <4>3, HeadTailProperties
      <4>5. PICK q, G : q \in T /\ q = Head(extracted) /\ G = forwarded' /\ G = Append(forwarded, q)
        BY <3>2, <4>4
      <4>6. /\ G[Len(G)] = q
            /\ \A i \in 1 .. Len(forwarded) : G[i] = forwarded[i]
            /\ \A i \in 1 .. Len(G) : i \in 1 .. Len(forwarded) \/ i = Len(G)
        <5> HIDE <4>2
        <5> QED
          BY <4>3, <4>5, AppendFacts
      <4> QED
        BY <1>1, <3>2, <4>5, <4>6
    <3> QED
      BY <2>1, <3>1, <3>2
  <2> QED
    BY <1>2, <1>3, <2>2, <2>3, PushedInv
<1>6. CASE PushJunk
  <2>1. extracted # <<>> /\ extracted' = Tail(extracted) /\ forwarded' = forwarded
    BY <1>6 DEF PushJunk
  <2>2. /\ Chain(mode, forwarded', extracted')
        /\ Handed(forwarded', extracted') \subseteq Handed(forwarded, extracted)
    BY <1>1, <2>1, ChainPush
  <2> QED
    BY <1>1, <1>2, <1>3, <2>1, <2>2, PushedInv
<1> QED
  BY <1>4, <1>5, <1>6

LEMMA NextInv ==
  ASSUME Inv, [McastNext]_mcastVars
  PROVE  Inv'
<1>1. CASE UNCHANGED mcastVars
  <2>1. forwarded' = forwarded /\ extracted' = extracted /\ mcast_loop' = mcast_loop
        /\ UNCHANGED <<mode, mux, m_psi, m_bbframe, fragments, losses, marred>>
    BY <1>1 DEF mcastVars
  <2>2. /\ Chain(mode, forwarded, extracted) /\ \A k \in 1 .. Len(forwarded) : IsWhole(forwarded[k])
        /\ mcast_loop \in {"receive", "push", "last push", "thrown", "done"}
    BY DEF Inv, OutInv, TypeInv
  <2> QED
    BY <2>1, <2>2, PushedInv
<1> QED
  BY <1>1, ReceiveMPEInv, LoseMPEInv, ReceiveGSEInv, LoseGSEInv, ReceiveUDPInv, PushInv DEF McastNext

LEMMA AlwaysInv == McastSpec => []Inv
<1>1. McastInit => Inv
  BY InitInv
<1>2. Inv /\ [McastNext]_mcastVars => Inv'
  BY NextInv
<1> QED
  BY <1>1, <1>2, PTL DEF McastSpec

\* The continuity counters and the BBFrame buffer stay within their ranges: a
\* BBFrame that is complete is always taken out of the buffer, and the counter
\* that process_ts() keeps is one that a TS packet can carry.
THEOREM TypeCorrect == McastSpec => []McastTypeOK
<1>1. Inv => McastTypeOK
  <2>1. SUFFICES ASSUME Inv PROVE McastTypeOK
    OBVIOUS
  <2>2. mux.cc \in 0 .. MaxCc /\ m_psi.cc \in 0 .. CcMod - 1
    BY <2>1 DEF Inv, TypeInv, PsiOK, PsiType
  <2> QED
    BY <2>1, <2>2 DEF Inv, TypeInv, McastTypeOK, MaxCc, Sections
<1> QED
  BY <1>1, AlwaysInv, PTL

LEMMA WholeTip ==
  ASSUME NEW d \in Seq(Cell), d # <<>>, IsWhole(d)
  PROVE  Tip(d) # Junk
<1>1. PICK n, a : n \in Nat /\ n = Len(d) /\ n > 0 /\ a = d[1][1] /\ n \in 1 .. n
  <2>1. Len(d) \in Nat /\ Len(d) > 0
    BY CellSeqs
  <2>2. Len(d) \in 1 .. Len(d)
    BY <2>1
  <2> QED
    BY <2>1, <2>2
<1>2. d = [k \in 1 .. Lens[a] |-> <<a, k>>]
  BY <1>1 DEF IsWhole, Whole
<1>3. DOMAIN d = 1 .. n /\ DOMAIN d = 1 .. Lens[a]
  <2>1. DOMAIN d = 1 .. n
    BY <1>1, LenProperties
  <2> QED
    BY <1>2, <2>1
<1>4. d[n] = <<a, n>>
  BY <1>1, <1>2, <1>3
<1> QED
  BY <1>1, <1>4 DEF Tip, Junk

\* Whatever TS packets are lost, MPEDeframer and GSEDeframer put together, and
\* EDIReceiver drops for its CRC: what is written to edi::Sender was sent so,
\* no packet is written twice, and those of an MPE stream keep their order.
THEOREM NothingIsForged == McastSpec => []ForwardedIntact
<1>1. Inv => ForwardedIntact
  <2>1. SUFFICES ASSUME Inv PROVE ForwardedIntact
    OBVIOUS
  <2>2. Chain(mode, forwarded, extracted) /\ \A k \in 1 .. Len(forwarded) : IsWhole(forwarded[k])
    BY <2>1 DEF Inv, OutInv
  <2>3. /\ forwarded \in Seq(Seq(Cell)) /\ NoneEmpty(forwarded) /\ AllApart(mode, forwarded)
    BY <2>2 DEF Chain
  <2>4. ASSUME NEW k \in 1 .. Len(forwarded) PROVE forwarded[k] \in Seq(Cell) /\ forwarded[k] # <<>>
    <3>1. PICK T : T = Seq(Cell)
      OBVIOUS
    <3>2. forwarded \in Seq(T)
      BY <2>3, <3>1
    <3>3. forwarded[k] \in T
      BY <3>2, ElementOfSeq
    <3> QED
      BY <2>3, <3>1, <3>3 DEF NoneEmpty
  <2>5. ASSUME NEW j \in 1 .. Len(forwarded), NEW k \in 1 .. Len(forwarded), j < k
        PROVE  IF mode = "mpe" THEN forwarded[j][1][1] < forwarded[k][1][1] ELSE forwarded[j] # forwarded[k]
    <3>1. Apart(mode, forwarded[j], forwarded[k])
      BY <2>3, <2>5 DEF AllApart
    <3>2. Tip(forwarded[j]) # Junk
      BY <2>2, <2>4, WholeTip
    <3> QED
      BY <3>1, <3>2 DEF Apart, Num
  <2> QED
    BY <2>2, <2>5 DEF ForwardedIntact
<1> QED
  BY <1>1, AlwaysInv, PTL
-----------------------------------------------------------------------------
(* What a lost packet costs, as long as the continuity counter tells.      *)

LEMMA NextCounter ==
  ASSUME NEW m \in Nat \ {0}, NEW x \in 0 .. m - 1
  PROVE  (x + 1) % m = IF x + 1 = m THEN 0 ELSE x + 1
OBVIOUS

\* What is being collected are the first pieces of a section, and the counter
\* tells how many packets were lost since: now, fewer than it has values.
Partial(psi, p, cc, now) ==
  psi.buffer # <<>> => \E b \in Sections, n \in Nat :
    /\ n > 0 /\ n < SectionLen[b] /\ psi.buffer = Prefix(b, n)
    /\ psi.size = IF n < PsiHeader THEN 0 ELSE SectionLen[b]
    /\ now = 0 => SectionEnd[b - 1] + n = p
    /\ cc = psi.cc + 1 + now \/ cc = psi.cc + 1 + now - CcMod

\* The section that position p is in the middle of has lost a piece, or all of
\* it that was sent is there.
Pending(psi, p, mar) ==
  \A a \in Sections : SectionEnd[a - 1] < p /\ p < SectionEnd[a] =>
    a \in mar \/ psi.buffer = Prefix(a, p - SectionEnd[a - 1])

Complete(H, p, mar) ==
  \A a \in Sections : a \notin mar /\ a \notin OtherAddress /\ SectionEnd[a] <= p => Section(a) \in H

LEMMA Counted ==
  ASSUME NEW psi, NEW p, NEW cc \in 0 .. CcMod - 1, NEW now \in 0 .. CcMod - 1, Partial(psi, p, cc, now),
         psi \in PsiType, psi.buffer # <<>>, NEW ts, ts.cc = cc
  PROVE  NextCc(psi, ts) <=> now = 0
<1>1. PICK m \in Nat \ {0}, x \in Nat : m = CcMod /\ x = psi.cc /\ x \in 0 .. m - 1
  <2>1. psi.cc \in 0 .. CcMod - 1 /\ CcMod \in Nat \ {0}
    BY ConstantFacts DEF PsiType
  <2>2. psi.cc \in Nat
    BY <2>1
  <2> QED
    BY <2>1, <2>2
<1>2. (x + 1) % m = IF x + 1 = m THEN 0 ELSE x + 1
  BY <1>1, NextCounter
<1>3. cc = x + 1 + now \/ cc = x + 1 + now - m
  BY <1>1 DEF Partial
<1>4. (x + 1) % m = cc <=> now = 0
  BY <1>1, <1>2, <1>3, SMTT(30)
<1> QED
  BY <1>1, <1>4 DEF NextCc

\* A packet that starts sections hands out those that end in it.
LEMMA StartingLoss ==
  ASSUME NEW ts, NEW p, NEW e, NEW z, NEW f, Carries(ts, p, e, z), Starts(ts, p, e, z, f),
         NEW cc \in 0 .. CcMod - 1, ts.cc = cc, NEW mar, NEW r, r.psi = Starting(ts).psi
  PROVE  /\ \A k \in 1 .. Len(Starting(ts).out) : \E a \in Sections : Starting(ts).out[k] = Section(a)
         /\ Partial(r.psi, e, (cc + 1) % CcMod, 0)
         /\ Pending(r.psi, e, mar)
         /\ \A a \in Sections : f <= a /\ SectionEnd[a] <= e =>
              \E k \in 1 .. Len(Starting(ts).out) : Starting(ts).out[k] = Section(a)
<1>1. PICK out : out = Starting(ts).out
  OBVIOUS
<1>2. r.psi = Begun(e, z, cc) /\ Completed(out, e, z, f)
  BY <1>1, StartingFacts
<1>3. /\ p \in Nat /\ e \in Nat /\ p < e /\ z \in Sections /\ f \in Sections /\ f <= z
      /\ SectionEnd[z - 1] < e /\ e <= SectionEnd[z] /\ e \in 1 .. StreamEnd
  BY DEF Carries, Starts, Within
<1>4. /\ SectionEnd[z - 1] \in Nat /\ SectionEnd[z] \in Nat /\ SectionLen[z] \in Nat
      /\ SectionEnd[z] = SectionEnd[z - 1] + SectionLen[z] /\ z \in Nat /\ f \in Nat
  BY <1>3, EndFacts DEF Sections
<1>5. PICK n \in Nat : n = e - SectionEnd[z - 1] /\ n > 0 /\ SectionEnd[z - 1] + n = e
                       /\ (e # SectionEnd[z] => n < SectionLen[z])
  <2>1. e - SectionEnd[z - 1] \in Nat
    BY <1>3, <1>4
  <2> QED
    BY <1>3, <1>4, <2>1
<1>6. /\ r.psi.cc = cc /\ r.psi.size = IF n < PsiHeader THEN 0 ELSE SectionLen[z]
      /\ r.psi.buffer = IF e = SectionEnd[z] THEN <<>> ELSE Prefix(z, n)
  BY <1>2, <1>5 DEF Begun
<1>7. Partial(r.psi, e, (cc + 1) % CcMod, 0)
  <2>1. PICK m, x : m \in Nat \ {0} /\ m = CcMod /\ x = (cc + 1) % m
    BY ConstantFacts
  <2>2. cc \in 0 .. m - 1
    BY <2>1
  <2>3. x = IF cc + 1 = m THEN 0 ELSE cc + 1
    BY <2>1, <2>2, NextCounter
  <2>4. x = cc + 1 + 0 \/ x = cc + 1 + 0 - m
    BY <2>2, <2>3
  <2>5. ASSUME r.psi.buffer # <<>>
        PROVE  n < SectionLen[z] /\ r.psi.buffer = Prefix(z, n)
    BY <1>5, <1>6, <2>5
  <2> QED
    BY <1>3, <1>5, <1>6, <2>1, <2>4, <2>5 DEF Partial
<1>8. Pending(r.psi, e, mar)
  <2>1. ASSUME NEW a \in Sections, SectionEnd[a - 1] < e, e < SectionEnd[a]
        PROVE  r.psi.buffer = Prefix(a, e - SectionEnd[a - 1])
    <3>1. SectionEnd[a] \in Nat /\ SectionEnd[a - 1] \in Nat
      BY EndFacts
    <3>2. Within(e, a) /\ Within(e, z)
      BY <1>3, <2>1, <3>1 DEF Within
    <3>3. a = z
      BY <1>3, <3>2, Located
    <3>4. e # SectionEnd[z]
      BY <1>4, <2>1, <3>3
    <3> QED
      BY <1>5, <1>6, <3>3, <3>4
  <2> QED
    BY <2>1 DEF Pending
<1>9. ASSUME NEW k \in 1 .. Len(out) PROVE \E a \in Sections : out[k] = Section(a)
  BY <1>2 DEF Completed
<1>10. ASSUME NEW a \in Sections, f <= a, SectionEnd[a] <= e
       PROVE  \E k \in 1 .. Len(out) : out[k] = Section(a)
  <2>1. PICK w \in Int : w = IF e = SectionEnd[z] THEN z ELSE z - 1
    BY <1>4
  <2>2. Len(out) = w - f + 1
    BY <1>2, <2>1 DEF Completed
  <2>3. a \in Nat /\ SectionEnd[a] \in Nat /\ SectionEnd[a - 1] \in Nat /\ SectionEnd[a - 1] < SectionEnd[a]
    BY EndFacts DEF Sections
  <2>4. a <= z
    <3>1. z < a => SectionEnd[z] <= SectionEnd[a - 1]
      BY <1>3, LaterSection
    <3> QED
      BY <1>3, <1>4, <1>10, <2>3, <3>1
  <2>5. e # SectionEnd[z] => a # z
    BY <1>3, <1>4, <1>10
  <2>6. a <= w
    BY <1>4, <2>1, <2>3, <2>4, <2>5
  <2>7. PICK k \in Int : k = a - f + 1 /\ k \in 1 .. Len(out) /\ f + k - 1 = a
    BY <1>4, <1>10, <2>2, <2>3, <2>6
  <2>8. out[k] = Section(a)
    BY <1>2, <2>7 DEF Completed
  <2> QED
    BY <2>7, <2>8
<1> QED
  BY <1>1, <1>7, <1>8, <1>9, <1>10

\* The sections that end, or are under way at the end of a packet, have a piece
\* in it.
LEMMA EndInside ==
  ASSUME mux.pos \in Nat, NEW e \in PacketEnds, NEW a \in Sections
  PROVE  /\ mux.pos < SectionEnd[a] /\ SectionEnd[a] <= e => a \in SectionsIn(TSPacket(e))
         /\ SectionEnd[a - 1] < e /\ e < SectionEnd[a] => a \in SectionsIn(TSPacket(e))
<1>1. PICK ts \in {TSPacket(e)}, p \in Nat : ts = TSPacket(e) /\ p = mux.pos
  OBVIOUS
<1>2. /\ Carries(ts, p, e, SectionAt(e))
      /\ \A k \in 1 .. e - p : p + k \in 1 .. StreamEnd /\ ts.body[k] = PieceAt(p + k)
  BY <1>1, CarriesPieces
<1>3. e \in Nat /\ p < e /\ Len(ts.body) = e - p
  BY <1>2 DEF Carries
<1>4. SectionEnd[a - 1] \in Nat /\ SectionEnd[a] \in Nat /\ SectionEnd[a - 1] < SectionEnd[a]
  BY EndFacts
<1>5. ASSUME NEW q \in Nat, p < q, q <= e, Within(q, a) PROVE a \in SectionsIn(ts)
  <2>1. PICK k \in Nat : k = q - p /\ k \in 1 .. e - p /\ p + k = q
    BY <1>3, <1>5
  <2>2. q \in 1 .. StreamEnd /\ ts.body[k] = PieceAt(q)
    BY <1>2, <2>1
  <2>3. ts.body[k][1] = a
    BY <1>5, <2>2, PieceFacts
  <2> QED
    BY <1>3, <2>1, <2>3 DEF SectionsIn
<1>6. p < SectionEnd[a] /\ SectionEnd[a] <= e => a \in SectionsIn(ts)
  BY <1>4, <1>5 DEF Within
<1>7. SectionEnd[a - 1] < e /\ e < SectionEnd[a] => a \in SectionsIn(ts)
  BY <1>3, <1>4, <1>5 DEF Within
<1> QED
  BY <1>1, <1>6, <1>7

\* t has the m pieces of section a that follow its first n.
Following(t, a, n, m) == t \in Seq(Cell) /\ Len(t) = m /\ \A k \in 1 .. m : t[k] = <<a, n + k>>

Grown(t, a, n, l) == Prefix(a, n) \o t = Prefix(a, l)

LEMMA PrefixGrows ==
  ASSUME NEW a \in Nat, NEW n \in Nat, NEW m \in Nat, NEW t, Following(t, a, n, m)
  PROVE  \A l : l = n + m => Grown(t, a, n, l)
<1>0. t \in Seq(Cell) /\ Len(t) = m /\ \A k \in 1 .. m : t[k] = <<a, n + k>>
  BY DEF Following
<1>1. Prefix(a, n) \in Seq(Cell) /\ Len(Prefix(a, n)) = n
  BY PrefixFacts
<1>2. PICK x, u : x = Prefix(a, n) /\ u = x \o t
  OBVIOUS
<1>3. x \in Seq(Cell) /\ Len(x) = n /\ \A k \in 1 .. n : x[k] = <<a, k>>
  BY <1>1, <1>2, PrefixFacts
<1>4. Joined(u, x, t, Cell)
  BY <1>0, <1>2, <1>3, JoinFacts
<1>5. /\ u \in Seq(Cell) /\ Len(u) = n + m
      /\ \A k \in 1 .. n : u[k] = x[k]
      /\ \A k \in 1 .. m : u[n + k] = t[k]
  BY <1>0, <1>3, <1>4 DEF Joined
<1>6. ASSUME NEW k \in 1 .. n + m PROVE u[k] = <<a, k>>
  <2>1. CASE k <= n
    BY <1>3, <1>5, <2>1
  <2>2. CASE ~(k <= n)
    <3>1. PICK j \in Nat : j = k - n /\ j \in 1 .. m /\ k = n + j
      BY <2>2
    <3>2. u[n + j] = t[j] /\ t[j] = <<a, n + j>>
      BY <1>0, <1>5, <3>1
    <3> QED
      BY <3>1, <3>2
  <2> QED
    BY <2>1, <2>2
<1>7. u = [k \in 1 .. n + m |-> u[k]]
  BY <1>5
<1>8. u = Prefix(a, n + m)
  BY <1>6, <1>7 DEF Prefix
<1> QED
  BY <1>2, <1>8 DEF Grown

LEMMA HeaderTells ==
  ASSUME NEW a \in Sections, NEW n \in Nat, n >= PsiHeader, NEW any
  PROVE  SizeOf(Prefix(a, n), any) = SectionLen[a]
<1>1. PsiHeader \in 1 .. n /\ 1 \in 1 .. n /\ a \in Nat
  BY EndFacts DEF Sections
<1>2. PICK x, h : x = Prefix(a, n) /\ h = x[PsiHeader]
  OBVIOUS
<1>3. h = <<a, PsiHeader>> /\ x[1] = <<a, 1>>
  BY <1>1, <1>2, PrefixFacts
<1>4. SizeOf(x, any) = IF h[2] = PsiHeader /\ x[1] = <<h[1], 1>> THEN SectionLen[h[1]] ELSE any
  BY <1>2 DEF SizeOf
<1> QED
  BY <1>2, <1>3, <1>4

LEMMA SamePrefix ==
  ASSUME NEW a \in Nat, NEW b \in Nat, NEW n \in Nat, NEW m \in Nat, n > 0, Prefix(a, n) = Prefix(b, m)
  PROVE  a = b /\ n = m
<1>1. Len(Prefix(a, n)) = n /\ Len(Prefix(b, m)) = m
  BY PrefixFacts
<1>2. 1 \in 1 .. n /\ 1 \in 1 .. m
  BY <1>1
<1>3. Prefix(a, n)[1] = <<a, 1>> /\ Prefix(b, m)[1] = <<b, 1>>
  BY <1>2, PrefixFacts
<1> QED
  BY <1>1, <1>3

WholeOut(out) == \A k \in 1 .. Len(out) : \E a \in Sections : out[k] = Section(a)

\* The sections that end after p and by e, and did not lose a piece, are there.
Delivered(r, p, e, mar) ==
  /\ Pending(r.psi, e, mar)
  /\ \A a \in Sections : a \notin mar /\ p < SectionEnd[a] /\ SectionEnd[a] <= e =>
       \E k \in 1 .. Len(r.out) : r.out[k] = Section(a)

LossOK(r, p, e, cc, now, mar) ==
  /\ WholeOut(r.out) /\ Partial(r.psi, e, (cc + 1) % CcMod, 0)
  /\ now = 0 => Delivered(r, p, e, mar)

LEMMA DroppedLoss ==
  ASSUME NEW psi, psi \in PsiType, NEW p, NEW e, NEW cc, NEW now, NEW mar, now # 0,
         NEW r, r = [psi |-> Dropped(psi), out |-> <<>>]
  PROVE  LossOK(r, p, e, cc, now, mar)
<1>1. psi = [cc |-> psi.cc, size |-> psi.size, buffer |-> psi.buffer]
  BY DEF PsiType
<1>2. Dropped(psi) = [cc |-> psi.cc, size |-> psi.size, buffer |-> <<>>]
  BY <1>1 DEF Dropped
<1>3. r.psi.buffer = <<>> /\ r.out = <<>> /\ Len(<<>>) = 0
  BY <1>2
<1> QED
  BY <1>3 DEF LossOK, WholeOut, Partial

LEMMA WholeSubSeq ==
  ASSUME NEW x \in Seq(Cell)
  PROVE  SubSeq(x, 1, Len(x)) = x
<1>1. Len(x) \in Nat /\ \A k \in 1 .. Len(x) : x[k] \in Cell
  BY CellSeqs
<1>2. PICK n \in Nat, u \in {SubSeq(x, 1, Len(x))} : n = Len(x) /\ u = SubSeq(x, 1, n)
  BY <1>1
<1>3. u \in Seq(Cell) /\ Len(u) = n /\ \A k \in 1 .. n : u[k] = x[k]
  BY <1>1, <1>2, SubSeqProperties
<1> QED
  BY <1>2, <1>3, SeqEqual

LEMMA ContinueLoss ==
  ASSUME NEW ts, NEW p, NEW e, NEW z, Carries(ts, p, e, z), GoesOn(ts, p, e, z),
         NEW cc \in 0 .. CcMod - 1, ts.cc = cc, NEW now \in 0 .. CcMod - 1, NEW psi, psi \in PsiType,
         Partial(psi, p, cc, now), NEW mar, Pending(psi, p, mar), NEW any,
         NEW r, r = Continue(psi, ts, any)
  PROVE  LossOK(r, p, e, cc, now, mar)
<1>1. /\ p \in Nat /\ e \in Nat /\ p < e /\ z \in Sections /\ SectionEnd[z - 1] < p /\ e <= SectionEnd[z]
      /\ Len(ts.body) = e - p /\ ts.body \in Seq(Cell) /\ e \in 1 .. StreamEnd
      /\ (e = p + TsBody \/ e = SectionEnd[z])
  BY DEF Carries, GoesOn, Within
<1>2. /\ SectionEnd[z - 1] \in Nat /\ SectionEnd[z] \in Nat /\ SectionLen[z] \in Nat /\ z \in Nat
      /\ SectionEnd[z] = SectionEnd[z - 1] + SectionLen[z] /\ SectionLen[z] >= PsiHeader
      /\ PsiHeader \in Nat \ {0} /\ TsBody \in Nat /\ PsiHeader <= TsBody
  BY <1>1, EndFacts DEF Sections
<1>0. PICK s \in Nat, t \in Nat, len \in Nat : s = SectionEnd[z - 1] /\ t = SectionEnd[z] /\ len = SectionLen[z]
  BY <1>2
<1>8. /\ s < p /\ p < e /\ e <= t /\ t = s + len /\ len >= PsiHeader
      /\ (e = p + TsBody \/ e = t)
  BY <1>0, <1>1, <1>2
<1>9. \A k \in 1 .. e - p : ts.body[k] = <<z, p + k - s>>
  BY <1>0 DEF GoesOn
<1>3. ASSUME NEW a \in Sections, p < SectionEnd[a], SectionEnd[a] <= e PROVE a = z /\ e = SectionEnd[z]
  <2>1. SectionEnd[a] \in Nat /\ SectionEnd[a - 1] \in Nat /\ SectionEnd[a - 1] < SectionEnd[a]
    BY EndFacts
  <2>2. PICK q \in Nat : q = SectionEnd[a]
    BY <2>1
  <2>3. Within(q, a) /\ Within(q, z)
    <3>1. SectionEnd[a - 1] < q /\ q <= SectionEnd[a]
      BY <2>1, <2>2
    <3>2. p < q /\ q <= e
      BY <1>3, <2>2
    <3>3. s < q /\ q <= t
      BY <1>1, <1>8, <3>2
    <3> QED
      BY <1>0, <1>1, <3>1, <3>3 DEF Within
  <2>4. q \in 1 .. StreamEnd
    <3>1. StreamEnd \in Nat
      BY StreamEndType
    <3> QED
      BY <1>1, <1>3, <2>1, <2>2, <3>1
  <2>5. a = z
    BY <2>3, <2>4, Located
  <2>6. t <= e
    BY <1>0, <1>3, <2>5
  <2>7. e = t
    BY <1>1, <1>8, <2>6
  <2> QED
    BY <1>0, <2>5, <2>7
<1>4. ASSUME NEW a \in Sections, SectionEnd[a - 1] < e, e < SectionEnd[a] PROVE a = z
  <2>1. SectionEnd[a] \in Nat /\ SectionEnd[a - 1] \in Nat
    BY EndFacts
  <2>2. Within(e, a) /\ Within(e, z)
    <3>1. SectionEnd[a - 1] < e /\ e <= SectionEnd[a]
      BY <1>1, <1>4, <2>1
    <3>2. s < e
      BY <1>1, <1>8
    <3> QED
      BY <1>0, <1>1, <1>8, <3>1, <3>2 DEF Within
  <2> QED
    BY <1>1, <2>2, Located
<1>5. CASE psi.buffer = <<>>
  <2>1. r = [psi |-> psi, out |-> <<>>]
    BY <1>5 DEF Continue
  <2>2. r.psi = psi /\ r.out = <<>> /\ Len(<<>>) = 0
    BY <2>1
  <2>3. z \in mar
    <3>1. p < SectionEnd[z]
      <4>1. p < t
        BY <1>1, <1>8
      <4> QED
        BY <1>0, <4>1
    <3>2. PICK n \in Nat : n = p - SectionEnd[z - 1] /\ n > 0
      <4>1. p - s \in Nat /\ p - s > 0
        BY <1>1, <1>8
      <4> QED
        BY <1>0, <4>1
    <3>3. Prefix(z, n) # <<>>
      BY <1>2, <3>2, PrefixFacts
    <3> QED
      BY <1>1, <1>5, <3>1, <3>2, <3>3 DEF Pending
  <2>4. Delivered(r, p, e, mar)
    BY <1>3, <1>4, <2>3 DEF Delivered, Pending
  <2> QED
    BY <1>5, <2>2, <2>4 DEF LossOK, WholeOut, Partial
<1>6. CASE psi.buffer # <<>> /\ now # 0
  <2>1. ~NextCc(psi, ts)
    BY <1>6, Counted
  <2>2. r = [psi |-> Dropped(psi), out |-> <<>>]
    BY <1>6, <2>1 DEF Continue
  <2> QED
    BY <1>6, <2>2, DroppedLoss
<1>7. CASE psi.buffer # <<>> /\ now = 0
  <2>1. NextCc(psi, ts)
    BY <1>7, Counted
  <2>2. PICK b \in Sections, n \in Nat :
          /\ n > 0 /\ n < SectionLen[b] /\ psi.buffer = Prefix(b, n)
          /\ psi.size = IF n < PsiHeader THEN 0 ELSE SectionLen[b]
          /\ SectionEnd[b - 1] + n = p
    BY <1>7 DEF Partial
  <2>3. b = z
    <3>1. /\ SectionEnd[b] \in Nat /\ SectionEnd[b - 1] \in Nat /\ SectionLen[b] \in Nat
          /\ SectionEnd[b] = SectionEnd[b - 1] + SectionLen[b]
      BY EndFacts
    <3>2. Within(p, b) /\ Within(p, z)
      <4>1. SectionEnd[b - 1] < p /\ p <= SectionEnd[b]
        BY <1>1, <2>2, <3>1
      <4>2. p <= t
        BY <1>1, <1>8
      <4> QED
        BY <1>0, <1>1, <1>8, <4>1, <4>2 DEF Within
    <3>3. p \in 1 .. StreamEnd
      <4>1. StreamEnd \in Nat
        BY StreamEndType
      <4>2. e <= StreamEnd
        BY <1>1
      <4> QED
        BY <1>1, <1>8, <4>1, <4>2
    <3> QED
      BY <3>2, <3>3, Located
  <2>12. s + n = p /\ n < len
    BY <1>0, <2>2, <2>3
  <2>4. PICK m \in Nat, l \in Nat : m = e - p /\ l = n + m /\ s + l = e /\ m > 0
    <3>1. e - p \in Nat /\ e - p > 0
      BY <1>1
    <3>2. n + (e - p) \in Nat /\ s + (n + (e - p)) = e
      BY <1>1, <2>12, <3>1
    <3> QED
      BY <3>1, <3>2
  <2>5. \A k \in 1 .. m : ts.body[k] = <<z, n + k>>
    <3>1. \A k \in 1 .. m : p + k - s = n + k
      BY <1>1, <2>12
    <3> QED
      BY <1>9, <2>4, <3>1
  <2>6. psi.buffer \o ts.body = Prefix(z, l) /\ Len(Prefix(z, l)) = l
    <3>1. ts.body \in Seq(Cell) /\ Len(ts.body) = m /\ psi.buffer = Prefix(z, n)
      BY <1>1, <2>2, <2>3, <2>4
    <3>2. Prefix(z, n) \o ts.body = Prefix(z, l)
      <4>1. Following(ts.body, z, n, m)
        BY <2>5, <3>1 DEF Following
      <4>2. z \in Nat
        BY <1>2
      <4>3. Grown(ts.body, z, n, l)
        BY <2>4, <4>1, <4>2, PrefixGrows
      <4> QED
        BY <4>3 DEF Grown
    <3> QED
      BY <1>2, <2>4, <3>1, <3>2, PrefixFacts
  <2>7. l >= PsiHeader /\ l <= SectionLen[z] /\ (l = SectionLen[z] <=> e = SectionEnd[z])
    <3>1. PICK h \in Nat, body \in Nat : h = PsiHeader /\ body = TsBody /\ h <= body
      BY <1>2
    <3>2. l >= h /\ l <= len /\ (l = len <=> e = t)
      BY <1>1, <1>8, <2>4, <2>12, <3>1
    <3> QED
      BY <1>0, <3>1, <3>2
  <2>8. (IF psi.size > 0 THEN psi.size ELSE IF Len(Prefix(z, l)) < PsiHeader THEN any
           ELSE SizeOf(Prefix(z, l), any)) = SectionLen[z]
    <3>1. ~(l < PsiHeader) /\ SizeOf(Prefix(z, l), any) = SectionLen[z]
      BY <1>1, <1>2, <2>7, HeaderTells
    <3>2. psi.size > 0 => psi.size = SectionLen[z]
      BY <1>2, <2>2, <2>3
    <3> QED
      BY <2>6, <3>1, <3>2
  <2>9. r = IF l >= SectionLen[z]
              THEN [psi |-> [cc |-> cc, size |-> SectionLen[z], buffer |-> <<>>],
                    out |-> <<SubSeq(Prefix(z, l), 1, SectionLen[z])>>]
              ELSE [psi |-> [cc |-> cc, size |-> SectionLen[z], buffer |-> Prefix(z, l)], out |-> <<>>]
    <3>1. SectionLen[z] # 0
      BY <1>2
    <3>2. PICK B, S : B = Prefix(z, l) /\ S = SectionLen[z]
      OBVIOUS
    <3>3. psi.buffer \o ts.body = B /\ Len(B) = l /\ S # 0
          /\ (IF psi.size > 0 THEN psi.size ELSE IF Len(B) < PsiHeader THEN any ELSE SizeOf(B, any)) = S
      BY <2>6, <2>8, <3>1, <3>2
    <3>4. r = IF l >= S
              THEN [psi |-> [cc |-> cc, size |-> S, buffer |-> <<>>], out |-> <<SubSeq(B, 1, S)>>]
              ELSE [psi |-> [cc |-> cc, size |-> S, buffer |-> B], out |-> <<>>]
      BY <1>7, <2>1, <3>3 DEF Continue
    <3> QED
      BY <3>2, <3>4
  <2>10. CASE e = SectionEnd[z]
    <3>1. l = SectionLen[z] /\ l >= SectionLen[z]
      BY <2>4, <2>7, <2>10
    <3>2. SubSeq(Prefix(z, l), 1, l) = Section(z)
      <4>1. Prefix(z, l) \in Seq(Cell) /\ Len(Prefix(z, l)) = l
        BY <1>2, PrefixFacts
      <4>2. PICK x \in Seq(Cell) : x = Prefix(z, l) /\ Len(x) = l
        BY <4>1
      <4>3. SubSeq(x, 1, Len(x)) = x
        BY WholeSubSeq
      <4> QED
        BY <3>1, <4>2, <4>3 DEF Section
    <3>3. r.psi.buffer = <<>> /\ r.out = <<Section(z)>>
      <4>1. PICK S : S = SectionLen[z]
        OBVIOUS
      <4>2. r = [psi |-> [cc |-> cc, size |-> S, buffer |-> <<>>], out |-> <<SubSeq(Prefix(z, l), 1, l)>>]
        BY <2>9, <3>1, <4>1
      <4> QED
        BY <3>2, <4>2
    <3>4. Len(r.out) = 1 /\ r.out[1] = Section(z)
      BY <3>3
    <3>5. 1 \in 1 .. Len(r.out)
      BY <3>4
    <3>6. Pending(r.psi, e, mar)
      BY <1>2, <1>4, <2>10 DEF Pending
    <3>7. Delivered(r, p, e, mar)
      BY <1>3, <3>4, <3>5, <3>6 DEF Delivered
    <3>8. WholeOut(r.out)
      BY <1>1, <3>4 DEF WholeOut
    <3> QED
      BY <3>3, <3>7, <3>8 DEF LossOK, Partial
  <2>11. CASE e # SectionEnd[z]
    <3>1. ~(l >= SectionLen[z]) /\ l < SectionLen[z] /\ ~(l < PsiHeader) /\ l > 0
      BY <1>2, <2>4, <2>7, <2>11
    <3>2. /\ r.psi = [cc |-> cc, size |-> SectionLen[z], buffer |-> Prefix(z, l)]
          /\ r.out = <<>> /\ Len(<<>>) = 0
      BY <2>9, <3>1
    <3>3. r.psi.cc = cc /\ r.psi.size = SectionLen[z] /\ r.psi.buffer = Prefix(z, l)
      BY <3>2
    <3>4. l = e - SectionEnd[z - 1]
      <4>1. l = e - s
        BY <1>1, <2>4
      <4> QED
        BY <1>0, <4>1
    <3>5. Delivered(r, p, e, mar)
      BY <1>3, <1>4, <2>11, <3>3, <3>4 DEF Delivered, Pending
    <3>6. Partial(r.psi, e, (cc + 1) % CcMod, 0)
      <4>1. PICK k, x : k \in Nat \ {0} /\ k = CcMod /\ x = (cc + 1) % k
        BY ConstantFacts
      <4>2. cc \in 0 .. k - 1
        BY <4>1
      <4>3. x = IF cc + 1 = k THEN 0 ELSE cc + 1
        BY <4>1, <4>2, NextCounter
      <4>4. x = cc + 1 + 0 \/ x = cc + 1 + 0 - k
        BY <4>2, <4>3
      <4> QED
        BY <1>0, <1>1, <2>4, <3>1, <3>3, <4>1, <4>4 DEF Partial
    <3> QED
      BY <3>2, <3>5, <3>6 DEF LossOK, WholeOut
  <2> QED
    BY <2>10, <2>11
<1> QED
  BY <1>5, <1>6, <1>7
\* What ends in a packet before the first section that starts in it.
LEMMA EndsBefore ==
  ASSUME NEW ts, NEW p, NEW e, NEW z, NEW f, Carries(ts, p, e, z), Starts(ts, p, e, z, f),
         NEW a \in Sections, p < SectionEnd[a], ~(f <= a)
  PROVE  ts.ptr > 0 /\ a = f - 1 /\ SectionEnd[a - 1] < p
<1>1. /\ p \in Nat /\ e \in Nat /\ f \in Sections /\ ts.ptr \in 0 .. e - p - 1
      /\ SectionEnd[f - 1] = p + ts.ptr
  BY DEF Carries, Starts
<1>2. PICK q \in Nat, d \in Nat : q = ts.ptr /\ d = SectionEnd[a]
  <2>1. ts.ptr \in Nat
    BY <1>1
  <2>2. SectionEnd[a] \in Nat
    BY EndFacts
  <2> QED
    BY <2>1, <2>2
<1>3. f \in Nat /\ a \in Nat /\ a < f
  BY <1>1 DEF Sections
<1>4. SectionEnd[a] <= SectionEnd[f - 1]
  BY <1>1, <1>3, LaterSection
<1>5. p < d /\ d <= p + q
  BY <1>1, <1>2, <1>4
<1>6. q > 0
  BY <1>1, <1>5
<1>7. f - 1 \in Sections /\ SectionEnd[f - 2] < p
  BY <1>2, <1>6 DEF Starts
<1>8. a = f - 1
  <2>1. PICK g \in Sections : g = f - 1 /\ g - 1 = f - 2
    BY <1>3, <1>7
  <2>2. a < g => SectionEnd[a] <= SectionEnd[g - 1]
    BY <2>1, LaterSection
  <2>3. SectionEnd[g - 1] \in Nat /\ SectionEnd[g - 1] < p /\ g \in Nat
    BY <1>7, <2>1, EndFacts DEF Sections
  <2>4. ~(a < g)
    BY <1>1, <1>2, <1>5, <2>2, <2>3
  <2> QED
    BY <1>3, <2>1, <2>3, <2>4
<1>9. f - 2 = a - 1
  BY <1>3, <1>8
<1> QED
  BY <1>2, <1>6, <1>7, <1>8, <1>9

LEMMA StartLoss ==
  ASSUME NEW ts, NEW p, NEW e, NEW z, NEW f, Carries(ts, p, e, z), Starts(ts, p, e, z, f),
         NEW cc \in 0 .. CcMod - 1, ts.cc = cc, NEW now, NEW psi, ts.ptr = 0 \/ psi.buffer = <<>>,
         NEW mar, Pending(psi, p, mar), NEW r, r = Starting(ts)
  PROVE  LossOK(r, p, e, cc, now, mar)
<1>1. /\ \A k \in 1 .. Len(r.out) : \E a \in Sections : r.out[k] = Section(a)
      /\ Partial(r.psi, e, (cc + 1) % CcMod, 0)
      /\ Pending(r.psi, e, mar)
      /\ \A a \in Sections : f <= a /\ SectionEnd[a] <= e => \E k \in 1 .. Len(r.out) : r.out[k] = Section(a)
  BY StartingLoss
<1>2. ASSUME NEW a \in Sections, a \notin mar, p < SectionEnd[a], SectionEnd[a] <= e
      PROVE  \E k \in 1 .. Len(r.out) : r.out[k] = Section(a)
  <2>1. ASSUME ~(f <= a) PROVE FALSE
    <3>1. ts.ptr > 0 /\ a = f - 1 /\ SectionEnd[a - 1] < p
      BY <1>2, <2>1, EndsBefore
    <3>2. psi.buffer = <<>>
      BY <3>1
    <3>3. psi.buffer = Prefix(a, p - SectionEnd[a - 1])
      BY <1>2, <3>1 DEF Pending
    <3>4. p \in Nat /\ SectionEnd[a - 1] \in Nat /\ a \in Nat
      BY EndFacts DEF Sections, Carries
    <3>5. PICK n \in Nat : n = p - SectionEnd[a - 1] /\ n > 0
      BY <3>1, <3>4
    <3>6. Prefix(a, n) # <<>>
      BY <3>4, <3>5, PrefixFacts
    <3> QED
      BY <3>2, <3>3, <3>5, <3>6
  <2> QED
    BY <1>1, <1>2, <2>1
<1>3. Delivered(r, p, e, mar)
  BY <1>1, <1>2 DEF Delivered
<1> QED
  BY <1>1, <1>3 DEF LossOK, WholeOut

LEMMA FinishLoss ==
  ASSUME NEW ts, NEW p, NEW e, NEW z, NEW f, Carries(ts, p, e, z), Starts(ts, p, e, z, f),
         NEW cc \in 0 .. CcMod - 1, ts.cc = cc, NEW psi, psi \in PsiType, NextCc(psi, ts),
         ts.ptr # 0, psi.buffer # <<>>, Partial(psi, p, cc, 0), NEW any
  PROVE  /\ f - 1 \in Sections
         /\ Finish(psi, ts, any).ok /\ Finish(psi, ts, any).section = Section(f - 1)
<1>1. /\ p \in Nat /\ e \in Nat /\ f \in Nat /\ ts.ptr \in 0 .. e - p - 1 /\ p < e
      /\ SectionEnd[f - 1] = p + ts.ptr /\ ts.body \in Seq(Cell) /\ Len(ts.body) = e - p
      /\ e \in 1 .. StreamEnd
  BY DEF Carries, Starts, Sections
<1>2. PICK q \in Nat : q = ts.ptr /\ q > 0 /\ q <= e - p
  <2>1. ts.ptr \in Nat /\ ts.ptr > 0 /\ ts.ptr <= e - p
    BY <1>1
  <2> QED
    BY <2>1
<1>3. f - 1 \in Sections /\ SectionEnd[f - 2] < p
  BY <1>2 DEF Starts
<1>4. PICK g \in Sections : g = f - 1 /\ g - 1 = f - 2 /\ g \in Nat
  BY <1>1, <1>3 DEF Sections
<1>5. /\ SectionEnd[g - 1] \in Nat /\ SectionEnd[g] \in Nat /\ SectionLen[g] \in Nat
      /\ SectionEnd[g] = SectionEnd[g - 1] + SectionLen[g] /\ SectionLen[g] >= PsiHeader
      /\ PsiHeader \in Nat \ {0}
  BY EndFacts
<1>6. PICK s \in Nat, t \in Nat, len \in Nat : s = SectionEnd[g - 1] /\ t = SectionEnd[g] /\ len = SectionLen[g]
  BY <1>5
<1>7. s < p /\ p < t /\ t = p + q /\ t = s + len /\ len >= PsiHeader
  <2>1. s < p
    BY <1>3, <1>4, <1>6
  <2>2. t = p + q
    BY <1>1, <1>2, <1>4, <1>6
  <2> QED
    BY <1>1, <1>2, <1>5, <1>6, <2>1, <2>2
<1>8. \A k \in 1 .. q : ts.body[k] = <<g, p + k - s>>
  BY <1>2, <1>4, <1>6 DEF Starts
<1>9. PICK b \in Sections, n \in Nat :
        /\ n > 0 /\ n < SectionLen[b] /\ psi.buffer = Prefix(b, n)
        /\ psi.size = IF n < PsiHeader THEN 0 ELSE SectionLen[b]
        /\ SectionEnd[b - 1] + n = p
  BY DEF Partial
<1>10. b = g
  <2>1. /\ SectionEnd[b] \in Nat /\ SectionEnd[b - 1] \in Nat /\ SectionLen[b] \in Nat
        /\ SectionEnd[b] = SectionEnd[b - 1] + SectionLen[b]
    BY EndFacts
  <2>2. SectionEnd[b - 1] < p /\ p <= SectionEnd[b]
    BY <1>1, <1>9, <2>1, SMTT(30)
  <2>3. p <= t
    BY <1>1, <1>7
  <2>4. Within(p, b) /\ Within(p, g)
    BY <1>6, <1>7, <2>2, <2>3 DEF Within
  <2>5. p \in 1 .. StreamEnd
    <3>1. StreamEnd \in Nat
      BY StreamEndType
    <3>2. e <= StreamEnd
      BY <1>1
    <3> QED
      BY <1>1, <1>7, <3>1, <3>2
  <2> QED
    BY <2>4, <2>5, Located
<1>11. s + n = p /\ psi.buffer = Prefix(g, n) /\ n < len
  BY <1>6, <1>9, <1>10
<1>12. n + q = len
  BY <1>1, <1>7, <1>11
<1>13. PICK x : x = SubSeq(ts.body, 1, q)
  OBVIOUS
<1>14. Following(x, g, n, q)
  <2>1. \A k \in 1 .. q : ts.body[k] \in Cell
    BY <1>1, <1>2, CellSeqs
  <2>2. x \in Seq(Cell) /\ Len(x) = q /\ \A k \in 1 .. q : x[k] = ts.body[k]
    BY <1>2, <1>13, <2>1, SubSeqProperties
  <2>3. \A k \in 1 .. q : p + k - s = n + k
    BY <1>1, <1>11
  <2>4. \A k \in 1 .. q : x[k] = <<g, n + k>>
    BY <1>8, <2>2, <2>3
  <2> QED
    BY <2>2, <2>4 DEF Following
<1>15. Grown(x, g, n, len)
  BY <1>4, <1>12, <1>14, PrefixGrows
<1>16. PICK B : B = Prefix(g, len) /\ Len(B) = len
  BY <1>4, PrefixFacts
<1>17. psi.buffer \o SubSeq(ts.body, 1, ts.ptr) = B
  BY <1>2, <1>11, <1>13, <1>15, <1>16 DEF Grown
<1>18. (IF psi.size > 0 THEN psi.size ELSE IF Len(B) < PsiHeader THEN any ELSE SizeOf(B, any)) = len
  <2>1. SizeOf(B, any) = len /\ ~(len < PsiHeader)
    BY <1>5, <1>6, <1>7, <1>16, HeaderTells
  <2>2. psi.size > 0 => psi.size = len
    BY <1>6, <1>9, <1>10
  <2> QED
    BY <1>16, <2>1, <2>2
<1>19. Finish(psi, ts, any) = [ok |-> NextCc(psi, ts) /\ len = Len(B), section |-> B]
  BY <1>17, <1>18 DEF Finish
<1>20. Finish(psi, ts, any).ok /\ Finish(psi, ts, any).section = B
  <2>1. (NextCc(psi, ts) /\ len = Len(B)) = TRUE
    BY <1>16
  <2>2. PICK y : y = TRUE
    OBVIOUS
  <2>3. Finish(psi, ts, any) = [ok |-> y, section |-> B]
    BY <1>19, <2>1, <2>2, Zenon
  <2>4. Finish(psi, ts, any).ok = y /\ Finish(psi, ts, any).section = B
    BY <2>3
  <2> QED
    BY <2>2, <2>4, Zenon
<1> QED
  BY <1>4, <1>6, <1>16, <1>20 DEF Section

LEMMA FinishedLoss ==
  ASSUME NEW ts, NEW p, NEW e, NEW z, NEW f, Carries(ts, p, e, z), Starts(ts, p, e, z, f),
         NEW cc \in 0 .. CcMod - 1, ts.cc = cc, NEW now, NEW mar, f - 1 \in Sections,
         NEW o, o = Section(f - 1),
         NEW r, r.psi = Starting(ts).psi, r.out = <<o>> \o Starting(ts).out
  PROVE  LossOK(r, p, e, cc, now, mar)
<1>1. PICK s : s = Starting(ts).out
  OBVIOUS
<1>2. /\ \A k \in 1 .. Len(s) : \E a \in Sections : s[k] = Section(a)
      /\ Partial(r.psi, e, (cc + 1) % CcMod, 0)
      /\ Pending(r.psi, e, mar)
      /\ \A a \in Sections : f <= a /\ SectionEnd[a] <= e => \E k \in 1 .. Len(s) : s[k] = Section(a)
  BY <1>1, StartingLoss
<1>3. s \in Seq(Seq(Cell)) /\ o \in Seq(Cell)
  <2>1. s \in Seq(Seq(Cell))
    BY <1>1, StartingFacts DEF Completed
  <2>2. PICK g \in Sections : g = f - 1
    OBVIOUS
  <2>3. g \in Nat /\ SectionLen[g] \in Nat
    BY EndFacts DEF Sections
  <2>4. Prefix(g, SectionLen[g]) \in Seq(Cell)
    BY <2>3, PrefixFacts
  <2> QED
    BY <2>1, <2>2, <2>4 DEF Section
<1>4. PICK t : t = r.out /\ t = <<o>> \o s
  BY <1>1
<1>5. /\ Len(s) \in Nat /\ Len(t) = Len(s) + 1 /\ t[1] = o
      /\ \A k \in 2 .. Len(s) + 1 : t[k] = s[k - 1]
  BY <1>3, <1>4, SectionBefore
<1>6. ASSUME NEW k \in 1 .. Len(t) PROVE \E a \in Sections : t[k] = Section(a)
  <2>1. CASE k = 1
    BY <1>5, <2>1
  <2>2. CASE k # 1
    <3>1. PICK j \in 1 .. Len(s) : j = k - 1 /\ t[k] = s[j]
      BY <1>5, <2>2
    <3> QED
      BY <1>2, <3>1
  <2> QED
    BY <2>1, <2>2
<1>7. ASSUME NEW a \in Sections, a \notin mar, p < SectionEnd[a], SectionEnd[a] <= e
      PROVE  \E k \in 1 .. Len(t) : t[k] = Section(a)
  <2>1. CASE ~(f <= a)
    <3>1. a = f - 1
      BY <1>7, <2>1, EndsBefore
    <3>2. 1 \in 1 .. Len(t) /\ t[1] = Section(a)
      BY <1>5, <3>1
    <3> QED
      BY <3>2
  <2>2. CASE f <= a
    <3>1. PICK j \in 1 .. Len(s) : s[j] = Section(a)
      BY <1>2, <1>7, <2>2
    <3>2. PICK k \in Nat : k = j + 1 /\ k \in 1 .. Len(t) /\ k \in 2 .. Len(s) + 1 /\ k - 1 = j
      BY <1>5
    <3>3. t[k] = s[j]
      BY <1>5, <3>2
    <3> QED
      BY <3>1, <3>2, <3>3
  <2> QED
    BY <2>1, <2>2
<1>8. Delivered(r, p, e, mar)
  BY <1>2, <1>4, <1>7 DEF Delivered
<1> QED
  BY <1>2, <1>4, <1>6, <1>8 DEF LossOK, WholeOut

\* process_ts() hands out whole sections, and after no loss all that end.
LEMMA ProcessLoss ==
  ASSUME mux.pos \in Nat, mux.cc \in 0 .. CcMod - 1, NEW e \in PacketEnds,
         NEW now \in 0 .. CcMod - 1, NEW psi, psi \in PsiType,
         Partial(psi, mux.pos, mux.cc, now), NEW mar, Pending(psi, mux.pos, mar), NEW any,
         NEW r, r = ProcessTS(psi, TSPacket(e), any)
  PROVE  LossOK(r, mux.pos, e, mux.cc, now, mar)
<1>1. PICK ts \in {TSPacket(e)}, p \in Nat, cc \in 0 .. CcMod - 1, z \in {SectionAt(e)} :
        ts = TSPacket(e) /\ p = mux.pos /\ cc = mux.cc
  OBVIOUS
<1>2. /\ Carries(ts, p, e, z) /\ ts.cc = cc
      /\ ~ts.start => GoesOn(ts, p, e, z)
      /\ ts.start => \E f : Starts(ts, p, e, z, f)
  BY <1>1, PacketFacts
<1>3. r = ProcessTS(psi, ts, any) /\ Partial(psi, p, cc, now) /\ Pending(psi, p, mar)
  BY <1>1
<1>4. CASE ~ts.start
  <2>1. r = Continue(psi, ts, any)
    BY <1>3, <1>4 DEF ProcessTS
  <2>2. LossOK(r, p, e, cc, now, mar)
    BY <1>2, <1>3, <1>4, <2>1, ContinueLoss
  <2> QED
    BY <1>1, <2>2
<1>5. CASE ts.start
  <2>1. PICK f : Starts(ts, p, e, z, f)
    BY <1>2, <1>5
  <2>2. CASE ts.ptr = 0 \/ psi.buffer = <<>>
    <3>1. r = Starting(ts)
      BY <1>3, <1>5, <2>2 DEF ProcessTS
    <3>2. LossOK(r, p, e, cc, now, mar)
      BY <1>2, <1>3, <2>1, <2>2, <3>1, StartLoss
    <3> QED
      BY <1>1, <3>2
  <2>3. CASE ts.ptr # 0 /\ psi.buffer # <<>>
    <3>1. r = IF ~Finish(psi, ts, any).ok THEN [psi |-> Dropped(psi), out |-> <<>>]
              ELSE [psi |-> Starting(ts).psi, out |-> <<Finish(psi, ts, any).section>> \o Starting(ts).out]
      BY <1>3, <1>5, <2>3 DEF ProcessTS
    <3>2. CASE now # 0
      <4>1. ~NextCc(psi, ts)
        BY <1>2, <1>3, <2>3, <3>2, Counted
      <4>2. ~Finish(psi, ts, any).ok
        BY <4>1 DEF Finish
      <4>3. r = [psi |-> Dropped(psi), out |-> <<>>]
        BY <3>1, <4>2
      <4>4. LossOK(r, p, e, cc, now, mar)
        BY <3>2, <4>3, DroppedLoss
      <4> QED
        BY <1>1, <4>4
    <3>3. CASE now = 0
      <4>1. NextCc(psi, ts) /\ Partial(psi, p, cc, 0)
        BY <1>2, <1>3, <2>3, <3>3, Counted
      <4>2. /\ f - 1 \in Sections
            /\ Finish(psi, ts, any).ok /\ Finish(psi, ts, any).section = Section(f - 1)
        BY <1>2, <2>1, <2>3, <4>1, FinishLoss
      <4>3. PICK o : o = Finish(psi, ts, any).section /\ o = Section(f - 1)
        BY <4>2
      <4>4. r = [psi |-> Starting(ts).psi, out |-> <<o>> \o Starting(ts).out]
        BY <3>1, <4>2, <4>3
      <4>5. r.psi = Starting(ts).psi /\ r.out = <<o>> \o Starting(ts).out
        BY <4>4
      <4>6. LossOK(r, p, e, cc, now, mar)
        BY <1>2, <2>1, <4>2, <4>3, <4>5, FinishedLoss
      <4> QED
        BY <1>1, <4>6
    <3> QED
      BY <3>2, <3>3
  <2> QED
    BY <2>2, <2>3
<1> QED
  BY <1>4, <1>5
-----------------------------------------------------------------------------
(* The inductive invariant of what a loss costs.                           *)

AllWhole(H) == \A o \in H : \E a \in Sections : o = Section(a)
RunOK == lossRun \in [now : Nat, max : Nat] /\ lossRun.now <= lossRun.max
Counting == mode = "mpe" /\ lossRun.max < CcMod
LossInv ==
  /\ RunOK
  /\ Counting => /\ Partial(m_psi, mux.pos, mux.cc, lossRun.now)
                 /\ Pending(m_psi, mux.pos, marred)
                 /\ Complete(Handed(forwarded, extracted), mux.pos, marred)
                 /\ AllWhole(Handed(forwarded, extracted))

LEMMA SectionFirst ==
  ASSUME NEW a \in Sections
  PROVE  Section(a)[1] = <<a, 1>> /\ Section(a)[1][1] = a /\ Section(a)[1] # Junk
<1>1. a \in Nat /\ a > 0 /\ SectionLen[a] \in Nat /\ 1 \in 1 .. SectionLen[a]
  BY EndFacts DEF Sections
<1>2. Section(a)[1] = <<a, 1>>
  BY <1>1, PrefixFacts DEF Section
<1> QED
  BY <1>1, <1>2 DEF Junk

LEMMA SectionWhole ==
  ASSUME mode = "mpe", NEW a \in Sections
  PROVE  Section(a) = Whole(a) /\ IsWhole(Section(a))
<1>1. Section(a) = Whole(a)
  BY DEF Section, Prefix, Whole, Lens
<1>2. Section(a)[1] # Junk /\ Section(a)[1][1] = a
  BY SectionFirst
<1> QED
  BY <1>1, <1>2 DEF IsWhole

LEMMA InitLoss ==
  ASSUME McastInit
  PROVE  LossInv
<1>1. /\ m_psi.buffer = <<>> /\ mux.pos = 0 /\ forwarded = <<>> /\ extracted = <<>> /\ marred = {}
      /\ lossRun = [now |-> 0, max |-> 0] /\ Len(<<>>) = 0
  BY DEF McastInit, NoSection
<1>2. RunOK
  BY <1>1 DEF RunOK
<1>3. Handed(forwarded, extracted) = {}
  BY <1>1 DEF Handed
<1>4. ASSUME NEW a \in Sections PROVE ~(SectionEnd[a - 1] < 0) /\ ~(SectionEnd[a] <= 0)
  <2>1. SectionEnd[a] \in Nat /\ SectionEnd[a - 1] \in Nat /\ SectionEnd[a - 1] < SectionEnd[a]
    BY EndFacts
  <2> QED
    BY <2>1
<1> QED
  BY <1>1, <1>2, <1>3, <1>4 DEF LossInv, Partial, Pending, Complete, AllWhole

LEMMA RunFacts ==
  ASSUME RunOK
  PROVE  /\ lossRun.now \in Nat /\ lossRun.max \in Nat /\ lossRun.now <= lossRun.max
         /\ PacketReceived => RunOK' /\ lossRun'.now = 0 /\ lossRun'.max = lossRun.max
         /\ PacketLost => /\ RunOK' /\ lossRun'.now = lossRun.now + 1
                          /\ lossRun.max <= lossRun'.max
<1>1. PICK n \in Nat, m \in Nat : lossRun = [now |-> n, max |-> m] /\ n <= m
  BY DEF RunOK
<1>2. lossRun.now = n /\ lossRun.max = m
  BY <1>1
<1>3. ASSUME PacketReceived PROVE RunOK' /\ lossRun'.now = 0 /\ lossRun'.max = m
  <2>1. lossRun' = [now |-> 0, max |-> m]
    BY <1>1, <1>3 DEF PacketReceived
  <2> QED
    BY <2>1 DEF RunOK
<1>4. ASSUME PacketLost PROVE RunOK' /\ lossRun'.now = n + 1 /\ m <= lossRun'.max
  <2>1. PICK l \in Nat : l = (IF n = m THEN m + 1 ELSE m) /\ n + 1 <= l /\ m <= l
    BY <1>1
  <2>2. lossRun' = [now |-> n + 1, max |-> l]
    BY <1>2, <1>4, <2>1 DEF PacketLost
  <2>3. lossRun'.now = n + 1 /\ lossRun'.max = l
    BY <2>2
  <2>4. RunOK'
    BY <2>1, <2>2, <2>3 DEF RunOK
  <2> QED
    BY <2>1, <2>3, <2>4
<1> QED
  BY <1>1, <1>2, <1>3, <1>4

LEMMA ReceiveMPELoss ==
  ASSUME Inv, LossInv, ReceiveMPE
  PROVE  LossInv'
<1>1. PICK e \in PacketEnds, any \in 0 .. TsBody + 1 :
        /\ m_psi' = ProcessTS(m_psi, TSPacket(e), any).psi
        /\ extracted' = extracted \o ExtractEdi(ProcessTS(m_psi, TSPacket(e), any).out)
        /\ mux' = Passed(e)
        /\ marred' = IF lossRun.now > 0 THEN marred \cup SectionsIn(TSPacket(e)) ELSE marred
  BY DEF ReceiveMPE
<1>2. mode = "mpe" /\ UNCHANGED <<mode, forwarded>> /\ PacketReceived
  BY DEF ReceiveMPE
<1>3. /\ RunOK' /\ lossRun'.now = 0 /\ lossRun'.max = lossRun.max
      /\ lossRun.now \in Nat /\ lossRun.max \in Nat /\ lossRun.now <= lossRun.max
  BY <1>2, RunFacts DEF LossInv
<1>4. SUFFICES ASSUME lossRun.max < CcMod
               PROVE  /\ Partial(m_psi', mux'.pos, mux'.cc, 0)
                      /\ Pending(m_psi', mux'.pos, marred')
                      /\ Complete(Handed(forwarded', extracted'), mux'.pos, marred')
                      /\ AllWhole(Handed(forwarded', extracted'))
  BY <1>2, <1>3 DEF LossInv, Counting
<1>5. /\ Partial(m_psi, mux.pos, mux.cc, lossRun.now)
      /\ Pending(m_psi, mux.pos, marred)
      /\ Complete(Handed(forwarded, extracted), mux.pos, marred)
      /\ AllWhole(Handed(forwarded, extracted))
  BY <1>2, <1>4 DEF LossInv, Counting
<1>6. TypeInv /\ Chain("mpe", forwarded, extracted) /\ AllOlder(forwarded, extracted, m_psi, mux.pos)
  BY <1>2 DEF Inv, OutInv, MpeInv
<1>7. mux.cc \in 0 .. CcMod - 1 /\ m_psi \in PsiType
  BY <1>2, <1>6 DEF TypeInv, MaxCc, PsiOK
<1>8. lossRun.now \in 0 .. CcMod - 1
  BY <1>3, <1>4, ConstantFacts
<1>9. PICK r, X : r = ProcessTS(m_psi, TSPacket(e), any) /\ X = ExtractEdi(r.out)
  OBVIOUS
<1>10. /\ ResultOK(r, m_psi, mux.pos, e) /\ mux.pos \in Nat /\ e \in Nat /\ mux.pos < e
  BY <1>2, <1>6, <1>9, ReceivedMPE
<1>11. Handed(forwarded, extracted \o X) = Handed(forwarded, extracted) \cup Elements(X)
  <2>1. /\ Chain("mpe", forwarded, extracted \o X) /\ AllOlder(forwarded, extracted \o X, r.psi, e)
        /\ Handed(forwarded, extracted \o X) = Handed(forwarded, extracted) \cup Elements(X)
    BY <1>6, <1>9, <1>10, MpeChain
  <2> QED
    BY <2>1
<1>12. /\ m_psi' = r.psi /\ Handed(forwarded', extracted') = Handed(forwarded, extracted) \cup Elements(X)
       /\ mux'.pos = e /\ mux'.cc = (mux.cc + 1) % CcMod
  BY <1>1, <1>2, <1>9, <1>11 DEF Passed
<1>13. marred \subseteq marred' /\ (lossRun.now # 0 => SectionsIn(TSPacket(e)) \subseteq marred')
  BY <1>1, <1>3
<1>14. PICK mar : mar = marred'
  OBVIOUS
<1>15. Pending(m_psi, mux.pos, mar)
  BY <1>5, <1>13, <1>14 DEF Pending
<1>16. LossOK(r, mux.pos, e, mux.cc, lossRun.now, mar)
  BY <1>5, <1>7, <1>8, <1>9, <1>10, <1>15, ProcessLoss
<1>17. X \in Seq(Seq(Cell)) /\ Kept(X, r.out, Len(r.out))
  <2>1. PICK T, s : T = Seq(Cell) /\ s = r.out
    OBVIOUS
  <2>2. s \in Seq(T)
    BY <1>10, <2>1 DEF ResultOK
  <2>3. ExtractEdi(s) \in Seq(T) /\ Kept(ExtractEdi(s), s, Len(s))
    <3> HIDE <2>1
    <3> QED
      BY <2>2, ExtractKept
  <2> QED
    BY <1>9, <2>1, <2>3
<1>18. AllWhole(Elements(X))
  <2>1. ASSUME NEW k \in 1 .. Len(X) PROVE \E a \in Sections : X[k] = Section(a)
    <3>1. PICK i \in 1 .. Len(r.out) : X[k] = r.out[i]
      BY <1>17 DEF Kept
    <3>2. \E a \in Sections : r.out[i] = Section(a)
      BY <1>16 DEF LossOK, WholeOut
    <3> QED
      BY <3>1, <3>2
  <2> QED
    BY <2>1 DEF Elements, AllWhole
<1>19. AllWhole(Handed(forwarded', extracted'))
  BY <1>5, <1>12, <1>18 DEF AllWhole
<1>20. Pending(r.psi, e, mar)
  <2>1. CASE lossRun.now = 0
    BY <1>16, <2>1 DEF LossOK, Delivered
  <2>2. CASE lossRun.now # 0
    <3>1. ASSUME NEW a \in Sections, SectionEnd[a - 1] < e, e < SectionEnd[a] PROVE a \in mar
      BY <1>10, <1>13, <1>14, <2>2, <3>1, EndInside
    <3> QED
      BY <3>1 DEF Pending
  <2> QED
    BY <2>1, <2>2
<1>21. ASSUME NEW a \in Sections, a \notin mar, a \notin OtherAddress, SectionEnd[a] <= e
       PROVE  Section(a) \in Handed(forwarded, extracted) \cup Elements(X)
  <2>1. CASE SectionEnd[a] <= mux.pos
    BY <1>5, <1>13, <1>14, <1>21, <2>1 DEF Complete
  <2>2. CASE ~(SectionEnd[a] <= mux.pos)
    <3>1. mux.pos < SectionEnd[a]
      <4>1. SectionEnd[a] \in Nat
        BY EndFacts
      <4> QED
        BY <1>10, <2>2, <4>1
    <3>2. lossRun.now = 0
      BY <1>10, <1>13, <1>14, <1>21, <3>1, EndInside
    <3>3. PICK k \in 1 .. Len(r.out) : r.out[k] = Section(a)
      BY <1>16, <1>21, <3>1, <3>2 DEF LossOK, Delivered
    <3>4. r.out[k][1][1] \notin OtherAddress
      BY <1>21, <3>3, SectionFirst
    <3>5. \E j \in 1 .. Len(X) : X[j] = r.out[k]
      BY <1>17, <3>4 DEF Kept
    <3> QED
      BY <3>3, <3>5 DEF Elements
  <2> QED
    BY <2>1, <2>2
<1>22. Complete(Handed(forwarded', extracted'), e, mar)
  BY <1>12, <1>21 DEF Complete
<1> QED
  BY <1>12, <1>14, <1>16, <1>19, <1>20, <1>22 DEF LossOK

LEMMA LoseMPELoss ==
  ASSUME Inv, LossInv, LoseMPE
  PROVE  LossInv'
<1>1. PICK e \in PacketEnds : mux' = Passed(e) /\ marred' = marred \cup SectionsIn(TSPacket(e))
  BY DEF LoseMPE
<1>2. mode = "mpe" /\ UNCHANGED <<mode, m_psi, extracted, forwarded>> /\ PacketLost
  BY DEF LoseMPE
<1>3. /\ RunOK' /\ lossRun'.now = lossRun.now + 1 /\ lossRun.max <= lossRun'.max
      /\ lossRun.now \in Nat /\ lossRun.max \in Nat
  BY <1>2, RunFacts DEF LossInv
<1>4. PICK now \in Nat, max \in Nat : now = lossRun'.now /\ max = lossRun'.max /\ now <= max
  BY <1>3 DEF RunOK
<1>5. SUFFICES ASSUME max < CcMod
               PROVE  /\ Partial(m_psi, mux'.pos, mux'.cc, now)
                      /\ Pending(m_psi, mux'.pos, marred')
                      /\ Complete(Handed(forwarded, extracted), mux'.pos, marred')
                      /\ AllWhole(Handed(forwarded, extracted))
  BY <1>2, <1>3, <1>4 DEF LossInv, Counting
<1>6. lossRun.max < CcMod
  BY <1>3, <1>4, <1>5, ConstantFacts
<1>7. /\ Partial(m_psi, mux.pos, mux.cc, lossRun.now)
      /\ Pending(m_psi, mux.pos, marred)
      /\ Complete(Handed(forwarded, extracted), mux.pos, marred)
      /\ AllWhole(Handed(forwarded, extracted))
  BY <1>2, <1>6 DEF LossInv, Counting
<1>8. mux.cc \in 0 .. CcMod - 1 /\ m_psi \in PsiType /\ mux.pos \in Nat
  BY <1>2 DEF Inv, TypeInv, MaxCc, PsiOK
<1>9. mux'.pos = e /\ mux'.cc = (mux.cc + 1) % CcMod
  BY <1>1 DEF Passed
<1>10. Partial(m_psi, e, mux'.cc, now)
  <2>1. SUFFICES ASSUME m_psi.buffer # <<>> PROVE Partial(m_psi, e, mux'.cc, now)
    BY DEF Partial
  <2>2. PICK b \in Sections, n \in Nat :
          /\ n > 0 /\ n < SectionLen[b] /\ m_psi.buffer = Prefix(b, n)
          /\ m_psi.size = IF n < PsiHeader THEN 0 ELSE SectionLen[b]
          /\ (mux.cc = m_psi.cc + 1 + lossRun.now \/ mux.cc = m_psi.cc + 1 + lossRun.now - CcMod)
    BY <1>7, <2>1 DEF Partial
  <2>3. PICK m \in Nat \ {0}, x \in Nat, cc \in Nat, was \in Nat :
          m = CcMod /\ x = m_psi.cc /\ cc = mux.cc /\ was = lossRun.now
    <3>1. m_psi.cc \in Nat /\ mux.cc \in Nat
      BY <1>8, ConstantFacts DEF PsiType
    <3> QED
      BY <1>3, <3>1, ConstantFacts
  <2>4. x \in 0 .. m - 1 /\ cc \in 0 .. m - 1 /\ now = was + 1 /\ now < m
    <3>1. x \in 0 .. m - 1 /\ cc \in 0 .. m - 1
      BY <1>8, <2>3 DEF PsiType
    <3> QED
      BY <1>3, <1>4, <1>5, <2>3, <3>1
  <2>5. cc = x + 1 + was \/ cc = x + 1 + was - m
    BY <2>2, <2>3
  <2>6. PICK c : c = mux'.cc /\ c = (cc + 1) % m
    BY <1>9, <2>3
  <2>7. c = IF cc + 1 = m THEN 0 ELSE cc + 1
    BY <2>4, <2>6, NextCounter
  <2>8. c = x + 1 + now \/ c = x + 1 + now - m
    BY <2>4, <2>5, <2>7
  <2>9. now # 0
    BY <2>4
  <2> QED
    BY <2>2, <2>3, <2>6, <2>8, <2>9 DEF Partial
<1>11. Pending(m_psi, e, marred')
  <2>1. ASSUME NEW a \in Sections, SectionEnd[a - 1] < e, e < SectionEnd[a] PROVE a \in marred'
    BY <1>1, <1>8, <2>1, EndInside
  <2> QED
    BY <2>1 DEF Pending
<1>12. Complete(Handed(forwarded, extracted), e, marred')
  <2>1. ASSUME NEW a \in Sections, a \notin marred', a \notin OtherAddress, SectionEnd[a] <= e
        PROVE  Section(a) \in Handed(forwarded, extracted)
    <3>1. SectionEnd[a] \in Nat
      BY EndFacts
    <3>2. ~(mux.pos < SectionEnd[a])
      BY <1>1, <1>8, <2>1, EndInside
    <3>3. SectionEnd[a] <= mux.pos
      BY <1>8, <3>1, <3>2
    <3> QED
      BY <1>1, <1>7, <2>1, <3>3 DEF Complete
  <2> QED
    BY <2>1 DEF Complete
<1> QED
  BY <1>7, <1>9, <1>10, <1>11, <1>12

\* Whole sections are forwarded, so pushing them keeps what was handed out.
LEMMA PushLoss ==
  ASSUME Inv, LossInv, StartPush \/ PushExtracted \/ PushJunk \/ PushedAll
  PROVE  LossInv'
<1>1. UNCHANGED <<mode, mux, m_psi, lossRun, marred>>
  BY DEF StartPush, PushExtracted, PushJunk, PushedAll, mcastHistory
<1>2. ASSUME Counting PROVE Handed(forwarded', extracted') = Handed(forwarded, extracted)
  <2>1. Chain(mode, forwarded, extracted) /\ AllWhole(Handed(forwarded, extracted)) /\ mode = "mpe"
    BY <1>2 DEF Inv, OutInv, LossInv, Counting
  <2>2. CASE StartPush \/ PushedAll
    <3>1. forwarded' = forwarded /\ extracted' = extracted
      BY <2>2 DEF StartPush, PushedAll
    <3> QED
      BY <3>1
  <2>3. CASE PushExtracted \/ PushJunk
    <3>1. extracted # <<>> /\ extracted' = Tail(extracted)
      BY <2>3 DEF PushExtracted, PushJunk
    <3>2. Head(extracted) \in Handed(forwarded, extracted)
      <4>1. PICK T : T = Seq(Cell)
        OBVIOUS
      <4>2. extracted \in Seq(T)
        BY <2>1, <4>1 DEF Chain
      <4>3. Len(extracted) \in Nat \ {0} /\ Head(extracted) = extracted[1]
        <5> HIDE <4>1
        <5> QED
          BY <3>1, <4>2, EmptySeq, LenProperties, HeadTailProperties
      <4>4. 1 \in 1 .. Len(extracted)
        BY <4>3
      <4> QED
        BY <4>3, <4>4 DEF Handed
    <3>3. PICK a \in Sections : Head(extracted) = Section(a)
      BY <2>1, <3>2 DEF AllWhole
    <3>4. IsWhole(Head(extracted)) /\ Head(extracted)[1] # Junk
      BY <2>1, <3>3, SectionFirst, SectionWhole
    <3>5. forwarded' = Append(forwarded, Head(extracted))
      BY <2>3, <3>4 DEF PushExtracted, PushJunk, CrcMatches
    <3>6. PICK G, t : G = forwarded' /\ t = extracted'
      OBVIOUS
    <3>7. /\ Chain(mode, G, t) /\ Handed(G, t) \subseteq Handed(forwarded, extracted)
          /\ \A o \in Handed(forwarded, extracted) : o \in Handed(G, t) \/ (o = Head(extracted) /\ G = forwarded)
      BY <2>1, <3>1, <3>5, <3>6, ChainPush
    <3>8. G # forwarded
      <4>1. PICK T : T = Seq(Cell)
        OBVIOUS
      <4>2. forwarded \in Seq(T) /\ extracted \in Seq(T)
        BY <2>1, <4>1 DEF Chain
      <4>3. Len(G) = Len(forwarded) + 1 /\ Len(forwarded) \in Nat
        <5> HIDE <4>1
        <5>1. Head(extracted) \in T
          BY <3>1, <4>2, HeadTailProperties
        <5> QED
          BY <3>5, <3>6, <4>2, <5>1, AppendProperties, LenProperties
      <4> QED
        BY <4>3
    <3> QED
      BY <3>6, <3>7, <3>8
  <2> QED
    BY <2>2, <2>3
<1>3. RunOK' /\ (Counting' <=> Counting)
  BY <1>1 DEF LossInv, RunOK, Counting
<1> QED
  BY <1>1, <1>2, <1>3 DEF LossInv

LEMMA NextLoss ==
  ASSUME Inv, LossInv, [McastNext]_mcastVars
  PROVE  LossInv'
<1>1. CASE UNCHANGED mcastVars
  BY <1>1 DEF mcastVars, LossInv, RunOK, Counting
<1>2. CASE ReceiveGSE \/ LoseGSE
  <2>1. mode' # "mpe" /\ (PacketReceived \/ PacketLost)
    BY <1>2 DEF ReceiveGSE, LoseGSE, MoreBB
  <2>2. RunOK'
    BY <2>1, RunFacts DEF LossInv
  <2> QED
    BY <2>1, <2>2 DEF LossInv, Counting
<1>3. CASE ReceiveUDP
  <2>1. mode' # "mpe" /\ lossRun' = lossRun
    BY <1>3 DEF ReceiveUDP, mcastHistory
  <2> QED
    BY <2>1 DEF LossInv, RunOK, Counting
<1> QED
  BY <1>1, <1>2, <1>3, ReceiveMPELoss, LoseMPELoss, PushLoss DEF McastNext

\* As long as fewer TS packets are lost in a row than the continuity counter
\* has values, process_ts() of MPEDeframer hands out whole sections only, and
\* only sections with a piece in a lost packet, or in the first one after it,
\* can be missing, whatever the sizes of the sections and of the packets.
THEOREM LossIsBounded == McastSpec => []LossBounded
<1>1. McastInit => LossInv
  BY InitLoss
<1>2. Inv /\ LossInv /\ [McastNext]_mcastVars => LossInv'
  BY NextLoss
<1>3. Inv /\ LossInv => LossBounded
  <2>1. SUFFICES ASSUME LossInv, Counting PROVE LossBounded
    BY DEF LossBounded, Counting
  <2>2. /\ Complete(Handed(forwarded, extracted), mux.pos, marred)
        /\ AllWhole(Handed(forwarded, extracted)) /\ mode = "mpe"
    BY <2>1 DEF LossInv, Counting
  <2>3. ASSUME NEW k \in 1 .. Len(extracted) PROVE IsWhole(extracted[k])
    <3>1. extracted[k] \in Handed(forwarded, extracted)
      BY DEF Handed
    <3> QED
      BY <2>2, <3>1, SectionWhole DEF AllWhole
  <2>4. ASSUME NEW a \in (1 .. Len(SectionLen)) \ (marred \cup OtherAddress), SectionEnd[a] <= mux.pos
        PROVE  \/ \E k \in 1 .. Len(extracted) : extracted[k] = Whole(a)
               \/ \E k \in 1 .. Len(forwarded) : forwarded[k] = Whole(a)
    <3>1. a \in Sections /\ a \notin marred /\ a \notin OtherAddress
      BY DEF Sections
    <3>2. Section(a) \in Handed(forwarded, extracted) /\ Section(a) = Whole(a)
      BY <2>2, <2>4, <3>1, SectionWhole DEF Complete
    <3> QED
      BY <3>2 DEF Handed
  <2> QED
    BY <2>3, <2>4 DEF LossBounded
<1> QED
  BY <1>1, <1>2, <1>3, AlwaysInv, PTL DEF McastSpec
=============================================================================
