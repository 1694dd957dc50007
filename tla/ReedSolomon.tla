---------------------------- MODULE ReedSolomon ----------------------------
(***************************************************************************)
(* The Reed-Solomon codec of lib/fec that ReedSolomon and FECDecoder use:  *)
(* encoding by division, decoding of errors and erasures by Berlekamp-     *)
(* Massey, Chien search and Forney's formula.                              *)
(*                                                                         *)
(* The code is RS(NN, NN - NRoots) over 2^SymSize symbols, not shortened   *)
(* (pad = 0), with the roots alpha^1, alpha^2, ... (firstRoot and primElem *)
(* are 1).  Symbols stay in polynomial form: the code's index form only    *)
(* saves table lookups.  Polynomials and blocks are functions from 0.      *)
(***************************************************************************)
EXTENDS Integers, FiniteSets
LOCAL INSTANCE Bitwise

CONSTANTS
  SymSize,   \* bits of a symbol (8)
  GfPoly,    \* field generator polynomial (0x11d)
  NRoots     \* parity symbols of a block (48)

NN == 2 ^ SymSize - 1      \* symbols of a block (255)
KK == NN - NRoots          \* data symbols of a block (207)
Symbols == 0 .. NN
FirstRoot == 1

-----------------------------------------------------------------------------
(* The field.                                                              *)

\* The shift register that runs through the powers of alpha.
Shifted(sr) == LET s == 2 * sr IN (IF s > NN THEN s ^^ GfPoly ELSE s) % (NN + 1)
Register[i \in 0 .. NN] == IF i = 0 THEN 1 ELSE Shifted(Register[i - 1])

AlphaTo == [i \in 0 .. NN |-> IF i = NN THEN 0 ELSE Register[i]]
IndexOf == [x \in Symbols |-> CHOOSE i \in 0 .. NN : AlphaTo[i] = x]

\* init_rs returns NULL unless this holds: the ranges of the parameters, and
\* a register that returns to 1 after all other symbols.
ValidParameters ==
  /\ SymSize \in 0 .. 8
  /\ FirstRoot \in 0 .. NN
  /\ NRoots \in 0 .. NN - 1
  /\ Register[NN] = 1
  /\ Cardinality({Register[i] : i \in 0 .. NN - 1}) = NN

ASSUME RsAssumption == ValidParameters

Modnn(x) == x % NN

Plus == [a \in Symbols, b \in Symbols |-> a ^^ b]
Times == [a \in Symbols, b \in Symbols |->
            IF a = 0 \/ b = 0 THEN 0 ELSE AlphaTo[Modnn(IndexOf[a] + IndexOf[b])]]
Power(i) == AlphaTo[Modnn(i)]

\* For a zero divisor this is what the code computes with INDEX_OF[0] = NN.
Quotient(a, b) == AlphaTo[Modnn(IndexOf[a] + NN - IndexOf[b])]

\* term(from) + ... + term(to), no more than 0 when the range is empty.
Sum(term(_), from, to) ==
  LET sum[i \in from - 1 .. to] == IF i < from THEN 0 ELSE Plus[sum[i - 1], term(i)]
  IN  IF to < from THEN 0 ELSE sum[to]

Coefficient(p, i) == IF i \in DOMAIN p THEN p[i] ELSE 0
Evaluate(p, degree, root) ==
  LET Term(i) == Times[p[i], Power(i * root)] IN Sum(Term, 0, degree)

\* The product over the roots of (x + alpha^root).
GenPoly ==
  LET g[n \in 0 .. NRoots] ==
        IF n = 0 THEN [j \in 0 .. NRoots |-> IF j = 0 THEN 1 ELSE 0]
        ELSE LET p == g[n - 1]
             IN  [j \in 0 .. NRoots |->
                    Plus[Coefficient(p, j - 1), Times[p[j], Power(FirstRoot + n - 1)]]]
  IN  g[NRoots]

-----------------------------------------------------------------------------
(* encode_rs: the remainder of data(x) * x^NRoots divided by GenPoly.      *)

Encode(data) ==
  LET parity[n \in 0 .. KK] ==
        IF n = 0 THEN [j \in 0 .. NRoots - 1 |-> 0]
        ELSE LET p == parity[n - 1]
                 feedback == Plus[data[n - 1], p[0]]
             IN  [j \in 0 .. NRoots - 1 |->
                    Plus[Coefficient(p, j + 1), Times[feedback, GenPoly[NRoots - 1 - j]]]]
  IN  parity[KK]

-----------------------------------------------------------------------------
(* decode_rs.                                                              *)

\* data(x) at the roots of GenPoly, by Horner's rule.
Syndromes(data) ==
  [i \in 0 .. NRoots - 1 |->
     LET s[j \in 0 .. NN - 1] ==
           IF j = 0 THEN data[0]
           ELSE Plus[data[j], Times[s[j - 1], Power(FirstRoot + i)]]
     IN  s[NN - 1]]

\* Seeded fault: positions are counted from one.
RootOffByOne(position) == Power(NN - position)

\* What a position contributes to the locator polynomial.
LocatorRoot(position) == Power(NN - 1 - position)

\* The polynomial whose roots tell the erased positions, at most NRoots.
ErasureLocator(erasures) ==
  LET lambda[n \in 0 .. NN] ==
        IF n = 0 THEN [j \in 0 .. NRoots |-> IF j = 0 THEN 1 ELSE 0]
        ELSE LET p == lambda[n - 1]
             IN  IF n - 1 \notin erasures THEN p
                 ELSE [j \in 0 .. NRoots |->
                         Plus[p[j], Times[LocatorRoot(n - 1), Coefficient(p, j - 1)]]]
  IN  lambda[NN]

Discrepancy(s, lambda, r) ==
  LET Term(i) == Times[lambda[i], s[r - i - 1]] IN Sum(Term, 0, r - 1)

\* One step of Berlekamp-Massey; bm holds lambda, b and el.
BerlekampMasseyStep(bm, discr, excess) ==
  LET lengthen == discr # 0 /\ 2 * bm.el <= excess - 1
  IN  [lambda |-> [i \in 0 .. NRoots |->
                     Plus[bm.lambda[i], Times[discr, Coefficient(bm.b, i - 1)]]],
       b  |-> [i \in 0 .. NRoots |->
                 IF lengthen THEN Times[bm.lambda[i], Quotient(1, discr)]
                 ELSE Coefficient(bm.b, i - 1)],
       el |-> IF lengthen THEN excess - bm.el ELSE bm.el]

\* The polynomial whose roots tell the erased and the wrong positions.
BerlekampMassey(s, noEras, lambda0) ==
  LET Step(bm, r) == BerlekampMasseyStep(bm, Discrepancy(s, bm.lambda, r), r + noEras)
      bm[r \in noEras .. NRoots] ==
        IF r = noEras THEN [lambda |-> lambda0, b |-> lambda0, el |-> noEras]
        ELSE Step(bm[r - 1], r)
  IN  bm[NRoots].lambda
Locator(s, erasures) == BerlekampMassey(s, Cardinality(erasures), ErasureLocator(erasures))

Degree(p) == CHOOSE d \in 0 .. NRoots :
               p[d] # 0 /\ \A i \in d + 1 .. NRoots : p[i] = 0

\* Chien search: all powers of alpha are tried.
ChienSearch(lambda, degree) == {i \in 1 .. NN : Evaluate(lambda, degree, i) = 0}

\* Omega = s * lambda, up to the degree below that of lambda.
Omega(s, lambda, degree) ==
  [i \in 0 .. degree - 1 |-> LET Term(j) == Times[s[i - j], lambda[j]] IN Sum(Term, 0, i)]

\* Forney: what is to be added at the position of a root.
Forney(num1, num2, den) == IF num1 = 0 THEN 0 ELSE Quotient(Times[num1, num2], den)
ErrorValue(s, lambda, degree, root) ==
  LET last    == IF degree < NRoots - 1 THEN degree ELSE NRoots - 1
      Term(h) == Times[lambda[2 * h + 1], Power(2 * h * root)]
  IN  Forney(Evaluate(Omega(s, lambda, degree), degree - 1, root),
             Power(root * (FirstRoot - 1)), Sum(Term, 0, last \div 2))

Uncorrectable == -1

Corrected(data, s, lambda, degree, roots) ==
  IF Cardinality(roots) # degree THEN [count |-> Uncorrectable, data |-> data]
  ELSE [count |-> degree,
        data  |-> [p \in DOMAIN data |->
                     IF p + 1 \notin roots THEN data[p]
                     ELSE Plus[data[p], ErrorValue(s, lambda, degree, p + 1)]]]

\* The block after decode_rs, and its return value: the number of corrected
\* positions or -1.
Decode(data, erasures) ==
  LET Search(s, lambda, degree) == Corrected(data, s, lambda, degree, ChienSearch(lambda, degree))
      Locate(s, lambda) == Search(s, lambda, Degree(lambda))
      Correct(s) == IF \A i \in DOMAIN s : s[i] = 0 THEN [count |-> 0, data |-> data]
                    ELSE Locate(s, Locator(s, erasures))
  IN  Correct(Syndromes(data))
=============================================================================
