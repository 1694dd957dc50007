--------------------------- MODULE Options_proofs ---------------------------
(***************************************************************************)
(* The flat list of options is cut into destinations as it was meant, for  *)
(* every set of options and every number of them.                          *)
(***************************************************************************)
EXTENDS Options, SequenceTheorems, FiniteSetTheorems, TLAPS

Dests == UNION {[D -> Nat] : D \in SUBSET DestOptions}

\* The destinations, with the one under construction.
All == Append(destinations, edi_destination)

\* The values in a are places in a list of g options.
Bounded(a, g) == \A i \in 1 .. Len(a) : \A o \in DOMAIN a[i] : a[i][o] \in 1 .. g

\* All options of a destination come before those of any later one.
Sorted(a) ==
  \A i, j \in 1 .. Len(a) :
    i < j => \A o \in DOMAIN a[i], p \in DOMAIN a[j] : a[i][o] < a[j][p]

\* Every one of g options is in a destination.
Covers(a, g) == \A v \in 1 .. g : \E i \in 1 .. Len(a) : \E o \in DOMAIN a[i] : a[i][o] = v

\* A destination begins with an option that the one before it has.
BegunBy(x, y) ==
  DOMAIN y # {} =>
    \E o \in DOMAIN x \cap DOMAIN y : \A p \in DOMAIN y : y[o] <= y[p]
Begun(a) == \A i \in 1 .. Len(a) - 1 : BegunBy(a[i], a[i + 1])

TypeInv ==
  /\ OptionsTypeOK
  /\ destinations \in Seq(Dests) /\ edi_destination \in Dests

\* The flags say what the destination under construction has.
FlagInv == DOMAIN edi_destination = option_set

AddressInv == \A i \in 1 .. Len(destinations) : Address \in DOMAIN destinations[i]

RunInv ==
  /\ Bounded(All, given) /\ Sorted(All)
  /\ parse # "exited" => Covers(All, given)
  /\ program # "edimcast2edi" => Begun(All)

\* A destination is under construction from the first option on, until the
\* last one is added; edimcast2edi constructs none.
StageInv ==
  /\ program = "edimcast2edi" => option_set = {}
  /\ (program # "edimcast2edi" /\ parse = "options" /\ destinations # <<>>) => option_set # {}
  /\ (program = "edi2edi" /\ parse \in {"verify", "rc", "started"}) => option_set = {}

Inv == TypeInv /\ FlagInv /\ AddressInv /\ RunInv /\ StageInv
-----------------------------------------------------------------------------
(* Lists of destinations that become longer by an option or a destination. *)

LEMMA DestElim ==
  ASSUME NEW x \in Dests
  PROVE  /\ DOMAIN x \subseteq DestOptions /\ x = [o \in DOMAIN x |-> x[o]]
         /\ \A o \in DOMAIN x : x[o] \in Nat
BY DEF Dests

LEMMA DestIntro ==
  ASSUME NEW D \in SUBSET DestOptions, NEW x \in [D -> Nat]
  PROVE  x \in Dests
BY DEF Dests

\* The parts of a list with one more element.
LEMMA Appended ==
  ASSUME NEW d \in Seq(Dests), NEW e \in Dests, NEW a, a = Append(d, e)
  PROVE  /\ a \in Seq(Dests) /\ Len(d) \in Nat /\ Len(a) = Len(d) + 1
         /\ \A i \in 1 .. Len(d) : a[i] = d[i]
         /\ a[Len(d) + 1] = e
BY AppendProperties

\* SetOption, when g options came before.
WithOption(e, o, g) == [k \in DOMAIN e \cup {o} |-> IF k = o THEN g + 1 ELSE e[k]]

\* The destination under construction gets the option o as number g + 1.
LEMMA OptionAdded ==
  ASSUME NEW d \in Seq(Dests), NEW e \in Dests, NEW g \in Nat, NEW o \in DestOptions,
         o \notin DOMAIN e,
         NEW a, a = Append(d, e), Bounded(a, g), Sorted(a),
         NEW x, x = WithOption(e, o, g), NEW b, b = Append(d, x)
  PROVE  /\ x \in Dests /\ Bounded(b, g + 1) /\ Sorted(b)
         /\ Covers(a, g) => Covers(b, g + 1)
         /\ (Begun(a) /\ (DOMAIN e = {} => d = <<>>)) => Begun(b)
<1>1. /\ DOMAIN x = DOMAIN e \cup {o} /\ x[o] = g + 1
      /\ \A k \in DOMAIN e : x[k] = e[k]
  BY DEF WithOption
<1>2. x \in Dests
  <2>1. DOMAIN e \cup {o} \in SUBSET DestOptions
    BY DestElim
  <2>2. x \in [DOMAIN e \cup {o} -> Nat]
    BY DestElim DEF WithOption
  <2> QED
    BY <2>1, <2>2, DestIntro
<1>3. PICK n : n = Len(d)
  OBVIOUS
<1>4. /\ n \in Nat /\ Len(a) = n + 1 /\ Len(b) = n + 1
      /\ a[n + 1] = e /\ b[n + 1] = x
      /\ \A i \in 1 .. n : b[i] = a[i]
  BY <1>2, <1>3, Appended
<1>5. Bounded(a, g) /\ Sorted(a)
  OBVIOUS
<1>6. \A k \in DOMAIN e : e[k] \in 1 .. g
  BY <1>4, <1>5 DEF Bounded
<1>7. \A i \in 1 .. n : \A k \in DOMAIN a[i] : a[i][k] \in 1 .. g
  BY <1>4, <1>5 DEF Bounded
<1>8. \A k \in DOMAIN x : x[k] \in 1 .. g + 1
  BY <1>1, <1>6
<1>9. Bounded(b, g + 1)
  <2>1. ASSUME NEW i \in 1 .. n + 1, NEW k \in DOMAIN b[i]
        PROVE  b[i][k] \in 1 .. g + 1
    <3>1. CASE i = n + 1
      BY <1>4, <1>8, <3>1
    <3>2. CASE i \in 1 .. n
      BY <1>4, <1>7, <3>2
    <3> QED
      BY <1>4, <3>1, <3>2
  <2> QED
    BY <1>4, <2>1 DEF Bounded
<1>10. Sorted(b)
  <2>1. ASSUME NEW i \in 1 .. n + 1, NEW j \in 1 .. n + 1, i < j,
               NEW k \in DOMAIN b[i], NEW l \in DOMAIN b[j]
        PROVE  b[i][k] < b[j][l]
    <3>1. i \in 1 .. n /\ b[i] = a[i]
      BY <1>4, <2>1
    <3>2. CASE j \in 1 .. n
      <4>1. b[j] = a[j]
        BY <1>4, <3>2
      <4> QED
        BY <1>4, <1>5, <2>1, <3>1, <4>1 DEF Sorted
    <3>3. CASE j = n + 1 /\ l \in DOMAIN e
      <4>1. a[i][k] < a[j][l]
        BY <1>4, <1>5, <2>1, <3>1, <3>3 DEF Sorted
      <4> QED
        BY <1>1, <1>4, <3>1, <3>3, <4>1
    <3>4. CASE j = n + 1 /\ l = o
      <4>1. a[i][k] \in 1 .. g
        BY <1>7, <3>1
      <4> QED
        BY <1>1, <1>4, <3>1, <3>4, <4>1
    <3> QED
      BY <1>1, <1>4, <3>2, <3>3, <3>4
  <2> QED
    BY <1>4, <2>1 DEF Sorted
<1>11. ASSUME Covers(a, g)
       PROVE  Covers(b, g + 1)
  <2>1. ASSUME NEW v \in 1 .. g + 1
        PROVE  \E i \in 1 .. n + 1 : \E k \in DOMAIN b[i] : b[i][k] = v
    <3>1. CASE v = g + 1
      <4>1. n + 1 \in 1 .. n + 1 /\ o \in DOMAIN b[n + 1] /\ b[n + 1][o] = v
        BY <1>1, <1>4, <3>1
      <4> QED
        BY <4>1
    <3>2. CASE v \in 1 .. g
      <4>1. PICK i \in 1 .. n + 1 : \E k \in DOMAIN a[i] : a[i][k] = v
        BY <1>4, <1>11, <3>2 DEF Covers
      <4>2. PICK k \in DOMAIN a[i] : a[i][k] = v
        BY <4>1
      <4>3. CASE i \in 1 .. n
        BY <1>4, <4>2, <4>3
      <4>4. CASE i = n + 1
        <5>1. k \in DOMAIN e /\ e[k] = v
          BY <1>4, <4>2, <4>4
        <5>2. k \in DOMAIN b[i] /\ b[i][k] = v
          BY <1>1, <1>4, <4>4, <5>1
        <5> QED
          BY <5>2
      <4> QED
        BY <1>4, <4>3, <4>4
    <3>3. v = g + 1 \/ v \in 1 .. g
      OBVIOUS
    <3> QED
      BY <3>1, <3>2, <3>3
  <2> QED
    BY <1>4, <2>1 DEF Covers
<1>12. ASSUME Begun(a), DOMAIN e = {} => d = <<>>
       PROVE  Begun(b)
  <2>1. ASSUME NEW i \in 1 .. n
        PROVE  BegunBy(b[i], b[i + 1])
    <3>1. b[i] = a[i] /\ BegunBy(a[i], a[i + 1])
      BY <1>4, <1>12 DEF Begun
    <3>2. CASE i + 1 \in 1 .. n
      BY <1>4, <3>1, <3>2
    <3>3. CASE i = n
      <4>1. DOMAIN e # {}
        <5>1. d # <<>>
          BY <1>3, <3>3
        <5> QED
          BY <1>12, <5>1
      <4>2. PICK k \in DOMAIN a[i] \cap DOMAIN e : \A p \in DOMAIN e : e[k] <= e[p]
        BY <1>4, <3>1, <3>3, <4>1 DEF BegunBy
      <4>3. k \in DOMAIN b[i] \cap DOMAIN x /\ x[k] = e[k]
        BY <1>1, <3>1, <4>2
      <4>4. e[k] \in 1 .. g
        BY <1>6, <4>2
      <4>5. \A p \in DOMAIN x : x[k] <= x[p]
        BY <1>1, <4>2, <4>3, <4>4
      <4> QED
        BY <1>4, <3>3, <4>3, <4>5 DEF BegunBy
    <3> QED
      BY <1>4, <3>2, <3>3
  <2> QED
    BY <1>4, <2>1 DEF Begun
<1> QED
  BY <1>1, <1>2, <1>3, <1>9, <1>10, <1>11, <1>12

\* The destination under construction is finished, and an empty one begins.
LEMMA DestinationAdded ==
  ASSUME NEW d \in Seq(Dests), NEW e \in Dests, NEW g \in Nat,
         NEW z \in Dests, DOMAIN z = {},
         Bounded(Append(d, e), g), Sorted(Append(d, e)),
         NEW c, c = Append(d, e)
  PROVE  /\ Bounded(Append(c, z), g) /\ Sorted(Append(c, z))
         /\ Covers(c, g) => Covers(Append(c, z), g)
         /\ Begun(c) => Begun(Append(c, z))
<1>1. PICK b, n : b = Append(c, z) /\ n = Len(c)
  OBVIOUS
<1>2. /\ c \in Seq(Dests) /\ n \in Nat /\ Len(b) = n + 1
      /\ b[n + 1] = z /\ \A i \in 1 .. n : b[i] = c[i]
  BY <1>1, Appended
<1>3. Bounded(b, g)
  BY <1>1, <1>2 DEF Bounded
<1>4. Sorted(b)
  <2>1. ASSUME NEW i \in 1 .. n + 1, NEW j \in 1 .. n + 1, i < j,
               NEW k \in DOMAIN b[i], NEW l \in DOMAIN b[j]
        PROVE  b[i][k] < b[j][l]
    <3>1. j \in 1 .. n /\ i \in 1 .. n
      BY <1>2, <2>1
    <3>2. b[i] = c[i] /\ b[j] = c[j]
      BY <1>2, <3>1
    <3> QED
      BY <1>1, <2>1, <3>1, <3>2 DEF Sorted
  <2> QED
    BY <1>2, <2>1 DEF Sorted
<1>5. ASSUME Covers(c, g) PROVE Covers(b, g)
  BY <1>1, <1>2, <1>5, SMTT(30) DEF Covers
<1>6. ASSUME Begun(c) PROVE Begun(b)
  <2>1. ASSUME NEW i \in 1 .. n
        PROVE  BegunBy(b[i], b[i + 1])
    <3>1. CASE i = n
      BY <1>2, <3>1 DEF BegunBy
    <3>2. CASE i \in 1 .. n - 1
      <4>1. b[i] = c[i] /\ b[i + 1] = c[i + 1]
        <5>1. i \in 1 .. n /\ i + 1 \in 1 .. n
          BY <1>2, <3>2
        <5> QED
          BY <1>2, <5>1
      <4> QED
        BY <1>1, <1>6, <3>2, <4>1 DEF Begun
    <3> QED
      BY <1>2, <3>1, <3>2
  <2> QED
    BY <1>2, <2>1 DEF Begun
<1> QED
  BY <1>1, <1>3, <1>4, <1>5, <1>6

\* An option that the finished destination has begins the next one.
LEMMA NextBegun ==
  ASSUME NEW d \in Seq(Dests), NEW e \in Dests, NEW y \in Dests, NEW o \in DOMAIN e,
         DOMAIN y = {o}, NEW c, c = Append(d, e), Begun(c)
  PROVE  Begun(Append(c, y))
<1>1. PICK b, n : b = Append(c, y) /\ n = Len(d)
  OBVIOUS
<1>2. /\ c \in Seq(Dests) /\ n \in Nat /\ Len(c) = n + 1 /\ c[n + 1] = e
  BY <1>1, Appended
<1>3. Len(b) = n + 2 /\ b[n + 2] = y /\ \A i \in 1 .. n + 1 : b[i] = c[i]
  <2>1. Len(b) = Len(c) + 1 /\ b[Len(c) + 1] = y /\ \A i \in 1 .. Len(c) : b[i] = c[i]
    BY <1>1, <1>2, Appended
  <2>2. Len(c) + 1 = n + 2
    BY <1>2
  <2> QED
    BY <1>2, <2>1, <2>2
<1>4. ASSUME NEW i \in 1 .. n + 1
      PROVE  BegunBy(b[i], b[i + 1])
  <2>1. CASE i = n + 1
    <3>1. b[i] = e /\ b[i + 1] = y
      <4>1. i + 1 = n + 2
        BY <1>2, <2>1
      <4> QED
        BY <1>2, <1>3, <2>1, <4>1
    <3>2. o \in DOMAIN e \cap DOMAIN y /\ y[o] \in Nat
      BY DestElim
    <3>3. \A p \in DOMAIN y : y[o] <= y[p]
      BY <3>2
    <3> QED
      BY <3>1, <3>2, <3>3 DEF BegunBy
  <2>2. CASE i \in 1 .. n
    <3>1. i \in 1 .. n + 1 /\ i + 1 \in 1 .. n + 1 /\ i \in 1 .. Len(c) - 1
      BY <1>2, <2>2
    <3>2. b[i] = c[i] /\ b[i + 1] = c[i + 1]
      BY <1>3, <3>1
    <3> QED
      BY <3>1, <3>2 DEF Begun
  <2> QED
    BY <1>2, <2>1, <2>2
<1>5. 1 .. Len(b) - 1 = 1 .. n + 1
  BY <1>2, <1>3
<1> QED
  BY <1>1, <1>4, <1>5 DEF Begun
-----------------------------------------------------------------------------
(* The inductive invariant.                                                *)

LEMMA NothingYet == NewDestination \in Dests /\ DOMAIN NewDestination = {}
<1>1. NewDestination \in [{} -> Nat]
  BY DEF NewDestination
<1>2. {} \in SUBSET DestOptions
  OBVIOUS
<1> QED
  BY <1>1, <1>2, DestIntro DEF NewDestination

\* The parts of the type invariant.
LEMMA Parts ==
  ASSUME TypeInv
  PROVE  /\ destinations \in Seq(Dests) /\ edi_destination \in Dests
         /\ given \in Nat /\ MaxOptions \in Nat /\ Address \in DestOptions
         /\ DOMAIN destinations = 1 .. Len(destinations) /\ Len(destinations) \in Nat
BY OptionsAssumption DEF TypeInv, OptionsTypeOK

\* OptionsTypeOK says of the destinations what Dests does.
LEMMA ListElim ==
  ASSUME NEW d \in Seq(Dests)
  PROVE  \A i \in DOMAIN d : DOMAIN d[i] \subseteq DestOptions
<1>1. ASSUME NEW i \in DOMAIN d
      PROVE  d[i] \in Dests
  BY <1>1
<1> QED
  BY <1>1, DestElim

LEMMA TypeIntro ==
  ASSUME program' \in {"edi2edi", "zmq2edi", "edimcast2edi"},
         parse' \in {"options", "check", "add", "verify", "rc", "started", "exited"},
         destinations' \in Seq(Dests), edi_destination' \in Dests, FlagInv',
         deframer' \in {"none", "mpe", "gse"}, given' \in 0 .. MaxOptions
  PROVE  TypeInv'
<1>1. option_set' \subseteq DestOptions /\ DOMAIN edi_destination' \subseteq DestOptions
  BY DestElim DEF FlagInv
<1>2. \A i \in DOMAIN destinations' : DOMAIN destinations'[i] \subseteq DestOptions
  BY ListElim
<1> QED
  BY <1>1, <1>2 DEF TypeInv, OptionsTypeOK

LEMMA InvInit == OptionsInit => Inv
<1> SUFFICES ASSUME OptionsInit PROVE Inv
  OBVIOUS
<1>1. /\ program \in {"edi2edi", "zmq2edi", "edimcast2edi"} /\ parse = "options"
      /\ edi_destination = NewDestination /\ option_set = {} /\ destinations = <<>>
      /\ deframer = "none" /\ given = 0
  BY DEF OptionsInit
<1>2. FlagInv
  BY <1>1, NothingYet DEF FlagInv
<1>3. destinations \in Seq(Dests) /\ edi_destination \in Dests /\ Len(destinations) = 0
  BY <1>1, NothingYet
<1>4. TypeInv
  <2>1. given \in 0 .. MaxOptions
    BY <1>1, OptionsAssumption
  <2>2. \A i \in DOMAIN destinations : DOMAIN destinations[i] \subseteq DestOptions
    BY <1>3, ListElim
  <2>3. DOMAIN edi_destination \subseteq DestOptions
    BY <1>1, NothingYet
  <2> QED
    BY <1>1, <1>3, <2>1, <2>2, <2>3 DEF TypeInv, OptionsTypeOK
<1>5. PICK a : a = All
  OBVIOUS
<1>6. Len(a) = 1 /\ a[1] = NewDestination
  BY <1>1, <1>3, <1>5, Appended DEF All
<1>7. RunInv
  <2>1. \A i \in 1 .. Len(a) : DOMAIN a[i] = {}
    BY <1>6, NothingYet
  <2>2. Bounded(a, 0) /\ Sorted(a)
    BY <2>1 DEF Bounded, Sorted
  <2>3. Covers(a, 0)
    BY DEF Covers
  <2>4. Begun(a)
    BY <1>6 DEF Begun
  <2> QED
    BY <1>1, <1>5, <2>2, <2>3, <2>4 DEF RunInv
<1>8. AddressInv
  BY <1>3 DEF AddressInv
<1>9. StageInv
  BY <1>1 DEF StageInv
<1> QED
  BY <1>2, <1>4, <1>7, <1>8, <1>9 DEF Inv

LEMMA ParseStep ==
  ASSUME Inv, NEW o \in DestOptions, ParseDestinationArgs(o)
  PROVE  Inv'
<1>1. /\ parse = "options" /\ program \in {"edi2edi", "zmq2edi"} /\ given < MaxOptions
      /\ given' = given + 1 /\ program' = program /\ deframer' = deframer
  BY DEF ParseDestinationArgs
<1>2. PICK d, e, g : d = destinations /\ e = edi_destination /\ g = given
  OBVIOUS
<1>3. d \in Seq(Dests) /\ e \in Dests /\ g \in Nat /\ Address \in DestOptions
  BY <1>2, Parts DEF Inv
<1>4. given' \in 0 .. MaxOptions /\ given' = g + 1
  BY <1>1, <1>2, Parts DEF Inv
<1>5. /\ Bounded(Append(d, e), g) /\ Sorted(Append(d, e)) /\ Covers(Append(d, e), g)
      /\ Begun(Append(d, e))
  BY <1>1, <1>2 DEF Inv, RunInv, All
<1>6. DOMAIN e = option_set /\ (d # <<>> => option_set # {})
  BY <1>1, <1>2 DEF Inv, FlagInv, StageInv
<1>7. deframer' \in {"none", "mpe", "gse"} /\ program' \in {"edi2edi", "zmq2edi"}
  BY <1>1 DEF Inv, TypeInv, OptionsTypeOK
<1>8. CASE /\ o \notin option_set
           /\ edi_destination' = SetOption(edi_destination, o)
           /\ option_set' = option_set \cup {o}
           /\ UNCHANGED <<parse, destinations>>
  <2>1. PICK x : x = WithOption(e, o, g)
    OBVIOUS
  <2>2. edi_destination' = x /\ destinations' = d
    BY <1>2, <1>8, <2>1 DEF SetOption, WithOption
  <2>3. o \notin DOMAIN e
    BY <1>6, <1>8
  <2>4. /\ x \in Dests /\ DOMAIN x = DOMAIN e \cup {o}
        /\ Bounded(Append(d, x), g + 1) /\ Sorted(Append(d, x))
        /\ Covers(Append(d, x), g + 1) /\ Begun(Append(d, x))
    <3>1. PICK a, b : a = Append(d, e) /\ b = Append(d, x)
      OBVIOUS
    <3>2. Bounded(a, g) /\ Sorted(a) /\ Covers(a, g) /\ Begun(a)
      BY <1>5, <3>1
    <3>3. DOMAIN e = {} => d = <<>>
      BY <1>6
    <3>4. x \in Dests /\ Bounded(b, g + 1) /\ Sorted(b) /\ Covers(b, g + 1) /\ Begun(b)
      BY <1>3, <2>1, <2>3, <3>1, <3>2, <3>3, OptionAdded
    <3>5. DOMAIN x = DOMAIN e \cup {o}
      BY <2>1 DEF WithOption
    <3> QED
      BY <3>1, <3>4, <3>5
  <2>5. FlagInv'
    BY <1>6, <1>8, <2>2, <2>4 DEF FlagInv
  <2>6. TypeInv'
    BY <1>1, <1>3, <1>4, <1>7, <1>8, <2>2, <2>4, <2>5, TypeIntro
  <2>7. AddressInv' /\ StageInv'
    BY <1>1, <1>2, <1>8, <2>2 DEF Inv, AddressInv, StageInv
  <2>8. RunInv'
    BY <1>4, <2>2, <2>4 DEF RunInv, All
  <2> QED
    BY <2>5, <2>6, <2>7, <2>8 DEF Inv
<1>9. CASE /\ o \in option_set /\ Address \in option_set
           /\ AddEdiDestination
           /\ edi_destination' = SetOption(NewDestination, o)
           /\ option_set' = FlagsCleared \cup {o}
           /\ UNCHANGED parse
  <2>1. PICK z, c : z = NewDestination /\ c = Append(d, e)
    OBVIOUS
  <2>2. z \in Dests /\ DOMAIN z = {}
    BY <2>1, NothingYet
  <2>3. PICK y : y = WithOption(z, o, g)
    OBVIOUS
  <2>4. edi_destination' = y /\ destinations' = c /\ option_set' = {o}
    BY <1>2, <1>9, <2>1, <2>3 DEF SetOption, WithOption, AddEdiDestination, FlagsCleared
  <2>5. /\ Bounded(Append(c, z), g) /\ Sorted(Append(c, z)) /\ Covers(Append(c, z), g)
    BY <1>3, <1>5, <2>1, <2>2, DestinationAdded
  <2>6. /\ c \in Seq(Dests) /\ Len(d) \in Nat /\ Len(c) = Len(d) + 1
        /\ \A i \in 1 .. Len(d) : c[i] = d[i]
        /\ c[Len(d) + 1] = e
    BY <1>3, <2>1, Appended
  <2>7. /\ y \in Dests /\ DOMAIN y = {o}
        /\ Bounded(Append(c, y), g + 1) /\ Sorted(Append(c, y)) /\ Covers(Append(c, y), g + 1)
    <3>1. o \notin DOMAIN z
      BY <2>2
    <3>2. PICK a, b : a = Append(c, z) /\ b = Append(c, y)
      OBVIOUS
    <3>3. Bounded(a, g) /\ Sorted(a) /\ Covers(a, g) /\ c \in Seq(Dests)
      BY <2>5, <2>6, <3>2
    <3>4. y \in Dests /\ Bounded(b, g + 1) /\ Sorted(b) /\ Covers(b, g + 1)
      BY <1>3, <2>2, <2>3, <3>1, <3>2, <3>3, OptionAdded
    <3>5. DOMAIN y = {o}
      BY <2>2, <2>3 DEF WithOption
    <3> QED
      BY <3>2, <3>4, <3>5
  <2>8. Begun(Append(c, y))
    BY <1>3, <1>5, <1>6, <1>9, <2>1, <2>7, NextBegun
  <2>9. FlagInv'
    BY <2>4, <2>7 DEF FlagInv
  <2>10. TypeInv'
    BY <1>1, <1>4, <1>7, <1>9, <2>4, <2>6, <2>7, <2>9, TypeIntro
  <2>11. AddressInv'
    <3>1. \A i \in 1 .. Len(d) : Address \in DOMAIN d[i]
      BY <1>2 DEF Inv, AddressInv
    <3>2. \A i \in 1 .. Len(c) : Address \in DOMAIN c[i]
      BY <1>6, <1>9, <2>6, <3>1
    <3> QED
      BY <2>4, <3>2 DEF AddressInv
  <2>12. StageInv'
    BY <1>1, <1>9, <2>4 DEF StageInv
  <2>13. RunInv'
    BY <1>4, <2>4, <2>7, <2>8 DEF RunInv, All
  <2> QED
    BY <2>9, <2>10, <2>11, <2>12, <2>13 DEF Inv
<1>10. CASE /\ o \in option_set /\ Address \notin option_set
            /\ parse' = "exited"
            /\ UNCHANGED <<edi_destination, option_set, destinations>>
  <2>1. FlagInv' /\ AddressInv' /\ StageInv'
    BY <1>1, <1>10 DEF Inv, FlagInv, AddressInv, StageInv
  <2>2. TypeInv'
    BY <1>2, <1>3, <1>4, <1>7, <1>10, <2>1, TypeIntro
  <2>3. RunInv'
    <3>1. Bounded(Append(d, e), g + 1)
      BY <1>3, <1>5 DEF Bounded
    <3> QED
      BY <1>2, <1>4, <1>5, <1>10, <3>1 DEF RunInv, All
  <2> QED
    BY <2>1, <2>2, <2>3 DEF Inv
<1> QED
  BY <1>8, <1>9, <1>10 DEF ParseDestinationArgs

\* The destination under construction is added, and the flags are cleared.
LEMMA AddStep ==
  ASSUME Inv, AddEdiDestination, edi_destination' = NewDestination, option_set' = {},
         Address \in option_set, parse = "add", parse' = "verify",
         UNCHANGED <<program, deframer, given>>
  PROVE  Inv'
<1>1. PICK d, e, g, z, c : /\ d = destinations /\ e = edi_destination /\ g = given
                           /\ z = NewDestination /\ c = Append(d, e)
  OBVIOUS
<1>2. d \in Seq(Dests) /\ e \in Dests /\ g \in Nat
  BY <1>1, Parts DEF Inv
<1>3. z \in Dests /\ DOMAIN z = {}
  BY <1>1, NothingYet
<1>4. edi_destination' = z /\ destinations' = c /\ given' = g
  BY <1>1 DEF AddEdiDestination
<1>5. /\ Bounded(c, g) /\ Sorted(c) /\ Covers(c, g)
      /\ program # "edimcast2edi" => Begun(c)
  BY <1>1 DEF Inv, RunInv, All
<1>6. /\ Bounded(Append(c, z), g) /\ Sorted(Append(c, z)) /\ Covers(Append(c, z), g)
      /\ program # "edimcast2edi" => Begun(Append(c, z))
  BY <1>1, <1>2, <1>3, <1>5, DestinationAdded
<1>7. /\ c \in Seq(Dests) /\ Len(d) \in Nat /\ Len(c) = Len(d) + 1
      /\ \A i \in 1 .. Len(d) : c[i] = d[i]
      /\ c[Len(d) + 1] = e
  BY <1>1, <1>2, Appended
<1>8. FlagInv'
  BY <1>3, <1>4 DEF FlagInv
<1>9. TypeInv'
  <2>1. /\ program' \in {"edi2edi", "zmq2edi", "edimcast2edi"}
        /\ deframer' \in {"none", "mpe", "gse"} /\ given' \in 0 .. MaxOptions
    BY DEF Inv, TypeInv, OptionsTypeOK
  <2> QED
    BY <1>3, <1>4, <1>7, <1>8, <2>1, TypeIntro
<1>10. AddressInv'
  <2>1. \A i \in 1 .. Len(d) : Address \in DOMAIN d[i]
    BY <1>1 DEF Inv, AddressInv
  <2>2. Address \in DOMAIN e
    BY <1>1 DEF Inv, FlagInv
  <2>3. \A i \in 1 .. Len(c) : Address \in DOMAIN c[i]
    BY <1>7, <2>1, <2>2
  <2> QED
    BY <1>4, <2>3 DEF AddressInv
<1>11. StageInv'
  BY DEF StageInv
<1>12. RunInv'
  BY <1>4, <1>6 DEF RunInv, All
<1> QED
  BY <1>8, <1>9, <1>10, <1>11, <1>12 DEF Inv

\* The steps that leave the destinations and their options alone.
LEMMA QuietStep ==
  ASSUME Inv, UNCHANGED <<program, edi_destination, option_set, destinations, given>>,
         parse' \in {"options", "check", "add", "verify", "rc", "started", "exited"},
         parse' # "exited" => parse # "exited",
         deframer' \in {"none", "mpe", "gse"}, StageInv'
  PROVE  Inv'
<1>1. FlagInv' /\ AddressInv'
  BY DEF Inv, FlagInv, AddressInv
<1>2. TypeInv'
  BY DEF Inv, TypeInv, OptionsTypeOK
<1>3. RunInv'
  BY DEF Inv, RunInv, All
<1> QED
  BY <1>1, <1>2, <1>3 DEF Inv

LEMMA ServerStep == Inv /\ AddServer => Inv'
<1> SUFFICES ASSUME Inv, AddServer PROVE Inv'
  OBVIOUS
<1>1. /\ parse = "options" /\ program = "edimcast2edi" /\ given < MaxOptions
      /\ given' = given + 1
      /\ destinations' = Append(destinations, [k \in {Address} |-> given + 1])
      /\ UNCHANGED <<program, parse, edi_destination, option_set, deframer>>
  BY DEF AddServer
<1>2. PICK d, e, g, a : /\ d = destinations /\ e = edi_destination /\ g = given
                        /\ a = Append(d, e)
  OBVIOUS
<1>3. PICK x : x = WithOption(e, Address, g)
  OBVIOUS
<1>4. PICK b : b = Append(d, x)
  OBVIOUS
<1>5. d \in Seq(Dests) /\ e \in Dests /\ g \in Nat /\ Address \in DestOptions
  BY <1>2, Parts DEF Inv
<1>6. DOMAIN e = {} /\ option_set = {}
  BY <1>1, <1>2 DEF Inv, FlagInv, StageInv
<1>7. x = [k \in {Address} |-> g + 1]
  BY <1>3, <1>6 DEF WithOption
<1>8. Bounded(a, g) /\ Sorted(a) /\ Covers(a, g)
  BY <1>1, <1>2 DEF Inv, RunInv, All
<1>9. x \in Dests /\ Bounded(b, g + 1) /\ Sorted(b) /\ Covers(b, g + 1)
  BY <1>2, <1>3, <1>4, <1>5, <1>6, <1>8, OptionAdded
<1>10. g + 1 \in Nat
  BY <1>5
<1>11. Bounded(Append(b, e), g + 1) /\ Sorted(Append(b, e)) /\ Covers(Append(b, e), g + 1)
  <2>1. PICK h : h = g + 1
    OBVIOUS
  <2>2. Bounded(Append(b, e), h) /\ Sorted(Append(b, e)) /\ Covers(Append(b, e), h)
    BY <1>4, <1>5, <1>6, <1>9, <1>10, <2>1, DestinationAdded
  <2> QED
    BY <2>1, <2>2
<1>12. destinations' = b /\ edi_destination' = e /\ given' = g + 1
  BY <1>1, <1>2, <1>4, <1>7
<1>13. /\ b \in Seq(Dests) /\ Len(d) \in Nat /\ Len(b) = Len(d) + 1
       /\ \A i \in 1 .. Len(d) : b[i] = d[i]
       /\ b[Len(d) + 1] = x
  BY <1>4, <1>5, <1>9, Appended
<1>14. FlagInv'
  BY <1>1 DEF Inv, FlagInv
<1>15. TypeInv'
  <2>1. /\ program' \in {"edi2edi", "zmq2edi", "edimcast2edi"}
        /\ deframer' \in {"none", "mpe", "gse"}
        /\ parse' \in {"options", "check", "add", "verify", "rc", "started", "exited"}
    BY <1>1 DEF Inv, TypeInv, OptionsTypeOK
  <2>2. given' \in 0 .. MaxOptions
    BY <1>1, <1>2, <1>5, Parts DEF Inv
  <2> QED
    BY <1>5, <1>12, <1>13, <1>14, <2>1, <2>2, TypeIntro
<1>16. AddressInv'
  <2>1. \A i \in 1 .. Len(d) : Address \in DOMAIN d[i]
    BY <1>2 DEF Inv, AddressInv
  <2>2. \A i \in 1 .. Len(b) : Address \in DOMAIN b[i]
    BY <1>7, <1>13, <2>1
  <2> QED
    BY <1>12, <2>2 DEF AddressInv
<1>17. StageInv'
  BY <1>1, <1>6 DEF StageInv
<1>18. RunInv'
  BY <1>1, <1>11, <1>12 DEF RunInv, All
<1> QED
  BY <1>14, <1>15, <1>16, <1>17, <1>18 DEF Inv

LEMMA InvNext == Inv /\ [OptionsNext]_optionsVars => Inv'
<1> SUFFICES ASSUME Inv, [OptionsNext]_optionsVars PROVE Inv'
  OBVIOUS
<1>1. /\ parse \in {"options", "check", "add", "verify", "rc", "started", "exited"}
      /\ program \in {"edi2edi", "zmq2edi", "edimcast2edi"}
      /\ deframer \in {"none", "mpe", "gse"} /\ StageInv
  BY DEF Inv, TypeInv, OptionsTypeOK
<1>2. ASSUME NEW o \in DestOptions, ParseDestinationArgs(o) PROVE Inv'
  BY <1>2, ParseStep
<1>3. CASE AddSource \/ AddZmqOutput \/ UNCHANGED optionsVars
  <2>1. UNCHANGED <<program, edi_destination, option_set, destinations, given, parse, deframer>>
    BY <1>3 DEF AddSource, AddZmqOutput, optionsVars
  <2>2. StageInv'
    BY <1>1, <2>1 DEF StageInv
  <2> QED
    BY <1>1, <2>1, <2>2, QuietStep
<1>4. CASE AddServer
  BY <1>4, ServerStep
<1>5. ASSUME NEW d \in {"mpe", "gse"}, ChooseDeframer(d) PROVE Inv'
  <2>1. /\ UNCHANGED <<program, edi_destination, option_set, destinations, given, parse>>
        /\ deframer' \in {"none", "mpe", "gse"}
    BY <1>5 DEF ChooseDeframer
  <2>2. StageInv'
    BY <1>1, <2>1 DEF StageInv
  <2> QED
    BY <1>1, <2>1, <2>2, QuietStep
<1>6. CASE RefuseOption \/ EndOfOptions \/ StartupCheck \/ VerifyConfiguration \/ InitRc
  <2>1. UNCHANGED <<program, edi_destination, option_set, destinations, given, deframer>>
    BY <1>6 DEF RefuseOption, EndOfOptions, StartupCheck, VerifyConfiguration, InitRc
  <2>2. /\ parse # "exited"
        /\ parse' \in {"check", "add", "verify", "rc", "started", "exited"}
        /\ (parse' \in {"verify", "rc", "started"} /\ program = "edi2edi") =>
             parse \in {"verify", "rc"}
    <3>1. CASE RefuseOption
      BY <3>1 DEF RefuseOption
    <3>2. CASE EndOfOptions
      BY <1>1, <3>2 DEF EndOfOptions
    <3>3. CASE StartupCheck
      BY <1>1, <3>3 DEF StartupCheck
    <3>4. CASE VerifyConfiguration
      <4>1. parse = "verify" /\ parse' \in {"rc", "check", "started", "exited"}
        BY <1>1, <3>4 DEF VerifyConfiguration
      <4> QED
        BY <4>1
    <3>5. CASE InitRc
      BY <3>5 DEF InitRc
    <3> QED
      BY <1>6, <3>1, <3>2, <3>3, <3>4, <3>5
  <2>3. StageInv'
    BY <1>1, <2>1, <2>2 DEF StageInv
  <2> QED
    BY <1>1, <2>1, <2>2, <2>3, QuietStep
<1>7. CASE AddLastDestination
  <2>1. parse = "add" /\ UNCHANGED <<program, deframer, given>>
    BY <1>7 DEF AddLastDestination
  <2>2. CASE /\ Address \in option_set /\ AddEdiDestination
             /\ edi_destination' = NewDestination /\ option_set' = FlagsCleared
             /\ parse' = "verify"
    BY <2>1, <2>2, AddStep DEF FlagsCleared
  <2>3. CASE /\ Address \notin option_set /\ (program = "zmq2edi" \/ given = 0)
             /\ parse' = "verify"
             /\ UNCHANGED <<edi_destination, option_set, destinations>>
    <3>1. given = 0 => option_set = {}
      <4>1. PICK d, e, a : d = destinations /\ e = edi_destination /\ a = Append(d, e)
        OBVIOUS
      <4>2. d \in Seq(Dests) /\ e \in Dests
        BY <4>1, Parts DEF Inv
      <4>3. Len(a) = Len(d) + 1 /\ Len(d) \in Nat /\ a[Len(d) + 1] = e
        BY <4>1, <4>2, Appended
      <4>4. \A o \in DOMAIN e : e[o] \in 1 .. given
        BY <4>1, <4>3 DEF Inv, RunInv, All, Bounded
      <4> QED
        BY <4>1, <4>4 DEF Inv, FlagInv
    <3>2. StageInv'
      BY <1>1, <2>1, <2>3, <3>1 DEF StageInv
    <3> QED
      BY <1>1, <2>1, <2>3, <3>2, QuietStep
  <2>4. CASE /\ parse' = "exited"
             /\ UNCHANGED <<edi_destination, option_set, destinations>>
    <3>1. StageInv'
      BY <1>1, <2>1, <2>4 DEF StageInv
    <3> QED
      BY <1>1, <2>1, <2>4, <3>1, QuietStep
  <2> QED
    BY <1>7, <2>2, <2>3, <2>4 DEF AddLastDestination
<1> QED
  BY <1>2, <1>3, <1>4, <1>5, <1>6, <1>7 DEF OptionsNext

\* The inductive invariant of the option parsers (src/edi2edi.cpp:128-280,
\* src/zmq/main.cpp:178-335, src/edimcast2edi.cpp:127-168).
LEMMA InvIsInvariant == OptionsSpec => []Inv
BY InvInit, InvNext, PTL DEF OptionsSpec

\* The variables of the option parsers keep their types: no destination has an
\* option that is not one of a destination (src/edi2edi.cpp:498-543).
THEOREM TypeCorrect == OptionsSpec => []OptionsTypeOK
<1>1. Inv => OptionsTypeOK
  BY DEF Inv, TypeInv
<1> QED
  BY <1>1, InvIsInvariant, PTL

\* parse_destination_args and add_edi_destination cut the list of options as
\* meant: each option that was given is in one destination, the destinations
\* follow each other in the order of the list, each has its address and begins
\* with an option that the one before it had, and edi2edi does not start with a
\* destination left over (src/edi2edi.cpp:479-543, src/zmq/main.cpp:178-240).
THEOREM DestinationsAreGrouped == OptionsSpec => []OptionsGrouped
<1>1. Inv => OptionsGrouped
  <2> SUFFICES ASSUME Inv PROVE OptionsGrouped
    OBVIOUS
  <2>1. PICK d, e, a, n : /\ d = destinations /\ e = edi_destination
                          /\ a = Append(d, e) /\ n = Len(d)
    OBVIOUS
  <2>2. d \in Seq(Dests) /\ e \in Dests /\ DOMAIN d = 1 .. n /\ n \in Nat
    BY <2>1, Parts DEF Inv
  <2>3. a \in Seq(Dests) /\ Len(a) = n + 1 /\ DOMAIN a = 1 .. n + 1
    BY <2>1, <2>2, Appended
  <2>4. /\ Bounded(a, given) /\ Sorted(a)
        /\ parse # "exited" => Covers(a, given)
        /\ program # "edimcast2edi" => Begun(a)
    BY <2>1 DEF Inv, RunInv, All
  <2>5. \A i \in DOMAIN d : Address \in DOMAIN d[i]
    BY <2>1, <2>2 DEF Inv, AddressInv
  <2>6. \A i \in 1 .. n : i \in 1 .. n + 1 /\ i + 1 \in 1 .. n + 1 /\ i < i + 1
    BY <2>2
  <2>7. ASSUME parse # "exited", NEW v \in 1 .. given
        PROVE  Cardinality({i \in DOMAIN a : v \in Values(a[i])}) = 1
    <3>1. PICK i \in 1 .. n + 1 : \E o \in DOMAIN a[i] : a[i][o] = v
      BY <2>3, <2>4, <2>7 DEF Covers
    <3>2. ASSUME NEW j \in 1 .. n + 1, v \in Values(a[j])
          PROVE  j = i
      <4>1. PICK o \in DOMAIN a[i] : a[i][o] = v
        BY <3>1
      <4>2. PICK p \in DOMAIN a[j] : a[j][p] = v
        BY <3>2 DEF Values
      <4>3. ~(v < v)
        OBVIOUS
      <4>4. ~(i < j) /\ ~(j < i)
        BY <2>3, <2>4, <4>1, <4>2, <4>3 DEF Sorted
      <4> QED
        BY <2>2, <4>4
    <3>3. v \in Values(a[i])
      BY <3>1 DEF Values
    <3>4. {j \in DOMAIN a : v \in Values(a[j])} = {i}
      BY <2>3, <3>2, <3>3
    <3> QED
      BY <3>4, FS_Singleton
  <2>8. ASSUME NEW i \in DOMAIN d, NEW v \in Values(a[i]), NEW w \in Values(a[i + 1])
        PROVE  v < w
    <3>1. i \in 1 .. n + 1 /\ i + 1 \in 1 .. n + 1 /\ i < i + 1
      BY <2>2, <2>6
    <3>2. PICK o \in DOMAIN a[i] : a[i][o] = v
      BY DEF Values
    <3>3. PICK p \in DOMAIN a[i + 1] : a[i + 1][p] = w
      BY DEF Values
    <3> QED
      BY <2>3, <2>4, <3>1, <3>2, <3>3 DEF Sorted
  <2>9. ASSUME program # "edimcast2edi", NEW i \in DOMAIN d, DOMAIN a[i + 1] # {}
        PROVE  \E o \in DOMAIN a[i] \cap DOMAIN a[i + 1] :
                 \A w \in Values(a[i + 1]) : a[i + 1][o] <= w
    <3>1. i \in 1 .. Len(a) - 1
      BY <2>2, <2>3
    <3>2. BegunBy(a[i], a[i + 1])
      BY <2>4, <2>9, <3>1 DEF Begun
    <3>3. PICK o \in DOMAIN a[i] \cap DOMAIN a[i + 1] :
            \A p \in DOMAIN a[i + 1] : a[i + 1][o] <= a[i + 1][p]
      BY <2>9, <3>2 DEF BegunBy
    <3>4. \A w \in Values(a[i + 1]) : a[i + 1][o] <= w
      BY <3>3 DEF Values
    <3> QED
      BY <3>3, <3>4
  <2>10. (parse = "started" /\ program = "edi2edi") => DOMAIN e = {}
    BY <2>1 DEF Inv, StageInv, FlagInv
  <2> QED
    BY <2>1, <2>5, <2>7, <2>8, <2>9, <2>10 DEF OptionsGrouped
<1> QED
  BY <1>1, InvIsInvariant, PTL
=============================================================================
