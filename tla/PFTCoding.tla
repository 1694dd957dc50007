----------------------------- MODULE PFTCoding -----------------------------
(***************************************************************************)
(* What is in the fragments of one AF packet: PFT::ProtectAndFragment on   *)
(* the sending side (lib/edioutput/PFT.cpp) and AFBuilder::extractAF on    *)
(* the receiving side (lib/edi/PFT.cpp), with the network between them.    *)
(* Where PFTDecoder says whether a packet can be recovered, here it is     *)
(* computed.                                                               *)
(***************************************************************************)
EXTENDS ReedSolomon, Sequences
LOCAL INSTANCE Bitwise

CONSTANTS
  CrcPoly,        \* generator polynomial of the checksum of two symbols (0x1021)
  Codings,        \* the AF packets that are sent, sequences of symbols, each
                  \* with the value m of the configuration option fec
  ChunkMax,       \* configuration option chunk_len, at most 207
  MaxPayload,     \* payload of a fragment without FEC (1400)
  MaxMissing,     \* bound: fragments that do not arrive
  MaxDamaged      \* bound: symbols that arrive wrong

ASSUME CodingAssumption ==
  /\ ChunkMax \in 1 .. KK /\ MaxPayload \in Nat \ {0}
  /\ MaxMissing \in Nat /\ MaxDamaged \in Nat
  /\ \A c \in Codings : c.m \in Nat /\ c.af # <<>>

VARIABLES
  coded,         \* what PFT::Assemble was given: AF packet and m_m
  header,        \* what the headers of its fragments say
  received,      \* _fragments: payload by Findex
  damaged,       \* history: symbols that arrived wrong
  outcome,       \* "pending", "decoded", "failed", or "undefined"
  extracted_af   \* _af_packet

codingVars == <<coded, header, received, damaged, outcome, extracted_af>>

CeilDiv(a, b) == IF a % b = 0 THEN a \div b ELSE a \div b + 1

-----------------------------------------------------------------------------
(* The checksum at the end of an AF packet (lib/crc.c), two symbols wide.  *)

Base == 2 ^ SymSize
CrcMask == Base * Base - 1

\* crc16tab: a symbol divided by the polynomial, bit by bit.
CrcShift(crc) ==
  IF crc > CrcMask \div 2 THEN ((2 * crc) % (CrcMask + 1)) ^^ CrcPoly ELSE 2 * crc
CrcTable ==
  [i \in Symbols |->
     LET crc[n \in 0 .. SymSize] == IF n = 0 THEN i * Base ELSE CrcShift(crc[n - 1])
     IN  crc[SymSize]]

Crc16(data) ==
  LET crc[n \in 0 .. Len(data)] ==
        IF n = 0 THEN CrcMask
        ELSE LET c == crc[n - 1]
             IN  ((c * Base) % (CrcMask + 1)) ^^ CrcTable[(c \div Base) ^^ data[n]]
  IN  crc[Len(data)] ^^ CrcMask

\* AFPacketiser::Assemble: header and payload, then the checksum.
WithCrc(body) == LET crc == Crc16(body) IN body \o <<crc \div Base, crc % Base>>

\* checkCRC; that an AF packet has 12 bytes at least is left out.
AfCrcHolds(af) == af = WithCrc(SubSeq(af, 1, Len(af) - 2))

-----------------------------------------------------------------------------
(* The sending side.                                                       *)

NumChunks(af) == CeilDiv(Len(af), ChunkMax)
ChunkLen(af, c) == CeilDiv(Len(af), c)
ZeroPad(af, c, k) == c * k - Len(af)
BlockLen(c, k) == c * (k + NRoots)

\* Chunk n, of k symbols, padded at its end to the length of the code.
ChunkOf(af, k, n) ==
  [o \in 0 .. KK - 1 |-> IF o < k /\ n * k + o < Len(af) THEN af[n * k + o + 1] ELSE 0]
WithParity(chunk, parity) == [o \in 0 .. NN - 1 |-> IF o < KK THEN chunk[o] ELSE parity[o - KK]]
Codeword(af, k, n) ==
  LET Word(chunk) == WithParity(chunk, Encode(chunk)) IN Word(ChunkOf(af, k, n))

\* The code words without the padding, one after the other.
Compact(offset, k) == IF offset < k THEN offset ELSE offset - k + KK
Protect(af, c, k) ==
  LET Joined(words) == [i \in 0 .. c * (k + NRoots) - 1 |->
                          words[i \div (k + NRoots)][Compact(i % (k + NRoots), k)]]
  IN  Joined([n \in 0 .. c - 1 |-> Codeword(af, k, n)])

\* s_max, f and s of TS 102 821, 7.2.2.
MaxPayloadSize(c, m) == (c * NRoots) \div (m + 1)
NumFragments(len, c, m) ==
  IF m > 0 THEN CeilDiv(len, MaxPayloadSize(c, m)) ELSE CeilDiv(len, MaxPayload)
FragmentSize(len, f) == CeilDiv(len, f)

\* PFT::Assemble: what the headers of all fragments say.
Header(af, m) ==
  LET c   == NumChunks(af)
      k   == ChunkLen(af, c)
      len == IF m > 0 THEN BlockLen(c, k) ELSE Len(af)
      f   == NumFragments(len, c, m)
  IN  [fcount |-> f, plen |-> FragmentSize(len, f), fec |-> m > 0,
       rsk |-> IF m > 0 THEN k ELSE 0, rsz |-> IF m > 0 THEN ZeroPad(af, c, k) ELSE 0]

\* With FEC neighbouring symbols of the block go to different fragments.
Interleaved(block, f, s) ==
  [i \in 0 .. f - 1 |-> [j \in 1 .. s |->
     IF (j - 1) * f + i \in DOMAIN block THEN block[(j - 1) * f + i] ELSE 0]]
Sliced(af, f, s) ==
  [i \in 0 .. f - 1 |->
     SubSeq(af, i * s + 1, IF (i + 1) * s < Len(af) THEN (i + 1) * s ELSE Len(af))]
ProtectAndFragment(af, h) ==
  IF h.fec THEN Interleaved(Protect(af, NumChunks(af), h.rsk), h.fcount, h.plen)
  ELSE Sliced(af, h.fcount, h.plen)

-----------------------------------------------------------------------------
(* The receiving side.                                                     *)

\* The number of fragments from which on decoding is tried.
Cmax(h) == (h.fcount * h.plen) \div (h.rsk + NRoots)
MinimumReceived(h) == h.fcount - (Cmax(h) * NRoots) \div h.plen

CanAttempt(h, frags) ==
  LET n == Cardinality(DOMAIN frags)
  IN  n > 0 /\ (n = h.fcount \/ (h.fec /\ n >= MinimumReceived(h)))

\* The symbol at a place of the deinterleaved RS block, 0 if it is missing.
BlockSymbol(h, frags, i) ==
  IF i % h.fcount \in DOMAIN frags THEN frags[i % h.fcount][i \div h.fcount + 1] ELSE 0

\* The chunk padded to the length of the code.
PaddedChunk(h, frags, n) ==
  [o \in 0 .. NN - 1 |->
     LET start == n * (h.rsk + NRoots)
     IN  CASE o < h.rsk -> BlockSymbol(h, frags, start + o)
           [] o >= KK   -> BlockSymbol(h, frags, start + h.rsk + o - KK)
           [] OTHER     -> 0]

\* The erasures the decoder is told of: offsets in the chunk without padding.
Erasures(h, frags, n) ==
  {o \in 0 .. h.rsk + NRoots - 1 :
     (n * (h.rsk + NRoots) + o) % h.fcount \notin DOMAIN frags}

\* Reading past eras_pos and writing past lambda has no defined outcome.
TooManyErasures(h, frags) ==
  h.fec /\ \E n \in 0 .. Cmax(h) - 1 : Cardinality(Erasures(h, frags, n)) > NRoots

Unreadable == <<-1>>

\* The data of the chunks one after the other; nothing if one is uncorrectable.
WithChunk(before, chunk, k) ==
  IF before = Unreadable \/ chunk.count = Uncorrectable THEN Unreadable
  ELSE before \o [o \in 1 .. k |-> chunk.data[o - 1]]
WithFec(h, frags) ==
  LET joined[n \in 0 .. Cmax(h)] ==
        IF n = 0 THEN <<>>
        ELSE WithChunk(joined[n - 1],
                       Decode(PaddedChunk(h, frags, n - 1), Erasures(h, frags, n - 1)), h.rsk)
      Unpadded(af) == IF af = Unreadable THEN <<>> ELSE SubSeq(af, 1, Len(af) - h.rsz)
  IN  Unpadded(joined[Cmax(h)])

WithoutFec(h, frags) ==
  LET joined[n \in 0 .. h.fcount] == IF n = 0 THEN <<>> ELSE joined[n - 1] \o frags[n - 1]
  IN  joined[h.fcount]

-----------------------------------------------------------------------------
CodingInit ==
  /\ coded \in Codings
  /\ header = Header(coded.af, coded.m)
  /\ received = ProtectAndFragment(coded.af, header)
  /\ damaged = 0
  /\ outcome = "pending"
  /\ extracted_af = <<>>

Fragments == 0 .. header.fcount - 1
Missing == Fragments \ DOMAIN received

LoseFragment(i) ==
  /\ outcome = "pending"
  /\ Cardinality(Missing) < MaxMissing
  /\ i \in DOMAIN received
  /\ received' = [f \in DOMAIN received \ {i} |-> received[f]]
  /\ UNCHANGED <<coded, header, damaged, outcome, extracted_af>>

\* Only the header of a fragment has a checksum.
DamageSymbol(i) ==
  /\ outcome = "pending"
  /\ damaged < MaxDamaged
  /\ i \in DOMAIN received /\ received[i] # <<>>
  /\ received' = [received EXCEPT ![i][1] = Plus[@, 1]]
  /\ damaged' = damaged + 1
  /\ UNCHANGED <<coded, header, outcome, extracted_af>>

ExtractPacket ==
  /\ outcome = "pending"
  /\ \/ /\ ~CanAttempt(header, received)
        /\ outcome' = "failed" /\ UNCHANGED extracted_af
     \/ /\ CanAttempt(header, received) /\ TooManyErasures(header, received)
        /\ outcome' = "undefined" /\ UNCHANGED extracted_af
     \/ /\ CanAttempt(header, received) /\ ~TooManyErasures(header, received)
        /\ \E af \in {IF header.fec THEN WithFec(header, received)
                     ELSE WithoutFec(header, received)} :
             extracted_af' = IF af # <<>> /\ AfCrcHolds(af) THEN af ELSE <<>>
        /\ outcome' = IF extracted_af' = <<>> THEN "failed" ELSE "decoded"
  /\ UNCHANGED <<coded, header, received, damaged>>

CodingNext ==
  \/ \E i \in Fragments : LoseFragment(i) \/ DamageSymbol(i)
  \/ ExtractPacket

-----------------------------------------------------------------------------
\* Type invariant of the coding.
CodingTypeOK ==
  /\ DOMAIN received \subseteq Fragments
  /\ \A i \in DOMAIN received, j \in 1 .. header.plen :
       j \in DOMAIN received[i] => received[i][j] \in Symbols
  /\ damaged \in 0 .. MaxDamaged
  /\ outcome \in {"pending", "decoded", "failed", "undefined"}

Recovered == outcome = "decoded" /\ extracted_af = coded.af

\* The positions of a chunk that are wrong and not among the erasures.
Errors(n) ==
  LET Wrong(chunk, word) == {o \in 0 .. NN - 1 : chunk[o] # word[o]}
  IN  Wrong(PaddedChunk(header, received, n), Codeword(coded.af, header.rsk, n))
        \ Erasures(header, received, n)

\* A received packet is extracted as it was sent whenever the code can correct
\* it: all fragments without FEC, and with FEC in every chunk no more erasures
\* and twice as many errors as there are parity symbols.
CorrectableRecovered ==
  (/\ outcome # "pending"
   /\ IF header.fec
      THEN \A n \in 0 .. NumChunks(coded.af) - 1 :
             Cardinality(Erasures(header, received, n)) + 2 * Cardinality(Errors(n)) <= NRoots
      ELSE Missing = {} /\ damaged = 0)
    => Recovered

\* While no more fragments are missing than FEC was configured for, decoding
\* is tried, and no chunk has more erasures than the decoder has room for:
\* what s_max of the sending side is for.
ErasuresFit ==
  (header.fec /\ Cardinality(Missing) <= coded.m) =>
    CanAttempt(header, received) /\ ~TooManyErasures(header, received)

\* extractAF() does what the code it decodes can do, and the sending side
\* leaves it enough to do so: both of the above.
FecCorrects == CorrectableRecovered /\ ErasuresFit

\* "number of fragments that can be recovered" (lib/edioutput/EDIConfig.h:70).
FecRecovers ==
  (outcome # "pending" /\ damaged = 0 /\ Cardinality(Missing) <= coded.m) => Recovered
=============================================================================
