------------------------------ MODULE MCCoding ------------------------------
(***************************************************************************)
(* Small packets for PFTCoding, with symbols of 4 bits.                    *)
(***************************************************************************)
EXTENDS PFTCoding

(* Packets of one chunk without padding and with it, and of two; without   *)
(* FEC, and so that one or three lost fragments should be recovered.       *)
MCPacket(n) == WithCrc([i \in 1 .. n - 2 |-> (7 * i + 3) % 16])
MCCodings == { [af |-> MCPacket(9), m |-> 0],  [af |-> MCPacket(5), m |-> 1],
               [af |-> MCPacket(9), m |-> 1],  [af |-> MCPacket(17), m |-> 1],
               [af |-> MCPacket(10), m |-> 3] }

CodingSpec == CodingInit /\ [][CodingNext]_codingVars
=============================================================================
