------------------------------ MODULE MCInputs ------------------------------
(***************************************************************************)
(* The ways EDI packets come in, checked in one run.  They share no state; *)
(* each behaviour is one of a PFT link over UDP, of the contents of its    *)
(* fragments, of the frame path of edi2edi behind its TCP inputs, of one   *)
(* frame's contents from zmq2edi to edi2edi, of digris-edimcast2edi, or of *)
(* the options the programs start with.                                    *)
(***************************************************************************)
EXTENDS EDILink, MCCoding, MCDecoder, MCCodec, MulticastInput, Options

VARIABLE input   \* the way that is looked at

inputVars == <<input, linkVars, codingVars, decoderVars, codecVars, mcastVars, optionsVars>>

(* Sections that fit in a packet, that take two and that take three.       *)
MCSectionLen == <<4, 7, 2, 4, 7, 4>>

(* PDUs of one to three fragments; two of them at a time are under way.    *)
MCPduLen == <<2, 3, 1, 2, 2>>
MCBBFrames == << << <<1, 1>>, <<2, 1>> >>, << <<2, 2>>, <<1, 2>> >>, << <<4, 1>>, <<4, 2>> >>,
                 << <<2, 3>>, <<3, 1>> >>, << <<5, 1>>, <<5, 2>> >> >>

(* One initial state of what does not run.                                 *)
CodecIdle ==
  /\ original = <<>> /\ alignment = 0 /\ stage = "published" /\ metadata = <<>> /\ eti = <<>>
  /\ t_frame = 0 /\ af_packet = <<>> /\ tags = <<>> /\ frame_out = <<>>

Init ==
  /\ input \in {"link", "coding", "decoder", "codec", "mcast", "options"}
  /\ LinkInit /\ (input /= "link" => ~overrides)
  /\ McastInit /\ (input /= "mcast" => mode = "udp")
  /\ DecoderInit
  /\ CodingInit /\ (input /= "coding" => coded.m = 0)
  /\ OptionsInit /\ (input /= "options" => program = "edi2edi")
  /\ IF input = "codec" THEN CodecInit ELSE CodecIdle

Link    == /\ input = "link" /\ LinkNext
           /\ UNCHANGED <<input, codingVars, decoderVars, codecVars, mcastVars, optionsVars>>
Coding  == /\ input = "coding" /\ CodingNext
           /\ UNCHANGED <<input, linkVars, decoderVars, codecVars, mcastVars, optionsVars>>
Decoder == /\ input = "decoder" /\ DecoderNext
           /\ UNCHANGED <<input, linkVars, codingVars, codecVars, mcastVars, optionsVars>>
Codec   == /\ input = "codec" /\ CodecNext
           /\ UNCHANGED <<input, linkVars, codingVars, decoderVars, mcastVars, optionsVars>>
Mcast   == /\ input = "mcast" /\ McastNext
           /\ UNCHANGED <<input, linkVars, codingVars, decoderVars, codecVars, optionsVars>>
Choice  == /\ input = "options" /\ OptionsNext
           /\ UNCHANGED <<input, linkVars, codingVars, decoderVars, codecVars, mcastVars>>

Next == Link \/ Coding \/ Decoder \/ Codec \/ Mcast \/ Choice

Spec == Init /\ [][Next]_inputVars

(* The variables of all parts have their types.                            *)
TypeOK ==
  /\ LinkTypeOK /\ CodingTypeOK /\ DecoderTypeOK /\ CodecTypeOK /\ McastTypeOK
  /\ OptionsTypeOK
=============================================================================
