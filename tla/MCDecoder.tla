----------------------------- MODULE MCDecoder ------------------------------
(***************************************************************************)
(* TAGs for FrameDecoder.                                                  *)
(***************************************************************************)
EXTENDS FrameDecoder

(* AF packets with a TAG nobody knows, after and before the deti TAG, with *)
(* a ptr TAG of wrong length or another protocol, and without FIC.         *)
MCFrameTags == <<"*ptr", "deti", "est">>
MCOddTags == { <<"*ptr", "deti", "est", "unknown", "est">>,
               <<"*ptr", "est", "*ptr too long">>,
               <<"*ptr", "*dmy", "unknown", "deti">>,
               <<"*ptr", "deti no fic">>, <<"*ptr other">> }
=============================================================================
