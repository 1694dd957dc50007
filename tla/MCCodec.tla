------------------------------ MODULE MCCodec -------------------------------
(***************************************************************************)
(* Frames for ETICodec, with the counters, the fields and the time at      *)
(* their limits.                                                           *)
(***************************************************************************)
EXTENDS ETICodec

(* No subchannel, a small one, two of different sizes, and two of which    *)
(* the first is so long that the length does not fit FL in bytes.          *)
MCStreams == { <<>>, <<[scid |-> 63, sad |-> 200, tpl |-> 1, stl |-> 3]>>,
               <<[scid |-> 5, sad |-> 256, tpl |-> 9, stl |-> 7],
                 [scid |-> 6, sad |-> 298, tpl |-> 8, stl |-> 4]>>,
               <<[scid |-> 1, sad |-> 1023, tpl |-> 63, stl |-> 520],
                 [scid |-> 2, sad |-> 0, tpl |-> 2, stl |-> 1]>> }
MCSourceFrames ==
  [err : {0, 255}, dlfc : {0, 250, 4999}, fp : {0, 7}, mid : {1, 3}, mnsc : {<<18, 52>>},
   utco : {0, 37}, seconds : {800000000},
   tist : {<<255, 0, 0, 0>>, <<255, 249, 255, 255>>}, streams : MCStreams]

CodecSpec == CodecInit /\ [][CodecNext]_codecVars
=============================================================================
