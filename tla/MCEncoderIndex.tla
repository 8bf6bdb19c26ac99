----------------------------- MODULE MCEncoderIndex ------------------------------
(* Model checking the encoder index: a turn of four counts, of which the   *)
(* shaft makes one either way.                                             *)
EXTENDS EncoderIndex
================================================================================
