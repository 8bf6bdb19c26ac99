------------------------------ MODULE MCIrqEncoder ------------------------------
(* Model checking the interrupt encoder: the shaft turns by up to two      *)
(* states either way between two resets.                                   *)
EXTENDS IrqEncoder
================================================================================
