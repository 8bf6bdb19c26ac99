------------------------------ MODULE MCPwmOutput -------------------------------
(* Model checking the PWM output: a frequency below the limits, one above, *)
(* and one in between.                                                     *)
EXTENDS PwmOutput
================================================================================
