------------------------------- MODULE MCStepRing -------------------------------
(* Model checking the step ring buffer: two slots (the firmware has three) *)
(* and frames enough to tell a stale one from a fresh one.                 *)
EXTENDS StepRing
================================================================================
