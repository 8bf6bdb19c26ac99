------------------------------ MODULE MCServoLink ------------------------------
(***************************************************************************)
(* Small instances of the servo link.                                      *)
(***************************************************************************)
EXTENDS ServoLink

CONSTANTS t1, unpatched

MCPositions == -9 .. 9
OneTiming   == {t1}
GarbageRead == {-1}
OneWord     == {[steps |-> 1, sign |-> 0, changed |-> FALSE]}
AllFaults   == {"frame", "reply", "missed", "slow"}
================================================================================
