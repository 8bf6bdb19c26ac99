------------------------------ MODULE MCHalDriver ------------------------------
(***************************************************************************)
(* The HAL driver alone, against a device that may answer anything.        *)
(***************************************************************************)
EXTENDS HalDriver

CONSTANT t1

MCPositions == -1 .. 1
MCCommands  == 0 .. 1
MCTimings   == {t1}

(* The realtime thread always runs on.                                     *)
MCHalSpec == HalSpec /\ WF_halVars(HalNext)

(* A device that has gone silent for good costs the machine io-ready-out   *)
(* for good: from some point on no reply is valid, and one was before.     *)
SilenceIsReported ==
    (<>[](received /\ ~rx_buffer.ok)) => <>[](~io_ready_out /\ ~connected)
================================================================================
