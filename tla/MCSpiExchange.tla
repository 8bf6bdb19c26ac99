----------------------------- MODULE MCSpiExchange -----------------------------
(***************************************************************************)
(* Small instances of the SPI exchange: a few bytes per frame, FIFOs that  *)
(* hold part of one.                                                       *)
(***************************************************************************)
EXTENDS SpiExchange
================================================================================
