--------------------------------- MODULE MCBoard ---------------------------------
(* Instance of Board for TLC: the default configuration and one more.  The   *)
(* power may go at any step, any number of times.                            *)
EXTENDS Board
================================================================================
