-------------------------------- MODULE MCUdpLink --------------------------------
(* Instance of UdpLink for TLC: the two tens of the code are one number, so  *)
(* that good frames that clear an error race with the watchdog.              *)
EXTENDS UdpLink
================================================================================
