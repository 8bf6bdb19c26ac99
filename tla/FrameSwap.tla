-------------------------------- MODULE FrameSwap --------------------------------
(***************************************************************************)
(* What the SPI exchange promises: a transfer swaps one frame for one      *)
(* reply.  The firmware handles every frame once, before the next transfer *)
(* begins; the driver gets the reply staged when the frame before it was   *)
(* handled.  Frames, and the replies to them, are numbered modulo Ids.     *)
(***************************************************************************)
EXTENDS Naturals

CONSTANT Ids  \* at least 3

VARIABLES
    sent,      \* the frame of the transfer begun last
    handled,   \* the frame the firmware handled last
    returned,  \* the frame that the reply received last answers
    replying   \* is the driver still waiting for its reply?

swapVars == <<sent, handled, returned, replying>>

Following(id) == (id + 1) % Ids
Preceding(id) == (id + Ids - 1) % Ids

SwapInit ==
    /\ sent = 0
    /\ handled = 0
    /\ returned = Preceding(0)
    /\ replying = FALSE

Begin ==
    /\ ~replying
    /\ handled = sent
    /\ sent' = Following(sent)
    /\ replying' = TRUE
    /\ UNCHANGED <<handled, returned>>

Handle ==
    /\ handled # sent
    /\ handled' = sent
    /\ UNCHANGED <<sent, returned, replying>>

Return ==
    /\ replying
    /\ returned' = Preceding(sent)
    /\ replying' = FALSE
    /\ UNCHANGED <<sent, handled>>

SwapNext == Begin \/ Handle \/ Return

(* What a transfer may do, and that it does not stop half way.             *)
SwapSafety == SwapInit /\ [][SwapNext]_swapVars

SwapSpec == SwapSafety /\ WF_swapVars(SwapNext)
================================================================================
