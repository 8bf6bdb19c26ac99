-------------------------------- MODULE StepQueue --------------------------------
(***************************************************************************)
(* What the step ring buffer promises: frames of step commands leave in    *)
(* the order in which they came, each at most once, and a link that is     *)
(* given up takes the waiting ones with it.  Nothing keeps core 1, which   *)
(* gives the link up, from running into a frame that core 0 puts in or     *)
(* takes out: that tears the queue, nothing is promised of it, and the     *)
(* next time the link is given up with nobody at the queue it is whole     *)
(* again.  Frames are numbered in the order of their arrival, modulo       *)
(* Numbers.                                                                *)
(***************************************************************************)
EXTENDS Naturals, Sequences

CONSTANTS
    Slots,     \* STEP_RING_BUFFER_SIZE
    Numbers    \* how many frame numbers there are

VARIABLES
    waiting,   \* the frames in the queue, oldest first
    latest,    \* the last frame taken in
    served,    \* the last frame handed out
    torn       \* has somebody run into somebody else at the queue?

queueVars == <<waiting, latest, served, torn>>

After(frame) == (frame + 1) % Numbers

QueueInit ==
    /\ waiting = << >>
    /\ latest = 0
    /\ served = 0
    /\ torn = FALSE

Put ==
    /\ ~torn
    /\ Len(waiting) < Slots
    /\ latest' = After(latest)
    /\ waiting' = Append(waiting, latest')
    /\ UNCHANGED <<served, torn>>

Take ==
    /\ ~torn
    /\ waiting # << >>
    /\ served' = Head(waiting)
    /\ waiting' = Tail(waiting)
    /\ UNCHANGED <<latest, torn>>

(* The link is given up: the queue is whole, whatever it was before.       *)
Clear ==
    /\ waiting' = << >>
    /\ torn' = FALSE
    /\ UNCHANGED <<latest, served>>

(* Somebody runs into somebody else, or has done so.                       *)
Tear == torn' = TRUE

QueueNext == Put \/ Take \/ Clear \/ Tear

QueueSpec == QueueInit /\ [][QueueNext]_queueVars
================================================================================
