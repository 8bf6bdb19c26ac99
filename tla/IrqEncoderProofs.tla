---------------------------- MODULE IrqEncoderProofs ----------------------------
(***************************************************************************)
(* Theorems about the interrupt encoder, for every reach.                  *)
(***************************************************************************)
EXTENDS IrqEncoder, TLAPS

(* The count and the state the interrupt, or a reset, is about to store.   *)
Counted == IF isr = "sum" THEN isr_sum ELSE counter
Current == IF isr \in {"sum", "store"} THEN isr_state
           ELSE IF core0 = "store" THEN core0_state
           ELSE IF core1 = "store" THEN core1_state
           ELSE prev_state

(* Each turn of the shaft changes the colour of its state.                 *)
Colour(state) == IF state \in {0, 3} THEN 0 ELSE 1

(* A reset that has not run into anything is alone.                        *)
ApartInv ==
    /\ core0 # "idle" => core1 = "top" /\ isr = "none"
    /\ core1 # "top" => isr = "none"

(* From the reading of the pins on the count is what edges make of it.     *)
Unread  == {"zero", "read", "enable"}
Settled == core0 \notin Unread /\ core1 \notin Unread /\ isr \notin Unread

(* What a reset or an enable has done so far.                              *)
ResetInv ==
    /\ core0 = "read" \/ core1 = "read" \/ isr = "read" => counter = 0
    /\ core1 = "switch" /\ lost # "any" => Counted = turned /\ Current = Pins(shaft)

(* The count is the travel but for the edge that is pending; edges lost in *)
(* pairs leave its colour; with none pending its state is the shaft's.     *)
CountInv ==
    Settled => /\ lost = "none" => Counted + Transition(Current, Pins(shaft)) = turned
               /\ lost # "any" => (Counted - turned + Colour(Current)
                                     + Colour(Pins(shaft))) % 2 = 0
               /\ lost # "any" /\ ~Changed => Current = Pins(shaft)

(* None of this holds once a reset has run into something, and all of it   *)
(* again once the next one has begun that does not.                        *)
Whole == ApartInv /\ ResetInv /\ CountInv

Inv == EncTypeOK /\ (~torn => Whole)

--------------------------------------------------------------------------------
(* The pins are one of four states.                                        *)
LEMMA PinsType == \A s \in 0 .. 3 : Pins(s) \in 0 .. 3
<1> TAKE s \in 0 .. 3
<1>1. s = 0 \/ s = 1 \/ s = 2 \/ s = 3
  OBVIOUS
<1> QED
  BY <1>1 DEF Pins

(* The colours of the states.                                              *)
LEMMA Colours ==
    \A a \in 0 .. 3 : \/ a \in {0, 3} /\ Colour(a) = 0
                      \/ a \in {1, 2} /\ Colour(a) = 1
<1> TAKE a \in 0 .. 3
<1>1. a = 0 \/ a = 1 \/ a = 2 \/ a = 3
  OBVIOUS
<1>2. 0 # 1 /\ 0 # 2 /\ 3 # 1 /\ 3 # 2
  OBVIOUS
<1> QED
  BY <1>1, <1>2, Zenon DEF Colour

(* What counts up, what down, and what not at all.                         *)
LEMMA Table ==
    /\ Transition(0, 2) = 1 /\ Transition(2, 3) = 1
    /\ Transition(3, 1) = 1 /\ Transition(1, 0) = 1
    /\ Transition(2, 0) = -1 /\ Transition(3, 2) = -1
    /\ Transition(1, 3) = -1 /\ Transition(0, 1) = -1
    /\ \A a, b \in 0 .. 3 : <<a, b>> \notin Forward \cup Backward => Transition(a, b) = 0
<1>1. \A t \in Forward : t \notin Backward
  BY SMT DEF Forward, Backward
<1>2. \A a, b \in 0 .. 3 : <<a, b>> \in Forward => Transition(a, b) = 1
  BY <1>1, Zenon DEF Transition
<1>3. \A a, b \in 0 .. 3 : <<a, b>> \in Backward => Transition(a, b) = -1
  BY <1>1, Zenon DEF Transition
<1>4. \A a, b \in 0 .. 3 : <<a, b>> \notin Forward \cup Backward => Transition(a, b) = 0
  BY Zenon DEF Transition
<1>5. 0 \in 0 .. 3 /\ 1 \in 0 .. 3 /\ 2 \in 0 .. 3 /\ 3 \in 0 .. 3
  OBVIOUS
<1>6. /\ <<0, 2>> \in Forward /\ <<2, 3>> \in Forward
      /\ <<3, 1>> \in Forward /\ <<1, 0>> \in Forward
  BY Zenon DEF Forward
<1>7. /\ <<2, 0>> \in Backward /\ <<3, 2>> \in Backward
      /\ <<1, 3>> \in Backward /\ <<0, 1>> \in Backward
  BY Zenon DEF Backward
<1> QED
  BY <1>2, <1>3, <1>4, <1>5, <1>6, <1>7, Zenon

(* Of two states of one colour neither is reached from the other.          *)
LEMMA NoTransition ==
    \A a, b \in 0 .. 3 : Colour(a) = Colour(b) => Transition(a, b) = 0
<1> TAKE a, b \in 0 .. 3
<1> HAVE Colour(a) = Colour(b)
<1>1. (a \in {0, 3} /\ b \in {0, 3}) \/ (a \in {1, 2} /\ b \in {1, 2})
  <2>1. (a \in {0, 3} /\ Colour(a) = 0) \/ (a \in {1, 2} /\ Colour(a) = 1)
    BY Colours
  <2>2. (b \in {0, 3} /\ Colour(b) = 0) \/ (b \in {1, 2} /\ Colour(b) = 1)
    BY Colours
  <2>3. 0 # 1
    OBVIOUS
  <2>4. Colour(a) = Colour(b)
    OBVIOUS
  <2> QED
    BY <2>1, <2>2, <2>3, <2>4, Zenon
<1>2. /\ <<a, b>> # <<0, 2>> /\ <<a, b>> # <<2, 3>> /\ <<a, b>> # <<3, 1>>
      /\ <<a, b>> # <<1, 0>> /\ <<a, b>> # <<2, 0>> /\ <<a, b>> # <<3, 2>>
      /\ <<a, b>> # <<1, 3>> /\ <<a, b>> # <<0, 1>>
  BY <1>1
<1>3. <<a, b>> \notin Forward \cup Backward
  BY <1>2, Zenon DEF Forward, Backward
<1> QED
  BY <1>3, Table, Zenon

(* A transition counts just when the colour changes.                       *)
LEMMA TransitionType ==
    \A a, b \in 0 .. 3 : /\ Transition(a, b) \in Int
                         /\ (Transition(a, b) + Colour(a) + Colour(b)) % 2 = 0
<1> TAKE a, b \in 0 .. 3
<1>1. CASE Colour(a) = Colour(b)
  <2>1. Transition(a, b) = 0
    BY <1>1, NoTransition
  <2>2. Colour(a) \in {0, 1}
    BY Zenon DEF Colour
  <2> QED
    BY <1>1, <2>1, <2>2
<1>2. CASE Colour(a) # Colour(b)
  <2>1. ~(Colour(a) = 0 /\ Colour(b) = 0) /\ ~(Colour(a) = 1 /\ Colour(b) = 1)
    BY <1>2
  <2>2. (a \in {0, 3} /\ Colour(a) = 0) \/ (a \in {1, 2} /\ Colour(a) = 1)
    BY Colours
  <2>3. (b \in {0, 3} /\ Colour(b) = 0) \/ (b \in {1, 2} /\ Colour(b) = 1)
    BY Colours
  <2>4. (a \in {0, 3} /\ b \in {1, 2}) \/ (a \in {1, 2} /\ b \in {0, 3})
    BY <2>1, <2>2, <2>3, Zenon
  <2>5. Colour(a) + Colour(b) = 1
    BY <2>4, Colours
  <2>6. Transition(a, b) = 1 \/ Transition(a, b) = -1
    BY <2>4, Table
  <2> QED
    BY <2>5, <2>6, Colours
<1> QED
  BY <1>1, <1>2

(* A turn of the shaft is a transition, and changes the colour.            *)
LEMMA TurnCounts ==
    \A s \in 0 .. 3, by \in {1, -1} :
        /\ (s + by) % 4 \in 0 .. 3
        /\ Transition(Pins(s), Pins((s + by) % 4)) = by
        /\ Colour(Pins((s + by) % 4)) + Colour(Pins(s)) = 1
<1> TAKE s \in 0 .. 3, by \in {1, -1}
<1>1. \A x \in Int : x + 4 = 3 => x % 4 = 3
  <2> TAKE x \in Int
  <2>1. x % 4 = (x + 4) % 4 /\ 3 % 4 = 3
    OBVIOUS
  <2> QED
    BY <2>1
<1>2. /\ (0 + 1) % 4 = 1 /\ (1 + 1) % 4 = 2 /\ (2 + 1) % 4 = 3 /\ (3 + 1) % 4 = 0
      /\ (1 + -1) % 4 = 0 /\ (2 + -1) % 4 = 1 /\ (3 + -1) % 4 = 2
  OBVIOUS
<1>3. (0 + -1) % 4 = 3
  <2>1. (0 + -1) + 4 = 3 /\ (0 + -1) \in Int
    OBVIOUS
  <2> QED
    BY <1>1, <2>1, Zenon
<1>4. Pins(0) = 0 /\ Pins(1) = 2 /\ Pins(2) = 3 /\ Pins(3) = 1
  BY DEF Pins
<1>5. s = 0 \/ s = 1 \/ s = 2 \/ s = 3
  OBVIOUS
<1> HIDE DEF Pins
<1>6. CASE by = 1
  BY <1>2, <1>4, <1>5, <1>6, Table, Colours
<1>7. CASE by = -1
  BY <1>2, <1>3, <1>4, <1>5, <1>7, Table, Colours
<1> QED
  BY <1>6, <1>7

(* Sums of even numbers are even.                                          *)
LEMMA Even ==
    \A x, y \in Int : x % 2 = 0 /\ y % 2 = 0 => (x + y) % 2 = 0 /\ (x - y) % 2 = 0
OBVIOUS
LEMMA Twice == \A x \in Int : (x + x) % 2 = 0
OBVIOUS

--------------------------------------------------------------------------------
(* The state in force is one of four and the count an integer.             *)
LEMMA InForce == ASSUME EncTypeOK PROVE Current \in 0 .. 3 /\ Counted \in Int
BY DEF EncTypeOK, Current, Counted

(* Where the state in force is the shaft's, nothing is left to be counted. *)
LEMMA Nothing ==
    \A t \in Int, p \in 0 .. 3 : /\ t + Transition(p, p) = t
                               /\ (t - t + Colour(p) + Colour(p)) % 2 = 0
<1> TAKE t \in Int, p \in 0 .. 3
<1>1. Transition(p, p) = 0
  BY NoTransition
<1>2. Colour(p) \in {0, 1}
  BY Zenon DEF Colour
<1> QED
  BY <1>1, <1>2

(* A count that starts over at the pins of the shaft is the travel.        *)
LEMMA Rebase ==
    EncTypeOK /\ Counted = turned /\ Current = Pins(shaft) => CountInv
<1> SUFFICES ASSUME EncTypeOK, Counted = turned, Current = Pins(shaft)
             PROVE  CountInv
  OBVIOUS
<1>1. turned \in Int /\ Pins(shaft) \in 0 .. 3
  BY PinsType DEF EncTypeOK
<1> QED
  BY <1>1, Nothing DEF CountInv

(* It does so after a step that starts over.                               *)
LEMMA Rebased ==
    ASSUME EncTypeOK', Counted' = turned', Current' = Pins(shaft')
    PROVE  CountInv'
<1>1. turned' \in Int /\ Pins(shaft') \in 0 .. 3
  BY PinsType DEF EncTypeOK
<1> QED
  BY <1>1, Nothing DEF CountInv

--------------------------------------------------------------------------------
(* Every step keeps every variable in its type.                            *)
LEMMA TypeStep == ASSUME EncTypeOK, [EncNext]_encVars PROVE EncTypeOK'
<1> USE DEF EncTypeOK, ResetSteps
<1>1. Pins(shaft) \in 0 .. 3
  BY PinsType
<1>2. Transition(prev_state, Pins(shaft)) \in Int
  BY <1>1, TransitionType
<1>3. ASSUME NEW by \in {1, -1}, Turn(by) PROVE EncTypeOK'
  <2>1. (shaft + by) % 4 \in 0 .. 3
    BY TurnCounts
  <2>2. turned + by \in Int
    OBVIOUS
  <2> QED
    BY <1>3, <2>1, <2>2 DEF Turn, counts, isrVars, travel
<1>4. CASE IndexPulse
  BY <1>4 DEF IndexPulse, counts, isrVars, travel
<1>5. CASE Interrupt
  <2>1. ASSUME NEW pin, Edge(pin) PROVE EncTypeOK'
    <3>1. counter + Transition(prev_state, Pins(shaft)) \in Int
      BY <1>2
    <3> QED
      BY <1>1, <2>1, <3>1 DEF Edge, counts, isrVars, travel
  <2>2. CASE EdgeStore
    BY <2>2 DEF EdgeStore, travel
  <2>3. CASE Index
    BY <2>3 DEF Index, Begins, counts, travel
  <2>4. CASE IndexReset
    BY <1>1, <2>4 DEF IndexReset, ResetStep, After, counts, travel
  <2> QED
    BY <1>5, <2>1, <2>2, <2>3, <2>4 DEF Interrupt
<1>6. CASE Core1
  <2>1. CASE Disable
    BY <2>1 DEF Disable, counts, isrVars, travel
  <2>2. CASE EnableState
    BY <1>1, <2>2 DEF EnableState, Begins, isrVars, travel
  <2>3. CASE EnableZero
    BY <2>3 DEF EnableZero, isrVars
  <2>4. CASE EnableSwitch
    BY <2>4 DEF EnableSwitch, counts, isrVars, travel
  <2>5. CASE Disconnect
    BY <2>5 DEF Disconnect, Begins, counts, isrVars, travel
  <2>6. CASE DisconnectReset
    BY <1>1, <2>6 DEF DisconnectReset, ResetStep, After, counts, isrVars, travel
  <2> QED
    BY <1>6, <2>1, <2>2, <2>3, <2>4, <2>5, <2>6 DEF Core1
<1>7. CASE Control
  BY <1>7 DEF Control, Begins, counts, isrVars, travel
<1>8. CASE ControlReset
  BY <1>1, <1>8 DEF ControlReset, ResetStep, After, counts, isrVars, travel
<1>9. CASE UNCHANGED encVars
  BY <1>9 DEF encVars, counts, isrVars, travel
<1> QED
  BY <1>3, <1>4, <1>5, <1>6, <1>7, <1>8, <1>9 DEF EncNext

--------------------------------------------------------------------------------
(* A turn while the interrupts are on adds one edge to the one that is     *)
(* pending, or makes it two.                                               *)
LEMMA TurnStep ==
    ASSUME EncTypeOK, ResetInv, CountInv,
           NEW by \in {1, -1}, Turn(by)
    PROVE  ResetInv' /\ CountInv'
<1> DEFINE P == Pins(shaft)
           Q == Pins((shaft + by) % 4)
           C == Current
<1>1. P \in 0 .. 3 /\ Q \in 0 .. 3 /\ C \in 0 .. 3 /\ Counted \in Int
      /\ turned \in Int
  BY TurnCounts, PinsType, InForce DEF EncTypeOK
<1>2. Counted' = Counted /\ Current' = C /\ Settled' = Settled
      /\ turned' = turned + by /\ Pins(shaft') = Q
  BY DEF Turn, counts, isrVars, Counted, Current, Settled
<1>3. Transition(P, Q) = by /\ Colour(Q) + Colour(P) = 1
  BY TurnCounts DEF EncTypeOK
<1>4. Transition(P, P) = 0
  BY <1>1, NoTransition
<1>5. Colour(P) \in {0, 1} /\ Colour(Q) \in {0, 1} /\ Colour(C) \in {0, 1}
  BY Zenon DEF Colour
<1>6. ResetInv'
  BY DEF ResetInv, Turn, counts, isrVars, Enabling
<1>7. ASSUME lost' # "any"
      PROVE  edge_irq /\ lost # "any" /\ Changed' /\ (lost' = "none" => lost = "none" /\ ~Changed)
  BY <1>7 DEF Turn, Changed
<1> HIDE DEF P, Q, C
<1>8. ASSUME Settled, lost' # "any" PROVE (Counted - turned + Colour(C) + Colour(P)) % 2 = 0
  BY <1>7, <1>8 DEF CountInv, P, C
<1>9. ASSUME Settled, lost' # "any"
      PROVE  (Counted - (turned + by) + Colour(C) + Colour(Q)) % 2 = 0
  BY <1>1, <1>3, <1>5, <1>8, <1>9
<1>10. ASSUME Settled, lost' = "none"
       PROVE  Counted + Transition(C, Q) = turned + by
  <2>1. C = P
    BY <1>7, <1>10 DEF CountInv, P, C
  <2>2. Counted + Transition(C, P) = turned
    BY <1>7, <1>10 DEF CountInv, P, C
  <2> QED
    BY <1>1, <1>3, <1>4, <2>1, <2>2
<1> QED
  BY <1>2, <1>6, <1>7, <1>9, <1>10 DEF CountInv

(* The interrupt counts the edges that were pending, and the state in      *)
(* force is the shaft's again.                                             *)
LEMMA EdgeStep ==
    ASSUME EncTypeOK, ResetInv, CountInv, NEW pin, Edge(pin), ~torn'
    PROVE  Whole'
<1> DEFINE P == Pins(shaft)
           C == Current
<1>1. /\ isr = "none" /\ isr' = "sum"
      /\ core0 = "idle" /\ core1 = "top" /\ UNCHANGED <<core0, core1>>
  BY DEF Edge, EncTypeOK, Resetting, Enabling, ResetSteps
<1>2. /\ Current = prev_state /\ Counted = counter
      /\ Counted' = counter + Transition(prev_state, P) /\ Current' = P
      /\ UNCHANGED <<shaft, turned, lost>>
  BY <1>1 DEF Edge, Counted, Current, travel
<1>3. P \in 0 .. 3 /\ C \in 0 .. 3 /\ Counted \in Int /\ turned \in Int
  BY PinsType, InForce DEF EncTypeOK
<1>4. Transition(P, P) = 0 /\ Transition(C, P) \in Int
      /\ (Transition(C, P) + Colour(C) + Colour(P)) % 2 = 0
  BY <1>3, NoTransition, TransitionType
<1>5. Colour(P) \in {0, 1} /\ Colour(C) \in {0, 1}
  BY Zenon DEF Colour
<1> HIDE DEF P, C
<1>6. Counted' = Counted + Transition(C, P) /\ Current' = P /\ Pins(shaft') = P
  BY <1>2 DEF C, P
<1>7. ApartInv' /\ ResetInv'
  BY <1>1 DEF ApartInv, ResetInv
<1>8. Settled /\ Settled'
  BY <1>1 DEF Settled, Unread
<1>9. ASSUME lost = "none" PROVE Counted' + Transition(P, P) = turned
  <2>1. Counted + Transition(C, P) = turned
    BY <1>8, <1>9 DEF CountInv, C, P
  <2> QED
    BY <1>3, <1>4, <1>6, <2>1
<1>10. ASSUME lost # "any"
       PROVE  (Counted' - turned + Colour(P) + Colour(P)) % 2 = 0
  <2>1. (Counted - turned + Colour(C) + Colour(P)) % 2 = 0
    BY <1>8, <1>10 DEF CountInv, C, P
  <2> QED
    BY <1>3, <1>4, <1>5, <1>6, <2>1
<1> QED
  BY <1>2, <1>6, <1>7, <1>9, <1>10 DEF CountInv, Whole

(* A reset that begins while nothing else goes on is alone, and has done   *)
(* nothing yet; what came before it no longer matters.                     *)
LEMMA BeginStep ==
    ASSUME EncTypeOK, ~torn',
           Index \/ EnableState \/ Disconnect \/ Control
    PROVE  Whole'
<1>1. torn' = (Resetting \/ Enabling \/ isr = "sum")
  BY DEF Index, EnableState, Disconnect, Control, Begins
<1>2. core0 = "idle" /\ core1 = "top" /\ isr = "none"
  BY <1>1 DEF EncTypeOK, Resetting, Enabling, ResetSteps
<1>3. \/ core0' = "idle" /\ core1' = "top" /\ isr' = "zero"
      \/ core0' = "idle" /\ core1' \in {"enable", "zero"} /\ isr' = "none"
      \/ core0' = "zero" /\ core1' = "top" /\ isr' = "none"
  BY <1>2 DEF Index, EnableState, Disconnect, Control, isrVars
<1> QED
  BY <1>3 DEF Whole, ApartInv, ResetInv, CountInv, Settled, Unread

(* A reset that has read the pins starts the count over from there, and    *)
(* stores what it has read.                                                *)
LEMMA ResetCounts ==
    ASSUME EncTypeOK, EncTypeOK', Whole,
           IndexReset \/ DisconnectReset \/ ControlReset
    PROVE  Whole'
<1> USE DEF Whole, ResetSteps
<1>1. CASE IndexReset
  <2>1. core0 = "idle" /\ core1 = "top" /\ UNCHANGED <<core0, core1>>
    BY <1>1 DEF IndexReset, ApartInv, EncTypeOK
  <2>2. CASE isr = "zero"
    BY <1>1, <2>1, <2>2 DEF IndexReset, ResetStep, After, ApartInv, ResetInv, CountInv,
                            Settled, Unread
  <2>3. CASE isr = "read"
    <3>1. isr' = "store" /\ Counted' = 0 /\ turned' = 0 /\ Current' = Pins(shaft')
      BY <1>1, <2>1, <2>3 DEF IndexReset, ResetStep, After, ResetInv, counts, Counted,
                              Current
    <3> QED
      BY <2>1, <3>1, Rebased DEF ApartInv, ResetInv
  <2>4. CASE isr = "store"
    <3>1. /\ isr' = "none" /\ Counted' = Counted /\ Current' = Current
          /\ UNCHANGED <<turned, lost, shaft, pending>>
      BY <1>1, <2>1, <2>4 DEF IndexReset, ResetStep, After, travel, Counted, Current
    <3> QED
      BY <2>1, <2>4, <3>1 DEF ApartInv, ResetInv, CountInv, Settled, Unread, Changed
  <2> QED
    BY <1>1, <2>2, <2>3, <2>4 DEF IndexReset
<1>2. CASE DisconnectReset
  <2>1. core0 = "idle" /\ core0' = "idle" /\ isr = "none" /\ isr' = "none"
    BY <1>2 DEF DisconnectReset, ApartInv, isrVars, EncTypeOK
  <2>2. CASE core1 = "zero"
    BY <1>2, <2>1, <2>2 DEF DisconnectReset, ResetStep, After, ApartInv, ResetInv,
                            CountInv, Settled, Unread
  <2>3. CASE core1 = "read"
    <3>1. core1' = "store" /\ Counted' = 0 /\ turned' = 0 /\ Current' = Pins(shaft')
      BY <1>2, <2>1, <2>3 DEF DisconnectReset, ResetStep, After, ResetInv, counts,
                              Counted, Current
    <3> QED
      BY <2>1, <3>1, Rebased DEF ApartInv, ResetInv
  <2>4. CASE core1 = "store"
    <3>1. /\ core1' = "top" /\ Counted' = Counted /\ Current' = Current
          /\ UNCHANGED <<turned, lost, shaft, pending>>
      BY <1>2, <2>1, <2>4 DEF DisconnectReset, ResetStep, After, travel, Counted,
                              Current
    <3> QED
      BY <2>1, <2>4, <3>1 DEF ApartInv, ResetInv, CountInv, Settled, Unread, Changed
  <2> QED
    BY <1>2, <2>2, <2>3, <2>4 DEF DisconnectReset
<1>3. CASE ControlReset
  <2>1. core1 = "top" /\ core1' = "top" /\ isr = "none" /\ isr' = "none"
    BY <1>3 DEF ControlReset, ApartInv, isrVars, EncTypeOK
  <2>2. CASE core0 = "zero"
    BY <1>3, <2>1, <2>2 DEF ControlReset, ResetStep, After, ApartInv, ResetInv,
                            CountInv, Settled, Unread
  <2>3. CASE core0 = "read"
    <3>1. core0' = "store" /\ Counted' = 0 /\ turned' = 0 /\ Current' = Pins(shaft')
      BY <1>3, <2>1, <2>3 DEF ControlReset, ResetStep, After, ResetInv, counts,
                              Counted, Current
    <3> QED
      BY <2>1, <3>1, Rebased DEF ApartInv, ResetInv
  <2>4. CASE core0 = "store"
    <3>1. /\ core0' = "idle" /\ Counted' = Counted /\ Current' = Current
          /\ UNCHANGED <<turned, lost, shaft, pending>>
      BY <1>3, <2>1, <2>4 DEF ControlReset, ResetStep, After, travel, Counted, Current
    <3> QED
      BY <2>1, <2>4, <3>1 DEF ApartInv, ResetInv, CountInv, Settled, Unread, Changed
  <2> QED
    BY <1>3, <2>2, <2>3, <2>4 DEF ControlReset
<1> QED
  BY <1>1, <1>2, <1>3

--------------------------------------------------------------------------------
(* A step after which no reset has run into anything keeps what resets     *)
(* have done, and what the count is worth.                                 *)
LEMMA CountStep ==
    ASSUME Inv, [EncNext]_encVars, ~torn'
    PROVE  Whole'
<1> USE DEF Inv
<1>t. EncTypeOK'
  BY TypeStep
<1>b. CASE Index \/ EnableState \/ Disconnect \/ Control
  BY <1>b, BeginStep
<1>e. ASSUME NEW pin, Edge(pin) PROVE Whole'
  <2>1. ~torn
    BY <1>e DEF Edge
  <2> QED
    BY <1>e, <2>1, EdgeStep DEF Whole
<1>r. CASE IndexReset \/ DisconnectReset \/ ControlReset
  <2>1. ~torn
    BY <1>r DEF IndexReset, DisconnectReset, ControlReset
  <2> QED
    BY <1>r, <1>t, <2>1, ResetCounts
<1>1. ASSUME NEW by \in {1, -1}, Turn(by) PROVE Whole'
  <2>1. ~torn
    BY <1>1 DEF Turn
  <2>2. ResetInv' /\ CountInv'
    BY <1>1, <2>1, TurnStep DEF Whole
  <2> QED
    BY <1>1, <2>1, <2>2 DEF Turn, isrVars, Whole, ApartInv
<1>2. CASE IndexPulse
  BY <1>2 DEF IndexPulse, counts, isrVars, travel, Whole, ApartInv, ResetInv, CountInv,
              Counted, Current, Settled, Changed
<1>3. CASE EdgeStore
  <2>1. ~torn
    BY <1>3 DEF EdgeStore
  <2>2. core0 = "idle" /\ core1 = "top" /\ UNCHANGED <<core0, core1>>
    BY <1>3, <2>1 DEF EdgeStore, Whole, ApartInv, EncTypeOK
  <2>3. Counted' = Counted /\ Current' = Current
    BY <1>3, <2>2 DEF EdgeStore, Counted, Current
  <2> QED
    BY <1>3, <2>1, <2>2, <2>3 DEF EdgeStore, travel, Whole, ApartInv, ResetInv, CountInv,
                                  Settled, Unread, Changed
<1>4. CASE Disable
  <2>1. ~torn
    BY <1>4 DEF Disable
  <2>2. /\ ~Changed' /\ core1' = "top"
        /\ UNCHANGED <<core0, core1, isr, turned, shaft>>
        /\ Counted' = Counted /\ Current' = Current /\ Settled' = Settled
    BY <1>4 DEF Disable, counts, isrVars, Counted, Current, Settled, Changed
  <2>3. ASSUME lost' # "any" PROVE lost' = lost /\ ~Changed
    BY <1>4, <2>3 DEF Disable
  <2>4. ApartInv' /\ ResetInv'
    BY <1>4, <2>1, <2>2 DEF Disable, counts, Whole, ApartInv, ResetInv
  <2> QED
    BY <2>1, <2>2, <2>3, <2>4 DEF Whole, CountInv
<1>5. CASE EnableZero
  <2>1. ~torn
    BY <1>5 DEF EnableZero
  <2>2. core0 = "idle" /\ isr = "none" /\ core1' = "switch" /\ UNCHANGED <<core0, isr>>
    BY <1>5, <2>1 DEF EnableZero, isrVars, Whole, ApartInv
  <2>3. Counted' = 0 /\ turned' = 0 /\ Current' = prev_state
    BY <1>5, <2>2 DEF EnableZero, Counted, Current
  <2>4. ASSUME lost' # "any" PROVE Current' = Pins(shaft')
    BY <1>5, <2>3, <2>4 DEF EnableZero
  <2>5. CASE lost' = "any"
    BY <2>2, <2>5 DEF Whole, ApartInv, ResetInv, CountInv
  <2>6. CASE lost' # "any"
    BY <1>t, <2>2, <2>3, <2>4, <2>6, Rebased DEF Whole, ApartInv, ResetInv
  <2> QED
    BY <2>5, <2>6
<1>6. CASE EnableSwitch
  <2>1. ~torn
    BY <1>6 DEF EnableSwitch
  <2>2. core0 = "idle" /\ isr = "none" /\ core1' = "top" /\ UNCHANGED <<core0, isr>>
    BY <1>6, <2>1 DEF EnableSwitch, isrVars, Whole, ApartInv
  <2>3. /\ Counted' = Counted /\ Current' = Current
        /\ UNCHANGED <<turned, lost, shaft, counter>>
    BY <1>6, <2>2 DEF EnableSwitch, counts, isrVars, travel, Counted, Current
  <2>4. ApartInv' /\ ResetInv'
    BY <2>2 DEF ApartInv, ResetInv
  <2>5. CASE lost = "any"
    BY <2>3, <2>4, <2>5 DEF Whole, CountInv
  <2>6. CASE lost # "any"
    BY <1>t, <1>6, <2>1, <2>3, <2>4, <2>6, Rebased DEF EnableSwitch, Whole, ResetInv
  <2> QED
    BY <2>5, <2>6
<1>7. CASE UNCHANGED encVars
  BY <1>7 DEF encVars, counts, isrVars, travel, Whole, ApartInv, ResetInv, CountInv,
              Counted, Current, Settled, Changed
<1> QED
  BY <1>b, <1>e, <1>r, <1>1, <1>2, <1>3, <1>4, <1>5, <1>6, <1>7
     DEF EncNext, Interrupt, Core1

(* At the start every variable has its type.                               *)
LEMMA InitType == EncInit => EncTypeOK
<1> SUFFICES ASSUME EncInit PROVE EncTypeOK
  OBVIOUS
<1>1. {edge_irq, enc_irq_enabled, torn} \subseteq BOOLEAN
  BY Zenon DEF EncInit
<1> QED
  BY <1>1 DEF EncInit, EncTypeOK, ResetSteps

(* The invariant holds at the start and after every step.                  *)
LEMMA Inductive == EncSpec => []Inv
<1>1. EncInit => Inv
  <2> SUFFICES ASSUME EncInit PROVE Inv
    OBVIOUS
  <2>1. EncTypeOK
    BY InitType
  <2>2. Counted = turned /\ Current = Pins(shaft)
    BY DEF EncInit, Counted, Current, Pins
  <2>3. ApartInv /\ ResetInv
    BY DEF EncInit, ApartInv, ResetInv
  <2> QED
    BY <2>1, <2>2, <2>3, Rebase DEF Inv, Whole
<1>2. Inv /\ [EncNext]_encVars => Inv'
  <2> SUFFICES ASSUME Inv, [EncNext]_encVars PROVE EncTypeOK' /\ (~torn' => Whole')
    BY DEF Inv
  <2> QED
    BY TypeStep, CountStep DEF Inv
<1> QED
  BY <1>1, <1>2, PTL DEF EncSpec

--------------------------------------------------------------------------------
(* Every variable has its type, whatever the order of edges, resets and    *)
(* the switch: the cores and the interrupt are at places that exist.       *)
THEOREM EncTypes == EncSpec => []EncTypeOK
<1>1. EncInit => EncTypeOK
  BY InitType
<1>2. EncTypeOK /\ [EncNext]_encVars => EncTypeOK'
  BY TypeStep
<1> QED
  BY <1>1, <1>2, PTL DEF EncSpec

(* The count is the travel since the last reset, and edges that came too   *)
(* fast are missing in pairs, from the first reset on that does not run    *)
(* into an edge or another reset until one that does.                      *)
THEOREM CountTravels == EncSpec => []CountIsTravel
<1>1. Inv => CountIsTravel
  <2> SUFFICES ASSUME Inv, Quiet, ~torn PROVE
        /\ lost = "none" => counter = turned
        /\ lost = "pairs" => (counter - turned) % 2 = 0
    BY DEF CountIsTravel
  <2>1. EncTypeOK /\ Settled /\ Counted = counter /\ ~Changed
    BY DEF Inv, Quiet, EncTypeOK, Settled, Unread, Resetting, ResetSteps,
       Enabling, Counted
  <2>2. Pins(shaft) \in 0 .. 3
    BY <2>1, PinsType DEF EncTypeOK
  <2>3. Transition(Pins(shaft), Pins(shaft)) = 0
    BY <2>2, NoTransition
  <2>4. Colour(Pins(shaft)) \in {0, 1}
    BY Zenon DEF Colour
  <2>5. ASSUME lost # "any" PROVE Current = Pins(shaft)
    BY <2>1, <2>5 DEF Inv, Whole, CountInv
  <2>6. ASSUME lost = "none" PROVE counter = turned
    <3>1. counter + Transition(Current, Pins(shaft)) = turned
      BY <2>1, <2>6 DEF Inv, Whole, CountInv
    <3> QED
      BY <2>1, <2>3, <2>5, <2>6, <3>1 DEF EncTypeOK
  <2>7. ASSUME lost = "pairs" PROVE (counter - turned) % 2 = 0
    <3>1. (counter - turned + Colour(Current) + Colour(Pins(shaft))) % 2 = 0
      BY <2>1, <2>7 DEF Inv, Whole, CountInv
    <3> QED
      BY <2>1, <2>4, <2>5, <2>7, <3>1 DEF EncTypeOK
  <2> QED
    BY <2>6, <2>7
<1> QED
  BY <1>1, Inductive, PTL

(* After edges that came too fast, and after a reset that was torn and one *)
(* that was not, the counting goes on from the state the shaft is in.      *)
THEOREM StateIsRight == EncSpec => []StateIsCurrent
<1>1. Inv => StateIsCurrent
  <2> SUFFICES ASSUME Inv, Quiet, ~torn, lost # "any" PROVE prev_state = Pins(shaft)
    BY DEF StateIsCurrent
  <2>1. Settled /\ Current = prev_state /\ ~Changed
    BY DEF Inv, Quiet, EncTypeOK, Settled, Unread, Resetting, ResetSteps,
       Enabling, Current
  <2> QED
    BY <2>1 DEF Inv, Whole, CountInv
<1> QED
  BY <1>1, Inductive, PTL
================================================================================
