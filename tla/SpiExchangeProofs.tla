---------------------------- MODULE SpiExchangeProofs ----------------------------
(***************************************************************************)
(* Theorems about the byte-level SPI exchange, for every size of a frame   *)
(* and every depth of the peripheral's FIFOs below it, with a slave that   *)
(* is never late.                                                          *)
(***************************************************************************)
EXTENDS SpiExchange, TLAPS

USE SizeAssumption, IdsAssumption, LateAssumption

Id   == 0 .. Ids - 1
Byte == Nat \X Nat

Predecessor(id) == (id + Ids - 1) % Ids

(* Frames are numbered modulo Ids: one that was begun is not the one       *)
(* before it.                                                              *)
LEMMA Numbering ==
    ASSUME NEW id \in Id
    PROVE  /\ Successor(id) \in Id
           /\ Successor(id) # id
           /\ Predecessor(Successor(id)) = id
           /\ Predecessor(id) \in Id
<1>1. CASE id = Ids - 1
  <2>1. Successor(id) = 0
    BY <1>1 DEF Id, Successor
  <2>2. Predecessor(0) = Ids - 1
    BY DEF Predecessor
  <2>3. Predecessor(id) = Ids - 2
    <3>1. id + Ids - 1 = Ids + (Ids - 2) /\ Ids - 2 \in 0 .. Ids - 1
      BY <1>1
    <3> QED
      BY <3>1 DEF Predecessor
  <2> QED
    BY <1>1, <2>1, <2>2, <2>3 DEF Id
<1>2. CASE id # Ids - 1
  <2>1. Successor(id) = id + 1
    BY <1>2 DEF Id, Successor
  <2>2. Predecessor(id + 1) = id
    <3>1. (id + 1) + Ids - 1 = Ids + id
      BY DEF Id
    <3> QED
      BY <3>1 DEF Id, Predecessor
  <2>3. Predecessor(id) \in Id
    BY DEF Id, Predecessor
  <2> QED
    BY <1>2, <2>1, <2>2, <2>3 DEF Id
<1> QED
  BY <1>1, <1>2

(* N bytes of one frame, in order, pass the checksum.                      *)
LEMMA WholeFrame ==
    ASSUME NEW bytes \in Seq(Byte), Len(bytes) = N, NEW id \in Id,
           \A i \in 1 .. N : bytes[i] = <<id, i>>
    PROVE  Checked(bytes) = id
<1>1. bytes = [i \in 1 .. N |-> <<id, i>>]
  <2>1. bytes \in [1 .. N -> Byte]
    OBVIOUS
  <2>2. bytes = [i \in 1 .. N |-> bytes[i]]
    BY <2>1
  <2> QED
    BY <2>2
<1>2. bytes[1][1] = id
  <2>1. 1 \in 1 .. N
    OBVIOUS
  <2> QED
    BY <2>1
<1> QED
  BY <1>1, <1>2 DEF Checked, Id

--------------------------------------------------------------------------------
(***************************************************************************)
(* The slave works on the frame after the one it handled last, and has     *)
(* Taken bytes of it: it may be in the loop for the next frame while the   *)
(* master still ends the transfer before.  What was clocked is in the      *)
(* slave's buffer or, one byte at most, in the RX FIFO; what the slave put *)
(* out was clocked or is in the TX FIFO.                                   *)
(***************************************************************************)
Taken == IF handled = sent THEN 0 ELSE clocked

TypeInv ==
    /\ clocking \in BOOLEAN
    /\ sent \in Id /\ handled \in Id
    /\ clocked \in 0 .. N
    /\ tx_done \in 0 .. N
    /\ incoming \in Seq(Byte)
    /\ rx_fifo \in Seq(Byte)
    /\ tx_fifo \in Seq(Byte)
    /\ frame \in Seq(Byte)
    /\ slave \in {"poll", "read", "busy"}
    /\ lates = 0

(* Which of the two ends is ahead.                                         *)
TurnInv ==
    /\ staged = handled
    /\ handled # sent => sent = Successor(handled)
    /\ handled = sent \/ ~clocking => clocked = N
    /\ slave = "busy" => handled = sent

(* What the master has of the reply.                                       *)
MasterInv ==
    clocking => /\ Len(incoming) = clocked
                /\ \A i \in 1 .. clocked : incoming[i] = <<Predecessor(sent), i>>

(* What the slave has of the frame, and where its reply is.                *)
RestInv == slave # "read" => rx_fifo = << >> /\ tx_fifo = << >> /\ Taken = 0

TakeInv ==
    slave = "read" =>
        /\ Len(frame) + Len(rx_fifo) = Taken
        /\ Len(rx_fifo) <= 1
        /\ \A i \in 1 .. Len(frame) : frame[i] = <<Successor(handled), i>>
        /\ \A i \in 1 .. Len(rx_fifo) : rx_fifo[i] = <<Successor(handled), Len(frame) + i>>

GiveInv ==
    slave = "read" =>
        /\ packet = handled
        /\ tx_done = Taken + Len(tx_fifo)
        /\ \A i \in 1 .. Len(tx_fifo) : tx_fifo[i] = <<handled, Taken + i>>

ExchangeInv ==
    TypeInv /\ TurnInv /\ MasterInv /\ RestInv /\ TakeInv /\ GiveInv

--------------------------------------------------------------------------------
(* A transfer begins after the frame of the one before was handled.        *)
LEMMA StartStep ==
    ASSUME MaxLate = 0, ExchangeInv, MasterStart
    PROVE  ExchangeInv' /\ handled = sent /\ ~clocking
<1> USE DEF ExchangeInv
<1>1. /\ ~clocking /\ clocking' /\ clocked' = 0 /\ incoming' = << >>
      /\ sent' = Successor(sent)
      /\ UNCHANGED <<rx_fifo, tx_fifo, slave, packet, frame, tx_done, handled, staged>>
  BY DEF MasterStart, fifoVars, slaveVars
<1>2. slave # "busy" /\ lates' = 0 /\ (slave = "poll" \/ CaughtUp)
  BY DEF MasterStart, TypeInv
<1>3. clocked = N
  BY <1>1 DEF TurnInv
<1>4. handled = sent
  <2>1. CASE slave = "poll"
    BY <1>3, <2>1 DEF RestInv, Taken
  <2>2. CASE CaughtUp
    BY <1>3, <2>2 DEF CaughtUp, TakeInv, TypeInv, Taken
  <2> QED
    BY <1>2, <2>1, <2>2
<1>5. sent' \in Id /\ sent' # handled' /\ sent' = Successor(handled')
  BY <1>1, <1>4, Numbering DEF TypeInv
<1>6. Taken' = 0 /\ Taken = 0
  BY <1>1, <1>4 DEF Taken
<1>7. TypeInv'
  <2>1. incoming' \in Seq(Byte) /\ clocked' \in 0 .. N
    BY <1>1
  <2> QED
    BY <1>1, <1>2, <1>5, <2>1 DEF TypeInv
<1>8. TurnInv'
  BY <1>1, <1>2, <1>5 DEF TurnInv
<1>9. MasterInv'
  BY <1>1 DEF MasterInv
<1>10. RestInv' /\ TakeInv' /\ GiveInv'
  BY <1>1, <1>6 DEF RestInv, TakeInv, GiveInv
<1> QED
  BY <1>1, <1>4, <1>7, <1>8, <1>9, <1>10

(* A byte goes each way: no FIFO overruns or runs dry.                     *)
LEMMA ClockStep ==
    ASSUME ExchangeInv, MasterClock
    PROVE  ExchangeInv'
<1> USE DEF ExchangeInv
<1>1. /\ clocking /\ clocked < N /\ clocked' = clocked + 1
      /\ UNCHANGED <<clocking, sent, slave, packet, frame, tx_done, handled, staged, lates>>
  BY DEF MasterClock, slaveVars
<1>2. clocked \in 0 .. N /\ handled # sent
  BY <1>1 DEF TypeInv, TurnInv
<1>3. CaughtUp /\ slave = "read" /\ rx_fifo = << >>
  BY <1>2 DEF MasterClock, TurnInv, CaughtUp
<1>4. Taken = clocked /\ Taken' = clocked + 1
  BY <1>1, <1>2 DEF Taken
<1>5. sent = Successor(handled) /\ Predecessor(sent) = handled
  BY <1>2, Numbering DEF TurnInv, TypeInv
<1>6. tx_fifo # << >>
  <2>1. Len(tx_fifo) > 0
    BY <1>1, <1>2, <1>3, <1>4 DEF CaughtUp, GiveInv, TypeInv
  <2> QED
    BY <2>1
<1>7. /\ rx_fifo' = << <<sent, clocked + 1>> >>
      /\ incoming' = Append(incoming, Head(tx_fifo))
      /\ tx_fifo' = Tail(tx_fifo)
  BY <1>3, <1>6 DEF MasterClock
<1>8. /\ tx_fifo \in Seq(Byte) /\ Len(tx_fifo') = Len(tx_fifo) - 1
      /\ tx_fifo' \in Seq(Byte) /\ Head(tx_fifo) = tx_fifo[1]
      /\ \A i \in 1 .. Len(tx_fifo) - 1 : tx_fifo'[i] = tx_fifo[i + 1]
      /\ Len(tx_fifo) \in Nat \ {0}
      /\ Head(tx_fifo) \in Byte
  BY <1>6, <1>7 DEF TypeInv
<1>9. Head(tx_fifo) = <<handled, clocked + 1>>
  <2>1. 1 \in 1 .. Len(tx_fifo)
    BY <1>8
  <2> QED
    BY <1>3, <1>4, <1>8, <2>1 DEF GiveInv
<1>10. TypeInv'
  <2>1. incoming' \in Seq(Byte)
    BY <1>7, <1>8 DEF TypeInv
  <2>2. rx_fifo' \in Seq(Byte)
    <3>1. <<sent, clocked + 1>> \in Byte
      BY <1>2 DEF TypeInv, Id, Byte
    <3> QED
      BY <1>7, <3>1
  <2>3. clocked' \in 0 .. N
    BY <1>1, <1>2
  <2> QED
    BY <1>1, <1>8, <2>1, <2>2, <2>3 DEF TypeInv
<1>11. TurnInv'
  BY <1>1, <1>2 DEF TurnInv
<1>12. MasterInv'
  <2>1. /\ Len(incoming) = clocked /\ incoming \in Seq(Byte)
        /\ \A i \in 1 .. clocked : incoming[i] = <<handled, i>>
    BY <1>1, <1>5 DEF MasterInv, TypeInv
  <2>2. Len(incoming') = clocked + 1 /\ incoming'[clocked + 1] = <<handled, clocked + 1>>
    BY <1>7, <1>9, <2>1
  <2>3. \A i \in 1 .. clocked : incoming'[i] = <<handled, i>>
    BY <1>7, <2>1
  <2>4. \A i \in 1 .. clocked + 1 : incoming'[i] = <<handled, i>>
    BY <1>2, <2>2, <2>3
  <2>5. Predecessor(sent') = handled
    BY <1>1, <1>5
  <2> QED
    BY <1>1, <2>2, <2>4, <2>5 DEF MasterInv
<1>13. RestInv'
  BY <1>1, <1>3 DEF RestInv
<1>14. TakeInv'
  <2>1. Len(frame) = clocked
    BY <1>3, <1>4 DEF TakeInv, TypeInv
  <2>2. Len(rx_fifo') = 1 /\ rx_fifo'[1] = <<sent, clocked + 1>>
    BY <1>7
  <2>3. \A i \in 1 .. Len(rx_fifo') : rx_fifo'[i] = <<Successor(handled), Len(frame) + i>>
    BY <1>5, <2>1, <2>2
  <2> QED
    BY <1>1, <1>2, <1>3, <1>4, <2>1, <2>2, <2>3 DEF TakeInv
<1>15. GiveInv'
  <2>1. \A i \in 1 .. Len(tx_fifo) - 1 : tx_fifo'[i] = <<handled, (clocked + 1) + i>>
    <3>1. ASSUME NEW i \in 1 .. Len(tx_fifo) - 1
          PROVE  tx_fifo'[i] = <<handled, (clocked + 1) + i>>
      <4>1. i + 1 \in 1 .. Len(tx_fifo) /\ tx_fifo'[i] = tx_fifo[i + 1]
        BY <1>8
      <4>2. tx_fifo[i + 1] = <<handled, clocked + (i + 1)>>
        BY <1>3, <1>4, <4>1 DEF GiveInv
      <4>3. clocked + (i + 1) = (clocked + 1) + i
        BY <1>2
      <4> QED
        BY <4>1, <4>2, <4>3
    <3> QED
      BY <3>1
  <2>2. packet = handled /\ tx_done = clocked + Len(tx_fifo)
    BY <1>3, <1>4 DEF GiveInv
  <2>3. tx_done = (clocked + 1) + Len(tx_fifo')
    BY <1>2, <1>8, <2>2
  <2> QED
    BY <1>1, <1>4, <1>8, <2>1, <2>2, <2>3 DEF GiveInv
<1> QED
  BY <1>10, <1>11, <1>12, <1>13, <1>14, <1>15

(* The master has a whole reply, the one staged before this frame.         *)
LEMMA EndStep ==
    ASSUME ExchangeInv, MasterEnd
    PROVE  ExchangeInv' /\ returned' = Predecessor(sent)
<1> USE DEF ExchangeInv
<1>1. /\ clocking /\ clocking' = FALSE /\ clocked = N /\ returned' = Checked(incoming)
      /\ UNCHANGED <<sent, clocked, incoming, rx_fifo, tx_fifo, slave, packet,
                     frame, tx_done, handled, staged, lates>>
  BY DEF MasterEnd, fifoVars, slaveVars
<1>2. Predecessor(sent) \in Id
  BY Numbering DEF TypeInv
<1>3. returned' = Predecessor(sent)
  BY <1>1, <1>2, WholeFrame DEF MasterInv, TypeInv
<1>4. Taken' = Taken
  BY <1>1 DEF Taken
<1>5. TypeInv' /\ TurnInv' /\ MasterInv'
  BY <1>1 DEF TypeInv, TurnInv, MasterInv
<1>6. RestInv' /\ TakeInv' /\ GiveInv'
  BY <1>1, <1>4 DEF RestInv, TakeInv, GiveInv
<1> QED
  BY <1>3, <1>5, <1>6

(* The slave enters the loop for the frame under way, or for the next one  *)
(* when the master is still ending the one before.                         *)
LEMMA EnterStep ==
    ASSUME ExchangeInv, SlaveEnter
    PROVE  ExchangeInv'
<1> USE DEF ExchangeInv
<1>1. /\ slave = "poll" /\ slave' = "read" /\ packet' = staged /\ frame' = << >>
      /\ UNCHANGED <<clocking, sent, clocked, incoming, rx_fifo, handled, staged, lates>>
      /\ tx_done' = D - Len(tx_fifo)
      /\ tx_fifo' = tx_fifo \o Bytes(staged, 1, D - Len(tx_fifo))
  BY DEF SlaveEnter, masterVars
<1>2. rx_fifo = << >> /\ tx_fifo = << >> /\ Taken = 0 /\ staged = handled
  BY <1>1 DEF RestInv, TurnInv
<1>3. Taken' = 0
  BY <1>1, <1>2 DEF Taken
<1>4. tx_done' = D /\ tx_fifo' = [i \in 1 .. D |-> <<handled, i>>]
  <2>1. D - Len(tx_fifo) = D
    BY <1>2
  <2>2. Bytes(handled, 1, D) = [i \in 1 .. D |-> <<handled, i>>]
    BY DEF Bytes
  <2>3. [i \in 1 .. D |-> <<handled, i>>] \in Seq(Byte)
    BY DEF TypeInv, Id, Byte
  <2> QED
    BY <1>1, <1>2, <2>1, <2>2, <2>3
<1>5. tx_fifo' \in Seq(Byte) /\ Len(tx_fifo') = D
  BY <1>4 DEF TypeInv, Id, Byte
<1>6. TypeInv'
  BY <1>1, <1>4, <1>5 DEF TypeInv
<1>7. TurnInv' /\ MasterInv' /\ RestInv'
  BY <1>1 DEF TurnInv, MasterInv, RestInv
<1>8. TakeInv'
  BY <1>1, <1>2, <1>3 DEF TakeInv
<1>9. GiveInv'
  BY <1>1, <1>2, <1>3, <1>4, <1>5 DEF GiveInv
<1> QED
  BY <1>6, <1>7, <1>8, <1>9

(* A round of the loop moves a byte out of the RX FIFO and puts the next   *)
(* one into the TX FIFO.                                                   *)
LEMMA LoopStep ==
    ASSUME ExchangeInv, SlaveLoop
    PROVE  ExchangeInv'
<1> USE DEF ExchangeInv
<1>1. /\ slave = "read" /\ Len(frame) < N
      /\ UNCHANGED <<clocking, sent, clocked, incoming, slave, packet, handled, staged, lates>>
  BY DEF SlaveLoop, masterVars
<1>2. Taken' = Taken /\ Taken \in 0 .. N
  BY <1>1 DEF Taken, TypeInv
<1>3. /\ TakeInv'
      /\ frame' \in Seq(Byte) /\ rx_fifo' \in Seq(Byte)
  <2>1. CASE UNCHANGED <<frame, rx_fifo>>
    BY <1>1, <1>2, <2>1 DEF TakeInv, TypeInv
  <2>2. CASE /\ rx_fifo # << >>
             /\ frame' = Append(frame, Head(rx_fifo))
             /\ rx_fifo' = Tail(rx_fifo)
    <3>1. /\ frame \in Seq(Byte) /\ rx_fifo \in Seq(Byte)
          /\ Len(rx_fifo) = 1 /\ rx_fifo[1] = <<Successor(handled), Len(frame) + 1>>
          /\ Len(frame) + 1 = Taken
          /\ \A i \in 1 .. Len(frame) : frame[i] = <<Successor(handled), i>>
      <4>1. /\ frame \in Seq(Byte) /\ rx_fifo \in Seq(Byte)
            /\ \A i \in 1 .. Len(rx_fifo) :
                   rx_fifo[i] = <<Successor(handled), Len(frame) + i>>
            /\ Len(frame) + Len(rx_fifo) = Taken
        BY <1>1 DEF TakeInv, TypeInv
      <4>2. Len(rx_fifo) >= 1
        BY <2>2, <4>1
      <4>3. Len(rx_fifo) <= 1
        BY <1>1 DEF TakeInv
      <4>4. Len(rx_fifo) = 1
        BY <4>2, <4>3
      <4> QED
        BY <1>1, <4>1, <4>4 DEF TakeInv
    <3>2. /\ Head(rx_fifo) = rx_fifo[1] /\ Head(rx_fifo) \in Byte
          /\ rx_fifo' \in Seq(Byte) /\ Len(rx_fifo') = 0
      BY <2>2, <3>1
    <3>3. /\ frame' \in Seq(Byte) /\ Len(frame') = Len(frame) + 1
          /\ frame'[Len(frame) + 1] = <<Successor(handled), Len(frame) + 1>>
          /\ \A i \in 1 .. Len(frame) : frame'[i] = <<Successor(handled), i>>
      BY <2>2, <3>1, <3>2
    <3>4. Len(frame) \in Nat
      BY <3>1
    <3>5. \A i \in 1 .. Len(frame') : frame'[i] = <<Successor(handled), i>>
      BY <3>3, <3>4
    <3> QED
      BY <1>1, <1>2, <3>1, <3>2, <3>3, <3>4, <3>5 DEF TakeInv
  <2> QED
    BY <2>1, <2>2 DEF SlaveLoop
<1>4. /\ GiveInv'
      /\ tx_fifo' \in Seq(Byte) /\ tx_done' \in 0 .. N
  <2>1. CASE UNCHANGED <<tx_done, tx_fifo>>
    BY <1>1, <1>2, <2>1 DEF GiveInv, TypeInv
  <2>2. CASE /\ tx_done < N /\ tx_done' = tx_done + 1
             /\ tx_fifo' = Append(tx_fifo, <<packet, tx_done + 1>>)
    <3>1. /\ tx_fifo \in Seq(Byte) /\ packet = handled
          /\ tx_done = Taken + Len(tx_fifo) /\ tx_done \in 0 .. N
          /\ \A i \in 1 .. Len(tx_fifo) : tx_fifo[i] = <<handled, Taken + i>>
      BY <1>1 DEF GiveInv, TypeInv
    <3>2. <<packet, tx_done + 1>> \in Byte
      BY <3>1 DEF TypeInv, Id, Byte
    <3>3. /\ tx_fifo' \in Seq(Byte) /\ Len(tx_fifo') = Len(tx_fifo) + 1
          /\ tx_fifo'[Len(tx_fifo) + 1] = <<handled, tx_done + 1>>
          /\ \A i \in 1 .. Len(tx_fifo) : tx_fifo'[i] = <<handled, Taken + i>>
      BY <2>2, <3>1, <3>2
    <3>4. Len(tx_fifo) \in Nat /\ tx_done + 1 = Taken + (Len(tx_fifo) + 1)
      BY <1>2, <3>1
    <3>5. \A i \in 1 .. Len(tx_fifo') : tx_fifo'[i] = <<handled, Taken + i>>
      BY <3>3, <3>4
    <3> QED
      BY <1>1, <1>2, <2>2, <3>1, <3>3, <3>4, <3>5 DEF GiveInv
  <2> QED
    BY <2>1, <2>2 DEF SlaveLoop
<1>5. TypeInv'
  BY <1>1, <1>3, <1>4 DEF TypeInv
<1>6. TurnInv' /\ MasterInv' /\ RestInv'
  BY <1>1 DEF TurnInv, MasterInv, RestInv
<1> QED
  BY <1>3, <1>4, <1>5, <1>6

(* The slave has a whole frame, the one the master sent, and has put out   *)
(* the whole reply: nothing is left in either FIFO.                        *)
LEMMA DoneStep ==
    ASSUME ExchangeInv, SlaveDone
    PROVE  ExchangeInv' /\ handled # sent /\ handled' = sent
<1> USE DEF ExchangeInv
<1>1. /\ slave = "read" /\ slave' = "busy" /\ Len(frame) = N /\ rx_fifo' = << >>
      /\ handled' = Checked(frame) /\ staged' = Successor(staged)
      /\ UNCHANGED <<clocking, sent, clocked, incoming, tx_fifo, packet, frame, tx_done, lates>>
  BY DEF SlaveDone, masterVars
<1>2. Taken = N /\ handled # sent /\ clocked = N
  <2>1. Len(frame) + Len(rx_fifo) = Taken /\ Len(rx_fifo) \in Nat
    BY <1>1 DEF TakeInv, TypeInv
  <2>2. Taken = 0 \/ Taken = clocked
    BY DEF Taken
  <2>3. Taken = N /\ clocked = N
    BY <1>1, <2>1, <2>2 DEF TypeInv
  <2> QED
    BY <2>3 DEF Taken
<1>3. sent = Successor(handled)
  BY <1>2 DEF TurnInv
<1>4. handled' = sent
  <2>1. \A i \in 1 .. N : frame[i] = <<sent, i>>
    BY <1>1, <1>3 DEF TakeInv
  <2> QED
    BY <1>1, <2>1, WholeFrame DEF TypeInv
<1>5. tx_fifo = << >>
  <2>1. tx_done = N + Len(tx_fifo) /\ tx_done \in 0 .. N /\ tx_fifo \in Seq(Byte)
    BY <1>1, <1>2 DEF GiveInv, TypeInv
  <2>2. Len(tx_fifo) = 0
    BY <2>1
  <2> QED
    BY <2>1, <2>2
<1>6. Taken' = 0
  BY <1>1, <1>4 DEF Taken
<1>7. TypeInv'
  BY <1>1, <1>4 DEF TypeInv
<1>8. TurnInv'
  BY <1>1, <1>2, <1>3, <1>4 DEF TurnInv
<1>9. MasterInv' /\ TakeInv' /\ GiveInv'
  BY <1>1 DEF MasterInv, TakeInv, GiveInv
<1>10. RestInv'
  BY <1>1, <1>5, <1>6 DEF RestInv
<1> QED
  BY <1>2, <1>4, <1>7, <1>8, <1>9, <1>10

(* The frame is handled, and the slave polls GPIO_INT again.               *)
LEMMA FreeStep ==
    ASSUME ExchangeInv, SlaveFree
    PROVE  ExchangeInv'
<1>1. /\ slave = "busy" /\ slave' = "poll"
      /\ UNCHANGED <<clocking, sent, clocked, incoming, rx_fifo, tx_fifo, packet,
                     frame, tx_done, handled, staged, lates>>
  BY DEF SlaveFree, masterVars, fifoVars
<1>2. Taken' = Taken
  BY <1>1 DEF Taken
<1> QED
  BY <1>1, <1>2
     DEF ExchangeInv, TypeInv, TurnInv, MasterInv, RestInv, TakeInv, GiveInv

--------------------------------------------------------------------------------
(***************************************************************************)
(* Refinement: the transfer begins, is handled and returns at MasterStart, *)
(* SlaveDone and MasterEnd; the bytes in between are stutter.              *)
(***************************************************************************)
LEMMA ExchangeIsSwap ==
    ASSUME MaxLate = 0, ExchangeInv, [SpiNext]_spiVars
    PROVE  ExchangeInv' /\ [Swap!SwapNext]_(Swap!swapVars)
<1> DEFINE Stutter == UNCHANGED <<sent, handled, returned, clocking>>
<1>0. Stutter => [Swap!SwapNext]_(Swap!swapVars)
  BY DEF Swap!swapVars
<1>1. CASE MasterStart
  <2>1. ExchangeInv' /\ handled = sent /\ ~clocking
    BY <1>1, StartStep
  <2>2. Swap!Begin
    BY <1>1, <2>1 DEF MasterStart, slaveVars, Swap!Begin, Swap!Following, Successor
  <2> QED
    BY <2>1, <2>2 DEF Swap!SwapNext
<1>2. CASE MasterClock
  BY <1>0, <1>2, ClockStep DEF MasterClock, slaveVars
<1>3. CASE MasterEnd
  <2>1. ExchangeInv' /\ returned' = Predecessor(sent)
    BY <1>3, EndStep
  <2>2. Swap!Return
    BY <1>3, <2>1 DEF MasterEnd, slaveVars, Swap!Return, Swap!Preceding, Predecessor
  <2> QED
    BY <2>1, <2>2 DEF Swap!SwapNext
<1>4. CASE SlaveEnter
  BY <1>0, <1>4, EnterStep DEF SlaveEnter, masterVars
<1>5. CASE SlaveLoop
  BY <1>0, <1>5, LoopStep DEF SlaveLoop, masterVars
<1>6. CASE SlaveDone
  <2>1. ExchangeInv' /\ handled # sent /\ handled' = sent
    BY <1>6, DoneStep
  <2>2. Swap!Handle
    BY <1>6, <2>1 DEF SlaveDone, masterVars, Swap!Handle
  <2> QED
    BY <2>1, <2>2 DEF Swap!SwapNext
<1>7. CASE SlaveFree
  BY <1>0, <1>7, FreeStep DEF SlaveFree, masterVars
<1>8. CASE UNCHANGED spiVars
  <2>1. UNCHANGED <<clocking, sent, clocked, incoming, returned, rx_fifo, tx_fifo, slave,
                    packet, frame, tx_done, handled, staged, lates>>
    BY <1>8 DEF spiVars, masterVars, fifoVars, slaveVars
  <2>2. Taken' = Taken
    BY <2>1 DEF Taken
  <2>3. ExchangeInv'
    BY <2>1, <2>2
       DEF ExchangeInv, TypeInv, TurnInv, MasterInv, RestInv, TakeInv, GiveInv
  <2> QED
    BY <1>0, <2>1, <2>3
<1> QED
  BY <1>1, <1>2, <1>3, <1>4, <1>5, <1>6, <1>7, <1>8 DEF SpiNext, Master, Slave

(* The two ends start with nothing under way.                              *)
LEMMA SpiStarts == SpiInit => ExchangeInv /\ Swap!SwapInit
<1> SUFFICES ASSUME SpiInit PROVE ExchangeInv /\ Swap!SwapInit
  OBVIOUS
<1>1. 0 \in Id /\ 0 \in 0 .. N /\ N \in 0 .. N
  BY DEF Id
<1>2. TypeInv
  <2>1. /\ incoming = << >> /\ rx_fifo = << >> /\ tx_fifo = << >> /\ frame = << >>
        /\ sent = 0 /\ handled = 0 /\ clocked = N /\ tx_done = 0 /\ lates = 0
        /\ slave = "poll" /\ clocking = FALSE
    BY DEF SpiInit
  <2>2. << >> \in Seq(Byte)
    OBVIOUS
  <2> QED
    BY <1>1, <2>1, <2>2, Zenon DEF TypeInv
<1>3. Taken = 0
  BY DEF SpiInit, Taken
<1>4. TurnInv /\ MasterInv /\ RestInv /\ TakeInv /\ GiveInv
  BY <1>3 DEF SpiInit, TurnInv, MasterInv, RestInv, TakeInv, GiveInv
<1>5. Swap!Preceding(0) = Ids - 1
  BY DEF Swap!Preceding
<1> QED
  BY <1>2, <1>4, <1>5 DEF ExchangeInv, SpiInit, Swap!SwapInit

(* Whatever the size of a frame and the depth of the FIFOs, a slave that   *)
(* is never late handles every frame sent, whole and once, before the next *)
(* transfer begins, and the driver gets, whole, the reply staged before    *)
(* it: the bytes implement the exchange of whole frames.                   *)
THEOREM BytesSwapFrames ==
    ASSUME MaxLate = 0
    PROVE  SpiSpec => Swap!SwapSafety
<1>1. SpiInit => ExchangeInv /\ Swap!SwapInit
  BY SpiStarts
<1>2. ExchangeInv /\ [SpiNext]_spiVars => ExchangeInv' /\ [Swap!SwapNext]_(Swap!swapVars)
  BY ExchangeIsSwap
<1> QED
  BY <1>1, <1>2, PTL DEF SpiSpec, Swap!SwapSafety
================================================================================
