--------------------------- MODULE EncoderIndexProofs ---------------------------
(***************************************************************************)
(* Theorems about the encoder index, for every reach and every scale.      *)
(***************************************************************************)
EXTENDS EncoderIndex, TLAPS

USE ReachAssumption, ScaleAssumption

(* The numbers and the flags of IndexTypeOK, which the provers handle      *)
(* apart.                                                                  *)
Numbers ==
    /\ y \in -Reach .. Reach /\ pio_enc_offset \in -Reach .. Reach
    /\ turned \in -Reach .. Reach /\ moved \in -Reach .. Reach
    /\ raw_count \in -2 * Reach .. 2 * Reach
    /\ reply.count \in -2 * Reach .. 2 * Reach
    /\ reply.moved \in -Reach .. Reach
    /\ moved + reply.moved \in -Reach .. Reach

(* Core 1's loop and its interrupt: what is on and what is noted, whereever*)
(* the loop was interrupted.  No edge comes while the interrupt goes off.  *)
SwitchInv ==
    /\ core1 \in {"index", "note_on", "note_off"}
    /\ core1 = "index" => (index_irq <=> enc_index_enabled)
    /\ core1 = "note_on" => index_irq /\ ~enc_index_enabled
    /\ core1 = "note_off" => ~index_irq /\ ~index_edge /\ isr = "none"

(* No reset by the index is to be told to the driver.                      *)
Told == isr = "none" /\ ~index_reset_flags

(* While no reset is to be told to the driver the count is the one last    *)
(* reported, or last accepted, and the travel since; a reply says how far  *)
(* it is from the one accepted before, unless it tells of a reset.  A tear *)
(* spoils this for two replies.                                            *)
ReportInv ==
    /\ InReply /\ crossed = "none" => isr = "none"
    /\ core0 \in {"reset", "count"} /\ ~rezeroed /\ Told
            /\ crossed = "none" /\ before = "none"
          => y - pio_enc_offset = raw_count + moved
    /\ InReply \/ (core0 = "idle" /\ Told)
          => (~rezeroed /\ crossed = "none" => y - pio_enc_offset = reply.count + moved)
    /\ core0 = "flags" /\ reply.exact /\ ~index_reset_flags
            /\ crossed = "none" /\ before = "none"
          => reply.count - raw_count = reply.moved
    /\ core0 \in {"clear", "idle"} /\ reply.exact /\ ~reply.event
            /\ crossed = "none" /\ before = "none"
          => reply.count - raw_count = reply.moved
    /\ spike # "nothing"

--------------------------------------------------------------------------------
(* The types, of the numbers and of the rest.                              *)
LEMMA TypesAreNumbers == IndexTypeOK => Numbers
BY DEF IndexTypeOK, Numbers

(* What the steps do to the numbers.                                       *)
LEMMA NumbersStep ==
    ASSUME Numbers, [IndexNext]_indexVars
    PROVE  Numbers'
<1> USE DEF Numbers, index, frame, driver
<1>1. ASSUME NEW by \in {1, -1}, Turn(by)
      PROVE  Numbers'
  BY <1>1 DEF Turn
<1>2. CASE Index \/ Disconnect
  BY <1>2 DEF Index, Disconnect
<1>3. CASE IndexPulse \/ IndexFlag \/ IndexSwitch \/ IndexNote \/ ClearEvent
  <2>1. turned' \in {0, turned} /\ UNCHANGED <<y, pio_enc_offset, moved, raw_count, reply>>
    BY <1>3 DEF IndexPulse, IndexFlag, IndexSwitch, IndexNote, ClearEvent
  <2> QED
    BY <2>1
<1>4. CASE Exchange
  <2>1. /\ reply'.count = 0 /\ reply'.moved = 0
        /\ UNCHANGED <<y, pio_enc_offset, turned>>
    BY <1>4 DEF Exchange, NoReply
  <2>2. \/ raw_count' = reply.count /\ moved' = moved
        \/ raw_count' = raw_count /\ moved' = moved + reply.moved
    BY <1>4, Zenon DEF Exchange, Accept, Reject
  <2> QED
    BY <2>1, <2>2
<1>5. CASE ControlReset
  <2>1. /\ pio_enc_offset' \in {y, pio_enc_offset}
        /\ UNCHANGED <<y, moved, turned, raw_count, reply>>
    BY <1>5 DEF ControlReset
  <2> QED
    BY <2>1
<1>6. CASE ReplyCount
  <2>1. /\ reply'.count = IF enc_reset_done THEN 0 ELSE y - pio_enc_offset
        /\ reply'.moved = moved
        /\ moved' = 0 /\ UNCHANGED <<y, pio_enc_offset, turned, raw_count>>
    BY <1>6 DEF ReplyCount
  <2> QED
    BY <2>1
<1>7. CASE ReplyEvent
  <2>1. reply' = [reply EXCEPT !.event = index_reset_flags]
    BY <1>7 DEF ReplyEvent
  <2>2. UNCHANGED <<y, pio_enc_offset, turned, moved, raw_count>>
    BY <1>7 DEF ReplyEvent
  <2> QED
    BY <2>1, <2>2
<1>8. CASE UNCHANGED indexVars
  BY <1>8 DEF indexVars
<1> QED
  BY <1>1, <1>2, <1>3, <1>4, <1>5, <1>6, <1>7, <1>8 DEF IndexNext, Core0, Core1

(* Every step keeps the types.                                             *)
LEMMA TypeStep ==
    ASSUME IndexTypeOK, [IndexNext]_indexVars
    PROVE  IndexTypeOK'
<1> USE DEF index, frame, driver
<1> DEFINE Reply == [count : -2 * Reach .. 2 * Reach, event : BOOLEAN,
                     moved : -Reach .. Reach, exact : BOOLEAN]
           Flags == /\ {index_irq, index_edge, enc_index_enabled, index_reset_flags,
                        enc_reset_done, rezeroed} \subseteq BOOLEAN
                    /\ isr \in {"none", "flag"}
                    /\ core1 \in {"index", "note_on", "note_off"}
                    /\ core0 \in {"idle", "reset", "count", "flags", "clear"}
                    /\ rx_control \in Control
           Notes == /\ {crossed, before} \subseteq {"none", "torn", "lost"}
                    /\ spike \in {"none", "nothing", "torn", "lost"}
<1>1. Numbers /\ Numbers'
  BY TypesAreNumbers, NumbersStep
<1>2. Flags /\ Notes /\ reply \in Reply
  BY DEF IndexTypeOK
<1>3. \A c \in Control : c.reset \in BOOLEAN /\ c.index \in BOOLEAN
  BY DEF Control
<1>4. reply.event \in BOOLEAN /\ reply.exact \in BOOLEAN
  BY <1>2
<1>5. Flags'
  <2>1. CASE Turn(1) \/ Turn(-1) \/ IndexPulse \/ UNCHANGED indexVars
    BY <1>2, <2>1, Zenon DEF Turn, IndexPulse, indexVars
  <2>2. CASE Index \/ IndexFlag \/ Disconnect
    BY <1>2, <2>2, Zenon DEF Index, IndexFlag, Disconnect
  <2>3. CASE IndexSwitch
    BY <1>2, <1>3, <2>3, Zenon DEF IndexSwitch
  <2>4. CASE IndexNote
    BY <1>2, <2>4, Zenon DEF IndexNote
  <2>5. CASE Exchange
    BY <1>2, <1>3, <1>4, <2>5, Zenon DEF Exchange, Accept, Reject
  <2>6. CASE ControlReset
    BY <1>2, <1>3, <2>6, Zenon DEF ControlReset
  <2>7. CASE ReplyCount \/ ReplyEvent \/ ClearEvent
    BY <1>2, <2>7, Zenon DEF ReplyCount, ReplyEvent, ClearEvent
  <2> QED
    BY <2>1, <2>2, <2>3, <2>4, <2>5, <2>6, <2>7 DEF IndexNext, Core0, Core1
<1>n. Notes'
  <2>1. CASE Index \/ IndexFlag \/ ReplyCount
    BY <1>2, <2>1 DEF Index, IndexFlag, ReplyCount, Tear
  <2>2. CASE Exchange
    <3>1. Cause \in {"none", "nothing", "torn", "lost"}
      BY Zenon DEF Cause
    <3>2. /\ crossed' \in {"none", "lost", crossed} /\ before' \in {crossed, before}
          /\ spike' \in {Cause, "none"}
      BY <2>2, Zenon DEF Exchange, Accept, Reject
    <3> QED
      BY <1>2, <3>1, <3>2
  <2>3. CASE UNCHANGED <<crossed, before, spike>>
    BY <1>2, <2>3
  <2>4. CASE ~(Index \/ IndexFlag \/ ReplyCount \/ Exchange)
    BY <2>3, <2>4, Zenon DEF IndexNext, Core0, Core1, Turn, IndexPulse, Disconnect,
       IndexSwitch, IndexNote, ControlReset, ReplyEvent, ClearEvent, indexVars
  <2> QED
    BY <2>1, <2>2, <2>4
<1>6. reply' \in Reply
  <2>1. CASE ReplyCount
    <3>1. /\ reply' = [count |-> IF enc_reset_done THEN 0 ELSE y - pio_enc_offset,
                      event |-> FALSE, moved |-> moved,
                      exact |-> ~rezeroed /\ ~enc_reset_done]
      BY <2>1, Zenon DEF ReplyCount
    <3>2. (IF enc_reset_done THEN 0 ELSE y - pio_enc_offset) \in -2 * Reach .. 2 * Reach
      BY <1>1 DEF Numbers
    <3>3. moved \in -Reach .. Reach /\ (~rezeroed /\ ~enc_reset_done) \in BOOLEAN
      BY <1>1 DEF Numbers
    <3> QED
      BY <3>1, <3>2, <3>3, Zenon
  <2>2. CASE ReplyEvent
    <3>1. reply' = [reply EXCEPT !.event = index_reset_flags]
      BY <2>2, Zenon DEF ReplyEvent
    <3>2. index_reset_flags \in BOOLEAN
      BY <1>2, Zenon
    <3> QED
      BY <1>2, <3>1, <3>2
  <2>4. CASE Exchange
    <3>1. reply' = NoReply
      BY <2>4, Zenon DEF Exchange
    <3>2. 0 \in -2 * Reach .. 2 * Reach /\ 0 \in -Reach .. Reach
      OBVIOUS
    <3> QED
      BY <3>1, <3>2, Zenon DEF NoReply
  <2>3. CASE ~ReplyCount /\ ~ReplyEvent /\ ~Exchange
    <3>1. reply' = reply
      BY <2>3, Zenon DEF IndexNext, Core0, Core1, Turn, IndexPulse, Index, IndexFlag,
                 Disconnect, IndexSwitch, IndexNote, ControlReset, ClearEvent, indexVars
    <3> QED
      BY <1>2, <3>1
  <2> QED
    BY <2>1, <2>2, <2>3, <2>4
<1>7. {y', pio_enc_offset', turned', moved', moved' + reply'.moved} \subseteq -Reach .. Reach
      /\ raw_count' \in -2 * Reach .. 2 * Reach
  BY <1>1 DEF Numbers
<1> QED
  BY <1>n, <1>5, <1>6, <1>7, Zenon DEF IndexTypeOK

(* The interrupt and the loop of core 1.                                   *)
LEMMA SwitchStep ==
    ASSUME IndexTypeOK, SwitchInv, [IndexNext]_indexVars
    PROVE  SwitchInv'
<1> USE DEF SwitchInv, index, frame, driver
<1>1. CASE Turn(1) \/ Turn(-1) \/ Core0 \/ Disconnect \/ UNCHANGED indexVars
  <2>1. UNCHANGED <<index, core1>>
    BY <1>1, Zenon DEF Turn, Core0, Exchange, ControlReset, ReplyCount, ReplyEvent,
                       ClearEvent, Disconnect, indexVars
  <2> QED
    BY <2>1, Zenon
<1>2. CASE IndexPulse
  BY <1>2 DEF IndexPulse
<1>3. CASE Index
  BY <1>3 DEF Index
<1>4. CASE IndexFlag
  <2>1. /\ index_irq' <=> (index_irq /\ ~enc_index_enabled)
        /\ ~enc_index_enabled' /\ isr = "flag" /\ core1' = core1
    BY <1>4, Zenon DEF IndexFlag
  <2> QED
    BY <2>1
<1>5. CASE IndexSwitch
  <2>1. CASE rx_control.index = enc_index_enabled
    BY <1>5, <2>1, Zenon DEF IndexSwitch
  <2>2. CASE rx_control.index # enc_index_enabled
    <3>1. /\ isr = "none" /\ core1 = "index"
          /\ index_irq' = rx_control.index
          /\ index_edge' = FALSE
          /\ core1' = IF rx_control.index THEN "note_on" ELSE "note_off"
          /\ UNCHANGED <<isr, enc_index_enabled>>
      BY <1>5, <2>2, Zenon DEF IndexSwitch
    <3>2. rx_control.index \in BOOLEAN /\ enc_index_enabled \in BOOLEAN
      BY DEF IndexTypeOK, Control
    <3> QED
      BY <3>1, <3>2, <2>2
  <2> QED
    BY <2>1, <2>2
<1>6. CASE IndexNote
  <2>1. /\ isr = "none" /\ core1 \in {"note_on", "note_off"} /\ core1' = "index"
        /\ enc_index_enabled' <=> (core1 = "note_on")
        /\ UNCHANGED <<index_irq, index_edge, isr>>
    BY <1>6, Zenon DEF IndexNote
  <2> QED
    BY <2>1
<1> QED
  BY <1>1, <1>2, <1>3, <1>4, <1>5, <1>6 DEF IndexNext, Core1

(* The travel of a period is what the driver makes of two replies, on      *)
(* either side of half a turn.                                             *)
LEMMA DeltaIsTravel ==
    ASSUME Numbers, reply.count - raw_count = reply.moved
    PROVE  \A pin \in BOOLEAN : Delta(pin) = reply.moved
<1>1. /\ reply.moved \in Int /\ -Reach <= reply.moved /\ reply.moved <= Reach
      /\ Reach \in Nat /\ Scale \in Nat /\ Scale > 2 * Reach
  BY DEF Numbers
<1>2. ~(2 * (reply.count - raw_count) < -Scale) /\ ~(2 * (reply.count - raw_count) > Scale)
  BY <1>1
<1>3. \A pin \in BOOLEAN : Delta(pin) = reply.count - raw_count
  BY <1>2 DEF Delta
<1> QED
  BY <1>3

(* The count, the reports of it, and what the driver makes of them.        *)
LEMMA ReportStep ==
    ASSUME IndexTypeOK, Numbers, ReportInv, [IndexNext]_indexVars
    PROVE  ReportInv'
<1> USE DEF index, frame, driver
<1>0. Numbers'
  BY NumbersStep
<1>1. ASSUME NEW by \in {1, -1}, Turn(by)
      PROVE  ReportInv'
  <2>1. /\ y' = y + by /\ moved' = moved + by
        /\ UNCHANGED <<pio_enc_offset, core0, isr, index_reset_flags, rezeroed, reply,
                       raw_count, crossed, before, spike>>
    BY <1>1, Zenon DEF Turn
  <2>2. \A n \in Int : y - pio_enc_offset = n + moved => y' - pio_enc_offset = n + moved'
    BY <2>1 DEF Numbers
  <2>3. raw_count \in Int /\ reply.count \in Int
    BY DEF Numbers
  <2>4. Told' = Told /\ InReply' = InReply
    BY <2>1 DEF Told, InReply
  <2> QED
    BY <2>1, <2>2, <2>3, <2>4, Zenon DEF ReportInv
<1>2. CASE IndexPulse \/ IndexSwitch \/ IndexNote \/ UNCHANGED indexVars
  <2>1. UNCHANGED <<y, moved, pio_enc_offset, core0, isr, index_reset_flags, rezeroed,
                    reply, raw_count, crossed, before, spike>>
    BY <1>2, Zenon DEF IndexPulse, IndexSwitch, IndexNote, indexVars
  <2> QED
    BY <2>1, Zenon DEF ReportInv, Told, InReply
<1>3. CASE Index \/ IndexFlag
  <2>1. /\ isr' = "flag" \/ index_reset_flags'
        /\ crossed' = IF InReply /\ crossed = "none" THEN "torn" ELSE crossed
        /\ UNCHANGED <<core0, rezeroed, reply, raw_count, before, spike>>
        /\ index_reset_flags' \/ index_reset_flags' = index_reset_flags
    BY <1>3, Zenon DEF Index, IndexFlag, Tear
  <2>2. ~Told' /\ InReply' = InReply
    BY <2>1 DEF Told, InReply
  <2>3. InReply => crossed' # "none"
    BY <2>1
  <2>4. crossed' = "none" => crossed = "none"
    BY <2>1
  <2> QED
    BY <2>1, <2>2, <2>3, <2>4 DEF ReportInv, InReply
<1>5. CASE Disconnect
  <2>1. /\ rezeroed'
        /\ UNCHANGED <<core0, isr, index_reset_flags, reply, raw_count, crossed, before,
                       spike>>
    BY <1>5, Zenon DEF Disconnect
  <2> QED
    BY <2>1 DEF ReportInv, Told, InReply
<1>6. CASE Exchange
  <2>1. /\ core0 = "idle" /\ core0' = "reset"
        /\ UNCHANGED <<y, pio_enc_offset, isr, index_reset_flags>>
    BY <1>6, Zenon DEF Exchange
  <2>2. ~InReply' /\ Told' = Told
    BY <2>1 DEF InReply, Told
  <2>3. ASSUME NEW pin \in BOOLEAN, Accept(pin)
        PROVE  ReportInv'
    <3>1. /\ raw_count' = reply.count /\ before' = crossed /\ crossed' = "none"
          /\ UNCHANGED <<moved, rezeroed>>
          /\ spike' = IF reply.exact /\ ~reply.event /\ Delta(pin) # reply.moved
                      THEN Cause ELSE "none"
      BY <2>3, Zenon DEF Accept
    <3>2. CASE crossed = "none" /\ before = "none" /\ reply.exact /\ ~reply.event
      <4>1. Delta(pin) = reply.moved
        BY <2>1, <3>2, DeltaIsTravel DEF ReportInv
      <4> QED
        BY <2>1, <2>2, <3>1, <4>1 DEF ReportInv
    <3>3. CASE ~(crossed = "none" /\ before = "none" /\ reply.exact /\ ~reply.event)
      <4>1. reply.exact /\ ~reply.event => Cause # "nothing"
        BY <3>3, Zenon DEF Cause
      <4>2. spike' # "nothing"
        BY <3>1, <4>1
      <4> QED
        BY <2>1, <2>2, <3>1, <4>2 DEF ReportInv
    <3> QED
      BY <3>2, <3>3
  <2>4. CASE Reject
    <3>1. /\ moved' = moved + reply.moved /\ spike' = "none"
          /\ crossed' = IF reply.event THEN "lost" ELSE crossed
          /\ rezeroed' <=> (rezeroed \/ ~reply.exact)
          /\ UNCHANGED <<raw_count, before>>
      BY <2>4, Zenon DEF Reject
    <3>2. ASSUME ~rezeroed', Told, crossed' = "none", before = "none"
          PROVE  y - pio_enc_offset = raw_count + moved'
      <4>1. ~rezeroed /\ reply.exact /\ ~reply.event /\ crossed = "none"
        BY <3>1, <3>2
      <4>2. y - pio_enc_offset = reply.count + moved
        BY <2>1, <3>2, <4>1 DEF ReportInv
      <4>3. reply.count - raw_count = reply.moved
        BY <2>1, <3>2, <4>1 DEF ReportInv
      <4> QED
        BY <3>1, <4>2, <4>3 DEF Numbers
    <3> QED
      BY <2>1, <2>2, <3>1, <3>2 DEF ReportInv
  <2> QED
    BY <1>6, <2>3, <2>4 DEF Exchange
<1>7. CASE ControlReset
  <2>1. /\ core0 = "reset" /\ core0' = "count"
        /\ UNCHANGED <<y, moved, isr, index_reset_flags, reply, raw_count, crossed, before,
                       spike>>
        /\ rezeroed' \/ UNCHANGED <<pio_enc_offset, rezeroed>>
    BY <1>7, Zenon DEF ControlReset
  <2> QED
    BY <2>1 DEF ReportInv, Told, InReply
<1>8. CASE ReplyCount
  <2>1. /\ core0 = "count" /\ core0' = "flags" /\ isr' = isr
        /\ reply' = [count |-> IF enc_reset_done THEN 0 ELSE y - pio_enc_offset,
                     event |-> FALSE, moved |-> moved,
                     exact |-> ~rezeroed /\ ~enc_reset_done]
        /\ moved' = 0 /\ rezeroed' = enc_reset_done
        /\ crossed' = IF isr = "flag" /\ crossed = "none" THEN "torn" ELSE crossed
        /\ UNCHANGED <<y, pio_enc_offset, index_reset_flags, raw_count, before, spike>>
    BY <1>8, Zenon DEF ReplyCount, Tear
  <2>2. /\ reply'.count = IF enc_reset_done THEN 0 ELSE y - pio_enc_offset
        /\ reply'.moved = moved
        /\ reply'.exact <=> ~rezeroed /\ ~enc_reset_done
    BY <2>1
  <2>3. crossed' = "none" => crossed = "none" /\ isr = "none" /\ isr' = "none"
    BY <2>1 DEF IndexTypeOK
  <2>4. ~rezeroed' => y' - pio_enc_offset' = reply'.count + moved'
    BY <2>1, <2>2 DEF Numbers
  <2>5. reply'.exact /\ ~index_reset_flags /\ crossed' = "none" /\ before = "none"
          => reply'.count - raw_count = reply'.moved
    BY <2>1, <2>2, <2>3 DEF ReportInv, Told, Numbers
  <2> QED
    BY <2>1, <2>3, <2>4, <2>5 DEF ReportInv, InReply
<1>9. CASE ReplyEvent
  <2>1. /\ core0 = "flags" /\ core0' = "clear"
        /\ reply' = [reply EXCEPT !.event = index_reset_flags]
        /\ UNCHANGED <<y, moved, pio_enc_offset, isr, index_reset_flags, rezeroed,
                       raw_count, crossed, before, spike>>
    BY <1>9, Zenon DEF ReplyEvent
  <2>2. /\ reply'.count = reply.count /\ reply'.moved = reply.moved
        /\ reply'.exact = reply.exact /\ reply'.event = index_reset_flags
    BY <2>1 DEF IndexTypeOK
  <2> QED
    BY <2>1, <2>2 DEF ReportInv, InReply
<1>10. CASE ClearEvent
  <2>1. /\ core0 = "clear" /\ core0' = "idle"
        /\ UNCHANGED <<y, moved, pio_enc_offset, isr, rezeroed, reply, raw_count, crossed,
                       before, spike>>
    BY <1>10, Zenon DEF ClearEvent
  <2> QED
    BY <2>1 DEF ReportInv, InReply
<1> QED
  BY <1>1, <1>2, <1>3, <1>5, <1>6, <1>7, <1>8, <1>9, <1>10
  DEF IndexNext, Core0, Core1

--------------------------------------------------------------------------------
(* Every variable keeps its type; in particular what is reported is at     *)
(* most twice the reach (ReplyCount's difference).                         *)
THEOREM IndexTypes == IndexSpec => []IndexTypeOK
<1>1. IndexInit => IndexTypeOK
  <2> SUFFICES ASSUME IndexInit PROVE IndexTypeOK
    OBVIOUS
  <2>1. 0 \in -Reach .. Reach /\ 0 \in -2 * Reach .. 2 * Reach
    OBVIOUS
  <2>2. reply \in [count : -2 * Reach .. 2 * Reach, event : BOOLEAN,
                   moved : -Reach .. Reach, exact : BOOLEAN]
    BY <2>1, Zenon DEF IndexInit, NoReply
  <2>3. rx_control \in Control
    BY DEF IndexInit, Control
  <2>4. moved + reply.moved = 0
    BY DEF IndexInit, NoReply
  <2> QED
    BY <2>1, <2>2, <2>3, <2>4, Zenon DEF IndexInit, IndexTypeOK
<1>2. IndexTypeOK /\ [IndexNext]_indexVars => IndexTypeOK'
  BY TypeStep
<1> QED
  BY <1>1, <1>2, PTL DEF IndexSpec

(* Core 1's note of its index interrupt (enc_index_enabled) is true        *)
(* whenever neither is being changed, wherever gpio_callback() cuts in.    *)
THEOREM SwitchIsNoted == IndexSpec => []IndexSwitchIsNoted
<1>1. IndexInit => SwitchInv
  BY DEF IndexInit, SwitchInv
<1>2. IndexTypeOK /\ SwitchInv /\ [IndexNext]_indexVars => SwitchInv'
  BY SwitchStep
<1>3. IndexTypeOK /\ SwitchInv => IndexSwitchIsNoted
  BY DEF SwitchInv, IndexTypeOK, IndexSwitchIsNoted
<1> QED
  BY <1>1, <1>2, <1>3, IndexTypes, PTL DEF IndexSpec

(* The driver takes no reset by the index for motion, whatever the pins,   *)
(* the frames and the order of the cores, unless core 1's interrupt cut in *)
(* between the count and the event of one of the last two replies that it  *)
(* accepted, or a reply that told of the reset was thrown away.            *)
THEOREM NoSpike == IndexSpec => []SpikeHasCause
<1>1. IndexInit => ReportInv
  BY DEF IndexInit, NoReply, ReportInv, InReply
<1>2. IndexTypeOK /\ ReportInv /\ [IndexNext]_indexVars => ReportInv'
  BY TypesAreNumbers, ReportStep
<1>3. ReportInv => SpikeHasCause
  BY DEF ReportInv, SpikeHasCause
<1> QED
  BY <1>1, <1>2, <1>3, IndexTypes, PTL DEF IndexSpec
================================================================================
