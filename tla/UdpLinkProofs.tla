------------------------------ MODULE UdpLinkProofs ------------------------------
(***************************************************************************)
(* Theorems about the Ethernet link, for every timeout, every number of    *)
(* good frames that clear an error and every number of faults.             *)
(***************************************************************************)
EXTENDS UdpLink, SequenceTheorems, TLAPS

(* The constants one by one.                                               *)
LEMMA Constants ==
    /\ WatchdogTimeout \in Nat /\ WatchdogTimeout >= 1
    /\ OkToClear \in Nat /\ OkToClear >= 1
    /\ TimeoutPeriods \in Nat /\ TimeoutPeriods >= 1
    /\ ClockWrap \in Nat /\ ClockWrap >= 1
    /\ Faults \in Nat
BY UdpAssumption

USE Constants

One(holds) == IF holds THEN 1 ELSE 0

(* What each read of the socket must make up for: one frame sent.          *)
Awaited == One(phase = "recv" /\ ~watchdog_expired)

(* connected lasts from one read to the next, and so never meets an        *)
(* expired watchdog; an expired watchdog stays expired.                    *)
WatchdogInv ==
    /\ connected => elapsed <= 1
    /\ connected /\ phase \in {"tick", "watchdog"} => elapsed = 0
    /\ watchdog_expired => elapsed = WatchdogTimeout + 1
    /\ ~watchdog_expired /\ phase \in {"send", "recv", "tick"}
          => elapsed <= WatchdogTimeout
    /\ watchdog_expired /\ phase \in {"recv", "tick"} => ~io_ready_out

(* The frame in core 0's hands, and what it may still add to what is       *)
(* missed and answered: a garbled frame whose error core 1 has cleared     *)
(* will be obeyed, wrongly, and answered.                                  *)
Busy == One(core0 \in {"check", "obey", "output", "answer"})

Owed == IF core0 = "check" THEN 1
        ELSE IF core0 = "obey" /\ frame = "garbled" /\ ~checksum_error THEN 2
        ELSE IF core0 = "obey" THEN 1
        ELSE One(core0 \in {"output", "answer"} /\ ~checksum_error)

(* Every frame sent is waiting, in hand, answered, or missed, and every    *)
(* read takes an answer or costs connected.                                *)
Gone == missed + Owed
Seen == drops + overflows + pardons

LossInv == Gone + Len(inbox) + Len(socket) <= Seen + Awaited

(* Frames wait on the board because core 0 was late, which is a fault; it  *)
(* forgets those that shared an interrupt with another.                    *)
InboxInv ==
    /\ stalls <= faults
    /\ Len(inbox) <= stalls + One(core0 = "read")
                     + One(irq /\ phase \in {"recv", "tick"})
    /\ Len(inbox) + Busy <= faults + One(phase \in {"recv", "tick"})

(* What can pile up on the PC was sent while the board was late.  Of the   *)
(* answers queued when the board dies the driver takes one in each period; *)
(* then its watchdog counts.                                               *)
QueueInv ==
    /\ Len(inbox) + Busy + Len(socket) <= faults + 1 + Awaited
    /\ ~watchdog_expired =>
          /\ Len(socket) > 0 => unanswered + Len(socket) <= faults + 1 + One(phase # "tick")
          /\ unanswered <= faults + 1 + elapsed + One(phase = "watchdog")

--------------------------------------------------------------------------------
(* A datagram that is sent arrives, as a last one, or it does not; either  *)
(* way the faults are counted.                                             *)
LEMMA FrameCarried ==
    ASSUME UdpTypeOK, Carry(inbox, inbox')
    PROVE  /\ inbox' \in Seq(Datagrams)
           /\ \/ inbox' = inbox
              \/ inbox' # inbox /\ Len(inbox') = Len(inbox) + 1
           /\ faults' \in 0 .. Faults /\ faults' >= faults
<1>1. inbox \in Seq(Datagrams) /\ faults \in 0 .. Faults
  BY DEF UdpTypeOK
<1>2. \A d \in Datagrams : /\ Append(inbox, d) \in Seq(Datagrams)
                           /\ Len(Append(inbox, d)) = Len(inbox) + 1
  BY <1>1
<1>3. Len(inbox) \in Nat
  BY <1>1
<1>4. \/ inbox' = inbox
      \/ \E d \in Datagrams : inbox' = Append(inbox, d)
  BY DEF Carry, Datagrams
<1>5. faults' \in 0 .. Faults /\ faults' >= faults
  BY <1>1 DEF Carry
<1> QED
  BY <1>1, <1>2, <1>3, <1>4, <1>5

LEMMA AnswerCarried ==
    ASSUME UdpTypeOK, Carry(socket, socket')
    PROVE  /\ socket' \in Seq(Datagrams)
           /\ Len(socket') \in {Len(socket), Len(socket) + 1}
           /\ faults' \in 0 .. Faults /\ faults' >= faults
<1>1. socket \in Seq(Datagrams) /\ faults \in 0 .. Faults
  BY DEF UdpTypeOK
<1>2. \A d \in Datagrams : /\ Append(socket, d) \in Seq(Datagrams)
                           /\ Len(Append(socket, d)) = Len(socket) + 1
  BY <1>1
<1>3. \/ socket' = socket
      \/ \E d \in Datagrams : socket' = Append(socket, d)
  BY DEF Carry, Datagrams
<1>4. faults' \in 0 .. Faults /\ faults' >= faults
  BY <1>1 DEF Carry
<1> QED
  BY <1>1, <1>2, <1>3, <1>4

(* The queues are taken from at the head.                                  *)
LEMMA Queues ==
    ASSUME UdpTypeOK
    PROVE  /\ Len(inbox) \in Nat /\ Len(socket) \in Nat
           /\ inbox # << >> => /\ Tail(inbox) \in Seq(Datagrams)
                               /\ Len(Tail(inbox)) = Len(inbox) - 1
                               /\ Len(inbox) >= 1
                               /\ Head(inbox) \in Datagrams
           /\ socket # << >> => /\ Tail(socket) \in Seq(Datagrams)
                                /\ Len(Tail(socket)) = Len(socket) - 1
                                /\ Len(socket) >= 1
                                /\ Head(socket) \in Datagrams
           /\ socket = << >> => Len(socket) = 0
<1>1. inbox \in Seq(Datagrams) /\ socket \in Seq(Datagrams)
  BY DEF UdpTypeOK
<1> QED
  BY <1>1, EmptySeq, HeadTailProperties

(* One more, up to a bound.                                                *)
LEMMA UpToBound ==
    ASSUME NEW bound \in Nat, NEW n \in Nat, n <= bound
    PROVE  /\ UpTo(bound, n) \in 0 .. bound
           /\ UpTo(bound, n) <= n + 1
           /\ UpTo(bound, n) # n + 1 => n = bound /\ UpTo(bound, n) = bound
BY DEF UpTo

(* Every step keeps the types.                                             *)
LEMMA TypeStep ==
    ASSUME UdpTypeOK, [UdpNext]_udpVars
    PROVE  UdpTypeOK'
<1> USE DEF driver, checks, clock1, board, history
<1>0. /\ inbox \in Seq(Datagrams) /\ socket \in Seq(Datagrams)
      /\ missed \in Nat /\ drops \in Nat /\ stalls \in Nat /\ unanswered \in Nat
      /\ faults \in 0 .. Faults /\ elapsed \in 0 .. WatchdogTimeout + 1
      /\ pardons \in Nat /\ overflows \in Nat
      /\ silence \in 0 .. ClockWrap - 1 /\ checksum_ok_count \in 0 .. OkToClear - 1
  BY DEF UdpTypeOK
<1>1. CASE Watchdog
  <2>1. elapsed' \in 0 .. WatchdogTimeout + 1 /\ watchdog_expired' \in BOOLEAN
    BY <1>1 DEF Watchdog, UpTo, UdpTypeOK
  <2> QED
    BY <1>1, <2>1, Zenon DEF Watchdog, UdpTypeOK
<1>2. CASE SendExpired \/ RecvExpired \/ RecvNothing \/ RecvGood \/ RecvGarbled
  <2>1. socket' \in Seq(Datagrams) /\ drops' \in Nat /\ elapsed' \in 0 .. WatchdogTimeout + 1
    <3>1. /\ socket' = socket \/ (socket # << >> /\ socket' = Tail(socket))
          /\ drops' = drops \/ drops' = drops + 1
          /\ elapsed' = elapsed \/ elapsed' = 0
      BY <1>2, Zenon DEF SendExpired, RecvExpired, RecvNothing, RecvGood, RecvGarbled
    <3>2. elapsed' \in 0 .. WatchdogTimeout + 1 /\ drops' \in Nat
      BY <1>0, <3>1
    <3> QED
      BY <1>0, <3>1, <3>2, Queues
  <2> QED
    BY <1>2, <2>1, Zenon DEF SendExpired, RecvExpired, RecvNothing, RecvGood,
                             RecvGarbled, UdpTypeOK
<1>3. CASE Send
  <2>1. inbox' \in Seq(Datagrams) /\ faults' \in 0 .. Faults
    BY <1>3, FrameCarried DEF Send
  <2>2. missed' \in Nat
    <3>1. missed' = missed + (IF inbox' = inbox THEN 1 ELSE 0)
      BY <1>3, Zenon DEF Send
    <3> QED
      BY <1>0, <3>1
  <2>3. irq' \in BOOLEAN
    BY <1>3, Zenon DEF Send, UdpTypeOK
  <2> QED
    BY <1>3, <2>1, <2>2, <2>3, Zenon DEF Send, UdpTypeOK
<1>4. CASE ClearInterrupt
  BY <1>4, Zenon DEF ClearInterrupt, UdpTypeOK
<1>5. CASE ReadFrame
  <2>1. inbox' \in Seq(Datagrams) /\ frame' \in Datagrams /\ silence' \in 0 .. ClockWrap - 1
    BY <1>5, Queues DEF ReadFrame
  <2> QED
    BY <1>5, <2>1, Zenon DEF ReadFrame, UdpTypeOK
<1>6. CASE CheckFrame
  <2>1. CheckGood \/ CheckBad
    BY <1>6, Zenon DEF CheckFrame
  <2>2. checksum_ok_count' \in 0 .. OkToClear - 1
    <3>1. CASE CheckGood
      BY <1>0, <3>1 DEF CheckGood
    <3>2. CASE CheckBad
      <4>1. checksum_ok_count' = 0
        BY <3>2, Zenon DEF CheckBad
      <4> QED
        BY <4>1
    <3> QED
      BY <2>1, <3>1, <3>2
  <2>3. checksum_error' \in BOOLEAN
    BY <2>1, Zenon DEF CheckGood, CheckBad, UdpTypeOK
  <2> QED
    BY <1>6, <2>2, <2>3, Zenon DEF CheckFrame, UdpTypeOK
<1>7. CASE Obey
  <2>1. missed' \in Nat /\ overflows' \in Nat /\ faults' \in 0 .. Faults
    BY <1>0, <1>7 DEF Obey
  <2> QED
    BY <1>7, <2>1, Zenon DEF Obey, UdpTypeOK
<1>8. CASE SetOutputs
  BY <1>8, Zenon DEF SetOutputs, UdpTypeOK
<1>9. CASE Answer
  <2>1. socket' \in Seq(Datagrams) /\ faults' \in 0 .. Faults /\ unanswered' \in Nat
    <3>1. CASE checksum_error
      <4>1. UNCHANGED <<socket, faults, unanswered>>
        BY <1>9, <3>1, Zenon DEF Answer
      <4> QED
        BY <1>0, <4>1
    <3>2. CASE ~checksum_error
      <4>1. Carry(socket, socket') /\ unanswered' = 0
        BY <1>9, <3>2, Zenon DEF Answer
      <4> QED
        BY <4>1, AnswerCarried
    <3> QED
      BY <3>1, <3>2
  <2> QED
    BY <1>9, <2>1, Zenon DEF Answer, UdpTypeOK
<1>10. CASE Serve \/ Notice \/ DisconnectOutputs
  BY <1>10, Zenon DEF Serve, Notice, DisconnectOutputs, UdpTypeOK
<1>11. CASE Disconnect
  <2>1. pardons' \in Nat
    BY <1>0, <1>11 DEF Disconnect
  <2> QED
    BY <1>11, <2>1, Zenon DEF Disconnect, UdpTypeOK
<1>12. CASE Tick
  <2>1. /\ silence' \in 0 .. ClockWrap - 1 /\ unanswered' \in Nat
        /\ stalls' \in Nat /\ faults' \in 0 .. Faults
    <3>1. /\ silence' = (silence + 1) % ClockWrap
          /\ unanswered' = UpTo(WatchdogTimeout + Faults + 3, unanswered)
          /\ stalls' = stalls \/ stalls' = stalls + 1
          /\ faults' = faults \/ (faults < Faults /\ faults' = faults + 1)
      BY <1>12, Zenon DEF Tick
    <3>2. stalls' \in Nat /\ faults' \in 0 .. Faults
      BY <1>0, <3>1
    <3>3. unanswered' \in Nat
      BY <1>0, <3>1 DEF UpTo
    <3>4. silence' \in 0 .. ClockWrap - 1
      BY <1>0, <3>1
    <3> QED
      BY <3>2, <3>3, <3>4
  <2> QED
    BY <1>12, <2>1, Zenon DEF Tick, UdpTypeOK
<1>13. CASE Unplug
  BY <1>13, Zenon DEF Unplug, UdpTypeOK
<1>14. CASE UNCHANGED udpVars
  BY <1>14, Zenon DEF udpVars, UdpTypeOK
<1> QED
  BY <1>1, <1>2, <1>3, <1>4, <1>5, <1>6, <1>7, <1>8, <1>9, <1>10, <1>11, <1>12,
     <1>13, <1>14
  DEF UdpNext, Driver, Core0, Core1

(* The age of the last good answer, and the flags made of it.              *)
LEMMA WatchdogStep ==
    ASSUME UdpTypeOK, WatchdogInv, [UdpNext]_udpVars
    PROVE  WatchdogInv'
<1> USE DEF WatchdogInv, driver
<1>0. elapsed \in 0 .. WatchdogTimeout + 1 /\ phase \in {"watchdog", "send", "recv", "tick"}
  BY DEF UdpTypeOK
<1>1. CASE Watchdog
  <2>1. /\ phase = "watchdog" /\ phase' = "send"
        /\ elapsed' = UpTo(WatchdogTimeout + 1, elapsed)
        /\ watchdog_expired' <=> (elapsed' > WatchdogTimeout)
        /\ UNCHANGED connected
    BY <1>1, Zenon DEF Watchdog
  <2>2. elapsed' \in 0 .. WatchdogTimeout + 1 /\ elapsed' <= elapsed + 1
    BY <1>0, <2>1 DEF UpTo
  <2>3. watchdog_expired => elapsed' = WatchdogTimeout + 1
    BY <1>0, <2>1 DEF UpTo
  <2> QED
    BY <1>0, <2>1, <2>2, <2>3
<1>2. CASE SendExpired
  BY <1>0, <1>2 DEF SendExpired
<1>3. CASE Send
  <2>1. /\ phase = "send" /\ phase' = "recv" /\ ~watchdog_expired
        /\ UNCHANGED <<elapsed, watchdog_expired, connected>>
    BY <1>3, Zenon DEF Send
  <2> QED
    BY <1>0, <2>1
<1>4. CASE RecvExpired
  BY <1>0, <1>4 DEF RecvExpired
<1>5. CASE RecvGood
  BY <1>0, <1>5 DEF RecvGood
<1>6. CASE RecvGarbled
  BY <1>0, <1>6 DEF RecvGarbled
<1>7. CASE RecvNothing
  BY <1>0, <1>7 DEF RecvNothing
<1>8. CASE Core0 \/ Core1 \/ Unplug \/ UNCHANGED udpVars
  <2>1. UNCHANGED <<phase, elapsed, watchdog_expired, connected, io_ready_out>>
    BY <1>8, Zenon DEF Core0, ClearInterrupt, ReadFrame, CheckFrame, Obey, SetOutputs,
                       Answer, Core1, Serve, Notice, Disconnect, DisconnectOutputs,
                       Unplug, udpVars
  <2> QED
    BY <2>1
<1>9. CASE Tick
  <2>1. /\ phase = "tick" /\ phase' = "watchdog"
        /\ UNCHANGED <<elapsed, watchdog_expired, connected, io_ready_out>>
    BY <1>9, Zenon DEF Tick
  <2> QED
    BY <1>0, <2>1
<1> QED
  BY <1>1, <1>2, <1>3, <1>4, <1>5, <1>6, <1>7, <1>8, <1>9 DEF UdpNext, Driver

(* The frames and answers, one by one.                                     *)
CountInv == LossInv /\ InboxInv /\ QueueInv

(* A step that leaves core 0 and the error alone leaves its hands alone.   *)
LEMMA HandsKept ==
    ASSUME UNCHANGED <<core0, frame, checksum_error>>
    PROVE  Owed' = Owed /\ Busy' = Busy
BY DEF Owed, Busy, One

LEMMA LessAdded ==
    ASSUME NEW m \in Nat, NEW a \in Nat, NEW b \in Nat, b <= a
    PROVE  m + b \in Nat /\ m + b <= m + a
OBVIOUS

LEMMA OneAdded ==
    ASSUME NEW m \in Nat, NEW a \in Nat, NEW b \in Nat, b <= a + 1
    PROVE  m + b \in Nat /\ m + b <= (m + a) + 1
OBVIOUS

(* An answer takes the place of a frame in hand.                           *)
LEMMA Shifted ==
    ASSUME NEW g \in Nat, NEW g2 \in Nat, NEW i \in Nat, NEW k \in Nat, NEW k2 \in Nat,
           NEW w \in Nat,
           g = g2 + 1, k2 = k \/ k2 = k + 1, g + i + k <= w
    PROVE  g2 + i + k2 <= w
OBVIOUS

LEMMA CountStep ==
    ASSUME UdpTypeOK, WatchdogInv, CountInv, [UdpNext]_udpVars
    PROVE  CountInv'
<1> USE DEF CountInv, LossInv, InboxInv, QueueInv, Awaited, One, driver,
            checks, clock1, board, history
<1>0. /\ Len(inbox) \in Nat /\ Len(socket) \in Nat
      /\ missed \in Nat /\ drops \in Nat /\ stalls \in Nat /\ unanswered \in Nat
      /\ faults \in 0 .. Faults /\ elapsed \in 0 .. WatchdogTimeout + 1
      /\ phase \in {"watchdog", "send", "recv", "tick"}
      /\ core0 \in {"poll", "read", "check", "obey", "output", "answer"}
      /\ pardons \in Nat /\ overflows \in Nat /\ Owed \in Nat /\ Busy \in {0, 1}
      /\ frame \in Datagrams /\ Gone \in Nat /\ Seen \in Nat
  <2>1. /\ Len(inbox) \in Nat /\ Len(socket) \in Nat
        /\ missed \in Nat /\ drops \in Nat /\ stalls \in Nat /\ unanswered \in Nat
        /\ faults \in 0 .. Faults /\ elapsed \in 0 .. WatchdogTimeout + 1
        /\ phase \in {"watchdog", "send", "recv", "tick"}
        /\ core0 \in {"poll", "read", "check", "obey", "output", "answer"}
        /\ pardons \in Nat /\ overflows \in Nat /\ frame \in Datagrams
    BY Queues DEF UdpTypeOK
  <2>2. Owed \in Nat /\ Busy \in {0, 1}
    BY DEF Owed, Busy
  <2>3. Gone \in Nat /\ Seen \in Nat
    BY <2>1, <2>2 DEF Gone, Seen
  <2> QED
    BY <2>1, <2>2, <2>3
<1>1. CASE Watchdog
  <2>0. /\ Owed' = Owed /\ Busy' = Busy
        /\ Gone' = missed' + Owed /\ Seen' = drops' + overflows + pardons
        /\ Gone = missed + Owed /\ Seen = drops + overflows + pardons
    <3>1. UNCHANGED <<core0, frame, checksum_error, pardons, overflows>>
      BY <1>1, Zenon DEF Watchdog
    <3> QED
      BY <3>1, HandsKept, Zenon DEF Gone, Seen
  <2>1. /\ phase = "watchdog" /\ phase' = "send"
        /\ elapsed' = UpTo(WatchdogTimeout + 1, elapsed)
        /\ watchdog_expired' <=> (elapsed' > WatchdogTimeout)
        /\ UNCHANGED <<socket, inbox, irq, core0, faults, stalls, unanswered, missed,
                       drops>>
    BY <1>1, Zenon DEF Watchdog
  <2>2. ~watchdog_expired' => ~watchdog_expired /\ elapsed' = elapsed + 1
    <3>1. watchdog_expired => elapsed' = WatchdogTimeout + 1
      BY <1>0, <2>0, <2>1 DEF UpTo, WatchdogInv
    <3>2. ~(elapsed' > WatchdogTimeout) => elapsed' = elapsed + 1
      BY <1>0, <2>0, <2>1 DEF UpTo
    <3> QED
      BY <1>0, <2>0, <2>1, <3>1, <3>2
  <2> QED
    BY <1>0, <2>0, <2>1, <2>2
<1>2. CASE SendExpired \/ RecvExpired
  <2>0. /\ Owed' = Owed /\ Busy' = Busy
        /\ Gone' = missed' + Owed /\ Seen' = drops' + overflows + pardons
        /\ Gone = missed + Owed /\ Seen = drops + overflows + pardons
    <3>1. UNCHANGED <<core0, frame, checksum_error, pardons, overflows>>
      BY <1>2, Zenon DEF SendExpired, RecvExpired
    <3> QED
      BY <3>1, HandsKept, Zenon DEF Gone, Seen
  <2>1. /\ \/ phase = "send" /\ phase' = "recv"
           \/ phase = "recv" /\ phase' = "tick"
        /\ watchdog_expired /\ watchdog_expired'
        /\ UNCHANGED <<elapsed, socket, inbox, irq, core0, faults, stalls, unanswered,
                       missed, drops>>
    <3>1. CASE SendExpired
      BY <3>1, Zenon DEF SendExpired
    <3>2. CASE RecvExpired
      BY <3>2, Zenon DEF RecvExpired
    <3> QED
      BY <1>2, <3>1, <3>2, Zenon
  <2> QED
    BY <1>0, <2>0, <2>1
<1>3. CASE Send
  <2>0. /\ Owed' = Owed /\ Busy' = Busy
        /\ Gone' = missed' + Owed /\ Seen' = drops' + overflows + pardons
        /\ Gone = missed + Owed /\ Seen = drops + overflows + pardons
    <3>1. UNCHANGED <<core0, frame, checksum_error, pardons, overflows>>
      BY <1>3, Zenon DEF Send
    <3> QED
      BY <3>1, HandsKept, Zenon DEF Gone, Seen
  <2>1. /\ phase = "send" /\ phase' = "recv" /\ ~watchdog_expired /\ ~watchdog_expired'
        /\ missed' = missed + (IF inbox' = inbox THEN 1 ELSE 0)
        /\ irq' = (irq \/ inbox' # inbox)
        /\ UNCHANGED <<elapsed, socket, core0, stalls, unanswered, drops>>
    BY <1>3, Zenon DEF Send
  <2>2. /\ \/ inbox' = inbox /\ missed' = missed + 1
           \/ Len(inbox') = Len(inbox) + 1 /\ irq' /\ missed' = missed
        /\ faults' \in 0 .. Faults /\ faults' >= faults
    <3>1. Carry(inbox, inbox')
      BY <1>3, Zenon DEF Send
    <3>2. /\ inbox' = inbox \/ (inbox' # inbox /\ Len(inbox') = Len(inbox) + 1)
          /\ faults' \in 0 .. Faults /\ faults' >= faults
      BY <3>1, FrameCarried
    <3>3. CASE inbox' = inbox
      BY <2>1, <3>2, <3>3
    <3>4. CASE inbox' # inbox
      <4>1. missed' = missed + 0 /\ irq'
        BY <2>1, <3>4, Zenon
      <4> QED
        BY <1>0, <3>2, <3>4, <4>1
    <3> QED
      BY <3>3, <3>4
  <2>3. LossInv' /\ InboxInv'
    <3>1. LossInv'
      <4> HIDE DEF InboxInv, QueueInv
      <4> QED
        BY <1>0, <2>0, <2>1, <2>2
    <3>2. InboxInv'
      <4> HIDE DEF LossInv, QueueInv, Awaited
      <4> QED
        BY <1>0, <2>0, <2>1, <2>2
    <3> QED
      BY <3>1, <3>2, Zenon
  <2>4. Len(inbox') + Busy' + Len(socket') <= faults' + 1 + Awaited'
    BY <1>0, <2>0, <2>1, <2>2
  <2>5. /\ Len(socket) > 0 => unanswered + Len(socket) <= faults + 2
        /\ unanswered <= faults + 1 + elapsed
    BY <1>0, <2>0, <2>1
  <2>6. Len(socket') > 0 => unanswered' + Len(socket') <= faults' + 1 + One(phase' # "tick")
    <3> HIDE DEF LossInv, InboxInv, QueueInv
    <3> QED
      BY <1>0, <2>0, <2>1, <2>2, <2>5
  <2>7. unanswered' <= faults' + 1 + elapsed' + One(phase' = "watchdog")
    <3>1. One(phase' = "watchdog") = 0
      BY <2>1
    <3>2. unanswered' = unanswered /\ elapsed' = elapsed
      BY <2>1, Zenon
    <3>3. faults' \in 0 .. Faults /\ faults' >= faults
      BY <2>2, Zenon
    <3> HIDE DEF One, CountInv
    <3> QED
      BY <1>0, <2>5, <3>1, <3>2, <3>3
  <2> QED
    BY <2>3, <2>4, <2>6, <2>7, Zenon
<1>4. CASE RecvGood \/ RecvGarbled
  <2>0. /\ Owed' = Owed /\ Busy' = Busy
        /\ Gone' = missed' + Owed /\ Seen' = drops' + overflows + pardons
        /\ Gone = missed + Owed /\ Seen = drops + overflows + pardons
    <3>1. UNCHANGED <<core0, frame, checksum_error, pardons, overflows>>
      BY <1>4, Zenon DEF RecvGood, RecvGarbled
    <3> QED
      BY <3>1, HandsKept, Zenon DEF Gone, Seen
  <2>1. /\ phase = "recv" /\ phase' = "tick" /\ ~watchdog_expired /\ ~watchdog_expired'
        /\ socket # << >> /\ socket' = Tail(socket)
        /\ elapsed' \in {0, elapsed}
        /\ drops' \in {drops, drops + 1}
        /\ UNCHANGED <<inbox, irq, core0, faults, stalls, unanswered, missed>>
    <3>1. CASE RecvGood
      BY <3>1, Zenon DEF RecvGood
    <3>2. CASE RecvGarbled
      BY <3>2, Zenon DEF RecvGarbled
    <3> QED
      BY <1>4, <3>1, <3>2, Zenon
  <2>2. Len(socket) >= 1 /\ Len(socket') = Len(socket) - 1
    BY <2>1, Queues
  <2>3. LossInv' /\ InboxInv'
    <3>1. LossInv'
      <4> HIDE DEF InboxInv, QueueInv
      <4> QED
        BY <1>0, <2>0, <2>1, <2>2
    <3>2. InboxInv'
      <4> HIDE DEF LossInv, QueueInv, Awaited
      <4> QED
        BY <1>0, <2>0, <2>1, <2>2
    <3> QED
      BY <3>1, <3>2, Zenon
  <2>4. unanswered + Len(socket) <= faults + 2
    BY <1>0, <2>0, <2>1, <2>2
  <2>5. elapsed' >= 0
    BY <1>0, <2>0, <2>1
  <2>6. Len(inbox') + Busy' + Len(socket') <= faults' + 1 + Awaited'
    BY <1>0, <2>0, <2>1, <2>2
  <2>7. Len(socket') > 0 => unanswered' + Len(socket') <= faults' + 1 + One(phase' # "tick")
    <3> HIDE DEF LossInv, InboxInv, QueueInv
    <3> QED
      BY <1>0, <2>0, <2>1, <2>2, <2>4
  <2>8. unanswered' <= faults' + 1 + elapsed' + One(phase' = "watchdog")
    <3>1. One(phase' = "watchdog") = 0
      BY <2>1
    <3>2. unanswered' = unanswered /\ faults' = faults
      BY <2>1, Zenon
    <3>3. elapsed' = 0 \/ elapsed' = elapsed
      BY <2>1, Zenon
    <3> HIDE DEF One, CountInv
    <3> QED
      BY <1>0, <2>2, <2>4, <3>1, <3>2, <3>3
  <2> QED
    BY <2>3, <2>6, <2>7, <2>8, Zenon
<1>5. CASE RecvNothing
  <2>0. /\ Owed' = Owed /\ Busy' = Busy
        /\ Gone' = missed' + Owed /\ Seen' = drops' + overflows + pardons
        /\ Gone = missed + Owed /\ Seen = drops + overflows + pardons
    <3>1. UNCHANGED <<core0, frame, checksum_error, pardons, overflows>>
      BY <1>5, Zenon DEF RecvNothing
    <3> QED
      BY <3>1, HandsKept, Zenon DEF Gone, Seen
  <2>1. /\ phase = "recv" /\ phase' = "tick" /\ ~watchdog_expired /\ ~watchdog_expired'
        /\ socket = << >> /\ drops' = drops + 1
        /\ UNCHANGED <<elapsed, socket, inbox, irq, core0, faults, stalls, unanswered,
                       missed>>
    BY <1>5, Zenon DEF RecvNothing
  <2>2. Len(socket) = 0
    BY <2>1, Queues
  <2> QED
    BY <1>0, <2>0, <2>1, <2>2
<1>6. CASE ClearInterrupt
  <2>1. /\ core0 = "poll" /\ irq /\ core0' = "read" /\ ~irq'
        /\ UNCHANGED <<phase, watchdog_expired, elapsed, socket, inbox, faults, stalls,
                       unanswered, missed, drops, pardons, overflows>>
    BY <1>6, Zenon DEF ClearInterrupt
  <2>2. Owed = 0 /\ Owed' = 0 /\ Busy = 0 /\ Busy' = 0
    BY <2>1 DEF Owed, Busy
  <2>3. Gone' = Gone /\ Seen' = Seen
    BY <2>1, <2>2, Zenon DEF Gone, Seen
  <2> QED
    BY <1>0, <2>1, <2>2, <2>3
<1>7. CASE ReadFrame
  <2>1. /\ core0 = "read" /\ core0' = "check" /\ inbox # << >> /\ inbox' = Tail(inbox)
        /\ UNCHANGED <<phase, watchdog_expired, elapsed, socket, irq, faults, stalls,
                       unanswered, missed, drops, pardons, overflows>>
    BY <1>7, Zenon DEF ReadFrame
  <2>2. Len(inbox) >= 1 /\ Len(inbox') = Len(inbox) - 1
    BY <2>1, Queues
  <2>3. Owed = 0 /\ Owed' = 1 /\ Busy = 0 /\ Busy' = 1
    BY <2>1 DEF Owed, Busy
  <2>4. Gone' = Gone + 1 /\ Seen' = Seen
    BY <1>0, <2>1, <2>3 DEF Gone, Seen
  <2> QED
    BY <1>0, <2>1, <2>2, <2>3, <2>4
<1>8. CASE CheckFrame \/ SetOutputs
  <2>1. UNCHANGED <<phase, watchdog_expired, elapsed, socket, inbox, irq, faults, stalls,
                    unanswered, missed, drops, pardons, overflows>>
    BY <1>8, Zenon DEF CheckFrame, SetOutputs
  <2>2. Busy' = Busy /\ core0 # "read" /\ core0' # "read" /\ Owed' \in Nat /\ Owed' <= Owed
    <3>1. CASE CheckFrame
      <4>1. core0 = "check" /\ core0' = "obey"
        BY <3>1, Zenon DEF CheckFrame
      <4>2. frame' = "garbled" => checksum_error'
        BY <3>1 DEF CheckFrame, CheckBad
      <4> QED
        BY <4>1, <4>2 DEF Owed, Busy
    <3>2. CASE SetOutputs
      <4>1. core0 = "output" /\ core0' = "answer" /\ UNCHANGED checksum_error
        BY <3>2, Zenon DEF SetOutputs
      <4> QED
        BY <4>1 DEF Owed, Busy
    <3> QED
      BY <1>8, <3>1, <3>2
  <2>3. Gone' \in Nat /\ Gone' <= Gone /\ Seen' = Seen
    <3>1. Gone = missed + Owed /\ Gone' = missed + Owed' /\ Seen' = Seen
      BY <2>1, Zenon DEF Gone, Seen
    <3>2. missed + Owed' \in Nat /\ missed + Owed' <= missed + Owed
      BY <1>0, <2>2, LessAdded
    <3> QED
      BY <3>1, <3>2, Zenon
  <2> QED
    BY <1>0, <2>1, <2>2, <2>3
<1>9. CASE Obey
  <2>1. /\ core0 = "obey" /\ core0' = "output"
        /\ UNCHANGED <<phase, watchdog_expired, elapsed, socket, inbox, irq, stalls,
                       unanswered, drops, pardons, frame, checksum_error>>
    BY <1>9, Zenon DEF Obey
  <2>2. Busy = 1 /\ Busy' = 1 /\ faults' \in 0 .. Faults /\ faults' >= faults
    BY <1>0, <1>9, <2>1 DEF Obey, Busy
  <2>3. /\ Gone' \in Nat /\ Seen' \in Nat
        /\ \/ Gone' = Gone /\ Seen' = Seen
           \/ Gone' <= Gone + 1 /\ Seen' = Seen + 1
    <3>1. CASE checksum_error
      <4>1. Owed = 1 /\ Owed' = 0
        BY <2>1, <3>1 DEF Owed
      <4>2. missed' = missed + 1 /\ overflows' = overflows
        BY <1>9, <3>1 DEF Obey
      <4> HIDE DEF CountInv
      <4> QED
        BY <1>0, <2>1, <4>1, <4>2 DEF Gone, Seen
    <3>2. CASE ~checksum_error /\ frame = "good"
      <4>1. Owed = 1 /\ Owed' = 1
        BY <2>1, <3>2 DEF Owed
      <4>2. \/ missed' = missed /\ overflows' = overflows
            \/ missed' = missed + 1 /\ overflows' = overflows + 1
        BY <1>0, <1>9, <3>2 DEF Obey
      <4> HIDE DEF CountInv
      <4> QED
        BY <1>0, <2>1, <4>1, <4>2 DEF Gone, Seen
    <3>3. CASE ~checksum_error /\ frame = "garbled"
      <4>1. Owed = 2 /\ Owed' = 1
        BY <2>1, <3>3 DEF Owed
      <4>2. \/ missed' = missed + 1 /\ overflows' = overflows
            \/ missed' = missed + 1 /\ overflows' = overflows + 1
        BY <1>0, <1>9, <3>3 DEF Obey
      <4> HIDE DEF CountInv
      <4> QED
        BY <1>0, <2>1, <4>1, <4>2 DEF Gone, Seen
    <3> QED
      BY <1>0, <3>1, <3>2, <3>3 DEF Datagrams
  <2>4. LossInv'
    <3> HIDE DEF InboxInv, QueueInv
    <3> QED
      BY <1>0, <2>1, <2>3
  <2>5. InboxInv'
    <3> HIDE DEF LossInv, QueueInv, Awaited
    <3> QED
      BY <1>0, <2>1, <2>2
  <2>6. QueueInv'
    <3>1. Len(inbox') + Busy' + Len(socket') <= faults' + 1 + Awaited'
      <4>1. Awaited' = Awaited /\ Awaited \in {0, 1}
        BY <2>1
      <4> HIDE DEF LossInv, InboxInv, Awaited
      <4> QED
        BY <1>0, <2>1, <2>2, <4>1
    <3>2. Len(socket) > 0 /\ ~watchdog_expired =>
             unanswered + Len(socket) <= faults' + 1 + One(phase # "tick")
      <4> HIDE DEF LossInv, InboxInv, Awaited
      <4> QED
        BY <1>0, <2>2
    <3>3. ~watchdog_expired => unanswered <= faults' + 1 + elapsed + One(phase = "watchdog")
      <4>1. One(phase = "watchdog") \in {0, 1}
        OBVIOUS
      <4>2. ~watchdog_expired => unanswered <= faults + 1 + elapsed + One(phase = "watchdog")
        OBVIOUS
      <4> HIDE DEF CountInv, One
      <4> QED
        BY <1>0, <2>2, <4>1, <4>2
    <3> QED
      BY <2>1, <3>1, <3>2, <3>3
  <2> QED
    BY <2>4, <2>5, <2>6, Zenon
<1>10. CASE Answer
  <2>1. /\ core0 = "answer" /\ core0' = "poll" /\ Busy = 1 /\ Busy' = 0
        /\ Seen' = Seen /\ Gone' \in Nat /\ Gone' + One(~checksum_error) = Gone
        /\ UNCHANGED <<phase, watchdog_expired, elapsed, inbox, irq, stalls, missed, drops,
                       pardons, overflows>>
    <3>1. /\ core0 = "answer" /\ core0' = "poll"
          /\ UNCHANGED <<phase, watchdog_expired, elapsed, inbox, irq, stalls, missed,
                         drops, pardons, overflows>>
      BY <1>10, Zenon DEF Answer
    <3>2. Busy = 1 /\ Busy' = 0 /\ Owed' = 0 /\ Owed = One(~checksum_error)
      BY <3>1 DEF Owed, Busy
    <3>3. Seen' = Seen
      BY <3>1, Zenon DEF Seen
    <3>4. Gone' = missed /\ Gone = missed + One(~checksum_error)
      BY <1>0, <3>1, <3>2 DEF Gone
    <3> QED
      BY <1>0, <3>1, <3>2, <3>3, <3>4
  <2>2. CASE checksum_error
    <3>1. UNCHANGED <<socket, faults, unanswered>>
      BY <1>10, <2>2, Zenon DEF Answer
    <3>2. Gone' = Gone
      <4>1. Gone' + 0 = Gone
        BY <2>1, <2>2
      <4> QED
        BY <2>1, <4>1
    <3> QED
      BY <1>0, <2>1, <3>1, <3>2
  <2>3. CASE ~checksum_error
    <3>1. Carry(socket, socket') /\ unanswered' = 0
      BY <1>10, <2>3, Zenon DEF Answer
    <3>2. /\ Len(socket') \in {Len(socket), Len(socket) + 1}
          /\ faults' \in 0 .. Faults /\ faults' >= faults
      BY <3>1, AnswerCarried
    <3>3. LossInv'
      <4>1. Gone = Gone' + 1 /\ Awaited' = Awaited /\ Awaited \in {0, 1}
        BY <1>0, <2>1, <2>3
      <4>2. Gone + Len(inbox) + Len(socket) <= Seen + Awaited
        OBVIOUS
      <4>3. Gone' + Len(inbox') + Len(socket') <= Seen' + Awaited'
        <5>1. Seen + Awaited \in Nat /\ Len(socket') \in Nat
          BY <1>0, <3>2, <4>1
        <5>2. Gone' + Len(inbox) + Len(socket') <= Seen + Awaited
          <6> HIDE DEF CountInv, Awaited, One
          <6> QED
            BY <1>0, <2>1, <3>2, <4>1, <4>2, <5>1, Shifted
        <5> QED
          BY <2>1, <4>1, <5>2
      <4> QED
        BY <4>3
    <3>4. InboxInv'
      <4> HIDE DEF LossInv, QueueInv, Awaited
      <4> QED
        BY <1>0, <2>1, <3>2
    <3>5. Len(inbox') + Busy' + Len(socket') <= faults' + 1 + Awaited'
      <4>1. Awaited' = Awaited /\ Awaited \in {0, 1}
        BY <2>1
      <4> HIDE DEF LossInv, InboxInv, Awaited, One
      <4> QED
        BY <1>0, <2>1, <3>2, <4>1
    <3>6. Len(socket') <= faults' + 1 + One(phase' # "tick")
      <4>1. phase # "tick" => Awaited' <= 1 /\ One(phase' # "tick") = 1
        BY <2>1
      <4>2. phase = "tick" => Awaited' = 0 /\ One(phase' # "tick") = 0
        BY <2>1
      <4>3. Awaited' \in {0, 1} /\ One(phase' # "tick") \in {0, 1}
        OBVIOUS
      <4> HIDE DEF LossInv, InboxInv, QueueInv, Awaited, One
      <4> QED
        BY <1>0, <2>1, <3>2, <3>5, <4>1, <4>2, <4>3
    <3>7. unanswered' <= faults' + 1 + elapsed' + One(phase' = "watchdog")
      <4>1. One(phase' = "watchdog") \in {0, 1}
        OBVIOUS
      <4> HIDE DEF LossInv, InboxInv, QueueInv, One
      <4> QED
        BY <1>0, <2>1, <3>1, <3>2, <4>1
    <3>8. unanswered' + Len(socket') = Len(socket')
      BY <1>0, <3>1, <3>2
    <3> QED
      BY <3>3, <3>4, <3>5, <3>6, <3>7, <3>8, Zenon
  <2> QED
    BY <2>2, <2>3
<1>11. CASE Disconnect
  <2>1. UNCHANGED <<phase, watchdog_expired, elapsed, socket, inbox, irq, core0, faults,
                    stalls, unanswered, missed, drops, overflows, frame>>
    BY <1>11, Zenon DEF Disconnect
  <2>2. Busy' = Busy
    BY <2>1 DEF Busy
  <2>3. /\ Gone' \in Nat /\ Seen' \in Nat
        /\ \/ Gone' = Gone /\ Seen' = Seen
           \/ Gone' <= Gone + 1 /\ Seen' = Seen + 1
    <3>1. CASE timeout_error \/ ~checksum_error
      <4>1. (checksum_error' <=> checksum_error) /\ pardons' = pardons
        BY <1>0, <1>11, <3>1 DEF Disconnect
      <4>2. Owed' = Owed
        BY <2>1, <4>1 DEF Owed
      <4> QED
        BY <2>1, <4>1, <4>2, <1>0, Zenon DEF Gone, Seen
    <3>2. CASE ~timeout_error /\ checksum_error
      <4>1. pardons' = pardons + 1
        BY <1>11, <3>2 DEF Disconnect
      <4>2. Owed' \in Nat /\ Owed' <= Owed + 1
        BY <2>1, <3>2 DEF Owed
      <4>3. Gone = missed + Owed /\ Gone' = missed + Owed'
        BY <2>1, Zenon DEF Gone
      <4>4. Seen = drops + overflows + pardons /\ Seen' = drops + overflows + pardons'
        BY <2>1, Zenon DEF Seen
      <4>5. missed + Owed' \in Nat /\ missed + Owed' <= (missed + Owed) + 1
        BY <1>0, <4>2, OneAdded
      <4>6. Seen' \in Nat /\ Seen' = Seen + 1
        <5> HIDE DEF CountInv
        <5> QED
          BY <1>0, <4>1, <4>4
      <4> QED
        BY <4>3, <4>5, <4>6, Zenon
    <3> QED
      BY <3>1, <3>2
  <2> QED
    BY <1>0, <2>1, <2>2, <2>3
<1>12. CASE Serve \/ Notice \/ DisconnectOutputs \/ Unplug \/ UNCHANGED udpVars
  <2>1. UNCHANGED <<phase, watchdog_expired, elapsed, socket, inbox, irq, core0, faults,
                    stalls, unanswered, missed, drops, pardons, overflows, frame,
                    checksum_error>>
    BY <1>12, Zenon DEF Serve, Notice, DisconnectOutputs, Unplug, udpVars
  <2>2. Gone' = Gone /\ Seen' = Seen /\ Busy' = Busy
    BY <2>1, HandsKept, Zenon DEF Gone, Seen
  <2> QED
    BY <1>0, <2>1, <2>2
<1>13. CASE Tick
  <2>0. /\ Owed' = Owed /\ Busy' = Busy
        /\ Gone' = missed' + Owed /\ Seen' = drops' + overflows + pardons
        /\ Gone = missed + Owed /\ Seen = drops + overflows + pardons
    <3>1. UNCHANGED <<core0, frame, checksum_error, pardons, overflows>>
      BY <1>13, Zenon DEF Tick
    <3> QED
      BY <3>1, HandsKept, Zenon DEF Gone, Seen
  <2>1. /\ phase = "tick" /\ phase' = "watchdog"
        /\ \/ Quiet /\ UNCHANGED <<faults, stalls>>
           \/ ~Quiet /\ faults' = faults + 1 /\ stalls' = IF irq THEN stalls + 1 ELSE stalls
        /\ unanswered' = UpTo(WatchdogTimeout + Faults + 3, unanswered)
        /\ UNCHANGED <<elapsed, watchdog_expired, socket, inbox, irq, core0, missed, drops>>
    BY <1>13, Zenon DEF Tick
  <2>2. unanswered' \in Nat /\ unanswered' <= unanswered + 1
    BY <1>0, <2>0, <2>1 DEF UpTo
  <2>3. CASE Quiet
    <3>1. core0 = "poll" /\ ~irq /\ UNCHANGED <<faults, stalls>>
      BY <2>1, <2>3 DEF Quiet
    <3>2. LossInv'
      <4> HIDE DEF InboxInv, QueueInv
      <4> QED
        BY <1>0, <2>0, <2>1
    <3>3. InboxInv'
      <4>1. Len(inbox) <= stalls /\ Busy = 0
        BY <1>0, <3>1 DEF Busy
      <4> HIDE DEF LossInv, QueueInv, Awaited
      <4> QED
        BY <1>0, <2>0, <2>1, <3>1, <4>1
    <3>4. QueueInv'
      <4> HIDE DEF LossInv, InboxInv
      <4> QED
        BY <1>0, <2>0, <2>1, <2>2, <3>1
    <3> QED
      BY <3>2, <3>3, <3>4, Zenon
  <2>4. CASE ~Quiet
    <3>1. faults' = faults + 1 /\ stalls' = IF irq THEN stalls + 1 ELSE stalls
      BY <2>1, <2>4
    <3>2. faults' \in Nat /\ stalls' \in Nat /\ stalls <= stalls' /\ stalls' <= stalls + 1
      BY <1>0, <3>1
    <3>3. LossInv'
      <4> HIDE DEF InboxInv, QueueInv
      <4> QED
        BY <1>0, <2>0, <2>1
    <3>4. InboxInv'
      <4>1. Len(inbox') + Busy' <= faults + 1
        BY <1>0, <2>0, <2>1
      <4>2. Len(inbox) <= stalls' + One(core0 = "read")
        <5>1. CASE irq
          BY <1>0, <2>0, <2>1, <3>1, <5>1
        <5>2. CASE ~irq
          BY <1>0, <2>0, <2>1, <3>1, <5>2
        <5> QED
          BY <5>1, <5>2
      <4>3. stalls' <= faults'
        BY <1>0, <3>1
      <4>4. One(irq' /\ phase' \in {"recv", "tick"}) = 0 /\ One(phase' \in {"recv", "tick"}) = 0
            /\ inbox' = inbox /\ core0' = core0
        BY <2>1
      <4>5. One(core0 = "read") \in {0, 1} /\ stalls' + One(core0 = "read") + 0 = stalls' + One(core0 = "read")
        BY <3>2
      <4> HIDE DEF LossInv, QueueInv, Awaited, One
      <4> QED
        BY <3>1, <1>0, <2>0, <4>1, <4>2, <4>3, <4>4, <4>5
    <3>5. QueueInv'
      <4> HIDE DEF LossInv, InboxInv
      <4> QED
        BY <1>0, <2>0, <2>1, <2>2, <3>1
    <3> QED
      BY <3>3, <3>4, <3>5, Zenon
  <2> QED
    BY <2>3, <2>4
<1> QED
  BY <1>1, <1>2, <1>3, <1>4, <1>5, <1>6, <1>7, <1>8, <1>9, <1>10, <1>11, <1>12, <1>13
  DEF UdpNext, Driver, Core0, Core1

--------------------------------------------------------------------------------
UdpInv == UdpTypeOK /\ WatchdogInv /\ CountInv

(* The inductive invariant holds in every state of the link.               *)
LEMMA UdpInvariant == UdpSpec => []UdpInv
<1>1. UdpInit => UdpInv
  <2> SUFFICES ASSUME UdpInit PROVE UdpInv
    OBVIOUS
  <2>1. << >> \in Seq(Datagrams) /\ Len(<< >>) = 0
    BY EmptySeq
  <2>2. UdpTypeOK
    <3>1. socket \in Seq(Datagrams) /\ inbox \in Seq(Datagrams)
      BY <2>1, Zenon DEF UdpInit
    <3>2. /\ elapsed \in 0 .. WatchdogTimeout + 1 /\ checksum_ok_count \in 0 .. OkToClear - 1
          /\ silence \in 0 .. ClockWrap - 1 /\ faults \in 0 .. Faults
          /\ {stalls, unanswered, missed, drops, pardons, overflows} \subseteq Nat
      BY DEF UdpInit
    <3> QED
      BY <3>1, <3>2, Zenon DEF UdpInit, UdpTypeOK, Datagrams
  <2>3. WatchdogInv /\ CountInv
    BY <2>1 DEF UdpInit, WatchdogInv, CountInv, LossInv, InboxInv, QueueInv, Awaited, Owed,
               Busy, Gone, Seen, One
  <2> QED
    BY <2>2, <2>3 DEF UdpInv
<1>2. UdpInv /\ [UdpNext]_udpVars => UdpInv'
  BY TypeStep, WatchdogStep, CountStep DEF UdpInv
<1> QED
  BY <1>1, <1>2, PTL DEF UdpSpec

(* Every variable of the Ethernet link keeps its type, the count of good   *)
(* frames of handle_data() among them.                                     *)
THEOREM UdpTypes == UdpSpec => []UdpTypeOK
BY UdpInvariant, PTL DEF UdpInv

(* The driver of flexi-ninja-eth.c loses the steps of a frame without a    *)
(* word only to a full FIFO and, once for each, to a disconnect that       *)
(* clears the error: for any other connected goes for a period.            *)
THEOREM LossShows == UdpSpec => []LossIsSeen
<1>1. UdpInv => LossIsSeen
  <2> SUFFICES ASSUME UdpInv PROVE LossIsSeen
    OBVIOUS
  <2>1. /\ missed \in Nat /\ drops \in Nat /\ overflows \in Nat /\ pardons \in Nat
        /\ Len(inbox) \in Nat /\ Len(socket) \in Nat
    BY Queues DEF UdpInv, UdpTypeOK
  <2>2. Owed \in Nat /\ Awaited \in Nat /\ Awaited <= IF phase = "recv" THEN 1 ELSE 0
    BY DEF Owed, Awaited, One
  <2>3. missed + Owed + Len(inbox) + Len(socket) <= drops + overflows + pardons + Awaited
    BY DEF UdpInv, CountInv, LossInv, Gone, Seen
  <2>4. missed <= drops + overflows + pardons + Awaited
    BY <2>1, <2>2, <2>3
  <2> QED
    BY <2>1, <2>2, <2>4 DEF LossIsSeen
<1> QED
  BY <1>1, UdpInvariant, PTL

(* Answers queued in the socket keep io_ready_out on after the board has   *)
(* died no longer than the faults that queued them.                        *)
THEOREM DeadBoardStops == UdpSpec => []DeadBoardStopsMachine
<1>1. UdpInv => DeadBoardStopsMachine
  <2> SUFFICES ASSUME UdpInv, io_ready_out, phase \in {"recv", "tick"}
               PROVE  unanswered <= WatchdogTimeout + 1 + faults
    BY DEF DeadBoardStopsMachine
  <2>1. ~watchdog_expired /\ elapsed <= WatchdogTimeout
    BY DEF UdpInv, WatchdogInv
  <2>2. unanswered <= faults + 1 + elapsed
    BY <2>1 DEF UdpInv, UdpTypeOK, CountInv, QueueInv, One
  <2>3. elapsed \in Nat /\ faults \in Nat /\ unanswered \in Nat
    BY DEF UdpInv, UdpTypeOK
  <2> QED
    BY <2>1, <2>2, <2>3
<1> QED
  BY <1>1, UdpInvariant, PTL

(* handle_udp() clears the interrupt before it reads: a frame that arrives *)
(* in between is not forgotten.                                            *)
THEOREM FramesAreServed == UdpSpec => []NoFrameIsForgotten
<1>1. UdpInv => NoFrameIsForgotten
  BY Queues DEF UdpInv, UdpTypeOK, CountInv, InboxInv, Busy, One, NoFrameIsForgotten, Quiet
<1> QED
  BY <1>1, UdpInvariant, PTL

(* The early return of process_recv finds connected cleared.               *)
THEOREM DeadLinkShows == UdpSpec => []DeadLinkIsShown
<1>1. UdpInv => DeadLinkIsShown
  BY DEF UdpInv, WatchdogInv, DeadLinkIsShown
<1> QED
  BY <1>1, UdpInvariant, PTL
================================================================================
