------------------------------- MODULE SpiExchange -------------------------------
(***************************************************************************)
(* The transfer of one frame, byte by byte: _send() of the HAL driver is   *)
(* the SPI master (hal-driver/flexi-ninja.c), spi_read_fulldup() in the    *)
(* loop of handle_udp() the slave (firmware/src/main.c), and between them  *)
(* are the two FIFOs of the slave's SPI peripheral.                        *)
(*                                                                         *)
(* The master pulls GPIO_INT low, waits 50 us, and clocks N bytes out at   *)
(* its own pace.  The slave is much faster than the clock, so it has       *)
(* caught up before each byte, unless it is not reading at all: handling a *)
(* frame, or saving to flash.  It counts as late when it is still busy as  *)
(* the next transfer begins; MaxLate bounds how often.                     *)
(*                                                                         *)
(* A byte is known by the frame (or reply) it belongs to and its place.    *)
(***************************************************************************)
EXTENDS Naturals, Sequences

CONSTANTS
    N,        \* SPI_TRANSFER_SIZE
    D,        \* entries of each FIFO of the SPI peripheral (8)
    Ids,      \* frames and replies are numbered modulo Ids
    MaxLate

ASSUME SizeAssumption == N \in Nat /\ D \in 1 .. N - 1
ASSUME IdsAssumption  == Ids \in Nat /\ Ids >= 3
ASSUME LateAssumption == MaxLate \in Nat

VARIABLES
    clocking,   \* GPIO_INT is low and the transfer is under way
    sent,       \* the frame in the master's buffer
    clocked,    \* bytes clocked in this transfer
    incoming,   \* what the master has shifted in
    returned,   \* the reply in rx_buffer, or Bad
    rx_fifo,
    tx_fifo,
    slave,      \* "poll", "read" or "busy"
    packet,     \* the reply copied into packet_buffer
    frame,      \* spi_rx_frame so far; its length is rx_done
    tx_done,
    handled,    \* the frame handle_data() saw last, or Bad
    staged,     \* the reply in tx_buffer
    lates       \* history

masterVars == <<clocking, sent, clocked, incoming, returned>>
fifoVars   == <<rx_fifo, tx_fifo>>
slaveVars  == <<slave, packet, frame, tx_done, handled, staged>>
spiVars    == <<masterVars, fifoVars, slaveVars, lates>>

Bad == Ids

Successor(id) == (id + 1) % Ids

(* A checksum tells N bytes that are one frame, in order, from all others. *)
Checked(bytes) ==
    IF \E id \in 0 .. Ids - 1 : bytes = [i \in 1 .. N |-> <<id, i>>]
    THEN bytes[1][1]
    ELSE Bad

SpiInit ==
    /\ clocking = FALSE
    /\ sent = 0
    /\ clocked = N
    /\ incoming = << >>
    /\ returned = Ids - 1
    /\ rx_fifo = << >>
    /\ tx_fifo = << >>
    /\ slave = "poll"
    /\ packet = 0
    /\ frame = << >>
    /\ tx_done = 0
    /\ handled = 0
    /\ staged = 0
    /\ lates = 0

--------------------------------------------------------------------------------
(* Nothing is left for the slave to do before the next byte.               *)
CaughtUp ==
    /\ slave = "read"
    /\ rx_fifo = << >>
    /\ Len(frame) < N
    /\ tx_done = N \/ Len(tx_fifo) = D

MasterStart ==
    /\ ~clocking
    /\ IF slave = "busy"
       THEN lates < MaxLate /\ lates' = lates + 1
       ELSE (slave = "poll" \/ CaughtUp) /\ UNCHANGED lates
    /\ clocking' = TRUE
    /\ sent' = Successor(sent)
    /\ clocked' = 0
    /\ incoming' = << >>
    /\ UNCHANGED <<returned, fifoVars, slaveVars>>

(* One byte each way.  A full RX FIFO loses it; an empty TX FIFO sends one *)
(* that belongs to no reply.                                               *)
MasterClock ==
    /\ clocking
    /\ clocked < N
    /\ slave = "busy" \/ CaughtUp
    /\ clocked' = clocked + 1
    /\ rx_fifo' = IF Len(rx_fifo) < D THEN Append(rx_fifo, <<sent, clocked + 1>>)
                                      ELSE rx_fifo
    /\ IF tx_fifo = << >>
       THEN incoming' = Append(incoming, <<Bad, 0>>) /\ UNCHANGED tx_fifo
       ELSE incoming' = Append(incoming, Head(tx_fifo)) /\ tx_fifo' = Tail(tx_fifo)
    /\ UNCHANGED <<clocking, sent, returned, slaveVars, lates>>

MasterEnd ==
    /\ clocking
    /\ clocked = N
    /\ clocking' = FALSE
    /\ returned' = Checked(incoming)
    /\ UNCHANGED <<sent, clocked, incoming, fifoVars, slaveVars, lates>>

--------------------------------------------------------------------------------
Bytes(id, from, to) == [i \in 1 .. to - from + 1 |-> <<id, from + i - 1>>]

(* GPIO_INT is low: the TX FIFO is filled up before any byte is read.      *)
SlaveEnter ==
    /\ slave = "poll"
    /\ clocking
    /\ slave' = "read"
    /\ packet' = staged
    /\ frame' = << >>
    /\ tx_done' = D - Len(tx_fifo)
    /\ tx_fifo' = tx_fifo \o Bytes(staged, 1, D - Len(tx_fifo))
    /\ UNCHANGED <<masterVars, rx_fifo, handled, staged, lates>>

(* One round of the loop: a byte is taken if there is one, and the next    *)
(* one put out if there is room.                                           *)
SlaveLoop ==
    /\ slave = "read"
    /\ Len(frame) < N
    /\ ~CaughtUp
    /\ IF rx_fifo = << >>
       THEN UNCHANGED <<frame, rx_fifo>>
       ELSE frame' = Append(frame, Head(rx_fifo)) /\ rx_fifo' = Tail(rx_fifo)
    /\ IF tx_done < N /\ Len(tx_fifo) < D
       THEN tx_done' = tx_done + 1 /\ tx_fifo' = Append(tx_fifo, <<packet, tx_done + 1>>)
       ELSE UNCHANGED <<tx_done, tx_fifo>>
    /\ UNCHANGED <<masterVars, slave, packet, handled, staged, lates>>

(* Mutant: the slave stops at the size of its own structure, a byte short. *)
SlaveDone_Short ==
    /\ slave = "read"
    /\ Len(frame) = N - 1
    /\ rx_fifo' = << >>
    /\ handled' = Checked(frame)
    /\ staged' = Successor(staged)
    /\ slave' = "busy"
    /\ UNCHANGED <<masterVars, tx_fifo, packet, frame, tx_done, lates>>

(* The frame is complete: the RX FIFO is drained, the frame handled and a  *)
(* reply staged.                                                           *)
SlaveDone ==
    /\ slave = "read"
    /\ Len(frame) = N
    /\ rx_fifo' = << >>
    /\ handled' = Checked(frame)
    /\ staged' = Successor(staged)
    /\ slave' = "busy"
    /\ UNCHANGED <<masterVars, tx_fifo, packet, frame, tx_done, lates>>

SlaveFree ==
    /\ slave = "busy"
    /\ slave' = "poll"
    /\ UNCHANGED <<masterVars, fifoVars, packet, frame, tx_done, handled, staged, lates>>

Master == MasterStart \/ MasterClock \/ MasterEnd
Slave  == SlaveEnter \/ SlaveLoop \/ SlaveDone \/ SlaveFree

SpiNext == Master \/ Slave

(* The servo thread goes on, and so does core 0: nothing it waits for in   *)
(* its loop is missing for good.                                           *)
SpiSpec == SpiInit /\ [][SpiNext]_spiVars /\ WF_spiVars(Master) /\ WF_spiVars(Slave)

--------------------------------------------------------------------------------
(* A slave that is never late swaps whole frames: for every transfer it    *)
(* handles the frame sent, and the driver gets the reply to the one before *)
(* it, whichever of the two ends is done first.                            *)
Swap == INSTANCE FrameSwap WITH replying <- clocking

ImplementsFrameSwap == Swap!SwapSpec
================================================================================
