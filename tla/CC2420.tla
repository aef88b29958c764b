------------------------------- MODULE CC2420 -------------------------------
(***************************************************************************)
(* The MAC of the driver, src/tosmac/CC2420.c: the transmit state machine  *)
(* run by the timer and SFD interrupts, the receive path run by the FIFOP  *)
(* interrupt and its tasklet, and the entry points the character device    *)
(* calls.  The interrupt handlers are registered SA_INTERRUPT and are      *)
(* atomic; they preempt the tasklet and every process.  The tasklet is     *)
(* split where an interrupt between two of its accesses can be noticed.    *)
(* (Non-PSI build: no module defines PSI.)                                 *)
(***************************************************************************)
EXTENDS OSTimer, CC2420Radio, FiniteSets

CONSTANTS
  Bufs,               \* the addresses kmalloc may return for a TOS_Msg
  MAX_SEND_TRIES,     \* 8 in the code
  MAX_RESTART_TRIES,  \* 10 in the code
  TOSH_DATA_LENGTH,   \* 28 in the code; payload bytes of a packet
  TimersLeft          \* what channel 5 may be like when the driver is loaded:
                      \*   unloading does not stop it (CC2420_exit)

MSG_HEADER_SIZE == 9
MSG_FOOTER_SIZE == 2
MSG_DATA_SIZE == 10 + TOSH_DATA_LENGTH + 2
INVALID == 255        \* the length that marks a failed packet

ASSUME MacAssumption ==
  /\ MAX_SEND_TRIES \in 0 .. 255 /\ MAX_RESTART_TRIES \in 0 .. 255
  /\ TOSH_DATA_LENGTH \in 0 .. 116
  /\ TimersLeft \subseteq TimerType
  /\ None \notin Bufs

VARIABLES
  CC2420_state, CC2420_timer_state, count_retry, count_send_restart,
  send_done, current_DSN, is_ack_enable,
  tx_buf_ptr,           \* an address, or None before the first send
  buf,                  \* the memory: the TOS_Msg at each address
  recv_done, ok_to_read, non_blocking_mode, is_packet_receiving,
  rx_buf, rx_packet,    \* [length, frame]
  read_packet_tasklet,  \* the tasklet is scheduled
  tl_pc,                \* where the running tasklet is; "idle": not running
  tl_next,              \* where it goes when flush_RXFIFO is over
  tl_state              \* RXFIFO_done's local current_state

txVars == << CC2420_state, CC2420_timer_state, count_retry,
             count_send_restart, send_done, buf >>
sendVars == << current_DSN, tx_buf_ptr >>
rxVars == << recv_done, ok_to_read, is_packet_receiving, rx_buf, rx_packet >>
taskletVars == << read_packet_tasklet, tl_pc, tl_next, tl_state >>
modeVars == << non_blocking_mode, is_ack_enable >>

UInt8 == 0 .. 255
MacStates == {"IDLE", "PRE_TX", "TX", "TX_WAIT", "POST_TX"}
TimerStates == {"INITIAL", "BACKOFF", "ACK", "RESTART", "TRANSMIT"}
Messages == [length : UInt8, dsn : DSNs, unicast : BOOLEAN]
Packets == [length : UInt8, frame : RxFrames \cup {None}]

MacTypeOK ==
  /\ CC2420_state \in MacStates
  /\ CC2420_timer_state \in TimerStates
  /\ count_retry \in UInt8 /\ count_send_restart \in UInt8
  /\ send_done \in BOOLEAN /\ recv_done \in BOOLEAN /\ ok_to_read \in BOOLEAN
  /\ current_DSN \in DSNs
  /\ is_ack_enable \in BOOLEAN /\ non_blocking_mode \in BOOLEAN
  /\ tx_buf_ptr \in Bufs \cup {None}
  /\ buf \in [Bufs -> Messages]
  /\ is_packet_receiving \in BOOLEAN
  /\ rx_buf \in Packets /\ rx_packet \in Packets
  /\ read_packet_tasklet \in BOOLEAN
  /\ tl_pc \in {"idle", "flush", "rearm", "done", "process", "tail", "failed"}
  /\ tl_next \in {"idle", "done", "failed"}
  /\ tl_state \in MacStates

(* The state CC2420_init leaves: no packet yet, the radio listening. *)
CC2420_init ==
  /\ CC2420_state = "IDLE" /\ CC2420_timer_state = "INITIAL"
  /\ count_retry = 0 /\ count_send_restart = 0
  /\ send_done = FALSE /\ recv_done = FALSE /\ ok_to_read = FALSE
  /\ current_DSN = 0 /\ is_ack_enable = FALSE /\ non_blocking_mode = FALSE
  /\ tx_buf_ptr = None
  /\ buf = [b \in Bufs |-> [length |-> 0, dsn |-> 0, unicast |-> FALSE]]
  /\ is_packet_receiving = FALSE
  /\ rx_buf = [length |-> 0, frame |-> None]
  /\ rx_packet = [length |-> 0, frame |-> None]
  /\ read_packet_tasklet = FALSE
  /\ tl_pc = "idle" /\ tl_next = "idle" /\ tl_state = "IDLE"
  /\ \E t \in TimersLeft : timer = timer_init(t)
  /\ RadioInit
-----------------------------------------------------------------------------
(* Seeded faults: the failure wakes nobody; it is not marked in the packet; *)
(* a failed reception does not end the writer's wait, or not the reader's.  *)
send_failed_silent ==
  /\ CC2420_state' = "IDLE"
  /\ buf' = [buf EXCEPT ![tx_buf_ptr].length = INVALID]
  /\ UNCHANGED send_done

send_failed_unmarked ==
  /\ CC2420_state' = "IDLE"
  /\ send_done' = TRUE
  /\ UNCHANGED buf

recv_failed_keeps_writer ==
  /\ CC2420_state' = "IDLE"
  /\ UNCHANGED send_done
  /\ rx_packet' = [rx_packet EXCEPT !.length = INVALID]
  /\ rx_buf' = [rx_buf EXCEPT !.length = 0]
  /\ recv_done' = (recv_done \/ ~non_blocking_mode)

recv_failed_keeps_reader ==
  /\ CC2420_state' = "IDLE"
  /\ send_done' = TRUE
  /\ rx_packet' = [rx_packet EXCEPT !.length = INVALID]
  /\ rx_buf' = [rx_buf EXCEPT !.length = 0]
  /\ UNCHANGED recv_done

(* Ends of a transmission. *)
CC2420_send_failed ==
  /\ CC2420_state' = "IDLE"
  /\ buf' = [buf EXCEPT ![tx_buf_ptr].length = INVALID]
  /\ send_done' = TRUE

CC2420_packet_sent ==
  /\ CC2420_state' = "IDLE"
  /\ buf' = [buf EXCEPT ![tx_buf_ptr].length =
                          (@ - MSG_HEADER_SIZE - MSG_FOOTER_SIZE) % 256]
  /\ send_done' = TRUE

(* A reception that fails also ends whatever transmission is under way. *)
CC2420_recv_failed ==
  /\ CC2420_state' = "IDLE"
  /\ send_done' = TRUE
  /\ rx_packet' = [rx_packet EXCEPT !.length = INVALID]
  /\ rx_buf' = [rx_buf EXCEPT !.length = 0]
  /\ recv_done' = (recv_done \/ ~non_blocking_mode)

(* Set the purpose of the timer and start it; t is the timer before. *)
SetTimer(purpose, t) ==
  /\ CC2420_timer_state' = purpose
  /\ timer' = timer_start(t)
-----------------------------------------------------------------------------
(* Seeded fault: the channel is lost after CCA and no backoff is started. *)
send_packet_gives_up(t, fifo, snd) ==
  /\ CC2420_state = "PRE_TX"
  /\ CCAMayBeClear
  /\ \/ /\ phase' = Accepted
        /\ CC2420_state' = "TX"
        /\ SetTimer("TRANSMIT", t)
     \/ /\ phase = "rx"
        /\ timer' = t
        /\ UNCHANGED << phase, CC2420_state, CC2420_timer_state >>
  /\ txfifo' = fifo /\ sending' = snd
  /\ UNCHANGED << count_retry, count_send_restart, send_done, buf >>

(* CC2420_try_to_send, called with the timer t, the TXFIFO holding fifo and *)
(* snd left of the frame that is going out.                                 *)
SendPacket(t, fifo, snd) ==
  /\ CC2420_state = "PRE_TX"
  /\ CCAMayBeClear
  /\ \/ /\ phase' = Accepted
        /\ CC2420_state' = "TX"
        /\ SetTimer("TRANSMIT", t)
     \/ /\ phase = "rx"               \* the channel was lost again
        /\ UNCHANGED phase
        /\ CC2420_state' = "PRE_TX"
        /\ SetTimer("BACKOFF", t)
  /\ txfifo' = fifo /\ sending' = snd
  /\ UNCHANGED << count_retry, count_send_restart, send_done, buf >>

restarts_left_unsigned == count_send_restart >= 0   \* seeded fault
RestartsLeft == count_send_restart > 0

ChannelBusy(t, fifo, snd) ==
  /\ CC2420_state = "PRE_TX"
  /\ \/ /\ count_retry > 0
        /\ count_retry' = count_retry - 1
        /\ SetTimer("BACKOFF", t)
        /\ UNCHANGED << CC2420_state, count_send_restart, send_done, buf >>
     \/ /\ count_retry = 0
        /\ count_retry' = MAX_SEND_TRIES
        /\ count_send_restart' = (count_send_restart - 1) % 256
        /\ \/ /\ RestartsLeft
              /\ SetTimer("RESTART", t)
              /\ UNCHANGED << CC2420_state, send_done, buf >>
           \/ /\ ~RestartsLeft
              /\ CC2420_send_failed
              /\ timer' = t
              /\ UNCHANGED CC2420_timer_state
  /\ txfifo' = fifo /\ sending' = snd
  /\ UNCHANGED phase

FlushWhenIdle(t) ==
  /\ CC2420_state = "IDLE"
  /\ timer' = t
  /\ txfifo' = None /\ sending' = SendingAfterFlush
  /\ UNCHANGED << phase, txVars >>

CC2420_try_to_send(t, fifo, snd) ==
  \/ SendPacket(t, fifo, snd)
  \/ ChannelBusy(t, fifo, snd)
  \/ FlushWhenIdle(t)
  \/ /\ CC2420_state \notin {"PRE_TX", "IDLE"}
     /\ timer' = t
     /\ txfifo' = fifo /\ sending' = snd
     /\ UNCHANGED << phase, txVars >>

(* The flush strobe answers with a zero status: the send fails, and the    *)
(* try_to_send that follows finds the MAC idle and flushes the TXFIFO.     *)
StartSendFails(t) ==
  /\ CC2420_send_failed
  /\ timer' = t
  /\ txfifo' = None /\ sending' = SendingAfterFlush
  /\ UNCHANGED << phase, CC2420_timer_state, count_retry, count_send_restart >>

ack_always_due == TRUE   \* seeded fault: the state is not looked at
AckStillDue == CC2420_state = "POST_TX"

(* CC2420_timer_irq_handler, by the purpose the timer was set for. *)
TimerIrq ==
  LET t == timer_channel_check(timer) IN
  /\ timer.OSSR
  /\ \/ /\ CC2420_timer_state \in {"INITIAL", "RESTART"}
        /\ \/ StartSendFails(t)
           \/ CC2420_try_to_send(t, buf[tx_buf_ptr].dsn, SendingAfterFlush)
     \/ /\ CC2420_timer_state = "BACKOFF"
        /\ CC2420_try_to_send(t, txfifo, sending)
     \/ /\ CC2420_timer_state = "ACK" /\ AckStillDue
        /\ CC2420_packet_sent
        /\ timer' = t
        /\ UNCHANGED << txfifo, sending, phase, CC2420_timer_state,
                        count_retry, count_send_restart >>
     \/ /\ \/ CC2420_timer_state = "ACK" /\ ~AckStillDue
           \/ CC2420_timer_state = "TRANSMIT"
        /\ timer' = t
        /\ UNCHANGED << txfifo, sending, phase, txVars >>
  /\ UNCHANGED << on_air, rxSide, sfd_edge, fifop_edge, fifop_irq, sendVars,
                  rxVars, taskletVars, modeVars >>
-----------------------------------------------------------------------------
(* CC2420_irq_handler for the SFD pin. *)
WaitsForAck == is_ack_enable /\ buf[tx_buf_ptr].unicast

SfdIrq ==
  /\ sfd_edge
  /\ sfd_edge' = FALSE
  /\ \/ /\ CC2420_state = "TX" /\ TEST_SFD_PIN
        /\ CC2420_state' = "TX_WAIT"
        /\ SetTimer("TRANSMIT", timer)
        /\ UNCHANGED << send_done, buf >>
     \/ /\ \/ CC2420_state = "TX" /\ ~TEST_SFD_PIN
           \/ CC2420_state = "TX_WAIT"
        /\ \/ /\ WaitsForAck
              /\ CC2420_state' = "POST_TX"
              /\ SetTimer("ACK", timer)
              /\ UNCHANGED << send_done, buf >>
           \/ /\ ~WaitsForAck
              /\ CC2420_packet_sent
              /\ UNCHANGED << timer, CC2420_timer_state >>
     \/ /\ CC2420_state \in {"IDLE", "PRE_TX", "POST_TX"}
        /\ UNCHANGED << timer, CC2420_state, CC2420_timer_state, send_done, buf >>
  /\ UNCHANGED << txSide, rxSide, fifop_edge, fifop_irq, count_retry,
                  count_send_restart, sendVars, rxVars, taskletVars, modeVars >>

(* Effects of CC2420_flush_RXFIFO on the chip. *)
FlushRx == rx_fifo' = << >> /\ overflow' = FALSE /\ fifop' = FALSE

(* CC2420_irq_handler for the FIFOP pin.  With acknowledgements enabled it *)
(* first restarts a running backoff, so as not to disturb the ACK.         *)
FifopIrq ==
  /\ fifop_edge
  /\ fifop_edge' = FALSE
  /\ timer' = IF is_ack_enable /\ CC2420_state = "PRE_TX"
                  /\ timer_is_running(timer)
              THEN timer_start(timer_stop(timer)) ELSE timer
  /\ \/ /\ ~TEST_FIFO_PIN
        /\ FlushRx
        /\ fifop_irq' = "FALLING"
        /\ is_packet_receiving' = FALSE
        /\ CC2420_recv_failed
        /\ UNCHANGED << read_packet_tasklet, ok_to_read >>
     \/ /\ TEST_FIFO_PIN
        /\ read_packet_tasklet' = TRUE
        /\ fifop_irq' = "NOEDGE"
        /\ UNCHANGED << rxSide, rxVars, CC2420_state, send_done >>
  /\ UNCHANGED << txSide, sfd_edge, CC2420_timer_state, count_retry,
                  count_send_restart, buf, sendVars, tl_pc, tl_next, tl_state,
                  modeVars >>

(* An interrupt is taken before the code it interrupts goes on. *)
IrqPending == timer.OSSR \/ sfd_edge \/ fifop_edge
-----------------------------------------------------------------------------
(* The tasklet CC2420_read_packet. *)
TaskletStep(from) == tl_pc = from /\ ~IrqPending

TaskletUnchanged == UNCHANGED << timer, txSide, sfd_edge, fifop_edge, sendVars,
  modeVars, CC2420_timer_state, count_retry, count_send_restart >>

RxLength(f) == IF f.len + 1 < MSG_DATA_SIZE THEN f.len + 1 ELSE MSG_DATA_SIZE

(* Start: on an RXFIFO overflow flush and fail, ... *)
TaskletStarts == read_packet_tasklet /\ TaskletStep("idle")

TaskletOverflow ==
  /\ TaskletStarts
  /\ RxOverflow
  /\ read_packet_tasklet' = FALSE
  /\ tl_pc' = "flush"
  /\ tl_next' = "failed"
  /\ UNCHANGED << rxSide, fifop_irq, rxVars, CC2420_state, send_done, buf,
                  tl_state >>
  /\ TaskletUnchanged

NothingToRead == IF rx_fifo = << >> THEN TRUE ELSE Head(rx_fifo).len = 0

(* ... on a zero length byte, which an empty RXFIFO is taken to give too,  *)
(* likewise (the seeded fault returns at once and keeps the lock), ...     *)
read_nothing_and_return ==
  /\ TaskletStarts
  /\ ~RxOverflow /\ ~is_packet_receiving /\ NothingToRead
  /\ read_packet_tasklet' = FALSE
  /\ rx_buf' = [rx_buf EXCEPT !.length = 1]
  /\ rx_fifo' = IF rx_fifo = << >> THEN rx_fifo ELSE Tail(rx_fifo)
  /\ fifop' = FALSE
  /\ is_packet_receiving' = TRUE
  /\ tl_pc' = "failed"
  /\ UNCHANGED << overflow, fifop_irq, recv_done, ok_to_read, rx_packet,
                  CC2420_state, send_done, buf, tl_next, tl_state >>
  /\ TaskletUnchanged

TaskletReadsNothing ==
  /\ TaskletStarts
  /\ ~RxOverflow /\ ~is_packet_receiving /\ NothingToRead
  /\ read_packet_tasklet' = FALSE
  /\ rx_buf' = [rx_buf EXCEPT !.length = 1]
  /\ rx_fifo' = IF rx_fifo = << >> THEN rx_fifo ELSE Tail(rx_fifo)
  /\ fifop' = FALSE
  /\ tl_pc' = "flush"
  /\ tl_next' = "failed"
  /\ UNCHANGED << overflow, fifop_irq, recv_done, ok_to_read, rx_packet,
                  is_packet_receiving, CC2420_state, send_done, buf, tl_state >>
  /\ TaskletUnchanged

(* ... and else take the packet lock and read the first frame with its     *)
(* length byte.  If the lock were taken (ReceiverNotBusy: it never is) the *)
(* tasklet would schedule itself and go on with what rx_buf holds.         *)
CC2420_read_packet ==
  /\ TaskletStarts
  /\ ~RxOverflow /\ (is_packet_receiving \/ ~NothingToRead)
  /\ read_packet_tasklet' = is_packet_receiving
  /\ is_packet_receiving' = TRUE
  /\ rx_buf' = IF is_packet_receiving THEN rx_buf
               ELSE [length |-> RxLength(Head(rx_fifo)), frame |-> Head(rx_fifo)]
  /\ rx_fifo' = IF is_packet_receiving THEN rx_fifo ELSE Tail(rx_fifo)
  /\ fifop' = (fifop /\ is_packet_receiving)
  /\ tl_pc' = "flush"
  /\ tl_next' = "done"
  /\ UNCHANGED << overflow, fifop_irq, recv_done, ok_to_read, rx_packet,
                  CC2420_state, send_done, buf, tl_state >>
  /\ TaskletUnchanged

(* CC2420_flush_RXFIFO, in two steps: the interrupt type is NOEDGE while   *)
(* the FIFO is flushed, and an edge that comes before it is FALLING again  *)
(* is not latched.                                                         *)
TaskletFlush ==
  /\ TaskletStep("flush")
  /\ tl_pc' = "rearm"
  /\ fifop_irq' = "NOEDGE"
  /\ FlushRx
  /\ is_packet_receiving' = FALSE
  /\ UNCHANGED << recv_done, ok_to_read, rx_buf, rx_packet, CC2420_state,
                  send_done, buf, read_packet_tasklet, tl_next, tl_state >>
  /\ TaskletUnchanged

flush_leaves_masked ==   \* seeded fault
  /\ TaskletStep("rearm")
  /\ tl_pc' = tl_next
  /\ fifop_irq' = "NOEDGE"
  /\ UNCHANGED << rxSide, rxVars, CC2420_state, send_done, buf,
                  read_packet_tasklet, tl_next, tl_state >>
  /\ TaskletUnchanged

TaskletRearm ==
  /\ TaskletStep("rearm")
  /\ tl_pc' = tl_next
  /\ fifop_irq' = "FALLING"
  /\ UNCHANGED << rxSide, rxVars, CC2420_state, send_done, buf,
                  read_packet_tasklet, tl_next, tl_state >>
  /\ TaskletUnchanged

(* CC2420_RXFIFO_done reads the MAC state, tests for an overflow ... *)
CC2420_RXFIFO_done ==
  /\ TaskletStep("done")
  /\ tl_state' = CC2420_state
  /\ tl_pc' = IF RxOverflow THEN "flush" ELSE "process"
  /\ tl_next' = IF RxOverflow THEN "failed" ELSE tl_next
  /\ UNCHANGED << rxSide, fifop_irq, rxVars, CC2420_state, send_done, buf,
                  read_packet_tasklet >>
  /\ TaskletUnchanged

(* ... and decides on the state it read, an interrupt perhaps later: the   *)
(* frame acknowledges the packet being sent, ...                           *)
IsAck == /\ is_ack_enable /\ tl_state = "POST_TX"
         /\ rx_buf.frame.type = "ack" /\ rx_buf.frame.dsn = current_DSN
         /\ rx_buf.frame.crc

TaskletAck ==
  /\ TaskletStep("process")
  /\ IsAck
  /\ is_packet_receiving' = FALSE
  /\ CC2420_packet_sent
  /\ tl_pc' = "idle"
  /\ UNCHANGED << rxSide, fifop_irq, recv_done, ok_to_read, rx_buf, rx_packet,
                  read_packet_tasklet, tl_next, tl_state >>
  /\ TaskletUnchanged

(* ... or it is passed on whole: CC2420_packet_rcvd copies rx_buf to the   *)
(* one mailbox rx_packet and tells the reader.  (The payload length is     *)
(* given with two seeded faults.)                                          *)
payload_without_floor(l) == l - (MSG_HEADER_SIZE + MSG_FOOTER_SIZE + 1)
payload_with_length_byte(l) == IF l < MSG_HEADER_SIZE + MSG_FOOTER_SIZE THEN 0
                               ELSE l - (MSG_HEADER_SIZE + MSG_FOOTER_SIZE)
PayloadLength(l) == IF l < MSG_HEADER_SIZE + MSG_FOOTER_SIZE + 1 THEN 0
                    ELSE l - (MSG_HEADER_SIZE + MSG_FOOTER_SIZE + 1)

CC2420_packet_rcvd ==
  /\ TaskletStep("process")
  /\ ~IsAck
  /\ rx_packet' = [rx_buf EXCEPT !.length = PayloadLength(@)]
  /\ rx_buf' = [rx_buf EXCEPT !.length = 0]
  /\ is_packet_receiving' = FALSE
  /\ recv_done' = (recv_done \/ ~non_blocking_mode)
  /\ ok_to_read' = (ok_to_read \/ non_blocking_mode)
  /\ tl_pc' = "tail"
  /\ UNCHANGED << rxSide, fifop_irq, CC2420_state, send_done, buf,
                  read_packet_tasklet, tl_next, tl_state >>
  /\ TaskletUnchanged

(* The tail: another frame came meanwhile (run again), or there is none or *)
(* an overflow (flush).                                                    *)
TaskletTail ==
  /\ TaskletStep("tail")
  /\ \/ /\ ~RxOverflow /\ ~TEST_FIFOP_PIN
        /\ read_packet_tasklet' = TRUE
        /\ tl_pc' = "idle"
        /\ UNCHANGED tl_next
     \/ /\ RxOverflow \/ TEST_FIFOP_PIN
        /\ tl_pc' = "flush"
        /\ tl_next' = "idle"
        /\ UNCHANGED read_packet_tasklet
  /\ UNCHANGED << rxSide, fifop_irq, rxVars, CC2420_state, send_done, buf,
                  tl_state >>
  /\ TaskletUnchanged

(* The flush has released the lock already. *)
TaskletFailed ==
  /\ TaskletStep("failed")
  /\ CC2420_recv_failed
  /\ tl_pc' = "idle"
  /\ UNCHANGED << rxSide, fifop_irq, ok_to_read, is_packet_receiving, buf,
                  read_packet_tasklet, tl_next, tl_state >>
  /\ TaskletUnchanged

Tasklet == \/ TaskletOverflow \/ TaskletReadsNothing
           \/ CC2420_read_packet \/ TaskletFlush \/ TaskletRearm
           \/ CC2420_RXFIFO_done \/ TaskletAck \/ CC2420_packet_rcvd
           \/ TaskletTail \/ TaskletFailed
=============================================================================
