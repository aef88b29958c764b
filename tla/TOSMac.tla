------------------------------- MODULE TOSMac -------------------------------
(***************************************************************************)
(* The character device /dev/tosmac (src/tosmac/TOSMac.c) on top of the    *)
(* MAC, and the whole driver as a system: processes that open, write and   *)
(* read, the interrupt handlers, the tasklet and the radio.                *)
(*                                                                         *)
(* There is one CPU.  Interrupts preempt everything; a tasklet that has    *)
(* started runs to its end before a process goes on, one that is scheduled *)
(* may be put off to ksoftirqd.  The kernel is preemptible, so processes   *)
(* interleave at every access to the state they share.  dev->sem is not    *)
(* held (its down and up are commented out in tosmac_write).               *)
(***************************************************************************)
EXTENDS CC2420

CONSTANTS
  Writers, Readers,   \* the processes that write and those that read
  Counts,             \* the byte counts they write
  Unicast,            \* set of BOOLEAN: is the packet addressed to one node
  Signals,            \* set of processes a signal may interrupt
  OpenFlags,          \* set of BOOLEAN: O_NONBLOCK in the opens still to come
  AckModes,           \* set of BOOLEAN: the auto-ACK ioctls still to come
  Slow                \* the software that may lag behind the hardware:
                      \*   "send": a timer interval may end while a process
                      \*      is setting up a send in CC2420_send;
                      \*   "tasklet": a frame may arrive before the tasklet
                      \*      is through with the one before it;
                      \*   "interrupt": a pin may change again before the
                      \*      interrupt for its last edge is taken

ASSUME DeviceAssumption ==
  /\ Counts \subseteq Nat
  /\ Unicast \subseteq BOOLEAN /\ OpenFlags \subseteq BOOLEAN
  /\ AckModes \subseteq BOOLEAN
  /\ Slow \subseteq {"send", "tasklet", "interrupt"}

VARIABLES
  heap,       \* the addresses allocated
  w_pc, w_buf, w_ret,
  r_pc, r_ret

procVars == << heap, w_pc, w_buf, w_ret, r_pc, r_ret >>
vars == << timer, radioVars, txVars, sendVars, rxVars, taskletVars, modeVars,
           procVars >>

ProcTypeOK ==
  /\ heap \in SUBSET Bufs
  /\ w_pc \in [Writers -> {"idle", "setup", "pre_tx", "timer", "arm", "wait",
                           "clear", "sent", "failed"}]
  /\ w_buf \in [Writers -> Bufs \cup {None}]
  /\ w_ret \in [Writers -> {"none", "ok", "EFAULT"}]
  /\ r_pc \in [Readers -> {"idle", "wait", "clear", "check", "copy"}]
  /\ r_ret \in [Readers -> {"none", "ok", "EFAULT", "EAGAIN"}]

Init ==
  /\ CC2420_init
  /\ heap = {}
  /\ w_pc = [w \in Writers |-> "idle"]
  /\ w_buf = [w \in Writers |-> None]
  /\ w_ret = [w \in Writers |-> "none"]
  /\ r_pc = [r \in Readers |-> "idle"]
  /\ r_ret = [r \in Readers |-> "none"]
-----------------------------------------------------------------------------
ProcessRuns == ~IrqPending /\ tl_pc = "idle"

WriterStep(w, from, to) ==
  /\ ProcessRuns
  /\ w_pc[w] = from
  /\ w_pc' = [w_pc EXCEPT ![w] = to]

WriterUnchanged == UNCHANGED << phase, txfifo, sending, rxSide, sfd_edge,
  fifop_edge, fifop_irq, rxVars, taskletVars, modeVars, r_pc, r_ret >>

AtMost(n, m) == IF n < m THEN n ELSE m

(* tosmac_write: allocate the packet, clamp the count, call CC2420_send,   *)
(* which refuses unless the MAC is idle.                                   *)
tosmac_write(w, b, count, uni) ==
  /\ WriterStep(w, "idle", IF CC2420_state = "IDLE" THEN "setup" ELSE "failed")
  /\ b \notin heap
  /\ heap' = heap \cup {b}
  /\ buf' = [buf EXCEPT ![b].length = AtMost(count, TOSH_DATA_LENGTH),
                        ![b].unicast = uni]
  /\ w_buf' = [w_buf EXCEPT ![w] = b]
  /\ w_ret' = [w_ret EXCEPT ![w] = "none"]
  /\ UNCHANGED << timer, on_air, CC2420_state, CC2420_timer_state, count_retry,
                  count_send_restart, send_done, sendVars >>
  /\ WriterUnchanged

(* CC2420_send: number the packet, give its length the header and footer,  *)
(* make it the packet being sent, ...                                      *)
FullLength(n) == AtMost(n + MSG_HEADER_SIZE + MSG_FOOTER_SIZE + 1, MSG_DATA_SIZE) - 1

pointer_not_set(w) ==   \* seeded fault
  /\ WriterStep(w, "setup", "pre_tx")
  /\ current_DSN' = (current_DSN + 1) % DSN_SPACE
  /\ on_air' = on_air \ {current_DSN'}
  /\ buf' = [buf EXCEPT ![w_buf[w]].dsn = current_DSN',
                        ![w_buf[w]].length = FullLength(@)]
  /\ count_retry' = MAX_SEND_TRIES
  /\ count_send_restart' = MAX_RESTART_TRIES
  /\ UNCHANGED << tx_buf_ptr, timer, CC2420_state, CC2420_timer_state, send_done, heap,
                  w_buf, w_ret >>
  /\ WriterUnchanged

SendSetup(w) ==
  /\ WriterStep(w, "setup", "pre_tx")
  /\ current_DSN' = (current_DSN + 1) % DSN_SPACE
  /\ on_air' = on_air \ {current_DSN'}
  /\ buf' = [buf EXCEPT ![w_buf[w]].dsn = current_DSN',
                        ![w_buf[w]].length = FullLength(@)]
  /\ tx_buf_ptr' = w_buf[w]
  /\ count_retry' = MAX_SEND_TRIES
  /\ count_send_restart' = MAX_RESTART_TRIES
  /\ UNCHANGED << timer, CC2420_state, CC2420_timer_state, send_done, heap,
                  w_buf, w_ret >>
  /\ WriterUnchanged

(* ... enter PRE_TX ... *)
SendPreTx(w) ==
  /\ WriterStep(w, "pre_tx", "timer")
  /\ CC2420_state' = "PRE_TX"
  /\ UNCHANGED << timer, on_air, CC2420_timer_state, count_retry,
                  count_send_restart, send_done, buf, sendVars, heap, w_buf,
                  w_ret >>
  /\ WriterUnchanged

(* ... and start the initial backoff: CC2420_set_initial_timer first sets  *)
(* the purpose of the timer, then starts it.                               *)
SetInitialTimer(w) ==
  /\ WriterStep(w, "timer", "arm")
  /\ CC2420_timer_state' = "INITIAL"
  /\ UNCHANGED << timer, on_air, CC2420_state, count_retry,
                  count_send_restart, send_done, buf, sendVars, heap, w_buf,
                  w_ret >>
  /\ WriterUnchanged

StartInitialTimer(w) ==
  /\ WriterStep(w, "arm", "wait")
  /\ timer' = timer_start(timer)
  /\ UNCHANGED << on_air, txVars, sendVars, heap, w_buf, w_ret >>
  /\ WriterUnchanged

(* wait_event_interruptible(wq, send_done == 1) ends, or a signal does it. *)
SendWaitEnds(w) ==
  /\ WriterStep(w, "wait", "clear")
  /\ send_done
  /\ UNCHANGED << timer, on_air, txVars, sendVars, heap, w_buf, w_ret >>
  /\ WriterUnchanged

SendSignalled(w) ==
  /\ w \in Signals
  /\ WriterStep(w, "wait", "failed")
  /\ CC2420_state' = "IDLE"
  /\ send_done' = TRUE
  /\ UNCHANGED << timer, on_air, CC2420_timer_state, count_retry,
                  count_send_restart, buf, sendVars, heap, w_buf, w_ret >>
  /\ WriterUnchanged

send_done_kept(w) ==   \* seeded fault
  /\ WriterStep(w, "clear", "sent")
  /\ UNCHANGED << timer, on_air, txVars, sendVars, heap, w_buf, w_ret >>
  /\ WriterUnchanged

SendClears(w) ==
  /\ WriterStep(w, "clear", "sent")
  /\ send_done' = FALSE
  /\ UNCHANGED << timer, on_air, CC2420_state, CC2420_timer_state, count_retry,
                  count_send_restart, buf, sendVars, heap, w_buf, w_ret >>
  /\ WriterUnchanged

(* Back in tosmac_write: the result, from the packet tx_buf_ptr points to  *)
(* by now, and kfree.                                                      *)
WriteReturns(w) ==
  /\ \/ /\ WriterStep(w, "sent", "idle")
        /\ w_ret' = [w_ret EXCEPT ![w] =
             IF buf[tx_buf_ptr].length # INVALID THEN "ok" ELSE "EFAULT"]
     \/ /\ WriterStep(w, "failed", "idle")
        /\ w_ret' = [w_ret EXCEPT ![w] = "EFAULT"]
  /\ heap' = heap \ {w_buf[w]}
  /\ w_buf' = [w_buf EXCEPT ![w] = None]
  /\ UNCHANGED << timer, on_air, txVars, sendVars >>
  /\ WriterUnchanged

WriterGoesOn(w) ==
  \/ SendSetup(w) \/ SendPreTx(w) \/ SetInitialTimer(w) \/ StartInitialTimer(w)
  \/ SendWaitEnds(w) \/ SendClears(w) \/ WriteReturns(w)

Writer(w) ==
  \/ \E b \in Bufs, count \in Counts, uni \in Unicast :
       tosmac_write(w, b, count, uni)
  \/ WriterGoesOn(w)
  \/ SendSignalled(w)
-----------------------------------------------------------------------------
ReaderStep(r, from, to) ==
  /\ ProcessRuns
  /\ r_pc[r] = from
  /\ r_pc' = [r_pc EXCEPT ![r] = to]

ReaderUnchanged == UNCHANGED << timer, radioVars, txVars, sendVars,
  is_packet_receiving, rx_buf, rx_packet, taskletVars, modeVars, heap, w_pc,
  w_buf, w_ret >>

(* tosmac_read calls CC2420_read, which waits, or in non-blocking mode     *)
(* takes ok_to_read or gives up.                                           *)
tosmac_read(r) ==
  /\ \/ /\ ~non_blocking_mode
        /\ ReaderStep(r, "idle", "wait")
        /\ r_ret' = [r_ret EXCEPT ![r] = "none"]
        /\ UNCHANGED ok_to_read
     \/ /\ non_blocking_mode /\ ok_to_read
        /\ ReaderStep(r, "idle", "check")
        /\ r_ret' = [r_ret EXCEPT ![r] = "none"]
        /\ ok_to_read' = FALSE
     \/ /\ non_blocking_mode /\ ~ok_to_read
        /\ ReaderStep(r, "idle", "idle")
        /\ r_ret' = [r_ret EXCEPT ![r] = "EAGAIN"]
        /\ UNCHANGED ok_to_read
  /\ UNCHANGED recv_done
  /\ ReaderUnchanged

(* The result of the wait is not looked at: a signal ends it the same way. *)
ReadWaitEnds(r) ==
  /\ recv_done
  /\ ReaderStep(r, "wait", "clear")
  /\ UNCHANGED << r_ret, recv_done, ok_to_read >>
  /\ ReaderUnchanged

ReadSignalled(r) ==
  /\ r \in Signals
  /\ ReaderStep(r, "wait", "clear")
  /\ UNCHANGED << r_ret, recv_done, ok_to_read >>
  /\ ReaderUnchanged

ReadClears(r) ==
  /\ ReaderStep(r, "clear", "check")
  /\ recv_done' = FALSE
  /\ UNCHANGED << r_ret, ok_to_read >>
  /\ ReaderUnchanged

(* tosmac_read refuses the invalid length, then copies the mailbox out. *)
ReadChecks(r) ==
  /\ \/ /\ rx_packet.length # INVALID
        /\ ReaderStep(r, "check", "copy")
        /\ UNCHANGED r_ret
     \/ /\ rx_packet.length = INVALID
        /\ ReaderStep(r, "check", "idle")
        /\ r_ret' = [r_ret EXCEPT ![r] = "EFAULT"]
  /\ UNCHANGED << recv_done, ok_to_read >>
  /\ ReaderUnchanged

ReadCopies(r) ==
  /\ ReaderStep(r, "copy", "idle")
  /\ r_ret' = [r_ret EXCEPT ![r] = "ok"]
  /\ UNCHANGED << recv_done, ok_to_read >>
  /\ ReaderUnchanged

ReaderGoesOn(r) == ReadWaitEnds(r) \/ ReadClears(r) \/ ReadChecks(r) \/ ReadCopies(r)

Reader(r) == tosmac_read(r) \/ ReaderGoesOn(r) \/ ReadSignalled(r)
-----------------------------------------------------------------------------
(* tosmac_open: the mode is one global of the driver, not of the file. *)
tosmac_open(nonblock) ==
  /\ ProcessRuns
  /\ non_blocking_mode' = nonblock
  /\ ok_to_read' = (ok_to_read /\ ~nonblock)
  /\ UNCHANGED << timer, radioVars, txVars, sendVars, recv_done,
                  is_packet_receiving, rx_buf, rx_packet, taskletVars,
                  is_ack_enable, procVars >>

(* tosmac_ioctl, TOSMAC_IOAUTOACK and TOSMAC_IODISAUTOACK. *)
tosmac_ioctl_ack(on) ==
  /\ ProcessRuns
  /\ is_ack_enable' = on
  /\ UNCHANGED << timer, radioVars, txVars, sendVars, rxVars, taskletVars,
                  non_blocking_mode, procVars >>

Processes == \/ \E w \in Writers : Writer(w)
             \/ \E r \in Readers : Reader(r)
             \/ \E nonblock \in OpenFlags : tosmac_open(nonblock)
             \/ \E on \in AckModes : tosmac_ioctl_ack(on)

(* Interrupts and tasklet, in the system. *)
Timer == TimerIrq /\ UNCHANGED procVars
Sfd == SfdIrq /\ UNCHANGED procVars
Fifop == FifopIrq /\ UNCHANGED procVars
BottomHalf == Tasklet /\ UNCHANGED << on_air, procVars >>

(* The hardware. *)
SettingUp == \E w \in Writers : w_pc[w] \in {"setup", "pre_tx", "timer", "arm"}

driverVars == << txVars, sendVars, rxVars, taskletVars, modeVars, procVars >>

Clock == /\ "send" \in Slow \/ ~SettingUp
         /\ TimerMatch
         /\ UNCHANGED << radioVars, driverVars >>

EdgesTaken == "interrupt" \in Slow \/ ~(sfd_edge \/ fifop_edge)

RadioSends == /\ EdgesTaken
              /\ TxSfdRise \/ TxSfdFall
              /\ UNCHANGED << timer, driverVars >>

RxBottomHalfBusy == fifop_edge \/ read_packet_tasklet \/ tl_pc # "idle"

RadioReceives == /\ EdgesTaken
                 /\ \/ RxSfdRise
                    \/ /\ "tasklet" \in Slow \/ ~RxBottomHalfBusy
                       /\ \E f \in RxFrames : RxFrameEnd(f)
                 /\ UNCHANGED << timer, driverVars >>

Next == \/ Processes \/ Timer \/ Sfd \/ Fifop \/ BottomHalf
        \/ Clock \/ RadioSends \/ RadioReceives

Spec == Init /\ [][Next]_vars

TypeOK == TimerTypeOK /\ RadioTypeOK /\ MacTypeOK /\ ProcTypeOK
=============================================================================
