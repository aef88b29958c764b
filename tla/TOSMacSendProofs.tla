-------------------------- MODULE TOSMacSendProofs --------------------------
(***************************************************************************)
(* The send path, for every set of frames, every bound, with signals,      *)
(* readers and acknowledgements: most of it with at most one writer, the   *)
(* backoff with any number of them and no acknowledgements.                *)
(***************************************************************************)
EXTENDS TOSMacTypeProofs

OneWriter == \A v, w \in Writers : v = w

InRange == count_retry =< MAX_SEND_TRIES /\ count_send_restart =< MAX_RESTART_TRIES

(* The writer that prepares a send finds the MAC idle until it enters      *)
(* PRE_TX, and from then on the MAC is not idle or send_done is set.       *)
SendInv ==
  /\ CountersInRange
  /\ \A w \in Writers :
       /\ w_pc[w] \in {"setup", "pre_tx"} => CC2420_state = "IDLE"
       /\ w_pc[w] = "pre_tx" => InRange
       /\ w_pc[w] \in {"timer", "arm", "wait"} => send_done \/ CC2420_state # "IDLE"

(* What an interrupt, the tasklet or the hardware does to a send: it does  *)
(* not start one, ends it only with send_done set, and uses the retry      *)
(* counters only while it lasts.                                           *)
SendEffect ==
  /\ UNCHANGED w_pc
  /\ send_done => send_done'
  /\ CC2420_state' = "IDLE" => send_done' \/ CC2420_state = "IDLE"
  /\ CC2420_state = "IDLE" => CC2420_state' = "IDLE"
  /\ CC2420_state = "IDLE" => UNCHANGED << count_retry, count_send_restart >>
  /\ CC2420_state' # "IDLE" /\ InRange => InRange'

LEMMA TryToSendEffect ==
  ASSUME TypeInv, NEW t, NEW fifo, NEW snd, CC2420_try_to_send(t, fifo, snd),
         UNCHANGED w_pc
  PROVE  SendEffect
<1>1. /\ MAX_SEND_TRIES \in Nat /\ MAX_RESTART_TRIES \in Nat
      /\ count_retry \in Nat /\ count_send_restart \in Nat
  BY MacAssumption DEF MacAssumption, TypeInv, TypeOK, MacTypeOK, UInt8
<1>2. CASE SendPacket(t, fifo, snd)
  BY <1>2 DEF SendPacket, SendEffect, InRange
<1>3. CASE ChannelBusy(t, fifo, snd)
  BY <1>1, <1>3 DEF ChannelBusy, RestartsLeft, CC2420_send_failed, SendEffect, InRange
<1>4. CASE FlushWhenIdle(t) \/ UNCHANGED txVars
  BY <1>4 DEF FlushWhenIdle, txVars, SendEffect, InRange
<1> QED BY <1>2, <1>3, <1>4 DEF CC2420_try_to_send

LEMMA TimerEffect == ASSUME TypeInv, Timer PROVE SendEffect
<1>1. UNCHANGED w_pc
  BY DEF Timer, procVars
<1>2. ASSUME NEW t, StartSendFails(t) PROVE SendEffect
  BY <1>1, <1>2 DEF StartSendFails, CC2420_send_failed, SendEffect, InRange
<1>3. ASSUME AckStillDue, CC2420_packet_sent,
             UNCHANGED << count_retry, count_send_restart >>
      PROVE  SendEffect
  BY <1>1, <1>3 DEF AckStillDue, CC2420_packet_sent, SendEffect, InRange
<1>4. ASSUME UNCHANGED txVars PROVE SendEffect
  BY <1>1, <1>4 DEF txVars, SendEffect, InRange
<1> QED BY <1>1, <1>2, <1>3, <1>4, TryToSendEffect DEF Timer, TimerIrq

LEMMA IrqEffect ==
  ASSUME TypeInv, Sfd \/ Fifop \/ BottomHalf \/ Clock \/ RadioSends \/ RadioReceives
  PROVE  SendEffect
<1> USE DEF SendEffect, InRange
<1>1. CASE Sfd
  BY <1>1 DEF Sfd, SfdIrq, CC2420_packet_sent, procVars
<1>2. CASE Fifop
  BY <1>2 DEF Fifop, FifopIrq, CC2420_recv_failed, procVars
<1>3. CASE BottomHalf
  <2>1. UNCHANGED << w_pc, count_retry, count_send_restart >>
    BY <1>3 DEF BottomHalf, procVars, Tasklet, TaskletUnchanged, TaskletOverflow,
       TaskletReadsNothing, CC2420_read_packet, TaskletFlush, TaskletRearm,
       CC2420_RXFIFO_done, TaskletAck, CC2420_packet_rcvd, TaskletTail,
       TaskletFailed
  <2>2. CASE TaskletAck \/ TaskletFailed
    BY <2>1, <2>2 DEF TaskletAck, TaskletFailed, CC2420_packet_sent,
       CC2420_recv_failed
  <2>3. CASE UNCHANGED << CC2420_state, send_done >>
    BY <2>1, <2>3
  <2> QED BY <1>3, <2>2, <2>3 DEF BottomHalf, Tasklet, TaskletOverflow,
          TaskletReadsNothing, CC2420_read_packet, TaskletFlush, TaskletRearm,
          CC2420_RXFIFO_done, CC2420_packet_rcvd, TaskletTail
<1>4. CASE Clock \/ RadioSends \/ RadioReceives
  BY <1>4 DEF Clock, RadioSends, RadioReceives, driverVars, txVars, procVars
<1> QED BY <1>1, <1>2, <1>3, <1>4

LEMMA EffectSendInv == ASSUME SendInv, SendEffect PROVE SendInv'
  BY DEF SendInv, SendEffect, CountersInRange, InRange

LEMMA WriterSendInv ==
  ASSUME OneWriter, TypeInv, SendInv, NEW w \in Writers, Writer(w)
  PROVE  SendInv'
<1>0. MAX_SEND_TRIES \in Nat /\ MAX_RESTART_TRIES \in Nat
  BY MacAssumption DEF MacAssumption
<1>1. Writers = {w}
  BY DEF OneWriter
<1>2. w_pc \in [Writers -> {"idle", "setup", "pre_tx", "timer", "arm", "wait",
                            "clear", "sent", "failed"}]
  BY DEF TypeInv, TypeOK, ProcTypeOK
<1> USE <1>0, <1>1, <1>2 DEF SendInv, CountersInRange, InRange, WriterStep, WriterUnchanged
<1>3. ASSUME NEW b, NEW count, NEW uni, tosmac_write(w, b, count, uni) PROVE SendInv'
  BY <1>3 DEF tosmac_write
<1>4. CASE SendSetup(w)
  BY <1>4 DEF SendSetup
<1>5. CASE SendPreTx(w)
  BY <1>5 DEF SendPreTx
<1>6. CASE SetInitialTimer(w)
  BY <1>6 DEF SetInitialTimer
<1>7. CASE StartInitialTimer(w)
  BY <1>7 DEF StartInitialTimer, txVars
<1>8. CASE SendWaitEnds(w)
  BY <1>8 DEF SendWaitEnds, txVars
<1>9. CASE SendSignalled(w)
  BY <1>9 DEF SendSignalled
<1>10. CASE SendClears(w)
  BY <1>10 DEF SendClears
<1>11. CASE WriteReturns(w)
  BY <1>11 DEF WriteReturns, txVars
<1> QED BY <1>3, <1>4, <1>5, <1>6, <1>7, <1>8, <1>9, <1>10, <1>11
        DEF Writer, WriterGoesOn

LEMMA OtherProcessEffect ==
  ASSUME \/ \E r \in Readers : Reader(r)
         \/ \E nonblock \in OpenFlags : tosmac_open(nonblock)
         \/ \E on \in AckModes : tosmac_ioctl_ack(on)
  PROVE  SendEffect
<1>1. ASSUME NEW r \in Readers, Reader(r) PROVE UNCHANGED << w_pc, txVars >>
  BY <1>1 DEF Reader, ReaderGoesOn, tosmac_read, ReadWaitEnds, ReadSignalled,
     ReadClears, ReadChecks, ReadCopies, ReaderUnchanged
<1>2. UNCHANGED << w_pc, txVars >>
  BY <1>1 DEF tosmac_open, tosmac_ioctl_ack, procVars
<1> QED BY <1>2 DEF SendEffect, InRange, txVars

LEMMA SendInvInductive == LoadedAtRest /\ OneWriter => (Init /\ [][Next]_vars => []SendInv)
<1> SUFFICES ASSUME LoadedAtRest, OneWriter PROVE Init /\ [][Next]_vars => []SendInv
  OBVIOUS
<1>1. Init => SendInv
  BY DEF Init, CC2420_init, SendInv, CountersInRange
<1>2. TypeInv /\ SendInv /\ [Next]_vars => SendInv'
  <2> SUFFICES ASSUME TypeInv, SendInv, [Next]_vars PROVE SendInv'
    OBVIOUS
  <2>1. CASE Processes
    BY <2>1, WriterSendInv, OtherProcessEffect, EffectSendInv DEF Processes
  <2>2. CASE Timer \/ Sfd \/ Fifop \/ BottomHalf \/ Clock \/ RadioSends \/ RadioReceives
    BY <2>2, TimerEffect, IrqEffect, EffectSendInv
  <2>3. CASE UNCHANGED vars
    BY <2>3, EffectSendInv DEF vars, txVars, procVars, SendEffect, InRange
  <2> QED BY <2>1, <2>2, <2>3 DEF Next
<1> QED BY <1>1, <1>2, TypeInvInductive, PTL

(* A lone writer is never left asleep by a send that has ended, whatever   *)
(* ended it: CC2420_recv_failed and a signal set send_done too.            *)
THEOREM LoneWriterNotStranded == LoadedAtRest /\ OneWriter => (Spec => []WriterNotStranded)
<1>1. SendInv => WriterNotStranded
  BY DEF SendInv, WriterNotStranded
<1> QED BY <1>1, SendInvInductive, PTL DEF Spec

(* With one writer the retry counters are used only in their range: they   *)
(* wrap when the last restart fails, but the send ends in the same step    *)
(* and the next one sets them anew before it enters PRE_TX.                *)
THEOREM LoneWriterCounters == LoadedAtRest /\ OneWriter => (Spec => []CountersInRange)
<1>1. SendInv => CountersInRange
  BY DEF SendInv
<1> QED BY <1>1, SendInvInductive, PTL DEF Spec
-----------------------------------------------------------------------------
(* The transmit loop.  No timer interrupt is pending while a send is set   *)
(* up, the timer of a backoff is never taken for one of another purpose,   *)
(* and a reception cannot start while an SFD edge of a transmission waits. *)
InTime == {"send", "interrupt"} \cap Slow = {}

Purposes == {"INITIAL", "BACKOFF", "RESTART"}

LoopInv ==
  /\ \A w \in Writers :
       /\ w_pc[w] \in {"setup", "pre_tx"} => CC2420_state = "IDLE"
       /\ w_pc[w] \in {"setup", "pre_tx", "timer", "arm"} => ~timer.OSSR
       /\ w_pc[w] \in {"timer", "arm"} => CC2420_state \in {"PRE_TX", "IDLE"}
       /\ w_pc[w] = "arm" => CC2420_timer_state = "INITIAL"
  /\ CC2420_state = "PRE_TX" =>
       \/ \E w \in Writers : w_pc[w] \in {"timer", "arm"}
       \/ TimerWillFire /\ CC2420_timer_state \in Purposes
  /\ CC2420_state \in {"TX", "TX_WAIT"} =>
       phase \in {"calib", "frame"} \/ (phase = "rx" /\ sfd_edge)
  /\ CC2420_state = "POST_TX" => TimerWillFire /\ CC2420_timer_state = "ACK"

(* The type facts the steps below need. *)
LEMMA LoopTypes ==
  ASSUME TypeInv
  PROVE  /\ timer \in TimerType
         /\ phase \in {"rx", "receiving", "calib", "frame"}
         /\ CC2420_state \in MacStates /\ CC2420_timer_state \in TimerStates
  BY DEF TypeInv, TypeOK, TimerTypeOK, RadioTypeOK, MacTypeOK

LEMMA WriterLoopInv ==
  ASSUME OneWriter, TypeInv, LoopInv, NEW w \in Writers, Writer(w)
  PROVE  LoopInv'
<1>1. Writers = {w}
  BY DEF OneWriter
<1>2. w_pc \in [Writers -> {"idle", "setup", "pre_tx", "timer", "arm", "wait",
                            "clear", "sent", "failed"}]
  BY DEF TypeInv, TypeOK, ProcTypeOK
<1> USE <1>1, <1>2, LoopTypes DEF LoopInv, TimerWillFire, Purposes, WriterStep,
      WriterUnchanged, ProcessRuns, IrqPending
<1>3. ASSUME NEW b, NEW count, NEW uni, tosmac_write(w, b, count, uni) PROVE LoopInv'
  BY <1>3 DEF tosmac_write
<1>4. CASE SendSetup(w)
  BY <1>4 DEF SendSetup
<1>5. CASE SendPreTx(w)
  BY <1>5 DEF SendPreTx
<1>6. CASE SetInitialTimer(w)
  BY <1>6 DEF SetInitialTimer
<1>7. CASE StartInitialTimer(w)
  BY <1>7, TimerOps DEF StartInitialTimer, txVars
<1>8. CASE SendWaitEnds(w)
  BY <1>8 DEF SendWaitEnds, txVars
<1>9. CASE SendSignalled(w)
  BY <1>9 DEF SendSignalled
<1>10. CASE SendClears(w)
  BY <1>10 DEF SendClears
<1>11. CASE WriteReturns(w)
  BY <1>11 DEF WriteReturns, txVars
<1> QED BY <1>3, <1>4, <1>5, <1>6, <1>7, <1>8, <1>9, <1>10, <1>11
        DEF Writer, WriterGoesOn

(* After the timer interrupt of a backoff the MAC is idle, has started the *)
(* timer again, or has handed the frame to the radio.                      *)
LEMMA TryToSendLoop ==
  ASSUME TypeInv, LoopInv, CC2420_state \in {"PRE_TX", "IDLE"},
         NEW t \in TimerType, NEW fifo, NEW snd,
         CC2420_try_to_send(t, fifo, snd)
  PROVE  \/ CC2420_state' = "IDLE"
         \/ /\ CC2420_state' = "PRE_TX" /\ timer'.OIER
            /\ CC2420_timer_state' \in Purposes
         \/ CC2420_state' = "TX" /\ phase' \in {"calib", "frame"}
<1> USE LoopTypes, TimerOps DEF SetTimer, Purposes
<1>1. CASE SendPacket(t, fifo, snd)
  BY <1>1 DEF SendPacket, CCAMayBeClear, Accepted
<1>2. CASE ChannelBusy(t, fifo, snd)
  BY <1>2 DEF ChannelBusy, CC2420_send_failed
<1>3. CASE FlushWhenIdle(t)
  BY <1>3 DEF FlushWhenIdle, txVars
<1> QED BY <1>1, <1>2, <1>3 DEF CC2420_try_to_send

LEMMA TimerLoopInv ==
  ASSUME TypeInv, LoopInv, Timer
  PROVE  LoopInv'
<1> DEFINE t == timer_channel_check(timer)
<1> USE LoopTypes
<1>1. timer.OSSR /\ UNCHANGED << w_pc, sfd_edge >>
      /\ t \in TimerType /\ ~t.OSSR /\ ~t.OIER
  BY TimerOps DEF Timer, TimerIrq, procVars
<1> HIDE DEF t
<1>2. \A w \in Writers : w_pc[w] \notin {"setup", "pre_tx", "timer", "arm"}
  BY <1>1 DEF LoopInv
<1>3. SUFFICES \/ CC2420_state' = "IDLE"
               \/ /\ CC2420_state' = "PRE_TX" /\ timer'.OIER
                  /\ CC2420_timer_state' \in Purposes
               \/ /\ CC2420_state' \in {"TX", "TX_WAIT"}
                  /\ \/ phase' \in {"calib", "frame"}
                     \/ phase' = "rx" /\ sfd_edge'
  <2>1. \A w \in Writers : w_pc'[w] \notin {"setup", "pre_tx", "timer", "arm"}
    BY <1>1, <1>2
  <2>2. CASE CC2420_state' = "IDLE"
    BY <2>1, <2>2 DEF LoopInv
  <2>3. CASE /\ CC2420_state' = "PRE_TX" /\ timer'.OIER
             /\ CC2420_timer_state' \in Purposes
    BY <2>1, <2>3 DEF LoopInv, TimerWillFire
  <2>4. CASE /\ CC2420_state' \in {"TX", "TX_WAIT"}
             /\ \/ phase' \in {"calib", "frame"}
                \/ phase' = "rx" /\ sfd_edge'
    BY <2>1, <2>4 DEF LoopInv
  <2> QED BY <1>3, <2>2, <2>3, <2>4
<1>4. CASE CC2420_state \in {"PRE_TX", "IDLE"}
  <2>1. ASSUME NEW fifo, NEW snd, CC2420_try_to_send(t, fifo, snd)
        PROVE \/ CC2420_state' = "IDLE"
              \/ /\ CC2420_state' = "PRE_TX" /\ timer'.OIER
                 /\ CC2420_timer_state' \in Purposes
              \/ CC2420_state' = "TX" /\ phase' \in {"calib", "frame"}
    BY <1>1, <1>4, <2>1, TryToSendLoop
  <2>2. ASSUME StartSendFails(t) PROVE CC2420_state' = "IDLE"
    BY <2>2 DEF StartSendFails, CC2420_send_failed
  <2>3. CC2420_state = "PRE_TX" => CC2420_timer_state \in Purposes
    BY <1>2 DEF LoopInv
  <2>4. ~AckStillDue
    BY <1>4 DEF AckStillDue
  <2> QED BY <1>4, <2>1, <2>2, <2>3, <2>4 DEF Timer, TimerIrq, txVars, Purposes, t
<1>5. CASE CC2420_state \in {"TX", "TX_WAIT"}
  <2>1. ASSUME NEW fifo, NEW snd, CC2420_try_to_send(t, fifo, snd)
        PROVE  UNCHANGED << CC2420_state, phase >>
    BY <1>5, <2>1 DEF CC2420_try_to_send, SendPacket, ChannelBusy, FlushWhenIdle,
       txVars
  <2>2. ASSUME StartSendFails(t) PROVE CC2420_state' = "IDLE"
    BY <2>2 DEF StartSendFails, CC2420_send_failed
  <2>3. ~AckStillDue
    BY <1>5 DEF AckStillDue
  <2>4. CC2420_state' = "IDLE" \/ UNCHANGED << CC2420_state, phase >>
    BY <2>1, <2>2, <2>3 DEF Timer, TimerIrq, txVars, t
  <2> QED BY <1>1, <1>5, <2>4 DEF LoopInv
<1>6. CASE CC2420_state = "POST_TX"
  <2>1. CC2420_timer_state = "ACK" /\ AckStillDue
    BY <1>6 DEF LoopInv, AckStillDue
  <2> QED BY <2>1 DEF Timer, TimerIrq, CC2420_packet_sent
<1> QED BY <1>4, <1>5, <1>6 DEF MacStates

LEMMA SfdLoopInv ==
  ASSUME TypeInv, LoopInv, Sfd
  PROVE  LoopInv'
<1> USE LoopTypes, TimerOps DEF Sfd, SfdIrq, SetTimer, procVars, txSide
<1>1. UNCHANGED << w_pc, phase >>
  OBVIOUS
<1>2. CASE CC2420_state \in {"IDLE", "PRE_TX", "POST_TX"}
  <2>1. UNCHANGED << timer, CC2420_state, CC2420_timer_state >>
    BY <1>2
  <2> QED BY <1>1, <1>2, <2>1 DEF LoopInv, TimerWillFire
<1>3. CASE CC2420_state \in {"TX", "TX_WAIT"}
  <2>1. \A w \in Writers : w_pc[w] \notin {"setup", "pre_tx", "timer", "arm"}
    BY <1>3 DEF LoopInv
  <2>2. \/ CC2420_state' = "IDLE"
        \/ CC2420_state' = "POST_TX" /\ timer'.OIER /\ CC2420_timer_state' = "ACK"
        \/ CC2420_state' = "TX_WAIT" /\ phase = "frame"
    BY <1>3 DEF LoopInv, TEST_SFD_PIN, CC2420_packet_sent
  <2> QED BY <1>1, <2>1, <2>2 DEF LoopInv, TimerWillFire
<1> QED BY <1>2, <1>3 DEF MacStates

LEMMA ReceiveLoopInv ==
  ASSUME TypeInv, LoopInv, Fifop \/ BottomHalf
  PROVE  LoopInv'
<1>1. /\ UNCHANGED << w_pc, phase, sfd_edge, CC2420_timer_state >>
      /\ CC2420_state' \in {CC2420_state, "IDLE"}
      /\ timer'.OSSR = timer.OSSR
      /\ timer.OIER => timer'.OIER
  <2>1. CASE Fifop
    <3>1. timer' = timer \/ timer' = timer_start(timer_stop(timer))
      BY <2>1 DEF Fifop, FifopIrq
    <3>2. timer'.OSSR = timer.OSSR /\ (timer.OIER => timer'.OIER)
      BY <3>1, LoopTypes, TimerOps
    <3>3. /\ UNCHANGED << w_pc, phase, sfd_edge, CC2420_timer_state >>
          /\ CC2420_state' \in {CC2420_state, "IDLE"}
      BY <2>1 DEF Fifop, FifopIrq, procVars, txSide, CC2420_recv_failed
    <3> QED BY <3>2, <3>3
  <2>2. CASE BottomHalf
    BY <2>2 DEF BottomHalf, procVars, Tasklet, TaskletUnchanged, txSide,
       TaskletOverflow, TaskletReadsNothing, CC2420_read_packet, TaskletFlush,
       TaskletRearm, CC2420_RXFIFO_done, TaskletAck, CC2420_packet_rcvd,
       TaskletTail, TaskletFailed, CC2420_packet_sent, CC2420_recv_failed
  <2> QED BY <2>1, <2>2
<1> QED BY <1>1 DEF LoopInv, TimerWillFire

LEMMA HardwareLoopInv ==
  ASSUME InTime, TypeInv, LoopInv, Clock \/ RadioSends \/ RadioReceives
  PROVE  LoopInv'
<1> USE LoopTypes
<1>1. CASE Clock
  <2>1. /\ \A w \in Writers : w_pc[w] \notin {"setup", "pre_tx", "timer", "arm"}
        /\ timer'.OSSR
        /\ UNCHANGED << w_pc, phase, sfd_edge, CC2420_state, CC2420_timer_state >>
    BY <1>1 DEF Clock, InTime, SettingUp, TimerMatch, TimerType, radioVars,
       driverVars, txVars, procVars
  <2> QED BY <2>1 DEF LoopInv, TimerWillFire
<1>2. CASE RadioSends
  <2>1. /\ UNCHANGED << timer, w_pc, CC2420_state, CC2420_timer_state >>
        /\ phase' = "frame" \/ (phase' = "rx" /\ sfd_edge' = TRUE)
    BY <1>2 DEF RadioSends, TxSfdRise, TxSfdFall, driverVars, txVars, procVars
  <2> QED BY <2>1 DEF LoopInv, TimerWillFire
<1>3. CASE RadioReceives
  <2>1. /\ UNCHANGED << timer, w_pc, CC2420_state, CC2420_timer_state >>
        /\ ~sfd_edge /\ phase \in {"rx", "receiving"}
    BY <1>3 DEF RadioReceives, EdgesTaken, InTime, RxSfdRise, RxFrameEnd,
       driverVars, txVars, procVars
  <2>2. CC2420_state \notin {"TX", "TX_WAIT"}
    BY <2>1 DEF LoopInv
  <2> QED BY <2>1, <2>2 DEF LoopInv, TimerWillFire
<1> QED BY <1>1, <1>2, <1>3

LEMMA LoopUnchanged ==
  ASSUME LoopInv, UNCHANGED << timer, radioVars, txVars, w_pc >>
  PROVE  LoopInv'
  BY DEF LoopInv, TimerWillFire, radioVars, txVars

LEMMA OtherProcessLoopInv ==
  ASSUME LoopInv,
         \/ \E r \in Readers : Reader(r)
         \/ \E nonblock \in OpenFlags : tosmac_open(nonblock)
         \/ \E on \in AckModes : tosmac_ioctl_ack(on)
  PROVE  LoopInv'
<1>1. ASSUME NEW r \in Readers, Reader(r)
      PROVE  UNCHANGED << timer, radioVars, txVars, w_pc >>
  BY <1>1 DEF Reader, ReaderGoesOn, tosmac_read, ReadWaitEnds, ReadSignalled,
     ReadClears, ReadChecks, ReadCopies, ReaderUnchanged
<1>2. UNCHANGED << timer, radioVars, txVars, w_pc >>
  BY <1>1 DEF tosmac_open, tosmac_ioctl_ack, procVars
<1> QED BY <1>2, LoopUnchanged

(* With one writer the transmit loop never stops half way, whatever is     *)
(* received meanwhile and whichever signals interrupt the writer, provided *)
(* that a send is set up within a timer interval and an SFD edge is taken  *)
(* before the next frame begins.                                           *)
THEOREM LoneTransmitLoopRuns ==
  LoadedAtRest /\ OneWriter /\ InTime => (Spec => []TransmitLoopRuns)
<1> SUFFICES ASSUME LoadedAtRest, OneWriter, InTime PROVE Spec => []TransmitLoopRuns
  OBVIOUS
<1>1. Init => LoopInv
  BY DEF Init, CC2420_init, LoopInv
<1>2. TypeInv /\ LoopInv /\ [Next]_vars => LoopInv'
  <2> SUFFICES ASSUME TypeInv, LoopInv, [Next]_vars PROVE LoopInv'
    OBVIOUS
  <2>1. CASE Processes
    BY <2>1, WriterLoopInv, OtherProcessLoopInv DEF Processes
  <2>2. CASE Timer \/ Sfd \/ Fifop \/ BottomHalf
    BY <2>2, TimerLoopInv, SfdLoopInv, ReceiveLoopInv
  <2>3. CASE Clock \/ RadioSends \/ RadioReceives
    BY <2>3, HardwareLoopInv
  <2>4. CASE UNCHANGED vars
    BY <2>4, LoopUnchanged DEF vars, procVars
  <2> QED BY <2>1, <2>2, <2>3, <2>4 DEF Next
<1>3. LoopInv => TransmitLoopRuns
  BY DEF LoopInv, TransmitLoopRuns
<1> QED BY <1>1, <1>2, <1>3, TypeInvInductive, PTL DEF Spec
-----------------------------------------------------------------------------
(* Backoffs, with any number of writers: while no process asks for         *)
(* acknowledgements nothing restarts a timer whose match is latched.       *)
NoAckAsked == TRUE \notin AckModes

BackoffInv == is_ack_enable = FALSE /\ BackoffRunsOut

LEMMA TimerBackoff == ASSUME TypeInv, Timer PROVE BackoffRunsOut'
<1> DEFINE t == timer_channel_check(timer)
<1>1. timer \in TimerType
  BY DEF TypeInv, TypeOK, TimerTypeOK
<1>2. t \in TimerType /\ t.OSSR = FALSE /\ timer_start(t).OSSR = FALSE
  BY <1>1, TimerOps DEF TimerType, timer_start, timer_channel_check
<1> HIDE DEF t
<1>3. ASSUME NEW fifo, NEW snd, CC2420_try_to_send(t, fifo, snd)
      PROVE  timer' = t \/ timer' = timer_start(t)
  BY <1>3 DEF CC2420_try_to_send, SendPacket, ChannelBusy, FlushWhenIdle, SetTimer
<1>4. timer' = t \/ timer' = timer_start(t)
  BY <1>3 DEF Timer, TimerIrq, StartSendFails, t
<1> QED BY <1>2, <1>4 DEF BackoffRunsOut

LEMMA WriterBackoff ==
  ASSUME TypeInv, BackoffRunsOut, NEW w \in Writers, Writer(w)
  PROVE  BackoffRunsOut' /\ UNCHANGED is_ack_enable
<1>1. ProcessRuns /\ UNCHANGED modeVars
  BY DEF Writer, WriterGoesOn, tosmac_write, SendSetup, SendPreTx, SetInitialTimer, StartInitialTimer,
         SendWaitEnds, SendSignalled, SendClears, WriteReturns, WriterStep, WriterUnchanged
<1>2. ~timer.OSSR /\ timer \in TimerType
  BY <1>1 DEF ProcessRuns, IrqPending, TypeInv, TypeOK, TimerTypeOK
<1>3. timer' = timer \/ timer' = timer_start(timer)
  BY DEF Writer, WriterGoesOn, tosmac_write, SendSetup, SendPreTx, SetInitialTimer, StartInitialTimer,
         SendWaitEnds, SendSignalled, SendClears, WriteReturns
<1> QED BY <1>1, <1>2, <1>3, TimerOps DEF BackoffRunsOut, modeVars

LEMMA IrqBackoff ==
  ASSUME BackoffInv, Sfd \/ Fifop \/ BottomHalf
  PROVE  BackoffRunsOut' /\ UNCHANGED is_ack_enable
<1>1. CASE Sfd
  <2>1. CC2420_state' # "PRE_TX" \/ UNCHANGED << timer, CC2420_state >>
    BY <1>1 DEF Sfd, SfdIrq, CC2420_packet_sent
  <2> QED BY <1>1, <2>1 DEF Sfd, SfdIrq, BackoffInv, BackoffRunsOut, modeVars
<1>2. CASE Fifop
  <2>1. timer' = timer /\ (CC2420_state' = CC2420_state \/ CC2420_state' = "IDLE")
    BY <1>2 DEF Fifop, FifopIrq, BackoffInv, CC2420_recv_failed
  <2> QED BY <1>2, <2>1 DEF Fifop, FifopIrq, BackoffInv, BackoffRunsOut, modeVars
<1>3. CASE BottomHalf
  <2>1. UNCHANGED << timer, is_ack_enable >>
    BY <1>3 DEF BottomHalf, Tasklet, TaskletUnchanged, TaskletOverflow,
       TaskletReadsNothing, CC2420_read_packet, TaskletFlush, TaskletRearm,
       CC2420_RXFIFO_done, TaskletAck, CC2420_packet_rcvd, TaskletTail,
       TaskletFailed, modeVars
  <2>2. CC2420_state' = CC2420_state \/ CC2420_state' = "IDLE"
    BY <1>3 DEF BottomHalf, Tasklet, TaskletOverflow,
       TaskletReadsNothing, CC2420_read_packet, TaskletFlush, TaskletRearm,
       CC2420_RXFIFO_done, TaskletAck, CC2420_packet_rcvd, TaskletTail,
       TaskletFailed, CC2420_packet_sent, CC2420_recv_failed
  <2> QED BY <2>1, <2>2 DEF BackoffInv, BackoffRunsOut
<1> QED BY <1>1, <1>2, <1>3

LEMMA HardwareBackoff ==
  ASSUME TypeInv, BackoffRunsOut, Clock \/ RadioSends \/ RadioReceives
  PROVE  BackoffRunsOut' /\ UNCHANGED is_ack_enable
<1>1. CASE Clock
  <2>1. timer'.elapsed /\ UNCHANGED is_ack_enable
    BY <1>1 DEF Clock, TimerMatch, driverVars, modeVars, TypeInv, TypeOK, TimerTypeOK, TimerType
  <2> QED BY <2>1 DEF BackoffRunsOut
<1>2. CASE RadioSends \/ RadioReceives
  BY <1>2 DEF RadioSends, RadioReceives, driverVars, txVars, modeVars, BackoffRunsOut
<1> QED BY <1>1, <1>2

LEMMA OtherProcessBackoff ==
  ASSUME NoAckAsked, BackoffInv,
         \/ \E r \in Readers : Reader(r)
         \/ \E nonblock \in OpenFlags : tosmac_open(nonblock)
         \/ \E on \in AckModes : tosmac_ioctl_ack(on)
  PROVE  BackoffInv'
<1>1. ASSUME NEW r \in Readers, Reader(r) PROVE UNCHANGED << timer, CC2420_state, is_ack_enable >>
  BY <1>1 DEF Reader, ReaderGoesOn, tosmac_read, ReadWaitEnds, ReadSignalled,
     ReadClears, ReadChecks, ReadCopies, ReaderUnchanged, txVars, modeVars
<1>2. ASSUME NEW nonblock \in OpenFlags, tosmac_open(nonblock)
      PROVE  UNCHANGED << timer, CC2420_state, is_ack_enable >>
  BY <1>2 DEF tosmac_open, txVars
<1>3. ASSUME NEW on \in AckModes, tosmac_ioctl_ack(on)
      PROVE  is_ack_enable' = FALSE /\ UNCHANGED << timer, CC2420_state >>
  <2>1. on \in BOOLEAN /\ on # TRUE
    BY DeviceAssumption DEF DeviceAssumption, NoAckAsked
  <2>2. is_ack_enable' = on /\ UNCHANGED << timer, CC2420_state >>
    BY <1>3 DEF tosmac_ioctl_ack, txVars
  <2> QED BY <2>1, <2>2
<1> QED BY <1>1, <1>2, <1>3 DEF BackoffInv, BackoffRunsOut

(* As long as no process asks for acknowledgements, every backoff runs its *)
(* whole time, with any number of writers, readers and signals and         *)
(* whatever is received; with acknowledgements it does not.                *)
THEOREM BackoffsRunOut == LoadedAtRest /\ NoAckAsked => (Spec => []BackoffRunsOut)
<1> SUFFICES ASSUME LoadedAtRest, NoAckAsked PROVE Spec => []BackoffRunsOut
  OBVIOUS
<1>1. Init => BackoffInv
  BY DEF Init, CC2420_init, BackoffInv, BackoffRunsOut
<1>2. TypeInv /\ BackoffInv /\ [Next]_vars => BackoffInv'
  <2> SUFFICES ASSUME TypeInv, BackoffInv, [Next]_vars PROVE BackoffInv'
    OBVIOUS
  <2>1. CASE Processes
    BY <2>1, WriterBackoff, OtherProcessBackoff DEF Processes, BackoffInv
  <2>2. CASE Timer
    BY <2>2, TimerBackoff DEF Timer, TimerIrq, modeVars, BackoffInv
  <2>3. CASE Sfd \/ Fifop \/ BottomHalf \/ Clock \/ RadioSends \/ RadioReceives
    BY <2>3, IrqBackoff, HardwareBackoff DEF BackoffInv
  <2>4. CASE UNCHANGED vars
    BY <2>4 DEF vars, txVars, modeVars, BackoffInv, BackoffRunsOut
  <2> QED BY <2>1, <2>2, <2>3, <2>4 DEF Next
<1>3. BackoffInv => BackoffRunsOut
  BY DEF BackoffInv
<1> QED BY <1>1, <1>2, <1>3, TypeInvInductive, PTL DEF Spec
=============================================================================
