-------------------------- MODULE TOSMacTypeProofs --------------------------
(***************************************************************************)
(* Type correctness of the driver, for every number of processes, every    *)
(* set of frames, every bound and every timing (Slow).  The interrupt      *)
(* handlers follow tx_buf_ptr, so the invariant also has to say that it    *)
(* points to a packet when they run.                                       *)
(***************************************************************************)
EXTENDS TOSMacProperties, TLAPS

(* When the driver is loaded no timer of an earlier load is running or has *)
(* run out unnoticed: it is the first load since the reset, or the last    *)
(* write was long over when the driver was unloaded.                       *)
LoadedAtRest == \A t \in TimersLeft : ~t.OIER /\ ~t.OSSR

TypeInv == TypeOK /\ TxPointerSet

(* The timer operations keep the timer a timer. *)
LEMMA TimerOps ==
  ASSUME NEW t \in TimerType
  PROVE  /\ timer_init(t) \in TimerType
         /\ timer_start(t) \in TimerType
         /\ timer_stop(t) \in TimerType
         /\ timer_channel_check(t) \in TimerType
         /\ timer_start(t).OIER /\ timer_start(t).OSSR = t.OSSR
         /\ timer_stop(t).OSSR = t.OSSR
         /\ ~timer_channel_check(t).OIER /\ ~timer_channel_check(t).OSSR
  BY DEF TimerType, timer_init, timer_start, timer_stop, timer_channel_check

(* Lengths stay in a byte. *)
LEMMA Lengths ==
  /\ \A n \in UInt8 : (n - 1) % 256 \in UInt8
  /\ \A n \in UInt8 : (n - MSG_HEADER_SIZE - MSG_FOOTER_SIZE) % 256 \in UInt8
  /\ \A n \in UInt8 : PayloadLength(n) \in UInt8
  /\ \A n \in UInt8 : FullLength(n) \in UInt8
  /\ \A n \in Nat : AtMost(n, TOSH_DATA_LENGTH) \in UInt8
  /\ \A f \in RxFrames : RxLength(f) \in UInt8
  /\ INVALID \in UInt8 /\ 0 \in UInt8 /\ 1 \in UInt8
<1> USE DEF UInt8, MSG_HEADER_SIZE, MSG_FOOTER_SIZE
<1>1. TOSH_DATA_LENGTH \in 0 .. 116
  BY MacAssumption DEF MacAssumption
<1>2. MSG_DATA_SIZE \in 12 .. 128
  BY <1>1 DEF MSG_DATA_SIZE
<1>3. ASSUME NEW n \in UInt8
      PROVE  /\ (n - 1) % 256 \in UInt8
             /\ (n - MSG_HEADER_SIZE - MSG_FOOTER_SIZE) % 256 \in UInt8
             /\ PayloadLength(n) \in UInt8
  BY DEF PayloadLength
<1>4. ASSUME NEW n \in UInt8 PROVE FullLength(n) \in UInt8
  BY <1>2 DEF FullLength, AtMost
<1>5. ASSUME NEW n \in Nat PROVE AtMost(n, TOSH_DATA_LENGTH) \in UInt8
  BY <1>1 DEF AtMost
<1>6. ASSUME NEW f \in RxFrames PROVE RxLength(f) \in UInt8
  <2>1. f.len \in 0 .. 127
    BY RadioAssumption DEF RadioAssumption
  <2> QED BY <1>2, <2>1 DEF RxLength
<1>7. INVALID \in UInt8 /\ 0 \in UInt8 /\ 1 \in UInt8
  BY DEF INVALID
<1> QED BY <1>3, <1>4, <1>5, <1>6, <1>7

LEMMA DsnSuccessor == \A n \in DSNs : (n + 1) % DSN_SPACE \in DSNs
<1>1. DSN_SPACE \in Nat \ {0}
  BY RadioAssumption DEF RadioAssumption
<1>2. ASSUME NEW d \in Nat \ {0}, NEW n \in 0 .. d - 1
      PROVE  (n + 1) % d \in 0 .. d - 1
  OBVIOUS
<1> QED BY <1>1, <1>2 DEF DSNs

LEMMA SendFailedType ==
  ASSUME MacTypeOK, tx_buf_ptr # None, CC2420_send_failed
  PROVE  CC2420_state' = "IDLE" /\ send_done' \in BOOLEAN /\ buf' \in [Bufs -> Messages]
  BY Lengths DEF MacTypeOK, CC2420_send_failed, Messages

LEMMA PacketSentType ==
  ASSUME MacTypeOK, tx_buf_ptr # None, CC2420_packet_sent
  PROVE  CC2420_state' = "IDLE" /\ send_done' \in BOOLEAN /\ buf' \in [Bufs -> Messages]
<1>1. tx_buf_ptr \in Bufs /\ buf \in [Bufs -> Messages]
  BY DEF MacTypeOK
<1>2. (buf[tx_buf_ptr].length - MSG_HEADER_SIZE - MSG_FOOTER_SIZE) % 256 \in UInt8
  BY <1>1, Lengths DEF Messages
<1> QED BY <1>1, <1>2 DEF CC2420_packet_sent, Messages

LEMMA RecvFailedType ==
  ASSUME MacTypeOK, CC2420_recv_failed
  PROVE  /\ CC2420_state' = "IDLE" /\ send_done' \in BOOLEAN
         /\ recv_done' \in BOOLEAN
         /\ rx_packet' \in Packets /\ rx_buf' \in Packets
  BY Lengths DEF MacTypeOK, CC2420_recv_failed, Packets

LEMMA WriterType ==
  ASSUME TypeInv, NEW w \in Writers, WriterGoesOn(w) \/ SendSignalled(w)
  PROVE  TypeInv'
<1> USE DEF TypeInv, TypeOK, TimerTypeOK, RadioTypeOK, MacTypeOK, ProcTypeOK,
      TxPointerSet, TimerWillFire, WriterStep, WriterUnchanged, rxSide, rxVars,
      taskletVars, modeVars
<1>1. CASE SendSetup(w)
  <2>1. w_pc[w] = "setup" /\ w_buf[w] \in Bufs /\ current_DSN' \in DSNs
    BY <1>1, DsnSuccessor DEF SendSetup
  <2>2. buf' \in [Bufs -> Messages]
    <3> DEFINE a == w_buf[w]
               once == [buf EXCEPT ![a].dsn = current_DSN']
    <3>1. once \in [Bufs -> Messages] /\ once[a].length = buf[a].length
      BY <2>1 DEF Messages
    <3>2. FullLength(buf[a].length) \in UInt8
      BY <2>1, Lengths DEF Messages
    <3>3. buf' = [once EXCEPT ![a].length = FullLength(buf[a].length)]
      BY <1>1, <2>1 DEF SendSetup
    <3> HIDE DEF once
    <3> QED BY <2>1, <3>1, <3>2, <3>3 DEF Messages
  <2>3. count_retry' \in UInt8 /\ count_send_restart' \in UInt8
    BY <1>1, MacAssumption DEF SendSetup, MacAssumption, UInt8
  <2>4. tx_buf_ptr' \in Bufs /\ tx_buf_ptr' # None
    BY <1>1, <2>1 DEF SendSetup
  <2>5. TxPointerSet'
    BY <1>1, <2>1, <2>4 DEF SendSetup
  <2>6. RadioTypeOK'
    BY <1>1, <2>1 DEF SendSetup
  <2>7. MacTypeOK'
    BY <1>1, <2>1, <2>2, <2>3, <2>4 DEF SendSetup
  <2> QED BY <1>1, <2>5, <2>6, <2>7 DEF SendSetup
<1>2. CASE SendPreTx(w)
  BY <1>2 DEF SendPreTx, sendVars, MacStates
<1>3. CASE SetInitialTimer(w)
  BY <1>3 DEF SetInitialTimer, sendVars, TimerStates
<1>4. CASE StartInitialTimer(w)
  BY <1>4, TimerOps DEF StartInitialTimer, txVars, sendVars
<1>5. CASE SendWaitEnds(w)
  BY <1>5 DEF SendWaitEnds, txVars, sendVars
<1>6. CASE SendSignalled(w)
  BY <1>6 DEF SendSignalled, sendVars, MacStates
<1>7. CASE SendClears(w)
  <2>1. send_done' \in BOOLEAN
    BY <1>7 DEF SendClears
  <2> QED BY <1>7, <2>1 DEF SendClears, sendVars
<1>8. CASE WriteReturns(w)
  BY <1>8 DEF WriteReturns, txVars, sendVars
<1> QED BY <1>1, <1>2, <1>3, <1>4, <1>5, <1>6, <1>7, <1>8 DEF WriterGoesOn

LEMMA ReaderType ==
  ASSUME TypeInv, NEW r \in Readers, Reader(r)
  PROVE  TypeInv'
<1> USE DEF TypeInv, TypeOK, TimerTypeOK, RadioTypeOK, MacTypeOK, ProcTypeOK,
      TxPointerSet, TimerWillFire, ReaderStep, ReaderUnchanged, radioVars,
      txVars, sendVars, taskletVars, modeVars
<1>1. CASE tosmac_read(r)
  <2>1. ok_to_read' \in BOOLEAN
    BY <1>1 DEF tosmac_read
  <2> QED BY <1>1, <2>1 DEF tosmac_read
<1>2. CASE ReadWaitEnds(r)
  BY <1>2 DEF ReadWaitEnds
<1>3. CASE ReadSignalled(r)
  BY <1>3 DEF ReadSignalled
<1>4. CASE ReadClears(r)
  <2>1. recv_done' \in BOOLEAN
    BY <1>4 DEF ReadClears
  <2> QED BY <1>4, <2>1 DEF ReadClears
<1>5. CASE ReadChecks(r)
  BY <1>5 DEF ReadChecks
<1>6. CASE ReadCopies(r)
  BY <1>6 DEF ReadCopies
<1> QED BY <1>1, <1>2, <1>3, <1>4, <1>5, <1>6 DEF Reader, ReaderGoesOn

LEMMA WriteType ==
  ASSUME TypeInv, NEW w \in Writers, NEW b \in Bufs, NEW count \in Counts,
         NEW uni \in Unicast, tosmac_write(w, b, count, uni)
  PROVE  TypeInv'
<1> DEFINE n == AtMost(count, TOSH_DATA_LENGTH)
           once == [buf EXCEPT ![b].length = n]
<1>1. n \in UInt8 /\ uni \in BOOLEAN
  BY Lengths, DeviceAssumption DEF DeviceAssumption
<1> HIDE DEF n
<1>2. once \in [Bufs -> Messages]
  BY <1>1 DEF TypeInv, TypeOK, MacTypeOK, Messages
<1>3. buf' = [once EXCEPT ![b].unicast = uni]
  BY DEF tosmac_write, n
<1> HIDE DEF once
<1>4. buf' \in [Bufs -> Messages]
  BY <1>1, <1>2, <1>3 DEF Messages
<1> USE DEF TypeInv, TypeOK, TimerTypeOK, RadioTypeOK, MacTypeOK, ProcTypeOK,
      TxPointerSet, TimerWillFire, WriterStep, WriterUnchanged, rxSide, rxVars,
      taskletVars, modeVars, sendVars
<1>5. w_pc'[w] \in {"setup", "failed"} /\ w_buf'[w] \in Bufs /\ w_buf'[w] # None
  BY MacAssumption DEF tosmac_write, MacAssumption
<1>6. TxPointerSet'
  BY <1>5 DEF tosmac_write
<1>7. ProcTypeOK'
  BY DEF tosmac_write
<1>8. MacTypeOK'
  BY <1>4 DEF tosmac_write
<1> QED BY <1>6, <1>7, <1>8 DEF tosmac_write

(* Opening the device or setting the ACK mode. *)
LEMMA ModeType ==
  ASSUME TypeInv,
         \/ \E nonblock \in OpenFlags : tosmac_open(nonblock)
         \/ \E on \in AckModes : tosmac_ioctl_ack(on)
  PROVE  TypeInv'
<1> USE DEF TypeInv, TypeOK, TimerTypeOK, RadioTypeOK, MacTypeOK, ProcTypeOK,
      TxPointerSet, TimerWillFire, radioVars, txVars, sendVars, rxVars,
      taskletVars, procVars
<1>1. OpenFlags \subseteq BOOLEAN /\ AckModes \subseteq BOOLEAN
  BY DeviceAssumption DEF DeviceAssumption
<1>2. ASSUME NEW nonblock \in OpenFlags, tosmac_open(nonblock) PROVE TypeInv'
  <2>1. non_blocking_mode' \in BOOLEAN /\ ok_to_read' \in BOOLEAN
    BY <1>1, <1>2 DEF tosmac_open
  <2> QED BY <1>2, <2>1 DEF tosmac_open
<1>3. ASSUME NEW on \in AckModes, tosmac_ioctl_ack(on) PROVE TypeInv'
  <2>1. is_ack_enable' \in BOOLEAN
    BY <1>1, <1>3 DEF tosmac_ioctl_ack
  <2> QED BY <1>3, <2>1 DEF tosmac_ioctl_ack
<1> QED BY <1>2, <1>3

(* The hardware. *)
LEMMA HardwareType ==
  ASSUME TypeInv, Clock \/ RadioSends \/ RadioReceives
  PROVE  TypeInv'
<1> USE DEF TypeInv, TypeOK, TimerTypeOK, RadioTypeOK, MacTypeOK, ProcTypeOK,
      TxPointerSet, TimerWillFire, driverVars, txVars, sendVars, rxVars,
      taskletVars, modeVars, procVars
<1>1. CASE Clock
  <2>1. timer' \in TimerType /\ timer'.OIER = timer.OIER /\ timer.OIER = TRUE
    BY <1>1 DEF Clock, TimerMatch, TimerType
  <2> QED BY <1>1, <2>1 DEF Clock, radioVars
<1>2. ASSUME RadioSends PROVE TypeInv'
  <2>1. sfd_edge' \in BOOLEAN /\ phase' \in {"frame", "rx"}
    BY <1>2 DEF RadioSends, TxSfdRise, TxSfdFall
  <2>2. sending' \in DSNs \cup {None} /\ on_air' \in SUBSET DSNs
    BY <1>2 DEF RadioSends, TxSfdRise, TxSfdFall
  <2> QED BY <1>2, <2>1, <2>2 DEF RadioSends, TxSfdRise, TxSfdFall, rxSide
<1>3. CASE RadioReceives /\ RxSfdRise
  <2>1. sfd_edge' \in BOOLEAN
    BY <1>3 DEF RxSfdRise
  <2> QED BY <1>3, <2>1 DEF RadioReceives, RxSfdRise, rxSide
<1>4. ASSUME RadioReceives, NEW f \in RxFrames, RxFrameEnd(f) PROVE TypeInv'
  <2>1. rx_fifo' \in Seq(RxFrames) /\ Len(rx_fifo') =< FifoCap
    <3>1. CASE Len(rx_fifo) = FifoCap \/ overflow
      BY <1>4, <3>1 DEF RxFrameEnd
    <3>2. CASE Len(rx_fifo) # FifoCap /\ ~overflow
      <4>1. rx_fifo' = Append(rx_fifo, f)
        BY <1>4, <3>2 DEF RxFrameEnd
      <4>2. FifoCap \in Nat
        BY RadioAssumption DEF RadioAssumption
      <4>3. rx_fifo \in Seq(RxFrames) /\ Len(rx_fifo) =< FifoCap
        OBVIOUS
      <4> QED BY <3>2, <4>1, <4>2, <4>3
    <3> QED BY <3>1, <3>2
  <2>3. overflow' \in BOOLEAN /\ fifop' \in BOOLEAN /\ sfd_edge' \in BOOLEAN
    BY <1>4 DEF RxFrameEnd
  <2>2. fifop_edge' \in BOOLEAN
    BY <1>4 DEF RxFrameEnd
  <2> QED BY <1>4, <2>1, <2>2, <2>3 DEF RadioReceives, RxFrameEnd
<1> QED BY <1>1, <1>2, <1>3, <1>4 DEF RadioReceives

(* What the timer handler may write. *)
TransmitType ==
  /\ timer \in TimerType
  /\ phase \in {"rx", "receiving", "calib", "frame"}
  /\ txfifo \in DSNs \cup {None} /\ sending \in DSNs \cup {None}
  /\ CC2420_state \in MacStates /\ CC2420_timer_state \in TimerStates
  /\ count_retry \in UInt8 /\ count_send_restart \in UInt8
  /\ send_done \in BOOLEAN /\ buf \in [Bufs -> Messages]

LEMMA TryToSendType ==
  ASSUME TypeInv, tx_buf_ptr # None, NEW t \in TimerType,
         NEW fifo \in DSNs \cup {None}, NEW snd \in DSNs \cup {None},
         CC2420_try_to_send(t, fifo, snd)
  PROVE  TransmitType'
<1> USE DEF TransmitType, SetTimer, MacStates, TimerStates
<1>1. TransmitType /\ MacTypeOK
  BY DEF TypeInv, TypeOK, TimerTypeOK, RadioTypeOK, MacTypeOK
<1>2. CASE SendPacket(t, fifo, snd)
  BY <1>1, <1>2, TimerOps DEF SendPacket, Accepted
<1>3. CASE ChannelBusy(t, fifo, snd)
  <2>1. ASSUME count_retry > 0, count_retry' = count_retry - 1,
               SetTimer("BACKOFF", t),
               UNCHANGED << CC2420_state, count_send_restart, send_done, buf >>
        PROVE  TransmitType'
    BY <1>1, <1>3, <2>1, TimerOps DEF ChannelBusy, UInt8
  <2>2. ASSUME count_retry' = MAX_SEND_TRIES,
               count_send_restart' = (count_send_restart - 1) % 256
        PROVE  count_retry' \in UInt8 /\ count_send_restart' \in UInt8
    BY <1>1, <2>2, Lengths, MacAssumption DEF MacAssumption, UInt8
  <2>3. ASSUME count_retry' \in UInt8 /\ count_send_restart' \in UInt8,
               SetTimer("RESTART", t), UNCHANGED << CC2420_state, send_done, buf >>
        PROVE  TransmitType'
    BY <1>1, <1>3, <2>3, TimerOps DEF ChannelBusy
  <2>4. ASSUME count_retry' \in UInt8 /\ count_send_restart' \in UInt8,
               CC2420_send_failed, timer' = t, UNCHANGED CC2420_timer_state
        PROVE  TransmitType'
    BY <1>1, <1>3, <2>4, SendFailedType DEF ChannelBusy
  <2> QED BY <1>3, <2>1, <2>2, <2>3, <2>4 DEF ChannelBusy
<1>4. CASE FlushWhenIdle(t)
  BY <1>1, <1>4 DEF FlushWhenIdle, txVars, SendingAfterFlush
<1> QED BY <1>1, <1>2, <1>3, <1>4 DEF CC2420_try_to_send, txVars

LEMMA TimerIrqType ==
  ASSUME TypeInv, Timer
  PROVE  TypeInv'
<1> DEFINE t == timer_channel_check(timer)
<1>1. tx_buf_ptr # None
  BY DEF Timer, TimerIrq, TypeInv, TxPointerSet, TimerWillFire
<1>2. TransmitType /\ MacTypeOK /\ tx_buf_ptr \in Bufs
  BY <1>1 DEF TransmitType, TypeInv, TypeOK, TimerTypeOK, RadioTypeOK, MacTypeOK
<1>3. t \in TimerType
  BY <1>2, TimerOps DEF TransmitType
<1>4. /\ buf[tx_buf_ptr].dsn \in DSNs \cup {None}
      /\ SendingAfterFlush \in DSNs \cup {None}
  BY <1>2 DEF TransmitType, Messages, SendingAfterFlush
<1> HIDE DEF t
<1>5. ASSUME StartSendFails(t) PROVE TransmitType'
  BY <1>1, <1>2, <1>3, <1>4, <1>5, SendFailedType
  DEF StartSendFails, TransmitType, MacStates
<1>6. ASSUME CC2420_packet_sent, timer' = t,
             UNCHANGED << txfifo, sending, phase, CC2420_timer_state,
                          count_retry, count_send_restart >>
      PROVE  TransmitType'
  BY <1>1, <1>2, <1>3, <1>6, PacketSentType DEF TransmitType, MacStates
<1>7. ASSUME timer' = t, UNCHANGED << txfifo, sending, phase, txVars >>
      PROVE  TransmitType'
  BY <1>2, <1>3, <1>7 DEF TransmitType, txVars
<1>8. TransmitType'
  <2>1. CC2420_try_to_send(t, buf[tx_buf_ptr].dsn, SendingAfterFlush) => TransmitType'
    BY <1>1, <1>3, <1>4, TryToSendType
  <2>2. CC2420_try_to_send(t, txfifo, sending) => TransmitType'
    BY <1>1, <1>2, <1>3, TryToSendType DEF TransmitType
  <2> QED BY <1>5, <1>6, <1>7, <2>1, <2>2 DEF Timer, TimerIrq, t
<1> QED
  BY <1>1, <1>8 DEF Timer, TimerIrq, TransmitType, TypeInv, TypeOK, TimerTypeOK,
     RadioTypeOK, MacTypeOK, ProcTypeOK, TxPointerSet, rxSide, sendVars, rxVars,
     taskletVars, modeVars, procVars

LEMMA SfdIrqType ==
  ASSUME TypeInv, Sfd
  PROVE  TypeInv'
<1>1. TransmitType /\ MacTypeOK
  BY DEF TransmitType, TypeInv, TypeOK, TimerTypeOK, RadioTypeOK, MacTypeOK
<1>2. TransmitType' /\ (tx_buf_ptr = None => UNCHANGED << timer, CC2420_state >>)
  <2> USE DEF TypeInv, TxPointerSet, MacStates, TimerStates
  <2>1. CASE CC2420_state = "IDLE"
    BY <1>1, <2>1 DEF Sfd, SfdIrq, TransmitType, txSide
  <2>2. CASE CC2420_state # "IDLE"
    <3>1. tx_buf_ptr # None
      BY <2>2
    <3>2. CASE CC2420_packet_sent /\ UNCHANGED << timer, CC2420_timer_state >>
      BY <1>1, <3>1, <3>2, PacketSentType DEF Sfd, SfdIrq, TransmitType, txSide
    <3>3. CASE /\ \E purpose \in TimerStates : SetTimer(purpose, timer)
               /\ CC2420_state' \in MacStates /\ UNCHANGED << send_done, buf >>
      BY <1>1, <3>1, <3>3, TimerOps DEF Sfd, SfdIrq, TransmitType, SetTimer, txSide
    <3>4. CASE UNCHANGED << timer, CC2420_state, CC2420_timer_state, send_done, buf >>
      BY <1>1, <3>1, <3>4 DEF Sfd, SfdIrq, TransmitType, txSide
    <3> QED BY <3>1, <3>2, <3>3, <3>4 DEF Sfd, SfdIrq
  <2> QED BY <2>1, <2>2
<1>3. sfd_edge' \in BOOLEAN
  BY DEF Sfd, SfdIrq
<1> QED
  BY <1>2, <1>3 DEF Sfd, SfdIrq, TransmitType, TypeInv, TypeOK, TimerTypeOK,
     RadioTypeOK, MacTypeOK, ProcTypeOK, TxPointerSet, TimerWillFire, txSide,
     rxSide, sendVars, rxVars, taskletVars, modeVars, procVars

LEMMA FlushRxType ==
  ASSUME FlushRx
  PROVE  /\ rx_fifo' \in Seq(RxFrames) /\ Len(rx_fifo') =< FifoCap
         /\ overflow' \in BOOLEAN /\ fifop' \in BOOLEAN
<1>1. FifoCap \in Nat
  BY RadioAssumption DEF RadioAssumption
<1>2. Len(<< >>) = 0 /\ << >> \in Seq(RxFrames)
  OBVIOUS
<1>3. 0 =< FifoCap
  BY <1>1
<1> QED BY <1>2, <1>3 DEF FlushRx

LEMMA FifopIrqType ==
  ASSUME TypeInv, Fifop
  PROVE  TypeInv'
<1>1. timer' \in TimerType /\ (tx_buf_ptr = None => UNCHANGED timer)
  BY TimerOps DEF Fifop, FifopIrq, TypeInv, TypeOK, TimerTypeOK, TxPointerSet
<1>2. TypeOK /\ MacTypeOK /\ RadioTypeOK /\ fifop_edge' \in BOOLEAN
  BY DEF TypeInv, TypeOK, Fifop, FifopIrq
<1>3. TypeOK'
  <2>1. /\ CC2420_state' \in MacStates /\ send_done' \in BOOLEAN
        /\ recv_done' \in BOOLEAN /\ ok_to_read' \in BOOLEAN
        /\ is_packet_receiving' \in BOOLEAN /\ read_packet_tasklet' \in BOOLEAN
        /\ rx_packet' \in Packets /\ rx_buf' \in Packets
    BY <1>2, RecvFailedType DEF Fifop, FifopIrq, MacTypeOK, MacStates, rxVars
  <2>2. /\ rx_fifo' \in Seq(RxFrames) /\ Len(rx_fifo') =< FifoCap
        /\ overflow' \in BOOLEAN /\ fifop' \in BOOLEAN
        /\ fifop_irq' \in {"FALLING", "NOEDGE"}
    BY <1>2, FlushRxType DEF Fifop, FifopIrq, RadioTypeOK, rxSide
  <2>3. RadioTypeOK'
    BY <1>2, <2>2 DEF Fifop, FifopIrq, RadioTypeOK, txSide
  <2>4. MacTypeOK'
    BY <1>2, <2>1 DEF Fifop, FifopIrq, MacTypeOK, sendVars, modeVars
  <2> QED BY <1>1, <1>2, <2>3, <2>4
          DEF Fifop, TypeOK, TimerTypeOK, ProcTypeOK, procVars
<1>4. TxPointerSet'
  <2>1. UNCHANGED CC2420_state \/ CC2420_state' = "IDLE"
    BY DEF Fifop, FifopIrq, CC2420_recv_failed
  <2> QED BY <1>1, <2>1 DEF Fifop, FifopIrq, TypeInv, TxPointerSet,
          TimerWillFire, sendVars, procVars
<1> QED BY <1>3, <1>4 DEF TypeInv

(* What the tasklet may write. *)
ReceiveType ==
  /\ rx_fifo \in Seq(RxFrames) /\ Len(rx_fifo) =< FifoCap
  /\ overflow \in BOOLEAN /\ fifop \in BOOLEAN
  /\ fifop_irq \in {"FALLING", "NOEDGE"}
  /\ CC2420_state \in MacStates
  /\ send_done \in BOOLEAN /\ buf \in [Bufs -> Messages]
  /\ recv_done \in BOOLEAN /\ ok_to_read \in BOOLEAN
  /\ is_packet_receiving \in BOOLEAN
  /\ rx_buf \in Packets /\ rx_packet \in Packets
  /\ read_packet_tasklet \in BOOLEAN
  /\ tl_pc \in {"idle", "flush", "rearm", "done", "process", "tail", "failed"}
  /\ tl_next \in {"idle", "done", "failed"}
  /\ tl_state \in MacStates

(* Reading the first frame out of the RXFIFO. *)
LEMMA FrameOut ==
  ASSUME rx_fifo \in Seq(RxFrames), Len(rx_fifo) =< FifoCap, rx_fifo # << >>
  PROVE  /\ Head(rx_fifo) \in RxFrames
         /\ Tail(rx_fifo) \in Seq(RxFrames) /\ Len(Tail(rx_fifo)) =< FifoCap
<1>1. FifoCap \in Nat
  BY RadioAssumption DEF RadioAssumption
<1> QED BY <1>1

LEMMA TaskletType ==
  ASSUME TypeInv, BottomHalf
  PROVE  TypeInv'
<1>1. MacTypeOK /\ RadioTypeOK /\ ReceiveType /\ Tasklet
  BY DEF TypeInv, TypeOK, MacTypeOK, RadioTypeOK, ReceiveType, BottomHalf
<1>2. ReceiveType' /\ CC2420_state' \in {CC2420_state, "IDLE"}
  <2> USE DEF ReceiveType, TaskletStep, TaskletStarts, rxSide, rxVars
  <2>1. CASE TaskletOverflow
    <3>1. read_packet_tasklet' \in BOOLEAN
      BY <2>1 DEF TaskletOverflow
    <3> QED BY <1>1, <2>1, <3>1 DEF TaskletOverflow
  <2>2. CASE TaskletReadsNothing
    <3>1. read_packet_tasklet' \in BOOLEAN /\ fifop' \in BOOLEAN
      BY <2>2 DEF TaskletReadsNothing
    <3>2. rx_buf' \in Packets
      BY <1>1, <2>2, Lengths DEF TaskletReadsNothing, Packets
    <3>3. rx_fifo' \in Seq(RxFrames) /\ Len(rx_fifo') =< FifoCap
      BY <1>1, <2>2, FrameOut DEF TaskletReadsNothing
    <3> QED BY <1>1, <2>2, <3>1, <3>2, <3>3 DEF TaskletReadsNothing
  <2>3. CASE CC2420_read_packet
    <3>1. CASE is_packet_receiving
      <4>1. /\ read_packet_tasklet' \in BOOLEAN /\ is_packet_receiving' \in BOOLEAN
            /\ rx_buf' = rx_buf /\ rx_fifo' = rx_fifo /\ fifop' \in BOOLEAN
        BY <1>1, <2>3, <3>1 DEF CC2420_read_packet
      <4> QED BY <1>1, <2>3, <4>1 DEF CC2420_read_packet
    <3>2. CASE ~is_packet_receiving
      <4>1. /\ read_packet_tasklet' \in BOOLEAN /\ is_packet_receiving' \in BOOLEAN
            /\ fifop' \in BOOLEAN
        BY <1>1, <2>3, <3>2 DEF CC2420_read_packet
      <4>2. rx_fifo # << >> /\ rx_fifo' = Tail(rx_fifo)
            /\ rx_buf' = [length |-> RxLength(Head(rx_fifo)), frame |-> Head(rx_fifo)]
        BY <2>3, <3>2 DEF CC2420_read_packet, NothingToRead
      <4>3. rx_buf' \in Packets /\ rx_fifo' \in Seq(RxFrames) /\ Len(rx_fifo') =< FifoCap
        BY <1>1, <4>2, FrameOut, Lengths DEF Packets
      <4> QED BY <1>1, <2>3, <4>1, <4>3 DEF CC2420_read_packet
    <3> QED BY <3>1, <3>2
  <2>4. CASE TaskletFlush
    <3>1. is_packet_receiving' \in BOOLEAN
      BY <2>4 DEF TaskletFlush
    <3> QED BY <1>1, <2>4, <3>1, FlushRxType DEF TaskletFlush
  <2>5. CASE TaskletRearm
    BY <1>1, <2>5 DEF TaskletRearm
  <2>6. CASE CC2420_RXFIFO_done
    BY <1>1, <2>6 DEF CC2420_RXFIFO_done
  <2>7. CASE TaskletAck
    <3>1. is_packet_receiving' \in BOOLEAN
      BY <2>7 DEF TaskletAck
    <3>2. tx_buf_ptr # None
      BY <2>7 DEF TaskletAck, IsAck, TypeInv, TxPointerSet
    <3> QED BY <1>1, <2>7, <3>1, <3>2, PacketSentType DEF TaskletAck, MacStates
  <2>8. CASE CC2420_packet_rcvd
    <3>1. /\ is_packet_receiving' \in BOOLEAN /\ recv_done' \in BOOLEAN
          /\ ok_to_read' \in BOOLEAN
      BY <1>1, <2>8 DEF CC2420_packet_rcvd
    <3>2. rx_packet' \in Packets /\ rx_buf' \in Packets
      BY <1>1, <2>8, Lengths DEF CC2420_packet_rcvd, Packets
    <3> QED BY <1>1, <2>8, <3>1, <3>2 DEF CC2420_packet_rcvd
  <2>9. CASE TaskletTail
    <3>1. read_packet_tasklet' \in BOOLEAN
      BY <1>1, <2>9 DEF TaskletTail
    <3> QED BY <1>1, <2>9, <3>1 DEF TaskletTail
  <2>10. CASE TaskletFailed
    BY <1>1, <2>10, RecvFailedType DEF TaskletFailed, MacStates
  <2> QED BY <1>1, <2>1, <2>2, <2>3, <2>4, <2>5, <2>6, <2>7, <2>8, <2>9, <2>10
          DEF Tasklet
<1>3. tl_state' \in {tl_state, CC2420_state}
  BY <1>1 DEF Tasklet, TaskletOverflow, TaskletReadsNothing, CC2420_read_packet,
     TaskletFlush, TaskletRearm, CC2420_RXFIFO_done, TaskletAck,
     CC2420_packet_rcvd, TaskletTail, TaskletFailed
<1>4. TaskletUnchanged /\ UNCHANGED << on_air, procVars >>
  BY <1>1 DEF BottomHalf, Tasklet, TaskletOverflow, TaskletReadsNothing,
     CC2420_read_packet, TaskletFlush, TaskletRearm, CC2420_RXFIFO_done,
     TaskletAck, CC2420_packet_rcvd, TaskletTail, TaskletFailed
<1> USE <1>4 DEF TaskletUnchanged, txSide, sendVars, modeVars, procVars
<1>5. TypeOK'
  BY <1>2 DEF TypeInv, TypeOK, TimerTypeOK, RadioTypeOK, MacTypeOK, ProcTypeOK,
     ReceiveType
<1>6. TxPointerSet'
  BY <1>2, <1>3 DEF TypeInv, TxPointerSet, TimerWillFire
<1> QED BY <1>5, <1>6 DEF TypeInv

LEMMA TypeInvInductive == LoadedAtRest => (Init /\ [][Next]_vars => []TypeInv)
<1> SUFFICES ASSUME LoadedAtRest PROVE Init /\ [][Next]_vars => []TypeInv
  OBVIOUS
<1>1. Init => TypeInv
  <2> SUFFICES ASSUME Init PROVE TypeInv
    OBVIOUS
  <2> USE DEF Init, CC2420_init, RadioInit
  <2>1. TimerTypeOK /\ timer.OIER = FALSE /\ timer.OSSR = FALSE
    <3>1. PICK t \in TimersLeft : timer = timer_init(t)
      OBVIOUS
    <3>2. t \in TimerType /\ ~t.OIER /\ ~t.OSSR
      BY MacAssumption DEF MacAssumption, LoadedAtRest
    <3> QED BY <3>1, <3>2, TimerOps DEF TimerTypeOK, TimerType, timer_init
  <2>2. RadioTypeOK
    <3>1. Len(<< >>) =< FifoCap /\ << >> \in Seq(RxFrames)
      BY RadioAssumption DEF RadioAssumption
    <3> QED BY <3>1 DEF RadioTypeOK
  <2>3. MacTypeOK
    <3>1. 0 \in DSNs
      <4>1. DSN_SPACE \in Nat \ {0}
        BY RadioAssumption DEF RadioAssumption
      <4> QED BY <4>1 DEF DSNs
    <3>2. buf \in [Bufs -> Messages]
      BY <3>1, Lengths DEF Messages
    <3>3. rx_buf \in Packets /\ rx_packet \in Packets
      BY Lengths DEF Packets
    <3> QED BY <3>1, <3>2, <3>3, Lengths DEF MacTypeOK, MacStates, TimerStates
  <2>4. ProcTypeOK
    BY DEF ProcTypeOK
  <2>5. TxPointerSet
    BY <2>1 DEF TxPointerSet, TimerWillFire
  <2> QED BY <2>1, <2>2, <2>3, <2>4, <2>5 DEF TypeInv, TypeOK
<1>2. TypeInv /\ [Next]_vars => TypeInv'
  <2> SUFFICES ASSUME TypeInv, [Next]_vars PROVE TypeInv'
    OBVIOUS
  <2>1. CASE Processes
    BY <2>1, WriteType, WriterType, ReaderType, ModeType DEF Processes, Writer
  <2>2. CASE Timer \/ Sfd \/ Fifop \/ BottomHalf
    BY <2>2, TimerIrqType, SfdIrqType, FifopIrqType, TaskletType
  <2>3. CASE Clock \/ RadioSends \/ RadioReceives
    BY <2>3, HardwareType
  <2>4. CASE UNCHANGED vars
    BY <2>4 DEF vars, TypeInv, TypeOK, TimerTypeOK, RadioTypeOK, MacTypeOK,
       ProcTypeOK, TxPointerSet, TimerWillFire, radioVars, txVars, sendVars,
       rxVars, taskletVars, modeVars, procVars
  <2> QED BY <2>1, <2>2, <2>3, <2>4 DEF Next
<1> QED BY <1>1, <1>2, PTL

(* Every variable keeps its type: both retry counters and every packet     *)
(* length stay in a byte whatever wraps, the RXFIFO never holds more than  *)
(* it can, and the mailbox holds nothing but received frames.              *)
THEOREM TypeCorrect == LoadedAtRest => (Spec => []TypeOK)
<1>1. TypeInv => TypeOK
  BY DEF TypeInv
<1> QED BY <1>1, TypeInvInductive, PTL DEF Spec

(* No handler follows tx_buf_ptr while it is null, in any environment, if  *)
(* the timer was at rest when the driver was loaded.  (timer_init does not *)
(* see to that: a timer left running at rmmod fires after the next insmod, *)
(* when CC2420_timer_state is 0, TIMER_INITIAL, and tx_buf_ptr is null.)   *)
THEOREM NoNullPacket == LoadedAtRest => (Spec => []TxPointerSet)
<1>1. TypeInv => TxPointerSet
  BY DEF TypeInv
<1> QED BY <1>1, TypeInvInductive, PTL DEF Spec
=============================================================================
