------------------------- MODULE SendServiceProofs -------------------------
(***************************************************************************)
(* What a write gets from the MAC, with one writer and no signals: first   *)
(* while frames are received, acknowledgements among them, then on a       *)
(* silent channel, where write() implements SendService.  For every number *)
(* and length of packets, every bound of the retries, and acknowledgements *)
(* switched on and off at any time.                                        *)
(***************************************************************************)
EXTENDS TOSMacSendProofs, TOSMacReceiveProofs

(* The hardware does not overtake the software, no reception fails, and no *)
(* timer of an earlier load is running.                                    *)
Undisturbed ==
  LoadedAtRest /\ OneWriter /\ InTime /\ FrameAtATime /\ FramesWhole /\ Signals = {}

Entering == \E w \in Writers : w_pc[w] \in {"timer", "arm"}

(* Who has the send: the MAC, while it is not idle and the writer waits for *)
(* it, or the writer, who is told by send_done.                             *)
HandOver ==
  /\ send_done => /\ CC2420_state = "IDLE"
                  /\ \E w \in Writers : w_pc[w] \in {"wait", "clear"}
  /\ CC2420_state # "IDLE" => Entering \/ \E w \in Writers : w_pc[w] = "wait"
  /\ \A w \in Writers :
       /\ w_pc[w] # "failed"
       /\ w_pc[w] \in {"timer", "arm"} => CC2420_state = "PRE_TX"
       /\ w_pc[w] = "wait" => CC2420_state # "IDLE" \/ send_done
       /\ w_pc[w] = "clear" => send_done

(* The packet of a write is allocated until it returns, and the MAC sends  *)
(* no other.                                                               *)
PacketHeld ==
  \A w \in Writers :
    /\ w_pc[w] # "idle" => w_buf[w] \in heap
    /\ w_pc[w] \notin {"idle", "setup"} => tx_buf_ptr = w_buf[w]

(* What the timer was set for. *)
Purpose ==
  /\ CC2420_state = "IDLE" /\ TimerWillFire =>
       CC2420_timer_state \in {"TRANSMIT", "ACK"}
  /\ CC2420_state \in {"TX", "TX_WAIT"} => CC2420_timer_state = "TRANSMIT"
  /\ CC2420_state = "POST_TX" => CC2420_timer_state = "ACK"
  /\ CC2420_state = "PRE_TX" /\ ~Entering => CC2420_timer_state \in Purposes
  /\ \A w \in Writers :
       /\ w_pc[w] = "arm" => CC2420_timer_state = "INITIAL"
       /\ w_pc[w] \in {"setup", "pre_tx", "timer", "arm"} => ~timer.OSSR

(* An ACK that the tasklet is about to act on may be late: the ACK timer   *)
(* has ended the send.  The writer has not gone on by then.                *)
LateAck ==
  tl_pc = "process" /\ tl_state = "POST_TX" =>
    /\ CC2420_state \in {"POST_TX", "IDLE"}
    /\ \E w \in Writers : w_pc[w] = "wait"

CallInv == HandOver /\ PacketHeld /\ Purpose /\ LateAck

(* The parts of the type invariant the steps below need. *)
LEMMA CallTypes ==
  ASSUME TypeInv
  PROVE  /\ timer \in TimerType
         /\ phase \in {"rx", "receiving", "calib", "frame"}
         /\ CC2420_state \in MacStates /\ CC2420_timer_state \in TimerStates
         /\ send_done \in BOOLEAN /\ sfd_edge \in BOOLEAN
         /\ buf \in [Bufs -> Messages] /\ on_air \in SUBSET DSNs
         /\ tx_buf_ptr \in Bufs \cup {None}
         /\ heap \in SUBSET Bufs
         /\ w_buf \in [Writers -> Bufs \cup {None}]
         /\ w_pc \in [Writers -> {"idle", "setup", "pre_tx", "timer", "arm",
                                  "wait", "clear", "sent", "failed"}]
  BY DEF TypeInv, TypeOK, TimerTypeOK, RadioTypeOK, MacTypeOK, ProcTypeOK

(* Once the send is set up its writer waits, and it is the only one. *)
LEMMA WriterWaits ==
  ASSUME Undisturbed, CallInv, CC2420_state # "IDLE", ~Entering
  PROVE  \E w \in Writers : Writers = {w} /\ w_pc[w] = "wait"
  BY DEF Undisturbed, OneWriter, CallInv, HandOver

LEMMA WriterCall ==
  ASSUME Undisturbed, TypeInv, CallInv, NEW w \in Writers, Writer(w)
  PROVE  CallInv'
<1>1. Writers = {w} /\ Signals = {}
  BY DEF Undisturbed, OneWriter
<1> USE <1>1, CallTypes DEF CallInv, HandOver, PacketHeld, Purpose, LateAck, Entering,
      Purposes, TimerWillFire, WriterStep, WriterUnchanged, ProcessRuns,
      IrqPending, taskletVars, sendVars
<1>2. ASSUME NEW b \in Bufs, NEW count, NEW uni, tosmac_write(w, b, count, uni)
      PROVE CallInv'
  BY <1>2 DEF tosmac_write
<1>3. CASE SendSetup(w)
  BY <1>3 DEF SendSetup
<1>4. CASE SendPreTx(w)
  BY <1>4 DEF SendPreTx
<1>5. CASE SetInitialTimer(w)
  BY <1>5 DEF SetInitialTimer
<1>6. CASE StartInitialTimer(w)
  BY <1>6, TimerOps DEF StartInitialTimer, txVars
<1>7. CASE SendWaitEnds(w)
  BY <1>7 DEF SendWaitEnds, txVars
<1>8. CASE SendClears(w)
  BY <1>8 DEF SendClears
<1>9. CASE WriteReturns(w)
  BY <1>9 DEF WriteReturns, txVars
<1> QED BY <1>2, <1>3, <1>4, <1>5, <1>6, <1>7, <1>8, <1>9
        DEF Writer, WriterGoesOn, SendSignalled

(* A send ends: the MAC goes idle and says so to the writer that waits. *)
LEMMA SendEnds ==
  ASSUME Undisturbed, TypeInv, CallInv, CC2420_state' = "IDLE", send_done' = TRUE,
         \E w \in Writers : w_pc[w] = "wait",
         TimerWillFire' => CC2420_timer_state' \in {"TRANSMIT", "ACK"},
         UNCHANGED << tx_buf_ptr, heap, w_pc, w_buf >>,
         tl_pc' = "process" => UNCHANGED << tl_pc, tl_state >>
  PROVE  CallInv'
<1>1. PICK w \in Writers : Writers = {w} /\ w_pc[w] = "wait"
  BY DEF Undisturbed, OneWriter
<1> QED BY <1>1, CallTypes DEF CallInv, HandOver, PacketHeld, Purpose, LateAck, Entering

(* A backoff ends: the send goes on, or fails. *)
LEMMA BackoffEnds ==
  ASSUME Undisturbed, TypeInv, CallInv, CC2420_state = "PRE_TX", ~Entering,
         NEW t \in TimerType, ~t.OIER, ~t.OSSR, NEW fifo, NEW snd,
         CC2420_try_to_send(t, fifo, snd) \/ StartSendFails(t),
         UNCHANGED << tx_buf_ptr, procVars, taskletVars >>
  PROVE  CallInv'
<1>1. PICK w \in Writers : Writers = {w} /\ w_pc[w] = "wait"
  BY WriterWaits
<1>2. UNCHANGED << tx_buf_ptr, heap, w_pc, w_buf, tl_pc, tl_state >>
  BY DEF procVars, taskletVars
<1>3. tl_pc = "process" => tl_state # "POST_TX"
  BY DEF CallInv, LateAck
<1>4. CASE CC2420_send_failed /\ timer' = t
  BY <1>1, <1>2, <1>4, SendEnds DEF CC2420_send_failed, TimerWillFire
<1>5. CASE SendPacket(t, fifo, snd)
  BY <1>1, <1>2, <1>3, <1>5, TimerOps
  DEF SendPacket, SetTimer, CallInv, HandOver, PacketHeld, Purpose, LateAck,
      Entering, Purposes, TimerWillFire
<1>6. CASE ChannelBusy(t, fifo, snd)
  <2>1. CASE /\ UNCHANGED << CC2420_state, send_done >>
             /\ CC2420_timer_state' \in Purposes
    BY <1>1, <1>2, <1>3, <2>1 DEF CallInv, HandOver, PacketHeld, Purpose, LateAck,
       Entering
  <2> QED BY <1>4, <1>6, <2>1 DEF ChannelBusy, SetTimer, Purposes
<1> QED BY <1>4, <1>5, <1>6 DEF CC2420_try_to_send, FlushWhenIdle, StartSendFails

LEMMA TimerCall ==
  ASSUME Undisturbed, TypeInv, CallInv, Timer
  PROVE  CallInv'
<1> DEFINE t == timer_channel_check(timer)
<1> USE CallTypes
<1>1. /\ timer.OSSR /\ t \in TimerType /\ ~t.OSSR /\ ~t.OIER
      /\ UNCHANGED << tx_buf_ptr, procVars, taskletVars >>
  BY TimerOps DEF Timer, TimerIrq, sendVars
<1>2. ~Entering
  BY <1>1 DEF CallInv, Purpose, Entering
<1>3. ASSUME timer' = t, UNCHANGED txVars PROVE CallInv'
  BY <1>1, <1>3 DEF CallInv, HandOver, PacketHeld, Purpose, LateAck, Entering,
     TimerWillFire, txVars, taskletVars, procVars
<1>4. CASE CC2420_state \in {"IDLE", "TX", "TX_WAIT"}
  <2>1. CC2420_timer_state \in {"TRANSMIT", "ACK"} /\ ~AckStillDue
    BY <1>1, <1>4 DEF CallInv, Purpose, TimerWillFire, AckStillDue
  <2> QED BY <1>3, <2>1 DEF Timer, TimerIrq, t
<1>5. CASE CC2420_state = "PRE_TX"
  <2>1. CC2420_timer_state \in Purposes
    BY <1>2, <1>5 DEF CallInv, Purpose
  <2>2. \/ StartSendFails(t)
        \/ \E fifo, snd : CC2420_try_to_send(t, fifo, snd)
    BY <2>1 DEF Timer, TimerIrq, Purposes, t
  <2> HIDE DEF t
  <2> QED BY <1>1, <1>2, <1>5, <2>2, BackoffEnds
<1>6. CASE CC2420_state = "POST_TX"
  <2>1. CC2420_timer_state = "ACK"
    BY <1>6 DEF CallInv, Purpose
  <2>2. CC2420_packet_sent /\ timer' = t
    BY <1>6, <2>1 DEF Timer, TimerIrq, AckStillDue, t
  <2>3. \E w \in Writers : w_pc[w] = "wait"
    BY <1>2, <1>6, WriterWaits
  <2> QED BY <1>1, <2>2, <2>3, SendEnds
          DEF TimerWillFire, CC2420_packet_sent, procVars, taskletVars
<1> QED BY <1>4, <1>5, <1>6 DEF MacStates

LEMMA SfdCall ==
  ASSUME Undisturbed, TypeInv, CallInv, Sfd
  PROVE  CallInv'
<1> USE CallTypes, TimerOps
<1>1. UNCHANGED << tx_buf_ptr, procVars, taskletVars >>
  BY DEF Sfd, SfdIrq, sendVars
<1>2. CASE CC2420_state \in {"IDLE", "PRE_TX", "POST_TX"}
  <2>1. UNCHANGED << timer, CC2420_state, CC2420_timer_state, send_done >>
    BY <1>2 DEF Sfd, SfdIrq
  <2> QED BY <1>1, <2>1 DEF CallInv, HandOver, PacketHeld, Purpose, LateAck,
          Entering, TimerWillFire, taskletVars, procVars
<1>3. CASE CC2420_state \in {"TX", "TX_WAIT"}
  <2>1. ~Entering /\ CC2420_timer_state = "TRANSMIT"
    BY <1>3 DEF CallInv, HandOver, Purpose, Entering
  <2>2. PICK w \in Writers : Writers = {w} /\ w_pc[w] = "wait"
    BY <1>3, <2>1, WriterWaits
  <2>3. CASE CC2420_packet_sent /\ UNCHANGED << timer, CC2420_timer_state >>
    BY <1>1, <2>1, <2>2, <2>3, SendEnds
    DEF TimerWillFire, CC2420_packet_sent, procVars, taskletVars
  <2>4. CASE /\ CC2420_state' = "TX_WAIT" /\ CC2420_timer_state' = "TRANSMIT"
             /\ UNCHANGED send_done
    BY <1>1, <1>3, <2>1, <2>2, <2>4 DEF CallInv, HandOver, PacketHeld, Purpose,
       LateAck, Entering, taskletVars, procVars
  <2>5. CASE /\ CC2420_state' = "POST_TX" /\ CC2420_timer_state' = "ACK"
             /\ UNCHANGED send_done
    BY <1>1, <1>3, <2>1, <2>2, <2>5 DEF CallInv, HandOver, PacketHeld, Purpose,
       LateAck, Entering, taskletVars, procVars
  <2> QED BY <1>3, <2>3, <2>4, <2>5 DEF Sfd, SfdIrq, SetTimer
<1> QED BY <1>2, <1>3 DEF MacStates

(* A reception that does not fail leaves the send alone, but for its ACK.  *)
LEMMA ReceiveCall ==
  ASSUME Undisturbed, TypeInv, FrameInv, NothingFails, CallInv, Fifop \/ BottomHalf
  PROVE  CallInv'
<1> USE CallTypes
<1>1. CASE Fifop
  <2>1. TEST_FIFO_PIN
    BY <1>1, OneElement DEF Fifop, FifopIrq, FrameInv, OneFrame, TEST_FIFO_PIN
  <2>2. timer' = timer \/ (CC2420_state = "PRE_TX" /\ timer' = timer_start(timer_stop(timer)))
    BY <1>1 DEF Fifop, FifopIrq
  <2>3. timer'.OSSR = timer.OSSR /\ (CC2420_state = "IDLE" => timer' = timer)
    BY <2>2, TimerOps
  <2> QED BY <1>1, <2>1, <2>3 DEF Fifop, FifopIrq, CallInv, HandOver, PacketHeld,
          Purpose, LateAck, Entering, TimerWillFire, procVars, sendVars
<1>2. CASE BottomHalf
  <2>1. UNCHANGED << timer, CC2420_timer_state, tx_buf_ptr, heap, w_pc, w_buf >>
    BY <1>2 DEF BottomHalf, procVars, sendVars, Tasklet, TaskletUnchanged,
       TaskletOverflow, TaskletReadsNothing, CC2420_read_packet, TaskletFlush,
       TaskletRearm, CC2420_RXFIFO_done, TaskletAck, CC2420_packet_rcvd,
       TaskletTail, TaskletFailed
  <2>2. CASE TaskletAck
    <3>1. /\ tl_pc = "process" /\ tl_state = "POST_TX" /\ tl_pc' = "idle"
          /\ CC2420_state' = "IDLE" /\ send_done'
      BY <2>2 DEF TaskletAck, TaskletStep, IsAck, CC2420_packet_sent
    <3>2. /\ CC2420_state \in {"POST_TX", "IDLE"}
          /\ \E w \in Writers : w_pc[w] = "wait"
      BY <3>1 DEF CallInv, LateAck
    <3>3. TimerWillFire' => CC2420_timer_state' \in {"TRANSMIT", "ACK"}
      BY <2>1, <3>2 DEF CallInv, Purpose, TimerWillFire
    <3> QED BY <2>1, <3>1, <3>2, <3>3, SendEnds
  <2>3. CASE CC2420_RXFIFO_done
    BY <2>1, <2>3, WriterWaits DEF CC2420_RXFIFO_done, CallInv, HandOver, PacketHeld,
       Purpose, LateAck, Entering, TimerWillFire
  <2>4. CASE UNCHANGED << CC2420_state, send_done, tl_state >> /\ tl_pc' # "process"
    BY <2>1, <2>4 DEF CallInv, HandOver, PacketHeld, Purpose, LateAck, Entering,
       TimerWillFire
  <2> QED BY <1>2, <2>2, <2>3, <2>4 DEF BottomHalf, Tasklet, TaskletOverflow,
          TaskletReadsNothing, CC2420_read_packet, TaskletFlush, TaskletRearm,
          CC2420_packet_rcvd, TaskletTail, TaskletFailed, TaskletStep,
          NothingFails, TypeInv, TypeOK, MacTypeOK
<1> QED BY <1>1, <1>2

LEMMA HardwareCall ==
  ASSUME Undisturbed, TypeInv, CallInv, Clock \/ RadioSends \/ RadioReceives
  PROVE  CallInv'
<1> USE CallTypes DEF CallInv, HandOver, PacketHeld, Purpose, LateAck, Entering,
      TimerWillFire, driverVars, txVars, sendVars, taskletVars, procVars
<1>1. CASE Clock
  <2>1. /\ \A w \in Writers : w_pc[w] \notin {"setup", "pre_tx", "timer", "arm"}
        /\ timer.OIER
    BY <1>1 DEF Clock, Undisturbed, InTime, SettingUp, TimerMatch
  <2> QED BY <1>1, <2>1 DEF Clock
<1>2. CASE RadioSends \/ RadioReceives
  BY <1>2 DEF RadioSends, RadioReceives
<1> QED BY <1>1, <1>2

sendPath == << timer, phase, txfifo, sending, on_air, sfd_edge, fifop_edge, txVars,
               sendVars, taskletVars, heap, w_pc, w_buf, w_ret >>

LEMMA OtherProcessSame ==
  ASSUME \/ \E r \in Readers : Reader(r)
         \/ \E nonblock \in OpenFlags : tosmac_open(nonblock)
         \/ \E on \in AckModes : tosmac_ioctl_ack(on)
         \/ UNCHANGED vars
  PROVE  UNCHANGED sendPath
<1> USE DEF sendPath, radioVars
<1>1. ASSUME NEW r \in Readers, Reader(r) PROVE UNCHANGED sendPath
  BY <1>1 DEF Reader, ReaderGoesOn, tosmac_read, ReadWaitEnds, ReadSignalled,
     ReadClears, ReadChecks, ReadCopies, ReaderUnchanged
<1> QED BY <1>1 DEF tosmac_open, tosmac_ioctl_ack, vars, procVars

LEMMA SameCall == ASSUME CallInv, UNCHANGED sendPath PROVE CallInv'
  BY DEF sendPath, txVars, sendVars, taskletVars, CallInv, HandOver, PacketHeld,
     Purpose, LateAck, Entering, TimerWillFire

LEMMA CallInvInductive ==
  Undisturbed => (Spec => [](TypeInv /\ FrameInv /\ NothingFails /\ CallInv))
<1> SUFFICES ASSUME Undisturbed
             PROVE  Spec => [](TypeInv /\ FrameInv /\ NothingFails /\ CallInv)
  OBVIOUS
<1>1. Init => CallInv
  BY DEF Init, CC2420_init, Undisturbed, LoadedAtRest, timer_init, CallInv, HandOver,
     PacketHeld, Purpose, LateAck, Entering, TimerWillFire
<1>2. TypeInv /\ FrameInv /\ NothingFails /\ CallInv /\ [Next]_vars => CallInv'
  <2> SUFFICES ASSUME TypeInv, FrameInv, NothingFails, CallInv, [Next]_vars
               PROVE  CallInv'
    OBVIOUS
  <2>1. CASE \E w \in Writers : Writer(w)
    BY <2>1, WriterCall
  <2>2. CASE Timer \/ Sfd
    BY <2>2, TimerCall, SfdCall
  <2>3. CASE Fifop \/ BottomHalf
    BY <2>3, ReceiveCall
  <2>4. CASE Clock \/ RadioSends \/ RadioReceives
    BY <2>4, HardwareCall
  <2>5. CASE UNCHANGED sendPath
    BY <2>5, SameCall
  <2> QED BY <2>1, <2>2, <2>3, <2>4, <2>5, OtherProcessSame DEF Next, Processes
<1>3. LoadedAtRest /\ FrameAtATime /\ FramesWhole
  BY DEF Undisturbed
<1> QED BY <1>1, <1>2, <1>3, NothingFailsInductive, PTL DEF Spec

(* send_done is set only for a writer that is there to take it, also by an *)
(* ACK that comes when the ACK timer has already ended the send.           *)
THEOREM SendDoneAlwaysClaimed == Undisturbed => (Spec => []SendDoneClaimed)
<1>1. CallInv => SendDoneClaimed
  BY DEF CallInv, HandOver, SendDoneClaimed
<1> QED BY <1>1, CallInvInductive, PTL

(* The MAC never reaches for a packet that tosmac_write has freed: no timer *)
(* of a send outlives it.                                                   *)
THEOREM TxBufferNeverFreed == Undisturbed => (Spec => []TxBufferLive)
<1>1. CallInv => TxBufferLive
  BY DEF CallInv, HandOver, PacketHeld, Purpose, Entering, TxBufferLive, MayUseTxBuffer
<1> QED BY <1>1, CallInvInductive, PTL
-----------------------------------------------------------------------------
(* On a silent channel the radio keeps step with the MAC. *)
Silent == RxFrames = {}

NoReception ==
  /\ phase # "receiving" /\ ~fifop_edge
  /\ ~read_packet_tasklet /\ tl_pc = "idle"

InStep ==
  /\ CC2420_state \in {"IDLE", "PRE_TX", "POST_TX"} => phase = "rx" /\ ~sfd_edge
  /\ CC2420_state = "TX" =>
       (phase = "calib" /\ ~sfd_edge) \/ (phase = "frame" /\ sfd_edge)
  /\ CC2420_state = "TX_WAIT" =>
       (phase = "frame" /\ ~sfd_edge) \/ (phase = "rx" /\ sfd_edge)

(* Where the frame of the packet is: in the TXFIFO, going out, on the air; *)
(* and the length the writer looks at in the end says which.               *)
Sending == CC2420_state # "IDLE" \/ \E w \in Writers : w_pc[w] = "pre_tx"
Ended == send_done \/ \E w \in Writers : w_pc[w] = "sent"
BackingOff == CC2420_state = "PRE_TX" /\ ~Entering /\ CC2420_timer_state = "BACKOFF"
OnAir == buf[tx_buf_ptr].dsn \in on_air

FrameFollowed ==
  /\ CC2420_state = "POST_TX" \/ (CC2420_state = "TX_WAIT" /\ phase = "rx") => OnAir
  /\ Sending /\ CC2420_state \in {"IDLE", "PRE_TX"} => ~OnAir
  /\ phase \in {"calib", "frame"} => ~OnAir
  /\ phase = "calib" \/ BackingOff => txfifo = buf[tx_buf_ptr].dsn
  /\ phase = "frame" => sending = buf[tx_buf_ptr].dsn
  /\ Ended => (buf[tx_buf_ptr].length = INVALID <=> ~OnAir)

(* The length while it is the payload's, and while it includes header and  *)
(* footer: taking them off again does not give INVALID.                    *)
SentLengths == MSG_HEADER_SIZE + MSG_FOOTER_SIZE ..
                 TOSH_DATA_LENGTH + MSG_HEADER_SIZE + MSG_FOOTER_SIZE

LengthInv ==
  /\ \A w \in Writers : w_pc[w] = "setup" => buf[w_buf[w]].length =< TOSH_DATA_LENGTH
  /\ Sending => buf[tx_buf_ptr].length \in SentLengths

QuietInv == NoReception /\ InStep /\ FrameFollowed /\ LengthInv

LEMMA FullLengths ==
  /\ TOSH_DATA_LENGTH \in 0 .. 116
  /\ \A n \in Nat : AtMost(n, TOSH_DATA_LENGTH) =< TOSH_DATA_LENGTH
  /\ \A n \in Nat : n =< TOSH_DATA_LENGTH => FullLength(n) \in SentLengths
  /\ \A n \in SentLengths : (n - MSG_HEADER_SIZE - MSG_FOOTER_SIZE) % 256 # INVALID
<1>1. TOSH_DATA_LENGTH \in 0 .. 116
  BY MacAssumption DEF MacAssumption
<1> QED BY <1>1 DEF AtMost, FullLength, MSG_DATA_SIZE, MSG_HEADER_SIZE,
        MSG_FOOTER_SIZE, INVALID, SentLengths

LEMMA WriterQuiet ==
  ASSUME Undisturbed, TypeInv, CallInv, QuietInv, NEW w \in Writers, Writer(w)
  PROVE  QuietInv'
<1>1. Writers = {w} /\ Signals = {}
  BY DEF Undisturbed, OneWriter
<1> USE <1>1, CallTypes DEF QuietInv, NoReception, InStep, FrameFollowed, LengthInv,
      CallInv, HandOver, PacketHeld, Purpose, Entering, Sending, Ended, OnAir,
      BackingOff, WriterStep, WriterUnchanged, taskletVars, sendVars
<1>2. ASSUME NEW b \in Bufs, NEW count \in Counts, NEW uni, tosmac_write(w, b, count, uni)
      PROVE QuietInv'
  BY <1>2, FullLengths, DeviceAssumption DEF tosmac_write, DeviceAssumption
<1>3. CASE SendSetup(w)
  <2> DEFINE a == w_buf[w]
  <2>1. /\ w_pc[w] = "setup" /\ w_pc'[w] = "pre_tx"
        /\ a \in Bufs /\ tx_buf_ptr' = a
        /\ ~send_done /\ CC2420_state = "IDLE" /\ phase = "rx"
    BY <1>3 DEF SendSetup
  <2>2. /\ UNCHANGED << phase, txfifo, sending, sfd_edge, fifop_edge, CC2420_state,
                        CC2420_timer_state, send_done, read_packet_tasklet, tl_pc >>
    BY <1>3 DEF SendSetup
  <2>3. /\ buf'[a].dsn = current_DSN'
        /\ buf'[a].length = FullLength(buf[a].length)
    BY <1>3, <2>1 DEF SendSetup, Messages
  <2>4. buf[a].length \in Nat /\ buf[a].length =< TOSH_DATA_LENGTH
    BY <2>1 DEF Messages, UInt8
  <2>5. /\ buf'[a].dsn \notin on_air'
        /\ buf'[a].length \in SentLengths
    BY <1>3, <2>3, <2>4, FullLengths DEF SendSetup
  <2> HIDE DEF a
  <2> QED BY <2>1, <2>2, <2>5
<1>4. CASE SendPreTx(w)
  BY <1>4 DEF SendPreTx
<1>5. CASE SetInitialTimer(w)
  BY <1>5 DEF SetInitialTimer
<1>6. CASE StartInitialTimer(w)
  BY <1>6 DEF StartInitialTimer, txVars
<1>7. CASE SendWaitEnds(w)
  BY <1>7 DEF SendWaitEnds, txVars
<1>8. CASE SendClears(w)
  BY <1>8 DEF SendClears
<1>9. CASE WriteReturns(w)
  BY <1>9 DEF WriteReturns, txVars
<1> QED BY <1>2, <1>3, <1>4, <1>5, <1>6, <1>7, <1>8, <1>9
        DEF Writer, WriterGoesOn, SendSignalled

(* A backoff ends: the frame is written or was, and the send goes on or    *)
(* fails; in each case the frame has not been on the air.                  *)
LEMMA BackoffEndsQuiet ==
  ASSUME Undisturbed, TypeInv, CallInv, QuietInv, CC2420_state = "PRE_TX", ~Entering,
         NEW t, NEW snd,
         \/ CC2420_try_to_send(t, buf[tx_buf_ptr].dsn, snd)
         \/ StartSendFails(t),
         UNCHANGED << on_air, sfd_edge, fifop_edge, tx_buf_ptr, procVars,
                      taskletVars >>
  PROVE  QuietInv'
<1>1. PICK w \in Writers : Writers = {w} /\ w_pc[w] = "wait"
  BY WriterWaits
<1>2. tx_buf_ptr \in Bufs
  BY CallTypes DEF TypeInv, TxPointerSet
<1> USE CallTypes, <1>1, <1>2 DEF QuietInv, NoReception, InStep, FrameFollowed,
      LengthInv, CallInv, HandOver, Entering, Sending, Ended, OnAir, BackingOff,
      SetTimer, taskletVars, procVars
<1>3. CASE SendPacket(t, buf[tx_buf_ptr].dsn, snd)
  BY <1>3 DEF SendPacket, Accepted
<1>4. ASSUME CC2420_send_failed, UNCHANGED phase PROVE QuietInv'
  <2>1. /\ CC2420_state' = "IDLE" /\ send_done'
        /\ buf'[tx_buf_ptr].length = INVALID
        /\ buf'[tx_buf_ptr].dsn = buf[tx_buf_ptr].dsn
    BY <1>4 DEF CC2420_send_failed, Messages
  <2> QED BY <1>4, <2>1
<1>5. CASE ChannelBusy(t, buf[tx_buf_ptr].dsn, snd)
  BY <1>4, <1>5 DEF ChannelBusy
<1>6. CASE StartSendFails(t)
  BY <1>4, <1>6 DEF StartSendFails
<1> QED BY <1>3, <1>5, <1>6 DEF CC2420_try_to_send, FlushWhenIdle

(* A send ends well once its frame has been on the air. *)
LEMMA PacketSentQuiet ==
  ASSUME Undisturbed, TypeInv, CallInv, QuietInv, CC2420_packet_sent, OnAir,
         CC2420_state # "IDLE", ~Entering, phase' = "rx", sfd_edge' = FALSE,
         UNCHANGED << on_air, fifop_edge, tx_buf_ptr, procVars, taskletVars >>
  PROVE  QuietInv'
<1>1. PICK w \in Writers : Writers = {w} /\ w_pc[w] = "wait"
  BY WriterWaits
<1>2. tx_buf_ptr \in Bufs
  BY CallTypes DEF TypeInv, TxPointerSet
<1> USE CallTypes, <1>1, <1>2 DEF QuietInv, NoReception, InStep, FrameFollowed,
      LengthInv, Sending, Ended, OnAir, BackingOff, taskletVars, procVars
<1>3. /\ CC2420_state' = "IDLE" /\ send_done'
      /\ buf'[tx_buf_ptr].length # INVALID
      /\ buf'[tx_buf_ptr].dsn = buf[tx_buf_ptr].dsn
  BY FullLengths DEF CC2420_packet_sent, Messages
<1> QED BY <1>3

LEMMA TimerQuiet ==
  ASSUME Undisturbed, TypeInv, CallInv, QuietInv, Timer
  PROVE  QuietInv'
<1> DEFINE t == timer_channel_check(timer)
<1> USE CallTypes
<1>1. /\ timer.OSSR
      /\ UNCHANGED << on_air, sfd_edge, fifop_edge, tx_buf_ptr, procVars, taskletVars >>
  BY DEF Timer, TimerIrq, sendVars
<1>2. ~Entering
  BY <1>1 DEF CallInv, Purpose, Entering
<1>3. CASE CC2420_state \in {"IDLE", "TX", "TX_WAIT"}
  <2>1. CC2420_timer_state \in {"TRANSMIT", "ACK"} /\ ~AckStillDue
    BY <1>1, <1>3 DEF CallInv, Purpose, TimerWillFire, AckStillDue
  <2>2. UNCHANGED << txfifo, sending, phase, txVars >>
    BY <2>1 DEF Timer, TimerIrq
  <2> QED BY <1>1, <2>2 DEF QuietInv, NoReception, InStep, FrameFollowed, LengthInv,
          Entering, Sending, Ended, OnAir, BackingOff, txVars, taskletVars, procVars
<1>4. CASE CC2420_state = "PRE_TX"
  <2>1. CC2420_timer_state \in Purposes
    BY <1>2, <1>4 DEF CallInv, Purpose
  <2>2. CC2420_timer_state = "BACKOFF" => txfifo = buf[tx_buf_ptr].dsn
    BY <1>2, <1>4 DEF QuietInv, FrameFollowed, BackingOff
  <2>3. \/ StartSendFails(t)
        \/ \E snd : CC2420_try_to_send(t, buf[tx_buf_ptr].dsn, snd)
    BY <2>1, <2>2 DEF Timer, TimerIrq, Purposes, t
  <2> HIDE DEF t
  <2> QED BY <1>1, <1>2, <1>4, <2>3, BackoffEndsQuiet
<1>5. CASE CC2420_state = "POST_TX"
  <2>1. CC2420_timer_state = "ACK" /\ phase = "rx" /\ ~sfd_edge /\ OnAir
    BY <1>5 DEF CallInv, Purpose, QuietInv, InStep, FrameFollowed
  <2>2. CC2420_packet_sent /\ UNCHANGED phase
    BY <1>5, <2>1 DEF Timer, TimerIrq, AckStillDue
  <2> QED BY <1>1, <1>2, <1>5, <2>1, <2>2, PacketSentQuiet
<1> QED BY <1>3, <1>4, <1>5 DEF MacStates

LEMMA SfdQuiet ==
  ASSUME Undisturbed, TypeInv, CallInv, QuietInv, Sfd
  PROVE  QuietInv'
<1> USE CallTypes
<1>1. /\ sfd_edge /\ sfd_edge' = FALSE
      /\ UNCHANGED << phase, txfifo, sending, on_air, fifop_edge, tx_buf_ptr,
                      procVars, taskletVars >>
  BY DEF Sfd, SfdIrq, txSide, sendVars
<1>2. /\ CC2420_state \in {"TX", "TX_WAIT"}
      /\ CC2420_state = "TX" => phase = "frame"
      /\ CC2420_state = "TX_WAIT" => phase = "rx" /\ OnAir
      /\ ~Entering
  BY <1>1 DEF QuietInv, InStep, FrameFollowed, CallInv, HandOver, Entering, MacStates
<1>3. PICK w \in Writers : Writers = {w} /\ w_pc[w] = "wait"
  BY <1>2, WriterWaits
<1>4. ASSUME \/ CC2420_state = "TX" /\ CC2420_state' = "TX_WAIT"
             \/ CC2420_state = "TX_WAIT" /\ CC2420_state' = "POST_TX",
             UNCHANGED << send_done, buf >>
      PROVE  QuietInv'
  BY <1>1, <1>2, <1>3, <1>4 DEF QuietInv, NoReception, InStep, FrameFollowed,
     LengthInv, Entering, Sending, Ended, OnAir, BackingOff, taskletVars, procVars
<1>5. CASE CC2420_state = "TX"
  BY <1>2, <1>4, <1>5 DEF Sfd, SfdIrq, TEST_SFD_PIN
<1>6. CASE CC2420_state = "TX_WAIT"
  <2>1. CASE CC2420_packet_sent
    BY <1>1, <1>2, <1>6, <2>1, PacketSentQuiet
  <2> QED BY <1>4, <1>6, <2>1 DEF Sfd, SfdIrq
<1> QED BY <1>2, <1>5, <1>6

LEMMA HardwareQuiet ==
  ASSUME Undisturbed, TypeInv, CallInv, QuietInv, Clock \/ RadioSends
  PROVE  QuietInv'
<1> USE CallTypes DEF driverVars, taskletVars, procVars, txVars, sendVars
<1>1. CASE Clock
  BY <1>1 DEF Clock, radioVars, QuietInv, NoReception, InStep, FrameFollowed,
     LengthInv, Entering, Sending, Ended, OnAir, BackingOff
<1>2. CASE RadioSends
  <2>1. /\ ~sfd_edge /\ sfd_edge' = TRUE /\ UNCHANGED << fifop_edge, txfifo >>
    BY <1>2 DEF RadioSends, EdgesTaken, Undisturbed, InTime, TxSfdRise, TxSfdFall
  <2>2. CASE TxSfdRise
    <3>1. CC2420_state = "TX" /\ phase = "calib"
      BY <2>1, <2>2 DEF QuietInv, InStep, TxSfdRise, MacStates
    <3> QED BY <1>2, <2>1, <2>2, <3>1 DEF RadioSends, TxSfdRise, QuietInv,
            NoReception, InStep, FrameFollowed, LengthInv, Entering, Sending,
            Ended, OnAir, BackingOff
  <2>3. CASE TxSfdFall
    <3>1. CC2420_state = "TX_WAIT" /\ phase = "frame"
      BY <2>1, <2>3 DEF QuietInv, InStep, TxSfdFall, MacStates
    <3>2. tx_buf_ptr \in Bufs /\ sending = buf[tx_buf_ptr].dsn
      BY <3>1 DEF TypeInv, TxPointerSet, QuietInv, FrameFollowed
    <3>3. sending # None
      BY <3>2, RadioAssumption DEF RadioAssumption, Messages
    <3>4. on_air' = on_air \cup {buf[tx_buf_ptr].dsn}
      BY <2>3, <3>2, <3>3 DEF TxSfdFall
    <3>5. PICK w \in Writers : Writers = {w} /\ w_pc[w] = "wait"
      BY <3>1, WriterWaits DEF CallInv, HandOver, Entering
    <3>6. ~send_done
      BY <3>1 DEF CallInv, HandOver
    <3> QED BY <1>2, <2>1, <2>3, <3>1, <3>4, <3>5, <3>6 DEF RadioSends, TxSfdFall,
            QuietInv, NoReception, InStep, FrameFollowed, LengthInv, Entering,
            Sending, Ended, OnAir, BackingOff
  <2> QED BY <1>2, <2>2, <2>3 DEF RadioSends
<1> QED BY <1>1, <1>2

(* The receive path never runs. *)
LEMMA ReceiveSilent ==
  ASSUME Silent, QuietInv
  PROVE  ~Fifop /\ ~BottomHalf /\ ~RadioReceives
<1>1. ~Fifop
  BY DEF QuietInv, NoReception, Fifop, FifopIrq
<1>2. ~BottomHalf
  BY DEF QuietInv, NoReception, BottomHalf, Tasklet, TaskletStep, TaskletStarts,
     TaskletOverflow, TaskletReadsNothing, CC2420_read_packet, TaskletFlush,
     TaskletRearm, CC2420_RXFIFO_done, TaskletAck, CC2420_packet_rcvd,
     TaskletTail, TaskletFailed
<1>3. ~RadioReceives
  BY DEF Silent, RadioReceives, RxSfdRise
<1> QED BY <1>1, <1>2, <1>3

LEMMA SameQuiet == ASSUME QuietInv, UNCHANGED sendPath PROVE QuietInv'
  BY DEF sendPath, txVars, sendVars, taskletVars, QuietInv, NoReception, InStep,
     FrameFollowed, LengthInv, Entering, Sending, Ended, OnAir, BackingOff

SilentInv == TypeInv /\ CallInv /\ QuietInv

LEMMA QuietInvInductive == Undisturbed /\ Silent => (Spec => []SilentInv)
<1> SUFFICES ASSUME Undisturbed, Silent PROVE Spec => []SilentInv
  OBVIOUS
<1>1. Init => QuietInv
  BY DEF Init, CC2420_init, RadioInit, QuietInv, NoReception, InStep,
     FrameFollowed, LengthInv, Sending, Ended, BackingOff
<1>2. TypeInv /\ CallInv /\ QuietInv /\ [Next]_vars => QuietInv'
  <2> SUFFICES ASSUME TypeInv, CallInv, QuietInv, [Next]_vars PROVE QuietInv'
    OBVIOUS
  <2>1. CASE \E w \in Writers : Writer(w)
    BY <2>1, WriterQuiet
  <2>2. CASE Timer \/ Sfd \/ Clock \/ RadioSends
    BY <2>2, TimerQuiet, SfdQuiet, HardwareQuiet
  <2>3. CASE UNCHANGED sendPath
    BY <2>3, SameQuiet
  <2> QED BY <2>1, <2>2, <2>3, ReceiveSilent, OtherProcessSame DEF Next, Processes
<1> QED BY <1>1, <1>2, CallInvInductive, PTL DEF Spec, SilentInv

(* A MAC that is idle, ready for the next write, has a radio that is not   *)
(* sending.                                                                *)
THEOREM IdleIsSilent == Undisturbed /\ Silent => (Spec => []IdleMeansSilent)
<1>1. SilentInv => IdleMeansSilent
  BY DEF SilentInv, QuietInv, InStep, IdleMeansSilent, Transmitting
<1> QED BY <1>1, QuietInvInductive, PTL

(* The TXFIFO is not rewritten while its frame goes out: only the timer     *)
(* handler writes it, and the timer then runs for the transmission.        *)
THEOREM FifoUntouched == Undisturbed /\ Silent => (Spec => FifoUntouchedWhileSending)
<1> SUFFICES ASSUME Undisturbed, Silent PROVE Spec => FifoUntouchedWhileSending
  OBVIOUS
<1>1. SilentInv /\ [Next]_vars => [Transmitting => txfifo' = txfifo]_vars
  <2> SUFFICES ASSUME TypeInv, CallInv, QuietInv, [Next]_vars, Transmitting
               PROVE  txfifo' = txfifo
    BY DEF SilentInv
  <2>1. CASE Timer
    <3>1. CC2420_state \in {"TX", "TX_WAIT"} /\ CC2420_timer_state = "TRANSMIT"
      BY CallTypes DEF Transmitting, QuietInv, InStep, CallInv, Purpose, MacStates
    <3> QED BY <2>1, <3>1 DEF Timer, TimerIrq
  <2>2. ASSUME NEW w \in Writers, Writer(w) PROVE UNCHANGED txfifo
    BY <2>2 DEF Writer, WriterGoesOn, tosmac_write, SendSetup, SendPreTx,
       SetInitialTimer, StartInitialTimer, SendWaitEnds, SendClears, WriteReturns,
       SendSignalled, WriterUnchanged
  <2>3. CASE Sfd \/ Clock \/ RadioSends
    BY <2>3 DEF Sfd, SfdIrq, txSide, Clock, radioVars, RadioSends, TxSfdRise, TxSfdFall
  <2> QED BY <2>1, <2>2, <2>3, ReceiveSilent, OtherProcessSame
          DEF Next, Processes, sendPath, vars
<1> QED BY <1>1, QuietInvInductive, PTL DEF FifoUntouchedWhileSending, Spec
-----------------------------------------------------------------------------
(* The refinement of SendService. *)
(* What does not touch the calls, the numbers of the packets or the air is *)
(* a stutter of the service.                                               *)
LEMMA ServiceStutters ==
  ASSUME TypeInv, UNCHANGED << on_air, w_pc, w_buf, w_ret >>,
         \A b \in Bufs : buf'[b].dsn = buf[b].dsn
  PROVE  UNCHANGED Service!vars
  BY CallTypes DEF Service!vars, Aired

LEMMA TimerServes ==
  ASSUME TypeInv, Timer \/ Sfd
  PROVE  UNCHANGED Service!vars
<1>1. UNCHANGED << on_air, w_pc, w_buf, w_ret >>
  BY DEF Timer, TimerIrq, Sfd, SfdIrq, txSide, procVars
<1>2. \/ UNCHANGED buf
      \/ \E n : buf' = [buf EXCEPT ![tx_buf_ptr].length = n]
  BY DEF Timer, TimerIrq, Sfd, SfdIrq, CC2420_try_to_send, SendPacket, ChannelBusy,
     FlushWhenIdle, StartSendFails, CC2420_packet_sent, CC2420_send_failed, txVars
<1>3. \A b \in Bufs : buf'[b].dsn = buf[b].dsn
  BY <1>2, CallTypes DEF Messages
<1> QED BY <1>1, <1>3, ServiceStutters

LEMMA RadioServes ==
  ASSUME Undisturbed, RadioSends
  PROVE  [Service!Next]_Service!vars
<1>1. UNCHANGED << w_pc, w_buf, w_ret, buf >> /\ on_air \subseteq on_air'
  BY DEF RadioSends, TxSfdRise, TxSfdFall, driverVars, procVars, txVars
<1>2. CASE \E w \in Writers : Aired(w)' /\ ~Aired(w)
  <2>1. PICK w \in Writers : Aired(w)' /\ ~Aired(w)
    BY <1>2
  <2>2. Writers = {w} /\ w_pc[w] # "idle"
    BY <2>1, <1>1 DEF Undisturbed, OneWriter, Aired
  <2>3. Service!Air(w)
    BY <1>1, <2>1, <2>2 DEF Service!Air, Aired
  <2> QED BY <2>3 DEF Service!Next
<1>3. CASE \A w \in Writers : Aired(w)' => Aired(w)
  <2>1. \A w \in Writers : Aired(w)' <=> Aired(w)
    BY <1>1, <1>3 DEF Aired
  <2> QED BY <1>1, <2>1 DEF Service!vars
<1> QED BY <1>2, <1>3

LEMMA WriterServes ==
  ASSUME Undisturbed, SilentInv, NEW w \in Writers, Writer(w)
  PROVE  [Service!Next]_Service!vars
<1>1. Writers = {w} /\ Signals = {}
  BY DEF Undisturbed, OneWriter
<1>2. w_ret \in [Writers -> {"none", "ok", "EFAULT"}]
  BY DEF SilentInv, TypeInv, TypeOK, ProcTypeOK
<1>3. /\ w_buf[w] \in Bufs \cup {None}
      /\ w_pc[w] # "idle" => w_buf[w] # None
  BY CallTypes DEF SilentInv, TypeInv, TxPointerSet
<1> USE <1>1, <1>2, <1>3, CallTypes DEF SilentInv, Aired, WriterStep, Service!vars
<1>4. ASSUME NEW b \in Bufs, NEW count \in Counts, NEW uni, tosmac_write(w, b, count, uni)
      PROVE  Service!Next
  <2>1. /\ w_pc[w] = "idle" /\ w_pc'[w] = "setup" /\ w_ret[w] # "pending"
        /\ w_pc' = [w_pc EXCEPT ![w] = "setup"]
    BY <1>4 DEF tosmac_write, CallInv, HandOver, Entering
  <2>2. Service!Submit(w)
    BY <2>1 DEF Service!Submit
  <2> QED BY <2>2 DEF Service!Next
<1>5. CASE SendSetup(w)
  <2>1. /\ w_pc[w] = "setup" /\ w_pc'[w] = "pre_tx" /\ UNCHANGED << w_ret, w_buf >>
        /\ w_pc' = [w_pc EXCEPT ![w] = "pre_tx"]
    BY <1>5 DEF SendSetup
  <2>2. buf'[w_buf[w]].dsn \notin on_air'
    BY <1>5, <2>1 DEF SendSetup, Messages
  <2> QED BY <2>1, <2>2
<1>6. CASE SendPreTx(w) \/ SetInitialTimer(w) \/ StartInitialTimer(w)
        \/ SendWaitEnds(w) \/ SendClears(w)
  BY <1>6 DEF SendPreTx, SetInitialTimer, StartInitialTimer, SendWaitEnds,
     SendClears, txVars
<1>7. CASE WriteReturns(w)
  <2>1. /\ w_pc[w] = "sent" /\ w_pc'[w] = "idle"
        /\ w_pc' = [w_pc EXCEPT ![w] = "idle"]
        /\ w_ret' = [w_ret EXCEPT ![w] =
              IF buf[tx_buf_ptr].length # INVALID THEN "ok" ELSE "EFAULT"]
    BY <1>7 DEF WriteReturns, CallInv, HandOver
  <2>2. /\ tx_buf_ptr = w_buf[w]
        /\ buf[tx_buf_ptr].length # INVALID <=> Aired(w)
    BY <2>1 DEF CallInv, PacketHeld, QuietInv, FrameFollowed, Ended, OnAir
  <2>3. CASE Aired(w)
    BY <2>1, <2>2, <2>3 DEF Service!Succeed, Service!Next
  <2>4. CASE ~Aired(w)
    BY <2>1, <2>2, <2>4 DEF Service!Fail, Service!Next
  <2> QED BY <2>3, <2>4
<1> QED BY <1>4, <1>5, <1>6, <1>7 DEF Writer, WriterGoesOn, SendSignalled

(* write() implements SendService: with one writer on a silent channel a   *)
(* call returns success exactly if its frame was sent whole.  (That every  *)
(* call returns is checked by TLC.)                                        *)
THEOREM ServiceImplemented ==
  Undisturbed /\ Silent => (Spec => Service!Safety)
<1> SUFFICES ASSUME Undisturbed, Silent PROVE Spec => Service!Safety
  OBVIOUS
<1>1. Init => Service!Init
  BY DEF Init, Service!Init, Aired
<1>2. SilentInv /\ [Next]_vars => [Service!Next]_Service!vars
  <2> SUFFICES ASSUME SilentInv, [Next]_vars
               PROVE  [Service!Next]_Service!vars
    OBVIOUS
  <2>1. CASE \E w \in Writers : Writer(w)
    BY <2>1, WriterServes
  <2>2. CASE Timer \/ Sfd
    BY <2>2, TimerServes DEF SilentInv
  <2>3. CASE RadioSends
    BY <2>3, RadioServes
  <2>4. CASE Clock \/ UNCHANGED sendPath
    BY <2>4, ServiceStutters DEF SilentInv, Clock, radioVars, driverVars, procVars, txVars, sendPath
  <2> QED BY <2>1, <2>2, <2>3, <2>4, ReceiveSilent, OtherProcessSame
          DEF Next, Processes, SilentInv
<1> QED BY <1>1, <1>2, QuietInvInductive, PTL DEF Service!Safety, Spec
=============================================================================
