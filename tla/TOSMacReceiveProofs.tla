------------------------- MODULE TOSMacReceiveProofs -------------------------
(***************************************************************************)
(* The receive path: first that it cannot lock itself out, for every       *)
(* timing (Slow); then, with the tasklet done with a frame before the next *)
(* one is complete, that no frame stays behind and what readers get.  For  *)
(* every number of processes, every set of frames and every bound.         *)
(***************************************************************************)
EXTENDS TOSMacTypeProofs

(* Only the FIFOP handler and the tasklet touch the packet lock, the FIFOP *)
(* interrupt type and the tasklet's own state.                             *)
RxInv == PacketLock /\ MaskedOnlyForBottomHalf

(* What every other step leaves alone. *)
RxSame == UNCHANGED << rxSide, fifop_edge, fifop_irq, is_packet_receiving, rx_buf,
                       rx_packet, taskletVars >>

(* No process touches the receive path's control state. *)
LEMMA ProcessesRxSame == ASSUME Processes PROVE RxSame
<1>1. ASSUME NEW w \in Writers, Writer(w) PROVE RxSame
  BY <1>1 DEF Writer, WriterGoesOn, tosmac_write, SendSetup, SendPreTx,
     SetInitialTimer, StartInitialTimer, SendWaitEnds, SendSignalled,
     SendClears, WriteReturns, WriterUnchanged, rxVars, RxSame
<1>2. ASSUME NEW r \in Readers, Reader(r) PROVE RxSame
  BY <1>2 DEF Reader, ReaderGoesOn, tosmac_read, ReadWaitEnds, ReadSignalled,
     ReadClears, ReadChecks, ReadCopies, ReaderUnchanged, radioVars,
     rxSide, RxSame
<1>3. ASSUME NEW n \in OpenFlags, tosmac_open(n) PROVE RxSame
  BY <1>3 DEF tosmac_open, radioVars, rxSide, RxSame
<1>4. ASSUME NEW on \in AckModes, tosmac_ioctl_ack(on) PROVE RxSame
  BY <1>4 DEF tosmac_ioctl_ack, rxVars, radioVars, rxSide, RxSame
<1> QED BY <1>1, <1>2, <1>3, <1>4 DEF Processes

(* Nor do the timer and SFD handlers, the clock and a radio that sends. *)
LEMMA HardwareRxSame ==
  ASSUME Timer \/ Sfd \/ Clock \/ RadioSends
  PROVE  RxSame
<1>1. CASE Timer
  BY <1>1 DEF Timer, TimerIrq, rxVars, RxSame
<1>2. CASE Sfd
  BY <1>2 DEF Sfd, SfdIrq, rxVars, RxSame
<1>3. CASE Clock
  BY <1>3 DEF Clock, driverVars, radioVars, rxSide, rxVars, RxSame
<1>4. CASE RadioSends
  BY <1>4 DEF RadioSends, TxSfdRise, TxSfdFall, driverVars, rxVars, RxSame
<1> QED BY <1>1, <1>2, <1>3, <1>4

(* A frame that arrives changes nothing of the software's. *)
LEMMA ReceivesRxInv == ASSUME RxInv, RadioReceives PROVE RxInv'
  BY DEF RadioReceives, RxSfdRise, RxFrameEnd, driverVars, taskletVars, rxVars,
     RxInv, PacketLock, MaskedOnlyForBottomHalf

LEMMA FifopRxInv == ASSUME RxInv, Fifop PROVE RxInv'
  BY DEF Fifop, FifopIrq, RxInv, PacketLock, MaskedOnlyForBottomHalf, rxVars

LEMMA TaskletRxInv == ASSUME RxInv, BottomHalf PROVE RxInv'
<1> USE DEF RxInv, PacketLock, MaskedOnlyForBottomHalf, TaskletStep, rxVars
<1>1. CASE TaskletOverflow
  BY <1>1 DEF TaskletOverflow, TaskletStarts
<1>2. CASE TaskletReadsNothing
  BY <1>2 DEF TaskletReadsNothing, TaskletStarts
<1>3. CASE CC2420_read_packet
  BY <1>3 DEF CC2420_read_packet, TaskletStarts
<1>4. CASE TaskletFlush
  BY <1>4 DEF TaskletFlush
<1>5. CASE TaskletRearm
  BY <1>5 DEF TaskletRearm
<1>6. CASE CC2420_RXFIFO_done
  BY <1>6 DEF CC2420_RXFIFO_done
<1>7. CASE TaskletAck
  BY <1>7 DEF TaskletAck
<1>8. CASE CC2420_packet_rcvd
  BY <1>8 DEF CC2420_packet_rcvd
<1>9. CASE TaskletTail
  BY <1>9 DEF TaskletTail
<1>10. CASE TaskletFailed
  BY <1>10 DEF TaskletFailed
<1> QED BY <1>1, <1>2, <1>3, <1>4, <1>5, <1>6, <1>7, <1>8, <1>9, <1>10
        DEF BottomHalf, Tasklet

LEMMA RxInvInductive == Init /\ [][Next]_vars => []RxInv
<1>1. Init => RxInv
  BY DEF Init, CC2420_init, RadioInit, RxInv, PacketLock,
     MaskedOnlyForBottomHalf
<1>2. RxInv /\ [Next]_vars => RxInv'
  <2> SUFFICES ASSUME RxInv, [Next]_vars PROVE RxInv'
    OBVIOUS
  <2>1. RxSame => RxInv'
    BY DEF RxSame, RxInv, PacketLock, MaskedOnlyForBottomHalf, taskletVars
  <2>2. CASE UNCHANGED vars
    BY <2>1, <2>2 DEF vars, radioVars, rxSide, rxVars, RxSame
  <2>3. CASE Next
    BY <2>1, <2>3, ProcessesRxSame, HardwareRxSame, ReceivesRxInv, FifopRxInv,
       TaskletRxInv
    DEF Next
  <2> QED BY <2>2, <2>3
<1> QED BY <1>1, <1>2, PTL

(* The tasklet never finds the packet lock taken (CC2420.c:633 is dead),   *)
(* because the lock is held only from the read to the flush after it.      *)
THEOREM TaskletNeverBusy == Spec => []ReceiverNotBusy
<1>1. RxInv => ReceiverNotBusy
  BY DEF RxInv, PacketLock, ReceiverNotBusy
<1> QED BY <1>1, RxInvInductive, PTL DEF Spec

(* The receiver is not left switched off: whoever masks the FIFOP interrupt *)
(* has the tasklet that unmasks it scheduled or is that tasklet.            *)
THEOREM InterruptComesBack == Spec => []MaskedOnlyForBottomHalf
<1>1. RxInv => MaskedOnlyForBottomHalf
  BY DEF RxInv
<1> QED BY <1>1, RxInvInductive, PTL DEF Spec
-----------------------------------------------------------------------------
(* A frame at a time: the bottom half is through with one frame before the *)
(* next is complete.                                                       *)
FrameAtATime == "tasklet" \notin Slow

(* The RXFIFO is empty but for a frame that the interrupt handler or the   *)
(* tasklet is about to fetch.                                              *)
OneFrame ==
  /\ ~overflow
  /\ fifop <=> fifop_edge \/ read_packet_tasklet
  /\ fifop => tl_pc = "idle" /\ \E f \in RxFrames : rx_fifo = << f >>
  /\ ~fifop => rx_fifo = << >>

(* From the read of a frame to the copy to rx_packet, rx_buf holds it.     *)
BufferHoldsFrame ==
  tl_pc \in {"done", "process"} \/ (tl_pc \in {"flush", "rearm"} /\ tl_next = "done") =>
    rx_buf.frame \in RxFrames /\ rx_buf.length = RxLength(rx_buf.frame)

FrameInv == RxInv /\ OneFrame /\ BufferHoldsFrame /\ MailboxWhole

LEMMA FrameTypes ==
  ASSUME TypeInv
  PROVE  /\ rx_fifo \in Seq(RxFrames) /\ Len(rx_fifo) =< FifoCap
         /\ FifoCap \in Nat \ {0}
         /\ rx_fifo # << >> => Head(rx_fifo) \in RxFrames
         /\ rx_buf \in Packets /\ rx_packet \in Packets
         /\ overflow \in BOOLEAN /\ fifop \in BOOLEAN /\ fifop_edge \in BOOLEAN
         /\ fifop_irq \in {"FALLING", "NOEDGE"}
         /\ tl_next \in {"idle", "done", "failed"}
         /\ read_packet_tasklet \in BOOLEAN /\ is_packet_receiving \in BOOLEAN
<1>1. rx_fifo \in Seq(RxFrames)
  BY DEF TypeInv, TypeOK, RadioTypeOK
<1> QED BY <1>1, RadioAssumption
        DEF RadioAssumption, TypeInv, TypeOK, RadioTypeOK, MacTypeOK

LEMMA OneElement ==
  ASSUME NEW f \in RxFrames
  PROVE  /\ << f >> # << >> /\ Head(<< f >>) = f /\ Tail(<< f >>) = << >>
         /\ Append(<< >>, f) = << f >> /\ Len(<< >>) = 0
  OBVIOUS

(* What read_RXFIFO and RXFIFO_done make of a length byte is the payload.  *)
LEMMA PayloadOfFrame ==
  \A f \in RxFrames : PayloadLength(RxLength(f)) = FramePayload(f)
<1> SUFFICES ASSUME NEW f \in RxFrames
             PROVE  PayloadLength(RxLength(f)) = FramePayload(f)
  OBVIOUS
<1>1. f.len \in 0 .. 127
  BY RadioAssumption DEF RadioAssumption
<1>2. TOSH_DATA_LENGTH \in 0 .. 116
  BY MacAssumption DEF MacAssumption
<1> QED BY <1>1, <1>2 DEF PayloadLength, RxLength, FramePayload, AtMost,
        MSG_DATA_SIZE, MSG_HEADER_SIZE, MSG_FOOTER_SIZE

LEMMA SameFrameInv == ASSUME FrameInv, RxSame PROVE FrameInv'
  BY DEF RxSame, taskletVars, rxSide, FrameInv, RxInv, PacketLock,
     MaskedOnlyForBottomHalf, OneFrame, BufferHoldsFrame, MailboxWhole

LEMMA RadioFrameInv ==
  ASSUME FrameAtATime, TypeInv, FrameInv, RadioReceives
  PROVE  FrameInv'
<1>1. CASE RxSfdRise
  BY <1>1, SameFrameInv DEF RadioReceives, RxSfdRise, driverVars, rxVars, RxSame
<1>2. ASSUME NEW f \in RxFrames, RxFrameEnd(f), ~RxBottomHalfBusy PROVE FrameInv'
  <2>1. /\ ~fifop_edge /\ ~read_packet_tasklet /\ tl_pc = "idle"
        /\ ~fifop /\ ~overflow /\ rx_fifo = << >> /\ fifop_irq = "FALLING"
    BY <1>2, FrameTypes DEF RxBottomHalfBusy, FrameInv, OneFrame, RxInv,
       MaskedOnlyForBottomHalf
  <2>2. /\ ~overflow' /\ rx_fifo' = << f >> /\ fifop' /\ fifop_edge'
    BY <1>2, <2>1, FrameTypes, OneElement DEF RxFrameEnd
  <2>3. UNCHANGED << fifop_irq, rxVars, taskletVars >>
    BY <1>2 DEF RadioReceives, RxFrameEnd, driverVars, RxSfdRise
  <2> QED BY <2>1, <2>2, <2>3 DEF FrameInv, RxInv, PacketLock, MaskedOnlyForBottomHalf,
          OneFrame, BufferHoldsFrame, MailboxWhole, rxVars, taskletVars
<1> QED BY <1>1, <1>2 DEF RadioReceives, FrameAtATime

LEMMA FifopFrameInv ==
  ASSUME TypeInv, FrameInv, Fifop
  PROVE  FrameInv'
<1>1. fifop /\ rx_fifo # << >> /\ tl_pc = "idle" /\ TEST_FIFO_PIN
  BY FrameTypes, OneElement DEF Fifop, FifopIrq, FrameInv, OneFrame, TEST_FIFO_PIN
<1>2. /\ ~fifop_edge' /\ read_packet_tasklet' /\ fifop_irq' = "NOEDGE"
      /\ UNCHANGED << rxSide, rxVars, tl_pc, tl_next >>
  BY <1>1 DEF Fifop, FifopIrq
<1> QED BY <1>1, <1>2 DEF FrameInv, RxInv, PacketLock, MaskedOnlyForBottomHalf,
        OneFrame, BufferHoldsFrame, MailboxWhole, rxVars, rxSide

LEMMA TaskletFrameInv ==
  ASSUME TypeInv, FrameInv, BottomHalf
  PROVE  FrameInv'
<1>1. RxInv'
  BY TaskletRxInv DEF FrameInv
<1>2. UNCHANGED fifop_edge
  BY DEF BottomHalf, Tasklet, TaskletUnchanged, TaskletOverflow,
     TaskletReadsNothing, CC2420_read_packet, TaskletFlush, TaskletRearm,
     CC2420_RXFIFO_done, TaskletAck, CC2420_packet_rcvd, TaskletTail, TaskletFailed
<1>3. ~RxOverflow /\ (tl_pc # "idle" => ~fifop /\ ~fifop_edge /\ ~read_packet_tasklet)
  BY FrameTypes, OneElement DEF FrameInv, OneFrame, RxOverflow, TEST_FIFO_PIN, TEST_FIFOP_PIN
<1>4. PayloadLength(RxLength(rx_buf.frame)) = FramePayload(rx_buf.frame)
      \/ rx_buf.frame \notin RxFrames
  BY PayloadOfFrame
<1> USE <1>1, <1>2, <1>3, FrameTypes, OneElement DEF FrameInv, OneFrame, BufferHoldsFrame,
      MailboxWhole, TaskletStep, TaskletStarts, rxVars, rxSide, Packets
<1>5. ASSUME TaskletStarts
      PROVE  /\ ~fifop_edge
             /\ \E f \in RxFrames : rx_fifo = << f >>
  BY <1>5 DEF IrqPending
<1>6. CASE TaskletReadsNothing
  BY <1>5, <1>6 DEF TaskletReadsNothing
<1>7. CASE CC2420_read_packet
  <2>1. ~is_packet_receiving /\ rx_fifo # << >>
    BY <1>5, <1>7 DEF CC2420_read_packet, RxInv, PacketLock
  <2> QED BY <1>5, <1>7, <2>1 DEF CC2420_read_packet
<1>8. CASE TaskletFlush
  BY <1>8 DEF TaskletFlush, FlushRx
<1>9. CASE TaskletRearm
  BY <1>9 DEF TaskletRearm
<1>10. CASE CC2420_RXFIFO_done
  BY <1>10 DEF CC2420_RXFIFO_done
<1>11. CASE TaskletAck
  BY <1>11 DEF TaskletAck
<1>12. CASE CC2420_packet_rcvd
  BY <1>4, <1>12 DEF CC2420_packet_rcvd
<1>13. CASE TaskletTail
  BY <1>13 DEF TaskletTail, TEST_FIFOP_PIN
<1>14. CASE TaskletFailed
  BY <1>14 DEF TaskletFailed, CC2420_recv_failed
<1> QED BY <1>6, <1>7, <1>8, <1>9, <1>10, <1>11, <1>12, <1>13, <1>14
        DEF BottomHalf, Tasklet, TaskletOverflow

LEMMA FrameInvInductive == LoadedAtRest /\ FrameAtATime => (Spec => []FrameInv)
<1> SUFFICES ASSUME LoadedAtRest, FrameAtATime PROVE Spec => []FrameInv
  OBVIOUS
<1>1. Init => FrameInv
  BY DEF Init, CC2420_init, RadioInit, FrameInv, RxInv, PacketLock,
     MaskedOnlyForBottomHalf, OneFrame, BufferHoldsFrame, MailboxWhole
<1>2. TypeInv /\ FrameInv /\ [Next]_vars => FrameInv'
  <2> SUFFICES ASSUME TypeInv, FrameInv, [Next]_vars PROVE FrameInv'
    OBVIOUS
  <2>1. CASE UNCHANGED vars
    BY <2>1, SameFrameInv DEF vars, radioVars, rxSide, rxVars, RxSame
  <2>2. CASE Next
    BY <2>2, SameFrameInv, ProcessesRxSame, HardwareRxSame, FifopFrameInv,
       TaskletFrameInv, RadioFrameInv DEF Next
  <2> QED BY <2>1, <2>2
<1> QED BY <1>1, <1>2, TypeInvInductive, PTL DEF Spec

(* No frame is left in the RXFIFO with nobody to fetch it, as long as the  *)
(* tasklet is through with a frame before the next one is complete.        *)
THEOREM NoFrameLeftBehind == LoadedAtRest /\ FrameAtATime => (Spec => []NothingLeftBehind)
<1>1. FrameInv => NothingLeftBehind
  BY DEF FrameInv, OneFrame, NothingLeftBehind
<1> QED BY <1>1, FrameInvInductive, PTL

(* A packet in the mailbox has the payload length of its frame, whatever   *)
(* the length byte was, and the frame and the length are of one reception. *)
THEOREM MailboxAlwaysWhole == LoadedAtRest /\ FrameAtATime => (Spec => []MailboxWhole)
<1>1. FrameInv => MailboxWhole
  BY DEF FrameInv
<1> QED BY <1>1, FrameInvInductive, PTL
-----------------------------------------------------------------------------
(* Without a frame whose length byte is 0 no reception fails.              *)
FramesWhole == \A f \in RxFrames : f.len > 0

NothingFails == tl_pc # "failed" /\ tl_next # "failed" /\ rx_packet.length # INVALID

LEMMA PayloadValid == \A n \in UInt8 : PayloadLength(n) # INVALID
  BY DEF UInt8, PayloadLength, INVALID, MSG_HEADER_SIZE, MSG_FOOTER_SIZE

LEMMA TaskletNothingFails ==
  ASSUME FramesWhole, TypeInv, FrameInv, NothingFails, BottomHalf
  PROVE  NothingFails'
<1>1. ~RxOverflow
  BY FrameTypes, OneElement DEF FrameInv, OneFrame, RxOverflow, TEST_FIFO_PIN, TEST_FIFOP_PIN
<1>2. ~TaskletReadsNothing
  <2>1. TaskletStarts => \E f \in RxFrames : rx_fifo = << f >> /\ Head(rx_fifo).len # 0
    BY OneElement, RadioAssumption
    DEF FrameInv, OneFrame, TaskletStarts, FramesWhole, RadioAssumption
  <2> QED BY <2>1, OneElement DEF TaskletReadsNothing, NothingToRead
<1> USE FrameTypes DEF NothingFails, TaskletStep, rxVars
<1>3. CASE CC2420_packet_rcvd
  BY <1>3, PayloadValid DEF CC2420_packet_rcvd, Packets
<1>4. CASE tl_pc # "failed" /\ UNCHANGED rx_packet
           /\ tl_pc' \in {"idle", "flush", "rearm", "done", "process", "tail", tl_next}
           /\ tl_next' \in {"idle", "done", tl_next}
  BY <1>4
<1> QED BY <1>1, <1>2, <1>3, <1>4 DEF BottomHalf, Tasklet, TaskletStarts, TaskletOverflow,
        CC2420_read_packet, TaskletFlush, TaskletRearm, CC2420_RXFIFO_done,
        TaskletAck, TaskletTail, TaskletFailed

LEMMA NothingFailsInductive ==
  LoadedAtRest /\ FrameAtATime /\ FramesWhole => (Spec => [](TypeInv /\ FrameInv /\ NothingFails))
<1> SUFFICES ASSUME LoadedAtRest, FrameAtATime, FramesWhole
             PROVE  Spec => [](TypeInv /\ FrameInv /\ NothingFails)
  OBVIOUS
<1>1. Init => NothingFails
  BY DEF Init, CC2420_init, NothingFails, INVALID
<1>2. TypeInv /\ FrameInv /\ NothingFails /\ [Next]_vars => NothingFails'
  <2> SUFFICES ASSUME TypeInv, FrameInv, NothingFails, [Next]_vars
               PROVE  NothingFails'
    OBVIOUS
  <2>1. CASE UNCHANGED << tl_pc, tl_next, rx_packet >>
    BY <2>1 DEF NothingFails
  <2>2. CASE Fifop
    <3>1. TEST_FIFO_PIN
      BY <2>2, OneElement DEF Fifop, FifopIrq, FrameInv, OneFrame, TEST_FIFO_PIN
    <3> QED BY <2>1, <2>2, <3>1 DEF Fifop, FifopIrq, rxVars
  <2>3. CASE RadioReceives \/ UNCHANGED vars
    BY <2>1, <2>3 DEF RadioReceives, driverVars, taskletVars, rxVars, vars
  <2> QED BY <2>1, <2>2, <2>3, ProcessesRxSame, HardwareRxSame, TaskletNothingFails
          DEF Next, RxSame, taskletVars
<1> QED BY <1>1, <1>2, TypeInvInductive, FrameInvInductive, PTL DEF Spec

(* If every frame has a length, a read never hands out a packet that is    *)
(* marked invalid: the unlocked test of rx_packet.length is harmless then. *)
THEOREM ReadsAreValid ==
  LoadedAtRest /\ FrameAtATime /\ FramesWhole => (Spec => NoInvalidRead)
<1>1. NothingFails => [\A r \in Readers : r_ret[r] = "none" /\ r_ret'[r] = "ok"
                                             => rx_packet.length # INVALID]_vars
  BY DEF NothingFails
<1> QED BY <1>1, NothingFailsInductive, PTL DEF NoInvalidRead
=============================================================================
