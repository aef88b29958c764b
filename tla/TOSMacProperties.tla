-------------------------- MODULE TOSMacProperties --------------------------
(***************************************************************************)
(* What the driver should guarantee, and the fairness of its scheduling.   *)
(* Each property says which environments it is about; README.md has the    *)
(* table of runs.                                                          *)
(***************************************************************************)
EXTENDS TOSMac

TimerWillFire == timer.OIER \/ timer.OSSR

(* The transmit loop never stops half way: in PRE_TX the timer will fire   *)
(* or a writer is about to start it; in TX and TX_WAIT the radio is still  *)
(* sending or an edge of SFD is waiting to be handled; in POST_TX the ACK  *)
(* timer will fire.  (Timer and SFD handlers; every environment with one   *)
(* writer, failed receptions and signals included.)                        *)
TransmitLoopRuns ==
  /\ CC2420_state = "PRE_TX" =>
       TimerWillFire \/ \E w \in Writers : w_pc[w] \in {"timer", "arm"}
  /\ CC2420_state \in {"TX", "TX_WAIT"} =>
       phase \in {"calib", "frame"} \/ sfd_edge
  /\ CC2420_state = "POST_TX" => TimerWillFire /\ CC2420_timer_state = "ACK"

(* A writer asleep in CC2420_send is never forgotten: the MAC does not go  *)
(* idle without setting send_done.  The history in CC2420.c:239 and 381    *)
(* is about this: a reception used to "hang writing operation".            *)
WriterNotStranded ==
  \A w \in Writers : w_pc[w] = "wait" => send_done \/ CC2420_state # "IDLE"

(* A timer interrupt in PRE_TX ends the backoff that was started last, not *)
(* an interval before it: a FIFOP interrupt with ACKs enabled restarts the *)
(* backoff since "we need to backoff longer so that we don't interfere *)
(* with the ACK" (CC2420.c:868).  With ACKs enabled it fails: a match that *)
(* is latched already stays so.                                            *)
BackoffRunsOut == CC2420_state = "PRE_TX" /\ timer.OSSR => timer.elapsed

(* The retry counters, uint8_t that are tested after a decrement, are      *)
(* never used outside their range: a wrapped one would give 255 restarts.  *)
CountersInRange ==
  CC2420_state # "IDLE" => /\ count_retry =< MAX_SEND_TRIES
                           /\ count_send_restart =< MAX_RESTART_TRIES

(* The MAC reaches the packet through tx_buf_ptr from interrupts: while it *)
(* is sending, and when an INITIAL or RESTART timer fires, whatever the    *)
(* state.  tosmac_write must not have freed the packet by then.            *)
MayUseTxBuffer ==
  \/ CC2420_state # "IDLE"
  \/ TimerWillFire /\ CC2420_timer_state \in {"INITIAL", "RESTART"}

TxBufferLive == MayUseTxBuffer => tx_buf_ptr \in heap

(* The handlers that follow tx_buf_ptr, and the tasklet that follows it on *)
(* the state it read some interrupts ago, never run before it points to a  *)
(* packet: it is null until the first write.                               *)
TxPointerSet ==
  /\ TimerWillFire \/ CC2420_state # "IDLE" \/ tl_state # "IDLE"
       => tx_buf_ptr # None
  /\ \A w \in Writers :
       /\ w_pc[w] # "idle" => w_buf[w] # None
       /\ w_pc[w] \in {"pre_tx", "timer", "arm"} => tx_buf_ptr # None

(* send_done is a hand-over, not a level: it is never left set with no     *)
(* writer to take it, where it would end the next write at once.           *)
SendDoneClaimed ==
  send_done => \E w \in Writers : w_pc[w] \in {"wait", "clear"}

(* "IDLE_STATE, ready to send": an idle MAC has a radio that is not        *)
(* sending, and the TXFIFO is not rewritten under a frame going out.       *)
Transmitting == phase \in {"calib", "frame"}
IdleMeansSilent == CC2420_state = "IDLE" => ~Transmitting
FifoUntouchedWhileSending == [][Transmitting => txfifo' = txfifo]_vars

(* A write that returns success had its frame sent whole.                  *)
SuccessMeansSent ==
  [][\A w \in Writers : w_ret[w] = "none" /\ w_ret'[w] = "ok"
                          => buf[w_buf[w]].dsn \in on_air]_vars

(* The tasklet never finds the packet lock taken when it starts, so the    *)
(* branch that processes a stale rx_buf (CC2420.c:633) is dead.  PacketLock  *)
(* is why: the lock is held only from the read to the flush after it.       *)
ReceiverNotBusy ==
  read_packet_tasklet /\ tl_pc = "idle" => ~is_packet_receiving

PacketLock == is_packet_receiving => tl_pc = "flush"

(* The FIFOP interrupt is masked only while the bottom half that unmasks   *)
(* it is scheduled or about to: the receiver cannot be left switched off.  *)
MaskedOnlyForBottomHalf ==
  fifop_irq = "NOEDGE" => read_packet_tasklet \/ tl_pc \in {"flush", "rearm"}

(* No frame lies in the RXFIFO with nobody to fetch it: "cc2420 should     *)
(* always read when data available" (CC2420.c:866).                        *)
NothingLeftBehind ==
  fifop => fifop_edge \/ read_packet_tasklet \/ tl_pc # "idle"

(* A valid packet in the mailbox has the payload length of its frame: the  *)
(* MAC length less header and footer, from 0 to TOSH_DATA_LENGTH.          *)
FramePayload(f) ==
  LET n == f.len - MSG_HEADER_SIZE - MSG_FOOTER_SIZE
  IN IF n < 0 THEN 0 ELSE AtMost(n, TOSH_DATA_LENGTH)

MailboxWhole ==
  rx_packet.frame # None /\ rx_packet.length # INVALID =>
    rx_packet.length = FramePayload(rx_packet.frame)

(* A reader asleep when a frame arrives is woken, with the packet or with  *)
(* the failure (blocking mode).                                            *)
ReaderIsServed ==
  \A r \in Readers : r_pc[r] = "wait" /\ fifop_edge ~> r_pc[r] # "wait"

(* A read that succeeds does not hand out a packet marked invalid: "length *)
(* =255 means rx_packet is not a valid packet" (CC2420.c:242).             *)
NoInvalidRead ==
  [][\A r \in Readers : r_ret[r] = "none" /\ r_ret'[r] = "ok"
                          => rx_packet.length # INVALID]_vars
-----------------------------------------------------------------------------
(* write() seen from outside, by SendService: a call is pending until it   *)
(* returns, and aired once its frame has been sent whole.                  *)
Aired(w) == /\ w_pc[w] \notin {"idle", "setup"}
            /\ w_buf[w] # None
            /\ buf[w_buf[w]].dsn \in on_air

Service == INSTANCE SendService WITH
  outcome <- [w \in Writers |-> IF w_pc[w] = "idle" THEN w_ret[w] ELSE "pending"],
  aired <- {w \in Writers : Aired(w)}

(* The driver implements it on a silent channel: success exactly if sent,  *)
(* and every write returns.                                                *)
ImplementsService == Service!Spec

(* Every write returns, whatever is received meanwhile (no ACKs).          *)
WriteReturnsEventually ==
  \A w \in Writers : w_pc[w] # "idle" ~> w_pc[w] = "idle"
-----------------------------------------------------------------------------
(* Fairness: the clock runs and a frame that has begun ends; an interrupt  *)
(* is taken; the tasklet and the processes, which interrupts hold up again *)
(* and again but never for long, get on.  What the code cannot give is a   *)
(* channel that STXONCCA ever finds clear: send_packet retries it without  *)
(* counting, so it is assumed (ChannelGranted).                            *)
ChannelGranted == Timer /\ phase = "rx" /\ phase' = "calib"

Fairness ==
  /\ WF_vars(Clock) /\ WF_vars(RadioSends)
  /\ WF_vars(Timer) /\ WF_vars(Sfd) /\ WF_vars(Fifop)
  /\ SF_vars(ChannelGranted)
  /\ SF_vars(BottomHalf)
  /\ \A w \in Writers : SF_vars(WriterGoesOn(w))
  /\ \A r \in Readers : SF_vars(ReaderGoesOn(r))

FairSpec == Spec /\ Fairness
=============================================================================
