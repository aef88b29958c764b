---------------------------- MODULE CC2420Radio ----------------------------
(***************************************************************************)
(* The CC2420 radio and the GPIO edge detectors it is wired to, as the     *)
(* driver sees them.  The chip is not under src/; what is modelled is what *)
(* SG2_CC2420.c and CC2420.c ask of it: the two FIFOs, the SFD, FIFO,      *)
(* FIFOP and CCA pins, the flush and STXONCCA strobes.                     *)
(*                                                                         *)
(* A frame on the air is a record [len, type, dsn, crc]: the length byte,  *)
(* "data" or "ack", the sequence number and whether the checksum is good.  *)
(***************************************************************************)
EXTENDS Integers, Sequences

CONSTANTS
  RxFrames,       \* the frames other nodes may send; {} is a silent channel
  FifoCap,        \* complete frames the RXFIFO holds before it overflows
  DSN_SPACE,      \* number of sequence numbers (256: current_DSN is a uint8_t)
  None            \* a model value: no frame, no buffer

DSNs == 0 .. DSN_SPACE - 1

ASSUME RadioAssumption ==
  /\ FifoCap \in Nat \ {0}
  /\ DSN_SPACE \in Nat \ {0}
  /\ None \notin DSNs
  /\ RxFrames \subseteq
       [len : 0 .. 127, type : {"data", "ack"}, dsn : DSNs, crc : BOOLEAN]

VARIABLES
  phase,          \* "rx", "receiving", "calib" (TX_ACTIVE, no SFD yet), "frame"
  txfifo,         \* the DSN of the frame written to the TXFIFO, or None
  sending,        \* the frame going out in phase "frame"; None if it is spoilt
  on_air,         \* DSNs of the frames transmitted whole (history)
  rx_fifo,        \* the complete frames in the RXFIFO
  overflow,       \* RXFIFO overflow: FIFO pin low while FIFOP is active
  fifop,          \* FIFOP is active (the pin is low, IOCFG0.FIFOPPOL is set)
  sfd_edge,       \* GEDR: an SFD edge is latched
  fifop_edge,     \* GEDR: a FIFOP falling edge is latched
  fifop_irq       \* the FIFOP interrupt type: "FALLING" or "NOEDGE"

radioVars == << phase, txfifo, sending, on_air, rx_fifo, overflow, fifop,
                sfd_edge, fifop_edge, fifop_irq >>
txSide == << phase, txfifo, sending, on_air >>
rxSide == << rx_fifo, overflow, fifop >>

RadioTypeOK ==
  /\ phase \in {"rx", "receiving", "calib", "frame"}
  /\ txfifo \in DSNs \cup {None}
  /\ sending \in DSNs \cup {None}
  /\ on_air \in SUBSET DSNs
  /\ rx_fifo \in Seq(RxFrames)
  /\ Len(rx_fifo) =< FifoCap
  /\ overflow \in BOOLEAN /\ fifop \in BOOLEAN
  /\ sfd_edge \in BOOLEAN /\ fifop_edge \in BOOLEAN
  /\ fifop_irq \in {"FALLING", "NOEDGE"}

RadioInit ==
  /\ phase = "rx" /\ txfifo = None /\ sending = None /\ on_air = {}
  /\ rx_fifo = << >> /\ overflow = FALSE /\ fifop = FALSE
  /\ sfd_edge = FALSE /\ fifop_edge = FALSE /\ fifop_irq = "FALLING"
-----------------------------------------------------------------------------
(* The pins as the driver's macros test them. *)
sfd_pin_inverted == phase \notin {"receiving", "frame"}   \* seeded fault
TEST_SFD_PIN == phase \in {"receiving", "frame"}
TEST_FIFO_PIN == rx_fifo # << >> /\ ~overflow
TEST_FIFOP_PIN == ~fifop
RxOverflow == ~TEST_FIFO_PIN /\ ~TEST_FIFOP_PIN

(* CCA is false while a frame is being received and undefined while one is *)
(* being sent; noise may make it false, so the driver may see either value *)
(* wherever this permits TRUE.                                             *)
CCAMayBeClear == phase # "receiving"

(* STXONCCA is accepted by an idle receiver; TX_ACTIVE then reads 1, and it *)
(* also reads 1 if an earlier frame is still going out.                     *)
Accepted == IF phase = "rx" THEN "calib" ELSE phase

(* Flushing the TXFIFO under a frame that is going out spoils the frame. *)
SendingAfterFlush == IF phase = "frame" THEN None ELSE sending
-----------------------------------------------------------------------------
(* What the chip does by itself. *)
TxSfdRise ==
  /\ phase = "calib"
  /\ phase' = "frame"
  /\ sending' = txfifo
  /\ sfd_edge' = TRUE
  /\ UNCHANGED << txfifo, on_air, rxSide, fifop_edge, fifop_irq >>

TxSfdFall ==
  /\ phase = "frame"
  /\ phase' = "rx"
  /\ on_air' = IF sending = None THEN on_air ELSE on_air \cup {sending}
  /\ sending' = None
  /\ sfd_edge' = TRUE
  /\ UNCHANGED << txfifo, rxSide, fifop_edge, fifop_irq >>

RxSfdRise ==
  /\ RxFrames # {} /\ phase = "rx"
  /\ phase' = "receiving"
  /\ sfd_edge' = TRUE
  /\ UNCHANGED << txfifo, sending, on_air, rxSide, fifop_edge, fifop_irq >>

(* The last byte of a frame arrives: SFD falls and FIFOP goes active; its  *)
(* falling edge is latched only while the interrupt type is "FALLING".  A  *)
(* frame that does not fit overflows the FIFO, which then stays as it is   *)
(* until it is flushed.                                                    *)
RxFrameEnd(f) ==
  /\ phase = "receiving"
  /\ phase' = "rx"
  /\ sfd_edge' = TRUE
  /\ IF overflow \/ Len(rx_fifo) = FifoCap
       THEN overflow' = TRUE /\ UNCHANGED rx_fifo
       ELSE rx_fifo' = Append(rx_fifo, f) /\ UNCHANGED overflow
  /\ fifop' = TRUE
  /\ fifop_edge' = (fifop_edge \/ (~fifop /\ fifop_irq = "FALLING"))
  /\ UNCHANGED << txfifo, sending, on_air, fifop_irq >>
=============================================================================
