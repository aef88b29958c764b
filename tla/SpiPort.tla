------------------------------ MODULE SpiPort ------------------------------
(***************************************************************************)
(* The byte level of SG2_CC2420.c: the driver and the CC2420 exchange      *)
(* bytes over a synchronous serial port with two queues of 16 bytes.  A    *)
(* transaction selects the chip, puts bytes into the transmit queue, waits *)
(* until the port has shifted them all, and takes the answers, one for     *)
(* every byte, from the receive queue.  Every function of SG2_CC2420.c is  *)
(* the sequence of the steps it takes; in the rest of the project each of  *)
(* them is one atomic step, which the properties below justify.            *)
(*                                                                         *)
(* Bytes are numbered within a transaction: the answer of the chip to its  *)
(* n-th byte is n, and 0 is an answer to no byte of this transaction.      *)
(***************************************************************************)
EXTENDS Integers, Sequences

CONSTANTS Calls,   \* the calls made, records [f, ...]
          None

FIFO_DEPTH == 16
Actors == {"process", "interrupt"}

ASSUME NoneAssumption == None \notin Actors

VARIABLES owner,      \* holder of SG2_ssp_lock
          todo,       \* todo[a]: the steps that the call of a has left
          got,        \* the answers it took
          level,      \* bytes in the transmit queue (SSSR_TFL and TNF)
          shifting,   \* a byte is on the wires (SSSR_BSY)
          rx,         \* the receive queue
          overrun,    \* an answer found the receive queue full (SSSR_ROR)
          selected,   \* CSn
          put, chip   \* bytes put since CSn fell, bytes the chip received

portVars == << level, shifting, rx, overrun, chip >>
vars == << owner, todo, got, portVars, selected, put >>
-----------------------------------------------------------------------------
(* The functions as sequences of steps. *)
Times(steps, k) == [i \in 1 .. k * Len(steps) |-> steps[((i - 1) % Len(steps)) + 1]]
Put(n) == Times(<< "put" >>, n)
Get(n) == Times(<< "get" >>, n)

(* ssp_flush() of the kernel: empty the receive queue until nothing moves. *)
Flush == << "drain", "until_idle" >>
Open == << "lock" >> \o Flush \o << "select" >>
Close == << "deselect" >> \o Flush \o << "unlock" >>

(* The loops move 16 bytes at a time while more than 16 are left. *)
whole_frame_at_once(n) == 0   \* seeded fault
FullChunks(n) == IF n = 0 THEN 0 ELSE (n - 1) \div 16
LastChunk(n) == n - 16 * FullChunks(n)

strobe_early == Open \o Put(1) \o Get(1) \o << "wait", "deselect", "unlock" >>   \* seeded fault
cmd_strobe == Open \o Put(1) \o << "wait", "deselect" >> \o Get(1) \o << "unlock" >>

write_reg ==
  Open \o Put(3) \o << "wait", "deselect" >> \o Get(1) \o Flush \o << "unlock" >>

read_reg ==
  Open \o Put(3) \o << "wait", "deselect" >> \o Get(3) \o Flush \o << "unlock" >>

(* How many bytes read_RXFIFO reads after the length byte pktlen, for a    *)
(* buffer of max bytes: uint8_t arithmetic.                                *)
BytesToRead(pktlen, max) ==
  LET whole == (pktlen + 1) % 256
  IN ((IF whole < max THEN whole ELSE max) - 1) % 256

Exchange(n) == Put(n) \o << "wait" >> \o Get(n)

read_RXFIFO(pktlen, max) ==
  LET n == BytesToRead(pktlen, max)
  IN Open \o Exchange(2)
       \o Times(Exchange(16), FullChunks(n))
       \o (IF n = 0 THEN << >> ELSE Exchange(LastChunk(n)))
       \o << "deselect", "unlock" >>

write_undrained(length) ==   \* seeded fault: the answers to a chunk are kept
  Open \o Put(1) \o << "wait" >> \o Flush
       \o Times(Put(16) \o << "wait" >>, FullChunks(length))
       \o Put(LastChunk(length)) \o << "wait" >> \o Close

write_TXFIFO(length) ==
  Open \o Put(1) \o << "wait" >> \o Flush
       \o Times(Put(16) \o << "wait" >> \o Flush, FullChunks(length))
       \o Put(LastChunk(length)) \o << "wait" >> \o Close

(* Waits for BSY alone, and takes 16 answers whether they are there or not. *)
write_RAM(length) ==
  Open \o Put(2) \o << "wait_bsy" >>
       \o Times(Put(16) \o << "wait_bsy" >>, FullChunks(length))
       \o Put(LastChunk(length)) \o << "wait_bsy" >> \o Times(<< "drop" >>, 16) \o Close

Steps(c) == CASE c.f = "cmd_strobe"   -> cmd_strobe
              [] c.f = "write_reg"    -> write_reg
              [] c.f = "read_reg"     -> read_reg
              [] c.f = "read_RXFIFO"  -> read_RXFIFO(c.pktlen, c.max)
              [] c.f = "write_TXFIFO" -> write_TXFIFO(c.length)
              [] c.f = "write_RAM"    -> write_RAM(c.length)
-----------------------------------------------------------------------------
Init == /\ owner = None
        /\ todo = [a \in Actors |-> << >>]
        /\ got = [a \in Actors |-> << >>]
        /\ level = 0 /\ shifting = FALSE /\ rx = << >> /\ overrun = FALSE
        /\ selected = FALSE /\ put = 0 /\ chip = 0

(* spin_lock_irqsave: no interrupt comes while the process holds the lock; *)
(* an interrupt runs to its end before the process goes on.                *)
MayRun(a) == /\ a = "process" => todo["interrupt"] = << >>
             /\ a = "interrupt" => owner # "process"

Begin(a, c) == /\ todo[a] = << >> /\ MayRun(a)
               /\ todo' = [todo EXCEPT ![a] = Steps(c)]
               /\ UNCHANGED << owner, got, portVars, selected, put >>

At(a, step) == todo[a] # << >> /\ MayRun(a) /\ Head(todo[a]) = step
GoesOn(a) == todo' = [todo EXCEPT ![a] = Tail(@)]

Lock(a) == /\ At(a, "lock") /\ owner = None
           /\ owner' = a
           /\ GoesOn(a)
           /\ UNCHANGED << got, portVars, selected, put >>

Drain(a) == /\ At(a, "drain")
            /\ rx' = << >> /\ overrun' = FALSE
            /\ GoesOn(a)
            /\ UNCHANGED << owner, got, level, shifting, selected, put, chip >>

until_busy(a) == /\ At(a, "until_idle")   \* seeded fault: the test is the wrong way round
                 /\ todo' = [todo EXCEPT ![a] = IF shifting THEN Tail(@) ELSE << "drain" >> \o @]
                 /\ UNCHANGED << owner, got, portVars, selected, put >>

UntilIdle(a) == /\ At(a, "until_idle")
                /\ todo' = [todo EXCEPT ![a] = IF shifting THEN << "drain" >> \o @ ELSE Tail(@)]
                /\ UNCHANGED << owner, got, portVars, selected, put >>

Select(a) == /\ At(a, "select")
             /\ selected' = TRUE /\ put' = 0 /\ chip' = 0
             /\ GoesOn(a)
             /\ UNCHANGED << owner, got, level, shifting, rx, overrun >>

(* Assumption PortKeepsUp: while 15 bytes are put the port takes up the    *)
(* first of them.                                                          *)
PutByte(a) == /\ At(a, "put")
              /\ level < FIFO_DEPTH - 1 \/ shifting
              /\ level' = level + 1
              /\ put' = put + 1
              /\ GoesOn(a)
              /\ UNCHANGED << owner, got, shifting, rx, overrun, selected, chip >>

(* TFL has four bits: a full queue reads as an empty one. *)
only_bsy_tested == ~shifting   \* seeded fault
NothingInFlight == ~shifting /\ level % 16 = 0

Wait(a) == /\ \E step \in {"wait", "wait_bsy"} :
                At(a, step) /\ IF step = "wait" THEN NothingInFlight ELSE ~shifting
           /\ GoesOn(a)
           /\ UNCHANGED << owner, got, portVars, selected, put >>

(* Reading an empty queue returns something, here 0. *)
Take(a) == /\ \E step \in {"get", "drop"} :
                /\ At(a, step)
                /\ got' = IF step = "drop" THEN got
                          ELSE [got EXCEPT ![a] = Append(@, IF rx = << >> THEN 0 ELSE Head(rx))]
           /\ rx' = IF rx = << >> THEN rx ELSE Tail(rx)
           /\ GoesOn(a)
           /\ UNCHANGED << owner, level, shifting, overrun, selected, put, chip >>

Deselect(a) == /\ At(a, "deselect")
               /\ selected' = FALSE
               /\ GoesOn(a)
               /\ UNCHANGED << owner, got, portVars, put >>

Unlock(a) == /\ At(a, "unlock")
             /\ owner' = None
             /\ GoesOn(a)
             /\ got' = [got EXCEPT ![a] = << >>]
             /\ UNCHANGED << portVars, selected, put >>
-----------------------------------------------------------------------------
(* The port: it takes up a byte some time after the queue has one, and     *)
(* then one after the other without a pause.                               *)
TakeUp == /\ ~shifting /\ level > 0
          /\ shifting' = TRUE /\ level' = level - 1
          /\ UNCHANGED << owner, todo, got, rx, overrun, selected, put, chip >>

Shifted == /\ shifting
           /\ shifting' = (level > 0)
           /\ level' = IF level > 0 THEN level - 1 ELSE 0
           /\ chip' = IF selected THEN chip + 1 ELSE chip
           /\ IF Len(rx) < FIFO_DEPTH
              THEN rx' = Append(rx, IF selected THEN chip + 1 ELSE 0) /\ UNCHANGED overrun
              ELSE overrun' = TRUE /\ UNCHANGED rx
           /\ UNCHANGED << owner, todo, got, selected, put >>
-----------------------------------------------------------------------------
CpuSteps(a) == \/ Lock(a) \/ Drain(a) \/ UntilIdle(a) \/ Select(a) \/ PutByte(a)
               \/ Wait(a) \/ Take(a) \/ Deselect(a) \/ Unlock(a)
PortSteps == TakeUp \/ Shifted

Next == \/ \E a \in Actors : CpuSteps(a) \/ \E c \in Calls : Begin(a, c)
        \/ PortSteps

Spec == Init /\ [][Next]_vars

Fairness == WF_vars(PortSteps) /\ \A a \in Actors : WF_vars(CpuSteps(a))
FairSpec == Spec /\ Fairness

StepNames == {"lock", "drain", "until_idle", "select", "put", "wait", "wait_bsy",
              "get", "drop", "deselect", "unlock"}

TypeOK == /\ owner \in Actors \cup {None}
          /\ todo \in [Actors -> Seq(StepNames)] /\ got \in [Actors -> Seq(Nat)]
          /\ level \in 0 .. FIFO_DEPTH /\ shifting \in BOOLEAN
          /\ rx \in Seq(Nat) /\ Len(rx) =< FIFO_DEPTH /\ overrun \in BOOLEAN
          /\ selected \in BOOLEAN /\ put \in Nat /\ chip \in Nat
-----------------------------------------------------------------------------
(* The chip is not deselected before it has every byte of the transaction, *)
(* whatever the port's pace: "the BSY and TFL fields need to be tested in  *)
(* the same read" (SG2_CC2420.c:91).                                       *)
TransactionWhole ==
  [][selected /\ ~selected' => chip = put /\ level = 0 /\ ~shifting]_vars

(* The bytes a function returns are the chip's answers to the bytes of     *)
(* this call, from the first on and in order: not left over from another   *)
(* call, of the process or of an interrupt, and not read before they came. *)
AnswersRight == \A a \in Actors : \A i \in DOMAIN got[a] : got[a][i] = i

(* Not even a frame of 128 bytes overruns the receive queue of 16 bytes:   *)
(* "clear RXFIFO, avoid ROR exception" (SG2_CC2420.c:361).                 *)
NoOverrun == ~overrun

(* The port always becomes free again, by whichever path a function ends,  *)
(* and no interrupt waits for a lock that the code it interrupted holds.   *)
PortReleased == owner # None ~> owner = None
=============================================================================
