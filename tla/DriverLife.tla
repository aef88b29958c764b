----------------------------- MODULE DriverLife -----------------------------
(***************************************************************************)
(* Loading and unloading of the driver: tosmac_init and tosmac_exit of     *)
(* TOSMac.c with CC2420_init and CC2420_exit of CC2420.c and the power     *)
(* functions of SG2_CC2420.c, step by step, while the radio may already    *)
(* receive and its interrupt may come; between loading and unloading,      *)
(* open, close, writes and the ioctls of RadioControl.                     *)
(*                                                                         *)
(* A step that takes hold of something may fail, if Faults says so; the    *)
(* driver then runs tosmac_exit, and tosmac_init returns 0 all the same    *)
(* unless there was no memory.  tosmac_exit gives back what was never      *)
(* taken as well.  What the kernel and the hardware make of that, and of a *)
(* null pointer in an interrupt, is not defined: the model goes on, or it  *)
(* stops, pc = "undefined", and claims no more.                            *)
(***************************************************************************)
EXTENDS RadioControl, OSTimer

CONSTANT Faults   \* the steps that may fail

Fallible == {"memory", "chrdev", "ssp", "oscillator", "FIFOP", "SFD", "OST", "cdev"}

ASSUME LifeAssumption == Faults \subseteq Fallible

VARIABLES pc,            \* of insmod and rmmod: the step that comes next
          held,          \* what the driver holds
          devno_failed, cdev_failed,   \* devno_result and cdev_result are not 0
          CC2420_state,  \* "DISABLED", "WARMUP" or "IDLE", a send included (TOSMac has those)
          rx_buf_set,    \* rx_buf_ptr points to rx_buf
          tx_buf_set,    \* tx_buf_ptr points to a packet: a send was begun since loading
          timer_left,    \* history: the timer was armed or due when loading began
          opened,        \* a program has the device open
          rxfifo,        \* a frame waits in the RXFIFO: FIFOP is active
          edge,          \* an edge of FIFOP was detected
          tasklet        \* read_packet_tasklet is scheduled

resultVars == << devno_failed, cdev_failed >>
irqVars == << rxfifo, edge, tasklet >>
settingVars == << params, TOS_LOCAL_ADDRESS, is_ack_enable, sizes, reply >>
chipVars == << chip, short_addr, rf >>
macVars == << rx_buf_set, tx_buf_set, timer, timer_left >>
lifeVars == << pc, held, resultVars, CC2420_state, macVars, opened, irqVars >>
vars == << controlVars, lifeVars >>

Init == /\ params = ResetRegisters /\ chip = ResetRegisters /\ short_addr = << 0, 0 >>
        /\ TOS_LOCAL_ADDRESS = 0 /\ is_ack_enable = FALSE /\ sizes = SizesFor(0)
        /\ rf = "off" /\ reply = << >>
        /\ pc = "unloaded" /\ held = {} /\ devno_failed = FALSE /\ cdev_failed = FALSE
        /\ CC2420_state = "DISABLED" /\ rx_buf_set = FALSE /\ opened = FALSE
        /\ rxfifo = FALSE /\ edge = FALSE /\ tasklet = FALSE
        /\ tx_buf_set = FALSE /\ timer_left = FALSE
        /\ timer = [running |-> FALSE, OIER |-> FALSE, OSSR |-> FALSE, elapsed |-> FALSE]
-----------------------------------------------------------------------------
(* Nothing was given back that was not taken, and no interrupt came before *)
(* there was a packet.                                                     *)
BehaviourDefined == pc # "undefined"

(* One processor: the interrupts and the tasklet run before the process    *)
(* goes on.                                                                *)
InterruptDue == edge /\ "FIFOP" \in held
TimerDue == timer.OSSR /\ "OST" \in held
Quiet == BehaviourDefined /\ ~InterruptDue /\ ~TimerDue /\ ~tasklet
Turn(step) == pc = step /\ Quiet

Outcomes(step) == IF step \in Faults THEN BOOLEAN ELSE {TRUE}

Step(step, ok, next) ==
  /\ Turn(step)
  /\ held' = IF ok THEN held \cup ({step} \cap Fallible) ELSE held
  /\ pc' = IF ok THEN next ELSE "give_up"

(* tosmac_init; the variables of the module start afresh.  Without memory  *)
(* there is nothing to give back and insmod reports the failure.           *)
InitMemory ==
  \E ok \in Outcomes("memory") :
    /\ Turn("unloaded")
    /\ sizes' = SizesFor(28)
    /\ devno_failed' = FALSE /\ cdev_failed' = FALSE
    /\ CC2420_state' = "DISABLED" /\ rx_buf_set' = FALSE /\ tx_buf_set' = FALSE
    /\ timer_left' = (timer.OIER \/ timer.OSSR)
    /\ held' = IF ok THEN {"memory"} ELSE {}
    /\ pc' = IF ok THEN "chrdev" ELSE "unloaded"
    /\ UNCHANGED << params, TOS_LOCAL_ADDRESS, is_ack_enable, reply, chipVars, timer, opened, irqVars >>

InitChrdev ==
  \E ok \in Outcomes("chrdev") :
    /\ Step("chrdev", ok, "power")
    /\ devno_failed' = ~ok
    /\ UNCHANGED << controlVars, cdev_failed, CC2420_state, macVars, opened, irqVars >>

(* CC2420_init up to HPLCC2420_start: parameters, the SSP port, power,     *)
(* reset.  If ssp_init fails there is a message and nothing else.          *)
InitPower ==
  \E ok \in Outcomes("ssp") :
    /\ Turn("power")
    /\ TOS_LOCAL_ADDRESS' = DefaultAddr
    /\ params' = CC2420_set_parameters
    /\ CC2420_state' = "WARMUP"
    /\ held' = held \cup {"power"} \cup (IF ok THEN {"ssp"} ELSE {})
    /\ chip' = ResetRegisters /\ short_addr' = << 0, 0 >> /\ rf' = "idle"
    /\ pc' = "oscillator"
    /\ UNCHANGED << is_ack_enable, sizes, reply, resultVars, macVars, opened, irqVars >>

(* Without the port the chip does not answer, or anything may happen.      *)
InitOscillator ==
  /\ \/ /\ "ssp" \in held
        /\ \E ok \in Outcomes("oscillator") : Step("oscillator", ok, "registers")
     \/ /\ "ssp" \notin held
        /\ Turn("oscillator") /\ pc' \in {"give_up", "undefined"}
        /\ UNCHANGED held
  /\ UNCHANGED << controlVars, resultVars, CC2420_state, macVars, opened, irqVars >>

buffer_forgotten ==   \* seeded fault
  /\ Turn("registers")
  /\ chip' = CC2420_set_regs /\ CC2420_set_short_addr(TOS_LOCAL_ADDRESS) /\ rf' = "rx"
  /\ CC2420_state' = "IDLE" /\ is_ack_enable' = FALSE
  /\ pc' = "FIFOP"
  /\ UNCHANGED << params, TOS_LOCAL_ADDRESS, sizes, reply, held, resultVars, macVars, opened, irqVars >>

(* Registers, address, frequency, receive mode and the driver's variables; *)
(* from here on the radio receives.                                        *)
InitRegisters ==
  /\ Turn("registers")
  /\ chip' = CC2420_set_regs /\ CC2420_set_short_addr(TOS_LOCAL_ADDRESS) /\ rf' = "rx"
  /\ CC2420_state' = "IDLE" /\ is_ack_enable' = FALSE /\ rx_buf_set' = TRUE
  /\ pc' = "FIFOP"
  /\ UNCHANGED << params, TOS_LOCAL_ADDRESS, sizes, reply, held, resultVars, tx_buf_set, timer, timer_left,
                  opened, irqVars >>

(* request_irq; edges of FIFOP are detected from here on.  When the timer  *)
(* interrupt is there, timer_init follows.                                 *)
InitInterrupt(irq, next) ==
  \E ok \in Outcomes(irq) :
    /\ Step(irq, ok, next)
    /\ timer' = IF irq = "OST" /\ ok THEN timer_init(timer) ELSE timer
    /\ UNCHANGED << controlVars, resultVars, CC2420_state, rx_buf_set, tx_buf_set, timer_left, opened, irqVars >>

InitCdev ==
  \E ok \in Outcomes("cdev") :
    /\ Step("cdev", ok, "loaded")
    /\ cdev_failed' = ~ok
    /\ UNCHANGED << controlVars, devno_failed, CC2420_state, macVars, opened, irqVars >>
-----------------------------------------------------------------------------
(* rmmod: not while a program has the device open. *)
Rmmod == /\ Turn("loaded") /\ ~opened
         /\ pc' = "unload"
         /\ UNCHANGED << controlVars, held, resultVars, CC2420_state, macVars, opened, irqVars >>

(* tosmac_exit, by rmmod or after a failure: interrupts, radio, device,    *)
(* memory.  After a failure tosmac_init still returns 0: the module stays, *)
(* "failed".  The model stops there; tosmac_dev dangles and a second       *)
(* tosmac_exit has no defined effect.                                      *)
(*                                                                         *)
(* Giving back needs what is in used to be there.                          *)
GiveBack(step, things, used, next) ==
  /\ Turn(step)
  /\ held' = held \ things
  /\ pc' \in {next} \cup IF used \subseteq held THEN {} ELSE {"undefined"}

Irqs == {"FIFOP", "SFD", "OST"}

(* free_irq.  The timer goes on.                                           *)
ExitInterrupts(step, next) ==
  /\ GiveBack(step, Irqs, Irqs, next)
  /\ edge' = FALSE
  /\ UNCHANGED << controlVars, resultVars, CC2420_state, macVars, opened, rxfifo, tasklet >>

(* CC2420_oscillator_off and ssp_exit go through the SSP port.             *)
ExitRadio(step, next) ==
  /\ GiveBack(step, {"oscillator", "ssp", "power"}, {"ssp"}, next)
  /\ CC2420_state' = "DISABLED"
  /\ rf' = "off" /\ rxfifo' = FALSE
  /\ UNCHANGED << settingVars, chip, short_addr, resultVars, macVars, opened, edge, tasklet >>

(* cdev_result is 0 as long as cdev_add was not reached.                   *)
number_kept(cdev, devno) == IF cdev THEN {} ELSE {"cdev"}   \* seeded fault
Registered(cdev, devno) == (IF cdev THEN {} ELSE {"cdev"}) \cup (IF devno THEN {} ELSE {"chrdev"})

ExitDevice(step, next) ==
  /\ LET things == Registered(cdev_failed, devno_failed) \cup {"memory"}
     IN  GiveBack(step, things, things, next)
  /\ UNCHANGED << controlVars, resultVars, CC2420_state, macVars, opened, irqVars >>
-----------------------------------------------------------------------------
(* A frame comes in: FIFOP becomes active.  A detector that is not enabled *)
(* yet does not see the edge.                                              *)
FrameArrives ==
  /\ BehaviourDefined /\ rf = "rx" /\ ~rxfifo
  /\ rxfifo' = TRUE
  /\ edge' = ("FIFOP" \in held)
  /\ UNCHANGED << controlVars, pc, held, resultVars, CC2420_state, macVars, opened, tasklet >>

Interrupt == /\ BehaviourDefined /\ InterruptDue
             /\ edge' = FALSE /\ tasklet' = TRUE
             /\ UNCHANGED << controlVars, pc, held, resultVars, CC2420_state, macVars, opened, rxfifo >>

Tasklet == /\ BehaviourDefined /\ tasklet
           /\ tasklet' = FALSE /\ rxfifo' = FALSE
           /\ UNCHANGED << controlVars, pc, held, resultVars, CC2420_state, macVars, opened, edge >>

tosmac_open == /\ Turn("loaded") /\ ~opened
               /\ opened' = TRUE
               /\ UNCHANGED << controlVars, pc, held, resultVars, CC2420_state, macVars, irqVars >>

tosmac_release == /\ opened /\ Quiet
                  /\ opened' = FALSE
                  /\ UNCHANGED << controlVars, pc, held, resultVars, CC2420_state, macVars, irqVars >>

Ioctl == opened /\ Quiet /\ tosmac_ioctl /\ UNCHANGED lifeVars

(* A write() that finds the MAC idle, up to its wait: the packet, then the *)
(* initial timer.  It may return with the timer still running.             *)
tosmac_write ==
  /\ opened /\ Quiet
  /\ tx_buf_set' = TRUE /\ timer' = timer_start(timer)
  /\ UNCHANGED << controlVars, pc, held, resultVars, CC2420_state, rx_buf_set, timer_left, opened, irqVars >>

TimerTick == /\ BehaviourDefined /\ TimerMatch
             /\ UNCHANGED << controlVars, pc, held, resultVars, CC2420_state, rx_buf_set, tx_buf_set, timer_left,
                             opened, irqVars >>

(* CC2420_timer_irq_handler.  The send goes on and may set the timer       *)
(* again, at once or in the SFD interrupt that follows; before the first   *)
(* send there is no packet: CC2420_timer_state is TIMER_INITIAL and        *)
(* tx_buf_ptr is NULL.                                                     *)
TimerInterrupt ==
  /\ BehaviourDefined /\ TimerDue
  /\ LET t == timer_channel_check(timer)
     IN  \/ tx_buf_set /\ timer' \in {t, timer_start(t)} /\ UNCHANGED pc
         \/ ~tx_buf_set /\ timer' = t /\ pc' = "undefined"
  /\ UNCHANGED << controlVars, held, resultVars, CC2420_state, rx_buf_set, tx_buf_set, timer_left, opened, irqVars >>

Next == \/ InitMemory \/ InitChrdev \/ InitPower \/ InitOscillator \/ InitRegisters
        \/ InitInterrupt("FIFOP", "SFD") \/ InitInterrupt("SFD", "OST") \/ InitInterrupt("OST", "cdev")
        \/ InitCdev \/ Rmmod
        \/ ExitInterrupts("unload", "radio_off") \/ ExitInterrupts("give_up", "give_up_radio")
        \/ ExitRadio("radio_off", "device_off") \/ ExitRadio("give_up_radio", "give_up_device")
        \/ ExitDevice("device_off", "unloaded") \/ ExitDevice("give_up_device", "failed")
        \/ FrameArrives \/ Interrupt \/ Tasklet \/ TimerTick \/ TimerInterrupt
        \/ tosmac_open \/ tosmac_release \/ tosmac_write \/ Ioctl

Spec == Init /\ [][Next]_vars

LoadSteps == {"chrdev", "power", "oscillator", "registers", "FIFOP", "SFD", "OST", "cdev"}
ExitSteps == {"unload", "radio_off", "device_off", "give_up", "give_up_radio", "give_up_device"}

TypeOK == /\ ControlTypeOK /\ TimerTypeOK
          /\ pc \in {"unloaded", "loaded", "failed", "undefined"} \cup LoadSteps \cup ExitSteps
          /\ held \subseteq Fallible \cup {"power"}
          /\ devno_failed \in BOOLEAN /\ cdev_failed \in BOOLEAN
          /\ CC2420_state \in {"DISABLED", "WARMUP", "IDLE"}
          /\ rx_buf_set \in BOOLEAN /\ tx_buf_set \in BOOLEAN /\ timer_left \in BOOLEAN
          /\ opened \in BOOLEAN
          /\ rxfifo \in BOOLEAN /\ edge \in BOOLEAN /\ tasklet \in BOOLEAN
-----------------------------------------------------------------------------
(* Whenever an interrupt or the tasklet may run, in the middle of loading  *)
(* or unloading as well, the device exists, the port is set up, the radio  *)
(* answers and rx_buf_ptr points to the buffer the tasklet reads into.     *)
HandlersFindDriver ==
  InterruptDue \/ TimerDue \/ tasklet =>
    /\ {"memory", "ssp", "power", "oscillator"} \subseteq held
    /\ rx_buf_set /\ CC2420_state = "IDLE"

(* The timer interrupt finds a packet to send, unless the timer was armed  *)
(* or due when the driver was loaded: timer_init does not stop it, but     *)
(* from a timer at rest no match comes before the first send.              *)
TimerFindsPacket == TimerDue => tx_buf_set \/ timer_left

(* A program that has the device open finds the driver whole.              *)
OpenFindsRadio ==
  opened => held = Fallible \cup {"power"} /\ rf = "rx" /\ CC2420_state = "IDLE"

(* What loading took, unloading gives back, and so does a failed load as   *)
(* far as what tosmac_exit does to things never taken has no effect.       *)
NothingHeldUnloaded ==
  pc \in {"unloaded", "failed"} => held = {} /\ rf = "off" /\ ~edge /\ ~tasklet

SettingBits(r) == IF r = "FSCTRL" THEN 1024 ELSE IF r = "TXCTRL" THEN 32 ELSE 1
AckBits == Bit.MDMCTRL0_ADRDECODE + Bit.MDMCTRL0_AUTOACK

(* The chip holds the words the driver believes it holds, and the ioctls   *)
(* change no more of them than the fields they are about.                  *)
ChipConfigured ==
  pc = "loaded" =>
    /\ \A r \in Registers \ {"BATTMON"} : chip[r] = params[r]
    /\ \A r \in Registers \ {"MDMCTRL0"} :
         params[r] \div SettingBits(r) = CC2420_set_parameters[r] \div SettingBits(r)
    /\ params.MDMCTRL0 \in {CC2420_set_parameters.MDMCTRL0, CC2420_set_parameters.MDMCTRL0 + AckBits}

(* The settings in the registers of the chip implement RadioSettings.      *)
Up == pc = "loaded"
WhenUp(v) == IF Up THEN v ELSE 0
Settings == INSTANCE RadioSettings WITH
  up    <- Up,
  freq  <- WhenUp((chip.FSCTRL % 1024) + 2048),
  power <- WhenUp(chip.TXCTRL % 32),
  ack   <- IF Up THEN << is_ack_enable, BitSet(chip.MDMCTRL0, Bit.MDMCTRL0_ADRDECODE),
                         BitSet(chip.MDMCTRL0, Bit.MDMCTRL0_AUTOACK) >>
                 ELSE << >>,
  addr  <- WhenUp(short_addr[1] + 256 * short_addr[2]),
  size  <- WhenUp(sizes.TOSH_DATA_LENGTH),
  Refused <- {arg \in Arguments : ~access_ok(arg)}

ImplementsSettings == Settings!Spec

(* A frame in the RXFIFO of a loaded driver is noticed: "cc2420 should     *)
(* always read when data available" (CC2420.c:866).                        *)
FrameNoticed == pc = "loaded" /\ rxfifo => InterruptDue \/ tasklet

(* A module that insmod reports as loaded has its device: "Failed to       *)
(* register TOS-MAC driver" (TOSMac.c:332).                                *)
LoadReported == pc # "failed"
=============================================================================
