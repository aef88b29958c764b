-------------------------- MODULE DriverLifeProofs --------------------------
(***************************************************************************)
(* Theorems about DriverLife, for every set of steps that may fail, every  *)
(* address, every argument of the ioctls and either byte order: what is    *)
(* held while it is used, and that the chip holds the settings the driver  *)
(* believes it holds, so that DriverLife implements RadioSettings.         *)
(***************************************************************************)
EXTENDS DriverLife, TLAPS

(* What is held follows from the step that comes next, except after a      *)
(* failure, where tosmac_exit gives back whatever there is; ssp_init may   *)
(* have failed unnoticed.                                                  *)
HeldAt(p) ==
  CASE p \in {"unloaded", "failed"} -> {}
    [] p = "chrdev"     -> {"memory"}
    [] p = "power"      -> {"memory", "chrdev"}
    [] p = "oscillator" -> {"memory", "chrdev", "ssp", "power"}
    [] p = "registers"  -> {"memory", "chrdev", "ssp", "power", "oscillator"}
    [] p = "FIFOP"      -> {"memory", "chrdev", "ssp", "power", "oscillator"}
    [] p = "SFD"        -> {"memory", "chrdev", "ssp", "power", "oscillator", "FIFOP"}
    [] p = "OST"        -> {"memory", "chrdev", "ssp", "power", "oscillator", "FIFOP", "SFD"}
    [] p = "cdev"       -> (Fallible \cup {"power"}) \ {"cdev"}
    [] p \in {"loaded", "unload"} -> Fallible \cup {"power"}
    [] p = "radio_off"  -> {"memory", "chrdev", "ssp", "power", "oscillator", "cdev"}
    [] p = "device_off" -> {"memory", "chrdev", "cdev"}

GivingUp == {"give_up", "give_up_radio", "give_up_device"}

HeldInv ==
  /\ pc \notin GivingUp \cup {"oscillator", "undefined"} => held = HeldAt(pc)
  /\ pc = "oscillator" => held \in {HeldAt(pc), HeldAt(pc) \ {"ssp"}}
  /\ held \subseteq Fallible \cup {"power"}
  /\ pc = "give_up_radio" => held \cap {"FIFOP", "SFD", "OST"} = {}
  /\ pc = "give_up_device" => held \cap {"FIFOP", "SFD", "OST", "oscillator", "ssp", "power"} = {}
  /\ "chrdev" \in held => ~devno_failed
  /\ "cdev" \in held => ~cdev_failed

(* The interrupts and the tasklet come only while FIFOP is held, and FIFOP *)
(* taken and held only while all else that they need is there.             *)
IrqInv ==
  /\ edge \/ tasklet => "FIFOP" \in held
  /\ "OST" \in held => "FIFOP" \in held
  /\ "FIFOP" \in held \/ pc = "FIFOP" =>
                         /\ {"memory", "ssp", "power", "oscillator"} \subseteq held
                         /\ rx_buf_set /\ CC2420_state = "IDLE" /\ rf = "rx"
  /\ pc \in {"unloaded", "chrdev", "power", "device_off", "give_up_device", "failed"} => rf = "off"
  /\ opened => pc \in {"loaded", "undefined"} /\ held = HeldAt("loaded")

PcValues == {"unloaded", "loaded", "failed", "undefined"} \cup LoadSteps \cup ExitSteps

LifeInv == pc \in PcValues /\ HeldInv /\ IrqInv

LEMMA LifeInit == Init => LifeInv
  BY DEF Init, LifeInv, PcValues, HeldInv, HeldAt, GivingUp, IrqInv, Fallible

(* One case for each action; the ioctls touch none of it but rf.           *)
LEMMA LifeStep == LifeInv /\ [Next]_vars => LifeInv'
<1> SUFFICES ASSUME LifeInv, [Next]_vars PROVE LifeInv'
  OBVIOUS
<1> USE DEF LifeInv, PcValues, LoadSteps, ExitSteps, HeldInv, HeldAt, GivingUp, IrqInv, Fallible,
            Turn, Quiet, InterruptDue, TimerDue, BehaviourDefined, Outcomes, macVars
<1>1. CASE InitMemory
  BY <1>1 DEF InitMemory, resultVars, irqVars, controlVars, chipVars
<1>2. CASE InitChrdev
  <2>1. PICK ok \in BOOLEAN : Step("chrdev", ok, "power") /\ devno_failed' = ~ok
    BY <1>2 DEF InitChrdev
  <2>2. UNCHANGED << rf, cdev_failed, CC2420_state, rx_buf_set, opened, edge, tasklet >>
    BY <1>2 DEF InitChrdev, irqVars, controlVars
  <2>3. /\ pc = "chrdev" /\ held = {"memory"} /\ rf = "off"
        /\ ~edge /\ ~tasklet /\ ~opened
    BY <2>1 DEF Step
  <2>4. CASE ok
    <3>1. pc' = "power" /\ held' = held \cup {"chrdev"} /\ ~devno_failed'
      BY <2>1, <2>4 DEF Step
    <3> QED BY <2>2, <2>3, <3>1
  <2>5. CASE ~ok
    BY <2>1, <2>2, <2>3, <2>5 DEF Step
  <2> QED BY <2>4, <2>5
<1>3. CASE InitPower
  BY <1>3 DEF InitPower, resultVars, irqVars, controlVars, chipVars
<1>4. CASE InitOscillator
  BY <1>4 DEF InitOscillator, Step, resultVars, irqVars, controlVars, chipVars
<1>5. CASE InitRegisters
  BY <1>5 DEF InitRegisters, resultVars, irqVars, controlVars, chipVars
<1>6. CASE InitInterrupt("FIFOP", "SFD")
  <2>1. PICK ok \in BOOLEAN : Step("FIFOP", ok, "SFD")
    BY <1>6 DEF InitInterrupt
  <2>2. UNCHANGED << rf, devno_failed, cdev_failed, CC2420_state, rx_buf_set, opened, edge, tasklet >>
    BY <1>6 DEF InitInterrupt, resultVars, irqVars, controlVars
  <2>3. /\ pc = "FIFOP" /\ held = {"memory", "chrdev", "ssp", "power", "oscillator"}
        /\ ~edge /\ ~tasklet /\ ~opened
    BY <2>1 DEF Step
  <2>4. CASE ok
    <3>1. pc' = "SFD" /\ held' = held \cup {"FIFOP"}
      BY <2>1, <2>4 DEF Step
    <3> QED BY <2>2, <2>3, <3>1
  <2>5. CASE ~ok
    BY <2>1, <2>2, <2>3, <2>5 DEF Step
  <2> QED BY <2>4, <2>5
<1>7. CASE InitInterrupt("SFD", "OST")
  BY <1>7 DEF InitInterrupt, Step, resultVars, irqVars, controlVars, chipVars
<1>8. CASE InitInterrupt("OST", "cdev")
  BY <1>8 DEF InitInterrupt, Step, resultVars, irqVars, controlVars, chipVars
<1>9. CASE InitCdev
  <2>1. PICK ok \in BOOLEAN : Step("cdev", ok, "loaded") /\ cdev_failed' = ~ok
    BY <1>9 DEF InitCdev
  <2>2. UNCHANGED << rf, devno_failed, CC2420_state, rx_buf_set, opened, edge, tasklet >>
    BY <1>9 DEF InitCdev, irqVars, controlVars
  <2>3. pc = "cdev" /\ held = HeldAt("cdev") /\ ~tasklet /\ ~opened
    BY <2>1 DEF Step
  <2>4. CASE ok
    <3>1. pc' = "loaded" /\ held' = held \cup {"cdev"} /\ ~cdev_failed'
      BY <2>1, <2>4 DEF Step
    <3> QED BY <2>2, <2>3, <3>1
  <2>5. CASE ~ok
    <3>1. pc' = "give_up" /\ held' = held
      BY <2>1, <2>5 DEF Step
    <3> QED BY <2>2, <2>3, <3>1
  <2> QED BY <2>4, <2>5
<1>10. CASE Rmmod
  BY <1>10 DEF Rmmod, resultVars, irqVars, controlVars, chipVars
<1>11. CASE ExitInterrupts("unload", "radio_off")
  BY <1>11 DEF ExitInterrupts, GiveBack, Irqs, resultVars, irqVars, controlVars, chipVars
<1>12. CASE ExitInterrupts("give_up", "give_up_radio")
  BY <1>12 DEF ExitInterrupts, GiveBack, Irqs, resultVars, irqVars, controlVars, chipVars
<1>13. CASE ExitRadio("radio_off", "device_off")
  BY <1>13 DEF ExitRadio, GiveBack, resultVars, irqVars, controlVars, chipVars
<1>14. CASE ExitRadio("give_up_radio", "give_up_device")
  BY <1>14 DEF ExitRadio, GiveBack, resultVars, irqVars, controlVars, chipVars
<1>15. CASE ExitDevice("device_off", "unloaded")
  BY <1>15 DEF ExitDevice, GiveBack, Registered, resultVars, irqVars, controlVars, chipVars
<1>16. CASE ExitDevice("give_up_device", "failed")
  BY <1>16 DEF ExitDevice, GiveBack, Registered, resultVars, irqVars, controlVars, chipVars
<1>17. CASE FrameArrives
  <2>1. edge' <=> "FIFOP" \in held
    BY <1>17 DEF FrameArrives
  <2>2. UNCHANGED << pc, held, rf, devno_failed, cdev_failed, CC2420_state, rx_buf_set, opened, tasklet >>
    BY <1>17 DEF FrameArrives, resultVars, controlVars
  <2>3. HeldInv'
    BY <2>2
  <2> QED BY <2>1, <2>2, <2>3
<1>18. CASE Interrupt
  BY <1>18 DEF Interrupt, resultVars, irqVars, controlVars, chipVars
<1>19. CASE Tasklet
  BY <1>19 DEF Tasklet, resultVars, irqVars, controlVars, chipVars
<1>20. CASE tosmac_open
  BY <1>20 DEF tosmac_open, resultVars, irqVars, controlVars, chipVars
<1>21. CASE tosmac_release
  BY <1>21 DEF tosmac_release, resultVars, irqVars, controlVars, chipVars
<1>22. CASE Ioctl
  BY <1>22 DEF Ioctl, tosmac_ioctl, lifeVars, resultVars, irqVars, tune, IOSETFREQ, IOSETCHAN,
                IOSETPOWER, IOAUTOACK, IOSETADDR, IOSETMAXDATASIZE, IOGET, RefuseIoctl
<1>23. CASE TimerTick \/ tosmac_write
  BY <1>23 DEF TimerTick, tosmac_write, resultVars, irqVars, controlVars
<1>24. CASE TimerInterrupt
  BY <1>24 DEF TimerInterrupt, resultVars, irqVars, controlVars
<1>25. CASE UNCHANGED vars
  BY <1>25 DEF vars, lifeVars, controlVars, resultVars, irqVars
<1> QED BY <1>1, <1>2, <1>3, <1>4, <1>5, <1>6, <1>7, <1>8, <1>9, <1>10, <1>11, <1>12, <1>13, <1>14, <1>15, <1>16, <1>17, <1>18, <1>19, <1>20, <1>21, <1>22, <1>23, <1>24, <1>25 DEF Next

(* THEOREM: whenever the interrupt or the tasklet may run, in the middle   *)
(* of loading or unloading too, what it uses is there (CC2420_init,        *)
(* CC2420_exit, read_packet_tasklet).                                      *)
THEOREM HandlersFindDriverAlways == Spec => []HandlersFindDriver
<1>1. LifeInv => HandlersFindDriver
  BY DEF LifeInv, IrqInv, HandlersFindDriver, InterruptDue, TimerDue
<1> QED BY <1>1, LifeInit, LifeStep, PTL DEF Spec

(* THEOREM: a program with the device open finds everything in hand and    *)
(* the radio on (tosmac_open, the reference count of the module).          *)
THEOREM OpenFindsRadioAlways == Spec => []OpenFindsRadio
<1>1. LifeInv => OpenFindsRadio
  BY DEF LifeInv, IrqInv, HeldInv, HeldAt, GivingUp, Fallible, OpenFindsRadio
<1> QED BY <1>1, LifeInit, LifeStep, PTL DEF Spec

(* THEOREM: an unloaded driver holds nothing, and neither does one whose   *)
(* load failed, at whatever steps, ssp_init included (tosmac_exit).  After *)
(* a failure this is said of the runs that go on: tosmac_exit also frees   *)
(* what was never taken, and where that has an effect pc is "undefined".   *)
THEOREM NothingHeldUnloadedAlways == Spec => []NothingHeldUnloaded
<1>1. LifeInv => NothingHeldUnloaded
  BY DEF LifeInv, IrqInv, HeldInv, HeldAt, GivingUp, NothingHeldUnloaded
<1> QED BY <1>1, LifeInit, LifeStep, PTL DEF Spec

(* Only a send arms the timer, so that one at rest when the driver was     *)
(* loaded stays at rest until the first send.                              *)
TimerInv == /\ timer \in TimerType
            /\ tx_buf_set \/ timer_left \/ (~timer.OIER /\ ~timer.OSSR)

LEMMA TimerStep == TimerInv /\ [Next]_vars => TimerInv'
<1> SUFFICES ASSUME TimerInv, [Next]_vars PROVE TimerInv'
  OBVIOUS
<1> USE DEF TimerInv, TimerType
<1>1. ASSUME UNCHANGED << timer, tx_buf_set, timer_left >> PROVE TimerInv'
  BY <1>1
<1>2. CASE InitMemory
  BY <1>2 DEF InitMemory
<1>3. CASE InitRegisters
  BY <1>1, <1>3 DEF InitRegisters
<1>4. ASSUME NEW irq, NEW next, InitInterrupt(irq, next) PROVE TimerInv'
  <2>1. timer' \in {timer, timer_init(timer)} /\ UNCHANGED << tx_buf_set, timer_left >>
    BY <1>4 DEF InitInterrupt
  <2> QED BY <1>1, <2>1 DEF timer_init
<1>5. CASE tosmac_write
  BY <1>5 DEF tosmac_write, timer_start
<1>6. CASE TimerTick
  BY <1>6 DEF TimerTick, TimerMatch
<1>7. CASE TimerInterrupt
  <2>1. /\ timer' \in {timer_channel_check(timer), timer_start(timer_channel_check(timer))}
        /\ tx_buf_set \/ timer' = timer_channel_check(timer)
        /\ UNCHANGED << tx_buf_set, timer_left >>
    BY <1>7 DEF TimerInterrupt
  <2> QED BY <2>1 DEF timer_channel_check, timer_start
<1>8. CASE InitChrdev \/ InitPower \/ InitOscillator \/ InitCdev \/ Rmmod
  BY <1>1, <1>8 DEF InitChrdev, InitPower, InitOscillator, InitCdev, Rmmod, macVars
<1>9. ASSUME NEW step, NEW next, ExitInterrupts(step, next) \/ ExitRadio(step, next) \/ ExitDevice(step, next)
      PROVE  TimerInv'
  BY <1>1, <1>9 DEF ExitInterrupts, ExitRadio, ExitDevice, macVars
<1>10. CASE FrameArrives \/ Interrupt \/ Tasklet \/ tosmac_open \/ tosmac_release \/ Ioctl
  BY <1>1, <1>10 DEF FrameArrives, Interrupt, Tasklet, tosmac_open, tosmac_release, Ioctl, lifeVars, macVars
<1>11. CASE UNCHANGED vars
  BY <1>1, <1>11 DEF vars, lifeVars, macVars
<1> QED BY <1>2, <1>3, <1>4, <1>5, <1>6, <1>7, <1>8, <1>9, <1>10, <1>11 DEF Next

LEMMA TimerStart == Init => TimerInv
  BY DEF Init, TimerInv, TimerType

(* THEOREM: the timer interrupt comes to a driver that has a packet to     *)
(* send, unless the timer was armed or due when the driver was loaded      *)
(* (timer_init, CC2420_timer_irq_handler, CC2420_exit).                    *)
THEOREM TimerFindsPacketAlways == Spec => []TimerFindsPacket
<1>1. TimerInv => TimerFindsPacket
  BY DEF TimerInv, TimerFindsPacket, TimerDue
<1> QED BY <1>1, TimerStart, TimerStep, PTL DEF Spec
-----------------------------------------------------------------------------
(* The words CC2420_set_parameters gives the three registers that are set  *)
(* later on; the ranges the ioctls keep them in.                           *)
LEMMA Defaults ==
  /\ CC2420_set_parameters \in [Registers -> U16]
  /\ CC2420_set_parameters.FSCTRL = 16741
  /\ CC2420_set_parameters.TXCTRL = 24831
  /\ CC2420_set_parameters.MDMCTRL0 = 738
  /\ {"FSCTRL", "TXCTRL", "MDMCTRL0", "BATTMON"} \subseteq Registers
  /\ AckBits = 2064
<1> USE DEF CC2420_set_parameters, CC2420_DEF_CHANNEL, CC2420_DEF_RFPOWER
<1>1. /\ CC2420_set_parameters.FSCTRL = 16741
      /\ CC2420_set_parameters.TXCTRL = 24831
      /\ CC2420_set_parameters.MDMCTRL0 = 738
      /\ AckBits = 2064
  BY DEF Bit, AckBits
<1>2. Registers = {"MAIN", "MDMCTRL0", "MDMCTRL1", "RSSI", "SYNCWORD", "TXCTRL", "RXCTRL0", "RXCTRL1",
                   "FSCTRL", "SECCTRL0", "SECCTRL1", "BATTMON", "IOCFG0", "IOCFG1"}
  BY DEF Registers
<1>3. \A r \in Registers : CC2420_set_parameters[r] \in U16
  <2> DEFINE p == CC2420_set_parameters
  <2>1. {p.MAIN, p.MDMCTRL0, p.MDMCTRL1, p.RSSI, p.SYNCWORD} \subseteq U16
    BY DEF Bit, U16
  <2>2. {p.TXCTRL, p.RXCTRL0, p.RXCTRL1, p.FSCTRL} \subseteq U16
    BY DEF Bit, U16
  <2>3. {p.SECCTRL0, p.SECCTRL1, p.BATTMON, p.IOCFG0, p.IOCFG1} \subseteq U16
    BY DEF Bit, U16
  <2> HIDE DEF CC2420_set_parameters
  <2> QED BY <1>2, <2>1, <2>2, <2>3
<1>4. CC2420_set_parameters \in [Registers -> U16]
  <2>1. CC2420_set_parameters = [r \in Registers |-> CC2420_set_parameters[r]]
    BY <1>2
  <2> HIDE DEF CC2420_set_parameters
  <2> QED BY <1>3, <2>1
<1> QED BY <1>1, <1>2, <1>4

LEMMA ChannelRange ==
  ASSUME NEW n \in Int
  PROVE  357 + 5 * (Limit(n, 11, 26) - 11) \in 357 .. 432
  BY DEF Limit

Byte == 0 .. 255

LEMMA ByteBounds == \A n \in Int : 0 <= n /\ n <= 255 => n \in Byte
  BY DEF Byte

LEMMA TwoBytes ==
  ASSUME NEW high \in Byte, NEW low \in Byte
  PROVE  (high * 256 + low) \div 256 = high /\ (high * 256 + low) % 256 = low
  BY DEF Byte

(* The chip is given the two bytes of the address low byte first, whatever *)
(* the byte order of the processor.                                        *)
LEMMA AddressBytes ==
  ASSUME NEW a \in U16
  PROVE  /\ ShortAddr(a) \in Byte \X Byte
         /\ ShortAddr(a)[1] + 256 * ShortAddr(a)[2] = a
<1>1. a % 256 \in Byte /\ a \div 256 \in Byte
  <2>1. a \in Int /\ 0 <= a /\ a <= 65535
    BY DEF U16
  <2>2. 0 <= a % 256 /\ a % 256 <= 255 /\ a % 256 \in Int
    BY <2>1
  <2>3. 0 <= a \div 256 /\ a \div 256 <= 255 /\ a \div 256 \in Int
    BY <2>1
  <2> QED BY <2>2, <2>3, ByteBounds
<1>2. ShortAddr(a) = << a % 256, a \div 256 >>
  <2>1. CASE HostIsLsb
    <3>1. toLSB16(a) = a
      BY <2>1 DEF toLSB16
    <3>2. ShortAddr(a) = MemoryBytes(a)
      BY <3>1 DEF ShortAddr
    <3> QED BY <2>1, <3>2 DEF MemoryBytes
  <2>2. CASE ~HostIsLsb
    <3> DEFINE b == (a % 256) * 256 + a \div 256
    <3>1. b \div 256 = a % 256 /\ b % 256 = a \div 256
      BY <1>1, TwoBytes
    <3>2. toLSB16(a) = b
      BY <2>2 DEF toLSB16
    <3>3. ShortAddr(a) = MemoryBytes(b)
      BY <3>2 DEF ShortAddr
    <3>4. MemoryBytes(b) = << b \div 256, b % 256 >>
      BY <2>2 DEF MemoryBytes
    <3> HIDE DEF b
    <3> QED BY <3>1, <3>3, <3>4
  <2> QED BY <2>1, <2>2
<1>3. a = (a \div 256) * 256 + (a % 256)
  BY DEF U16
<1>4. a \div 256 \in Int /\ a % 256 \in Int
  BY DEF U16
<1>5. ShortAddr(a)[1] = a % 256 /\ ShortAddr(a)[2] = a \div 256
  BY <1>2
<1>6. ShortAddr(a)[1] + 256 * ShortAddr(a)[2] = a
  BY <1>3, <1>4, <1>5
<1>7. ShortAddr(a) \in Byte \X Byte
  BY <1>1, <1>2
<1> QED BY <1>6, <1>7

LEMMA Truncated == \A n \in Int : n % 65536 \in U16
<1> SUFFICES ASSUME NEW n \in Int PROVE n % 65536 \in U16
  OBVIOUS
<1> DEFINE m == n % 65536
           top == 65535
<1>1. m \in Int /\ 0 <= m /\ m <= top
  OBVIOUS
<1>2. U16 = 0 .. top
  BY DEF U16
<1> HIDE DEF m, top
<1>3. m \in U16
  BY <1>1, <1>2
<1> QED BY <1>3 DEF m

(* CC2420_set_short_addr leaves two bytes, those of the address unless the *)
(* write was cut short.                                                    *)
LEMMA AddressWrite ==
  ASSUME NEW a \in U16, short_addr \in Byte \X Byte, CC2420_set_short_addr(a)
  PROVE  short_addr' \in Byte \X Byte /\ (CutShort \/ short_addr' = ShortAddr(a))
<1>1. ShortAddr(a) \in Byte \X Byte
  BY AddressBytes
<1>2. short_addr' \in {ShortAddr(a), short_addr, << ShortAddr(a)[1], short_addr[2] >>}
  BY DEF CC2420_set_short_addr
<1>3. CutShort \/ short_addr' = ShortAddr(a)
  BY DEF CC2420_set_short_addr
<1> QED BY <1>1, <1>2, <1>3

AckWord(on) == IF on THEN 2802 ELSE 738

(* The bits that CC2420_enable_ack and CC2420_disable_ack touch.           *)
LEMMA AckBitsSet ==
  ASSUME NEW on \in BOOLEAN, NEW was \in BOOLEAN
  PROVE  /\ WithBit(WithBit(AckWord(was), 2048, on), 16, on) = AckWord(on)
         /\ BitSet(AckWord(on), 2048) = on
         /\ BitSet(AckWord(on), 16) = on
<1>1. WithBit(WithBit(AckWord(was), 2048, on), 16, on) = AckWord(on)
  <2>1. CASE on
    BY <2>1 DEF WithBit, BitSet, AckWord
  <2>2. CASE ~on
    BY <2>2 DEF WithBit, BitSet, AckWord
  <2> QED BY <2>1, <2>2
<1>2. BitSet(AckWord(on), 2048) = on
  BY DEF BitSet, AckWord
<1>3. BitSet(AckWord(on), 16) = on
  BY DEF BitSet, AckWord
<1> QED BY <1>1, <1>2, <1>3
-----------------------------------------------------------------------------
(* The words kept are those of CC2420_set_parameters but for the fields    *)
(* the ioctls set, and the chip has the same.                              *)
Settable == {"FSCTRL", "TXCTRL", "MDMCTRL0"}

WordsInv ==
  /\ \A r \in Registers \ Settable : params[r] = CC2420_set_parameters[r]
  /\ params.FSCTRL \in 16741 .. 16816
  /\ params.TXCTRL \in 24803 .. 24831
  /\ params.MDMCTRL0 = AckWord(is_ack_enable)
  /\ \A r \in Registers \ {"BATTMON"} : chip[r] = params[r]
  /\ CutShort \/ short_addr = ShortAddr(TOS_LOCAL_ADDRESS)

(* Loading fills the words in, step by step. *)
Written == {"FIFOP", "SFD", "OST", "cdev"}

LoadingInv ==
  /\ pc \in LoadSteps => sizes = SizesFor(28)
  /\ pc \in Written \cup {"oscillator", "registers"} =>
       params = CC2420_set_parameters /\ TOS_LOCAL_ADDRESS = DefaultAddr
  /\ pc \in Written => ~is_ack_enable
  /\ pc \in Written \cup {"loaded"} => WordsInv

ControlInv == TypeOK /\ LoadingInv

(* The sizes are 32 bits wide, whatever the argument. *)
LEMMA S32Bounds == /\ \A n \in S32 : n \in Int /\ MinInt <= n /\ n <= MaxInt
                   /\ \A n \in Int : MinInt <= n /\ n <= MaxInt => n \in S32
<1>1. MinInt \in Int /\ MaxInt \in Int
  BY DEF MinInt, MaxInt
<1> QED BY <1>1 DEF S32

LEMMA Sum32 ==
  ASSUME NEW n \in S32, NEW k \in {10, 12, 16}
  PROVE  Plus32(n, k) \in S32
<1>1. n \in Int /\ MinInt <= n /\ n <= MaxInt
  BY S32Bounds
<1>2. MinInt <= Plus32(n, k) /\ Plus32(n, k) <= MaxInt /\ Plus32(n, k) \in Int
  BY <1>1 DEF Plus32, MinInt, MaxInt
<1> QED BY <1>2, S32Bounds

LEMMA SizesType ==
  ASSUME NEW n \in S32
  PROVE  SizesFor(n) \in [{"TOSH_DATA_LENGTH", "MSG_DATA_SIZE", "MSG_HEADER_DATA_SIZE",
                           "TOSMSG_SIZE"} -> S32]
  BY Sum32 DEF SizesFor

LEMMA SizesDefault == SizesFor(28) \in [{"TOSH_DATA_LENGTH", "MSG_DATA_SIZE", "MSG_HEADER_DATA_SIZE",
                                        "TOSMSG_SIZE"} -> S32]
<1>1. 28 \in S32
  BY S32Bounds DEF MinInt, MaxInt
<1> QED BY <1>1, SizesType

LEMMA ControlInit == Init => ControlInv
<1> SUFFICES ASSUME Init PROVE ControlInv
  OBVIOUS
<1>1. ResetRegisters \in [Registers -> U16]
  <2>1. 0 \in U16
    BY DEF U16
  <2> QED BY <2>1 DEF ResetRegisters
<1>2. params \in [Registers -> U16] /\ chip \in [Registers -> U16]
  BY <1>1 DEF Init
<1>3. sizes \in [{"TOSH_DATA_LENGTH", "MSG_DATA_SIZE", "MSG_HEADER_DATA_SIZE", "TOSMSG_SIZE"} -> S32]
  <2>1. 0 \in S32
    BY S32Bounds DEF MinInt, MaxInt
  <2> QED BY <2>1, SizesType DEF Init
<1>4. short_addr \in (0 .. 255) \X (0 .. 255)
  BY ByteBounds DEF Init, Byte
<1>5. TOS_LOCAL_ADDRESS \in U16
  BY DEF Init, U16
<1>6. ControlTypeOK
  BY <1>2, <1>3, <1>4, <1>5 DEF Init, ControlTypeOK
<1> QED BY <1>6 DEF Init, Fallible, ControlInv, TypeOK, LoadingInv, LoadSteps, Written, TimerTypeOK, TimerType
-----------------------------------------------------------------------------
(* One register is written: the chip still agrees with the driver, and the *)
(* other registers keep their words.                                       *)
LEMMA WriteReg ==
  ASSUME ControlTypeOK, WordsInv, NEW r \in Settable, NEW word \in U16, write_reg(r, word)
  PROVE  /\ params' \in [Registers -> U16] /\ chip' \in [Registers -> U16]
         /\ params'[r] = word
         /\ \A s \in Registers \ {r} : params'[s] = params[s]
         /\ \A s \in Registers \ {"BATTMON"} : chip'[s] = params'[s]
<1>1. r \in Registers
  BY Defaults DEF Settable
<1> QED BY <1>1 DEF write_reg, WordsInv, ControlTypeOK

LEMMA Fits == 0 \in U16 /\ 16741 .. 16816 \subseteq U16 /\ 24803 .. 24831 \subseteq U16
              /\ \A on \in BOOLEAN : AckWord(on) \in U16
<1>1. ASSUME NEW n \in Int, 0 <= n, n <= 65535 PROVE n \in U16
  <2> DEFINE top == 65535
  <2>1. U16 = 0 .. top
    BY DEF U16
  <2>2. top \in Int /\ n <= top
    BY <1>1
  <2> HIDE DEF top
  <2> QED BY <1>1, <2>1, <2>2
<1>2. \A on \in BOOLEAN : AckWord(on) \in {2802, 738}
  BY DEF AckWord
<1> QED BY <1>1, <1>2

(* The ioctls keep the words in their ranges.                              *)
LEMMA TuneWords ==
  ASSUME ControlTypeOK, WordsInv, NEW f \in 357 .. 432, tune(f),
         UNCHANGED << short_addr, TOS_LOCAL_ADDRESS, is_ack_enable, sizes >>
  PROVE  ControlTypeOK' /\ WordsInv' /\ params'.FSCTRL = 16384 + f
<1>1. params.FSCTRL \div 1024 = 16
  BY DEF WordsInv
<1> DEFINE word == (params.FSCTRL \div 1024) * 1024 + f * Bit.FSCTRL_FREQ
<1>2. Bit.FSCTRL_FREQ = 1
  BY DEF Bit
<1>3. word = 16384 + f
  BY <1>1, <1>2
<1>4. word \in 16741 .. 16816 /\ word \in U16
  BY <1>3, Fits
<1>5. write_reg("FSCTRL", word) /\ rf' = "rx"
  BY DEF tune
<1> HIDE DEF word
<1>6. /\ params' \in [Registers -> U16] /\ chip' \in [Registers -> U16]
      /\ params'.FSCTRL = word
      /\ \A s \in Registers \ {"FSCTRL"} : params'[s] = params[s]
      /\ \A s \in Registers \ {"BATTMON"} : chip'[s] = params'[s]
  BY <1>4, <1>5, WriteReg DEF Settable
<1>7. ControlTypeOK'
  BY <1>5, <1>6 DEF ControlTypeOK
<1>8. WordsInv'
  BY <1>4, <1>6, Defaults DEF WordsInv, Settable, ShortAddr, MemoryBytes, toLSB16
<1> QED BY <1>3, <1>6, <1>7, <1>8

LEMMA PowerWords ==
  ASSUME ControlTypeOK, WordsInv, NEW p \in Int, IOSETPOWER(p)
  PROVE  ControlTypeOK' /\ WordsInv' /\ params'.TXCTRL = 24800 + Limit(p, 3, 31)
<1>1. params.TXCTRL \div 32 = 775
  BY DEF WordsInv
<1> DEFINE n == Limit(p, 3, 31)
           word == (params.TXCTRL \div 32) * 32 + n * Bit.TXCTRL_PAPWR
<1>2. Bit.TXCTRL_PAPWR = 1
  BY DEF Bit
<1>3. n \in 3 .. 31
  BY DEF Limit
<1>4. write_reg("TXCTRL", word) /\ UNCHANGED << short_addr, TOS_LOCAL_ADDRESS, is_ack_enable, sizes, rf >>
  BY DEF IOSETPOWER
<1> HIDE DEF n
<1>5. word = 24800 + n
  BY <1>1, <1>2, <1>3
<1>6. word \in 24803 .. 24831 /\ word \in U16
  BY <1>3, <1>5, Fits
<1> HIDE DEF word
<1>7. /\ params' \in [Registers -> U16] /\ chip' \in [Registers -> U16]
      /\ params'.TXCTRL = word
      /\ \A s \in Registers \ {"TXCTRL"} : params'[s] = params[s]
      /\ \A s \in Registers \ {"BATTMON"} : chip'[s] = params'[s]
  BY <1>4, <1>6, WriteReg DEF Settable
<1>8. ControlTypeOK'
  BY <1>4, <1>7 DEF ControlTypeOK
<1>9. WordsInv'
  BY <1>4, <1>6, <1>7, Defaults DEF WordsInv, Settable, ShortAddr, MemoryBytes, toLSB16
<1> QED BY <1>5, <1>7, <1>8, <1>9 DEF n

LEMMA AckWords ==
  ASSUME ControlTypeOK, WordsInv, NEW on \in BOOLEAN, IOAUTOACK(on)
  PROVE  ControlTypeOK' /\ WordsInv' /\ params'.MDMCTRL0 = AckWord(on)
<1> DEFINE word == WithBit(WithBit(params.MDMCTRL0, Bit.MDMCTRL0_ADRDECODE, on), Bit.MDMCTRL0_AUTOACK, on)
<1>1. Bit.MDMCTRL0_ADRDECODE = 2048 /\ Bit.MDMCTRL0_AUTOACK = 16
  BY DEF Bit
<1>2. params.MDMCTRL0 = AckWord(is_ack_enable) /\ is_ack_enable \in BOOLEAN
  BY DEF WordsInv, ControlTypeOK
<1>3. word = AckWord(on)
  BY <1>1, <1>2, AckBitsSet
<1>4. write_reg("MDMCTRL0", word) /\ is_ack_enable' = on
      /\ UNCHANGED << short_addr, TOS_LOCAL_ADDRESS, sizes, rf >>
  BY DEF IOAUTOACK
<1> HIDE DEF word
<1>5. word \in U16
  BY <1>3, Fits
<1>6. /\ params' \in [Registers -> U16] /\ chip' \in [Registers -> U16]
      /\ params'.MDMCTRL0 = word
      /\ \A s \in Registers \ {"MDMCTRL0"} : params'[s] = params[s]
      /\ \A s \in Registers \ {"BATTMON"} : chip'[s] = params'[s]
  BY <1>4, <1>5, WriteReg DEF Settable
<1>7. ControlTypeOK'
  BY <1>4, <1>6 DEF ControlTypeOK
<1>8. WordsInv'
  BY <1>3, <1>4, <1>6, Defaults DEF WordsInv, Settable, ShortAddr, MemoryBytes, toLSB16
<1> QED BY <1>3, <1>6, <1>7, <1>8

LEMMA FreqRange ==
  ASSUME NEW n \in Int
  PROVE  Limit(n, 2405, 2480) - 2048 \in 357 .. 432
  BY DEF Limit

(* Every ioctl keeps the words, and none changes more than it is about.    *)
LEMMA IoctlWords ==
  ASSUME ControlTypeOK, WordsInv, tosmac_ioctl
  PROVE  ControlTypeOK' /\ WordsInv'
<1>0. /\ Freqs \subseteq Int /\ Channels \subseteq Int /\ Powers \subseteq Int /\ Addrs \subseteq Int
      /\ Sizes \subseteq S32
  BY SettingsAssumption, S32Bounds DEF SettingsAssumption
<1> USE <1>0
<1>1. ASSUME NEW f \in Freqs, IOSETFREQ(f) PROVE ControlTypeOK' /\ WordsInv'
  BY <1>1, FreqRange, TuneWords DEF IOSETFREQ
<1>2. ASSUME NEW c \in Channels, IOSETCHAN(c) PROVE ControlTypeOK' /\ WordsInv'
  BY <1>2, ChannelRange, TuneWords DEF IOSETCHAN
<1>3. ASSUME NEW p \in Powers, IOSETPOWER(p) PROVE ControlTypeOK' /\ WordsInv'
  BY <1>3, PowerWords
<1>4. ASSUME NEW on \in BOOLEAN, IOAUTOACK(on) PROVE ControlTypeOK' /\ WordsInv'
  BY <1>4, AckWords
<1>5. ASSUME NEW a \in Addrs, IOSETADDR(a) PROVE ControlTypeOK' /\ WordsInv'
  <2> DEFINE short == a % 65536
  <2>1. short \in U16
    BY Truncated
  <2>2. TOS_LOCAL_ADDRESS' = short /\ CC2420_set_short_addr(short)
        /\ UNCHANGED << params, chip, is_ack_enable, sizes, rf >>
    BY <1>5 DEF IOSETADDR
  <2> HIDE DEF short
  <2>3. short_addr' \in Byte \X Byte /\ (CutShort \/ short_addr' = ShortAddr(short))
    BY <2>1, <2>2, AddressWrite DEF ControlTypeOK, Byte
  <2>4. ControlTypeOK'
    BY <2>1, <2>2, <2>3 DEF ControlTypeOK, Byte
  <2>5. CutShort \/ short_addr' = ShortAddr(TOS_LOCAL_ADDRESS)'
    BY <2>2, <2>3 DEF ShortAddr, MemoryBytes, toLSB16
  <2> QED BY <2>2, <2>4, <2>5 DEF WordsInv
<1>6. ASSUME NEW n \in Sizes, IOSETMAXDATASIZE(n) PROVE ControlTypeOK' /\ WordsInv'
  <2>1. n \in S32
    OBVIOUS
  <2>2. ControlTypeOK'
    BY <1>6, <2>1, SizesType DEF IOSETMAXDATASIZE, ControlTypeOK
  <2> QED BY <1>6, <2>2 DEF IOSETMAXDATASIZE, WordsInv, ShortAddr, MemoryBytes, toLSB16
<1>7. CASE IOGET \/ RefuseIoctl
  BY <1>7 DEF IOGET, RefuseIoctl, ControlTypeOK, WordsInv, ShortAddr, MemoryBytes, toLSB16
<1> QED BY <1>1, <1>2, <1>3, <1>4, <1>5, <1>6, <1>7 DEF tosmac_ioctl

(* A step that changes no setting goes on loading, stops it, or stays.     *)
Continues == << pc, pc' >> \in { << "chrdev", "power" >>, << "oscillator", "registers" >>, << "FIFOP", "SFD" >>,
                                << "SFD", "OST" >>, << "OST", "cdev" >>, << "cdev", "loaded" >> }

LEMMA Keep ==
  ASSUME ControlTypeOK, LoadingInv, UNCHANGED controlVars,
         pc' = pc \/ Continues \/ pc' \notin LoadSteps \cup {"loaded"}
  PROVE  ControlTypeOK' /\ LoadingInv'
<1>1. ControlTypeOK'
  BY DEF controlVars, ControlTypeOK
<1>2. WordsInv => WordsInv'
  BY DEF controlVars, WordsInv, ShortAddr, MemoryBytes, toLSB16
<1>3. UNCHANGED << params, TOS_LOCAL_ADDRESS, is_ack_enable, sizes >>
  BY DEF controlVars
<1> QED BY <1>1, <1>2, <1>3 DEF LoadingInv, LoadSteps, Written, Continues

FlagsOK == /\ devno_failed \in BOOLEAN /\ cdev_failed \in BOOLEAN
           /\ CC2420_state \in {"DISABLED", "WARMUP", "IDLE"}
           /\ rx_buf_set \in BOOLEAN /\ tx_buf_set \in BOOLEAN /\ timer_left \in BOOLEAN
           /\ opened \in BOOLEAN
           /\ rxfifo \in BOOLEAN /\ edge \in BOOLEAN /\ tasklet \in BOOLEAN

LEMMA FlagsStep == FlagsOK /\ [Next]_vars => FlagsOK'
<1> SUFFICES ASSUME FlagsOK, [Next]_vars PROVE FlagsOK'
  OBVIOUS
<1> USE DEF FlagsOK, resultVars, irqVars, macVars, lifeVars
<1>1. CASE InitMemory \/ InitChrdev \/ InitPower \/ InitOscillator \/ InitRegisters \/ InitCdev
  <2>1. \A step \in STRING : Outcomes(step) \subseteq BOOLEAN
    BY DEF Outcomes
  <2>2. CASE InitMemory
    <3>1. timer_left' \in BOOLEAN
      BY <2>2 DEF InitMemory
    <3> QED BY <2>2, <3>1 DEF InitMemory
  <2>3. CASE InitChrdev \/ InitCdev
    BY <2>1, <2>3 DEF InitChrdev, InitCdev
  <2>4. CASE InitPower \/ InitOscillator \/ InitRegisters
    BY <2>4 DEF InitPower, InitOscillator, InitRegisters
  <2> QED BY <1>1, <2>2, <2>3, <2>4
<1>2. ASSUME NEW irq, NEW next, InitInterrupt(irq, next) PROVE FlagsOK'
  BY <1>2 DEF InitInterrupt
<1>3. CASE Rmmod
  BY <1>3 DEF Rmmod
<1>4. ASSUME NEW step, NEW next, ExitInterrupts(step, next) \/ ExitRadio(step, next) \/ ExitDevice(step, next)
      PROVE  FlagsOK'
  BY <1>4 DEF ExitInterrupts, ExitRadio, ExitDevice
<1>5. CASE Interrupt \/ Tasklet
  BY <1>5 DEF Interrupt, Tasklet
<1>6. CASE FrameArrives
  <2>1. edge' \in BOOLEAN
    BY <1>6 DEF FrameArrives
  <2>2. rxfifo' = TRUE
        /\ UNCHANGED << devno_failed, cdev_failed, CC2420_state, rx_buf_set, tx_buf_set, timer_left, opened, tasklet >>
    BY <1>6 DEF FrameArrives
  <2> QED BY <2>1, <2>2
<1>7. CASE tosmac_open \/ tosmac_release \/ Ioctl
  BY <1>7 DEF tosmac_open, tosmac_release, Ioctl
<1>9. CASE tosmac_write \/ TimerTick \/ TimerInterrupt
  BY <1>9 DEF tosmac_write, TimerTick, TimerInterrupt
<1>8. CASE UNCHANGED vars
  BY <1>8 DEF vars
<1> QED BY <1>1, <1>2, <1>3, <1>4, <1>5, <1>6, <1>7, <1>8, <1>9 DEF Next

(* One case for each action.  The steps of loading write what WordsInv     *)
(* asks for, and those of unloading leave its guard.                       *)
LEMMA ControlStep == LifeInv /\ LifeInv' /\ TimerInv' /\ ControlInv /\ [Next]_vars => ControlInv'
<1> SUFFICES ASSUME LifeInv, LifeInv', TimerInv', ControlInv, [Next]_vars PROVE ControlInv'
  OBVIOUS
<1>1. ControlTypeOK /\ LoadingInv /\ FlagsOK
  BY DEF ControlInv, TypeOK, FlagsOK
<1>2. pc' \in PcValues /\ held' \subseteq Fallible \cup {"power"}
  BY DEF LifeInv, HeldInv
<1>3. SUFFICES ControlTypeOK' /\ LoadingInv'
  BY <1>1, <1>2, FlagsStep DEF ControlInv, TypeOK, FlagsOK, PcValues, TimerInv, TimerTypeOK
<1> USE DEF Turn
<1>4. CASE InitMemory
  <2>1. /\ sizes' = SizesFor(28) /\ pc' \in {"chrdev", "unloaded"}
        /\ UNCHANGED << params, TOS_LOCAL_ADDRESS, is_ack_enable, chip, short_addr, rf >>
    BY <1>4 DEF InitMemory, chipVars
  <2> QED BY <1>1, <2>1, SizesDefault DEF ControlTypeOK, LoadingInv, LoadSteps, Written
<1>5. CASE InitPower
  <2>1. /\ params' = CC2420_set_parameters /\ chip' = ResetRegisters /\ short_addr' = << 0, 0 >>
        /\ TOS_LOCAL_ADDRESS' = DefaultAddr /\ rf' = "idle"
        /\ pc = "power" /\ pc' = "oscillator" /\ UNCHANGED << is_ack_enable, sizes >>
    BY <1>5 DEF InitPower
  <2>2. chip' \in [Registers -> U16]
    <3>1. 0 \in U16
      BY Fits
    <3> QED BY <2>1, <3>1 DEF ResetRegisters
  <2>3. short_addr' \in (0 .. 255) \X (0 .. 255)
    BY <2>1, ByteBounds DEF Byte
  <2>4. ControlTypeOK'
    BY <1>1, <2>1, <2>2, <2>3, Defaults, SettingsAssumption DEF ControlTypeOK, SettingsAssumption
  <2> QED BY <1>1, <2>1, <2>4 DEF LoadingInv, LoadSteps, Written
<1>6. CASE InitRegisters
  <2>1. /\ chip' = CC2420_set_regs /\ CC2420_set_short_addr(TOS_LOCAL_ADDRESS) /\ rf' = "rx"
        /\ is_ack_enable' = FALSE /\ pc = "registers" /\ pc' = "FIFOP"
        /\ UNCHANGED << params, TOS_LOCAL_ADDRESS, sizes >>
    BY <1>6 DEF InitRegisters
  <2>2. params = CC2420_set_parameters /\ TOS_LOCAL_ADDRESS = DefaultAddr /\ sizes = SizesFor(28)
    BY <1>1, <2>1 DEF LoadingInv, LoadSteps
  <2>3. /\ chip' \in [Registers -> U16]
        /\ \A r \in Registers \ {"BATTMON"} : chip'[r] = params'[r]
    BY <1>1, <2>1 DEF ControlTypeOK, CC2420_set_regs
  <2>4. short_addr' \in (0 .. 255) \X (0 .. 255) /\ (CutShort \/ short_addr' = ShortAddr(TOS_LOCAL_ADDRESS))
    BY <1>1, <2>1, AddressWrite DEF ControlTypeOK, Byte
  <2>5. ControlTypeOK'
    BY <1>1, <2>1, <2>3, <2>4 DEF ControlTypeOK
  <2>6. WordsInv'
    <3>1. CutShort \/ short_addr' = ShortAddr(TOS_LOCAL_ADDRESS)'
      BY <2>1, <2>4 DEF ShortAddr, MemoryBytes, toLSB16
    <3>2. params'.MDMCTRL0 = AckWord(is_ack_enable')
      BY <2>1, <2>2, Defaults DEF AckWord
    <3> QED BY <2>1, <2>2, <2>3, <3>1, <3>2, Defaults DEF WordsInv
  <2> QED BY <2>1, <2>2, <2>5, <2>6 DEF LoadingInv, LoadSteps, Written
<1>7. CASE Ioctl
  <2>1. tosmac_ioctl /\ pc = "loaded" /\ pc' = "loaded"
    BY <1>7 DEF Ioctl, LifeInv, IrqInv, Quiet, BehaviourDefined, lifeVars
  <2>2. WordsInv
    BY <1>1, <2>1 DEF LoadingInv
  <2> QED BY <1>1, <2>1, <2>2, IoctlWords DEF LoadingInv, LoadSteps, Written
<1>8. CASE InitChrdev \/ InitOscillator \/ InitCdev
  BY <1>1, <1>8, Keep DEF InitChrdev, InitOscillator, InitCdev, Step, Continues, LoadSteps
<1>9. CASE InitInterrupt("FIFOP", "SFD") \/ InitInterrupt("SFD", "OST") \/ InitInterrupt("OST", "cdev")
  BY <1>1, <1>9, Keep DEF InitInterrupt, Step, Continues, LoadSteps
<1>10. CASE Rmmod \/ FrameArrives \/ Interrupt \/ Tasklet \/ tosmac_open \/ tosmac_release
  BY <1>1, <1>10, Keep DEF Rmmod, FrameArrives, Interrupt, Tasklet, tosmac_open, tosmac_release, LoadSteps
<1>15. CASE tosmac_write \/ TimerTick \/ TimerInterrupt
  BY <1>1, <1>15, Keep DEF tosmac_write, TimerTick, TimerInterrupt, LoadSteps
<1>11. ASSUME NEW step, NEW next, next \notin LoadSteps \cup {"loaded"},
              ExitInterrupts(step, next) \/ ExitDevice(step, next)
       PROVE  ControlTypeOK' /\ LoadingInv'
  BY <1>1, <1>11, Keep DEF ExitInterrupts, ExitDevice, GiveBack, LoadSteps
<1>12. ASSUME NEW step, NEW next, next \notin LoadSteps \cup {"loaded"}, ExitRadio(step, next)
       PROVE  ControlTypeOK' /\ LoadingInv'
  <2>1. /\ UNCHANGED << params, TOS_LOCAL_ADDRESS, is_ack_enable, sizes, chip, short_addr >>
        /\ rf' = "off" /\ pc' \in {next, "undefined"}
    BY <1>12 DEF ExitRadio, GiveBack, settingVars
  <2> QED BY <1>1, <1>12, <2>1 DEF ControlTypeOK, LoadingInv, LoadSteps, Written
<1>13. CASE UNCHANGED vars
  BY <1>1, <1>13, Keep DEF vars, lifeVars
<1>14. {"radio_off", "device_off", "unloaded", "give_up_radio", "give_up_device", "failed"}
         \cap (LoadSteps \cup {"loaded"}) = {}
  BY DEF LoadSteps
<1> QED BY <1>4, <1>5, <1>6, <1>7, <1>8, <1>9, <1>10, <1>11, <1>12, <1>13, <1>14, <1>15 DEF Next

AllInv == LifeInv /\ TimerInv /\ ControlInv

LEMMA AllInit == Init => AllInv
  BY LifeInit, TimerStart, ControlInit DEF AllInv

LEMMA AllStep == AllInv /\ [Next]_vars => AllInv'
  BY LifeStep, TimerStep, ControlStep DEF AllInv

(* THEOREM: TypeOK holds of every driver. *)
THEOREM TypeCorrect == Spec => []TypeOK
<1>1. ControlInv => TypeOK
  BY DEF ControlInv
<1> QED BY <1>1, AllInit, AllStep, PTL DEF AllInv, Spec

(* THEOREM: while the driver is loaded, the chip holds the words of        *)
(* g_current_parameters, and no ioctl, with any argument, changes a bit of *)
(* them outside the field it sets (CC2420_tune_manual, CC2420_tune_preset, *)
(* CC2420_set_rf_power, CC2420_enable_ack, CC2420_disable_ack).            *)
THEOREM ChipConfiguredAlways == Spec => []ChipConfigured
<1>1. ControlInv => ChipConfigured
  <2> SUFFICES ASSUME ControlInv, pc = "loaded" PROVE ChipConfigured
    BY DEF ChipConfigured
  <2>1. WordsInv /\ is_ack_enable \in BOOLEAN
    BY DEF ControlInv, LoadingInv, TypeOK, ControlTypeOK
  <2>2. \A r \in Registers \ Settable : params[r] = CC2420_set_parameters[r]
    BY <2>1 DEF WordsInv
  <2>3. params.FSCTRL \div 1024 = 16 /\ CC2420_set_parameters.FSCTRL \div 1024 = 16
    BY <2>1, Defaults DEF WordsInv
  <2>4. params.TXCTRL \div 32 = 775 /\ CC2420_set_parameters.TXCTRL \div 32 = 775
    BY <2>1, Defaults DEF WordsInv
  <2>5. SettingBits("FSCTRL") = 1024 /\ SettingBits("TXCTRL") = 32
    BY DEF SettingBits
  <2>6. params.MDMCTRL0 \in {CC2420_set_parameters.MDMCTRL0, CC2420_set_parameters.MDMCTRL0 + AckBits}
    BY <2>1, Defaults DEF WordsInv, AckWord
  <2>7. \A r \in Registers \ {"MDMCTRL0"} :
          params[r] \div SettingBits(r) = CC2420_set_parameters[r] \div SettingBits(r)
    BY <2>2, <2>3, <2>4, <2>5 DEF Settable
  <2> QED BY <2>1, <2>6, <2>7 DEF ChipConfigured, WordsInv
<1> QED BY <1>1, AllInit, AllStep, PTL DEF AllInv, Spec
-----------------------------------------------------------------------------
(* What RadioSettings calls the settings, in terms of the words kept.      *)
ChipFreq == (chip.FSCTRL % 1024) + 2048
ChipPower == chip.TXCTRL % 32
ChipAck == << is_ack_enable, BitSet(chip.MDMCTRL0, Bit.MDMCTRL0_ADRDECODE),
              BitSet(chip.MDMCTRL0, Bit.MDMCTRL0_AUTOACK) >>
ChipAddr == short_addr[1] + 256 * short_addr[2]

ValuesInv == /\ ChipFreq = params.FSCTRL - 14336
             /\ params.FSCTRL % 512 = params.FSCTRL - 16384
             /\ ChipPower = params.TXCTRL - 24800 /\ params.TXCTRL % 32 = params.TXCTRL - 24800
             /\ ChipAck = << is_ack_enable, is_ack_enable, is_ack_enable >>
             /\ CutShort \/ ChipAddr = TOS_LOCAL_ADDRESS

LEMMA SettingValues == ControlTypeOK /\ WordsInv => ValuesInv
<1> SUFFICES ASSUME ControlTypeOK, WordsInv PROVE ValuesInv
  OBVIOUS
<1>1. chip.FSCTRL = params.FSCTRL /\ chip.TXCTRL = params.TXCTRL /\ chip.MDMCTRL0 = params.MDMCTRL0
  BY Defaults DEF WordsInv
<1>2. params.FSCTRL \in 16741 .. 16816 /\ params.TXCTRL \in 24803 .. 24831
  BY DEF WordsInv
<1>3. params.FSCTRL % 512 = params.FSCTRL - 16384 /\ params.FSCTRL % 1024 = params.FSCTRL - 16384
  BY <1>2
<1>4. params.TXCTRL % 32 = params.TXCTRL - 24800
  BY <1>2
<1>5. CutShort \/ ChipAddr = TOS_LOCAL_ADDRESS
  BY AddressBytes DEF ChipAddr, WordsInv, ControlTypeOK
<1>6. ChipAck = << is_ack_enable, is_ack_enable, is_ack_enable >>
  <2>1. Bit.MDMCTRL0_ADRDECODE = 2048 /\ Bit.MDMCTRL0_AUTOACK = 16
    BY DEF Bit
  <2>2. chip.MDMCTRL0 = AckWord(is_ack_enable) /\ is_ack_enable \in BOOLEAN
    BY <1>1 DEF WordsInv, ControlTypeOK
  <2> QED BY <2>1, <2>2, AckBitsSet DEF ChipAck
<1>7. ChipFreq = params.FSCTRL - 14336
  BY <1>1, <1>2, <1>3 DEF ChipFreq
<1>8. ChipPower = params.TXCTRL - 24800
  BY <1>1, <1>4 DEF ChipPower
<1> QED BY <1>3, <1>4, <1>5, <1>6, <1>7, <1>8 DEF ValuesInv

(* A step of the driver maps to a step of RadioSettings or to a stutter.   *)
LEMMA SettingsInit == Init => Settings!Init
  BY DEF Init, Settings!Init, Settings!Down, Up, WhenUp

LEMMA StaysDown ==
  ASSUME pc # "loaded", pc' # "loaded", reply' = reply
  PROVE  UNCHANGED Settings!vars
  BY DEF Settings!vars, Up, WhenUp

LEMMA StaysAsIs ==
  ASSUME pc' = pc, UNCHANGED << chip, short_addr, is_ack_enable, sizes, reply >>
  PROVE  UNCHANGED Settings!vars
  BY DEF Settings!vars, Up, WhenUp, BitSet

LEMMA SettingsIoctl ==
  ASSUME ~CutShort, ControlTypeOK, WordsInv, ControlTypeOK', WordsInv', pc = "loaded", pc' = "loaded", tosmac_ioctl
  PROVE  Settings!Next
<1> DEFINE NotUser == {arg \in Arguments : ~access_ok(arg)}
<1>1. ValuesInv
  BY SettingValues
<1>2. (ControlTypeOK /\ WordsInv => ValuesInv)'
  BY SettingValues, PTL
<1>3. ValuesInv'
  BY <1>2
<1>4. ASSUME NEW f \in Freqs, IOSETFREQ(f) PROVE Settings!SetFreq(f)
  <2>1. f \in Int
    BY SettingsAssumption, S32Bounds DEF SettingsAssumption
  <2>2. Limit(f, 2405, 2480) - 2048 \in 357 .. 432
    BY <2>1, FreqRange
  <2>3. /\ tune(Limit(f, 2405, 2480) - 2048)
        /\ reply' = << "done" >> /\ UNCHANGED << short_addr, TOS_LOCAL_ADDRESS, is_ack_enable, sizes >>
    BY <1>4 DEF IOSETFREQ, Done
  <2>4. params'.FSCTRL = 16384 + (Limit(f, 2405, 2480) - 2048)
    BY <2>2, <2>3, TuneWords
  <2>5. Limit(f, 2405, 2480) \in Int
    BY <2>1 DEF Limit
  <2>6. ChipFreq' = Limit(f, 2405, 2480)
    BY <1>3, <2>4, <2>5 DEF ValuesInv
  <2>7. chip'.TXCTRL = chip.TXCTRL /\ chip'.MDMCTRL0 = chip.MDMCTRL0
    BY <2>3 DEF tune, write_reg, ControlTypeOK
  <2> QED BY <2>3, <2>6, <2>7 DEF Settings!SetFreq, Settings!Done, Up, WhenUp, ChipFreq, Settings!Clamp, Limit, BitSet
<1>5. ASSUME NEW c \in Channels, IOSETCHAN(c) PROVE Settings!SetChannel(c)
  <2> DEFINE n == Limit(c, 11, 26)
  <2>1. c \in Int
    BY SettingsAssumption, S32Bounds DEF SettingsAssumption
  <2>2. n \in Int /\ 357 + 5 * (n - 11) \in 357 .. 432
    BY <2>1, ChannelRange DEF Limit
  <2>3. /\ tune(357 + 5 * (n - 11))
        /\ reply' = << "done" >> /\ UNCHANGED << short_addr, TOS_LOCAL_ADDRESS, is_ack_enable, sizes >>
    BY <1>5 DEF IOSETCHAN, Done
  <2> HIDE DEF n
  <2>4. params'.FSCTRL = 16384 + (357 + 5 * (n - 11))
    BY <2>2, <2>3, TuneWords
  <2>5. ChipFreq' = 2405 + 5 * (n - 11)
    BY <1>3, <2>2, <2>4 DEF ValuesInv
  <2>6. chip'.TXCTRL = chip.TXCTRL /\ chip'.MDMCTRL0 = chip.MDMCTRL0
    BY <2>3 DEF tune, write_reg, ControlTypeOK
  <2>7. n = Settings!Clamp(c, 11, 26)
    BY DEF n, Limit, Settings!Clamp
  <2> QED BY <2>3, <2>5, <2>6, <2>7 DEF Settings!SetChannel, Settings!Done, Up, WhenUp, ChipFreq, BitSet
<1>6. ASSUME NEW p \in Powers, IOSETPOWER(p) PROVE Settings!SetPower(p)
  <2>1. p \in Int
    BY SettingsAssumption, S32Bounds DEF SettingsAssumption
  <2>2. params'.TXCTRL = 24800 + Limit(p, 3, 31) /\ Limit(p, 3, 31) \in Int
    BY <1>6, <2>1, PowerWords DEF Limit
  <2>3. ChipPower' = Limit(p, 3, 31)
    BY <1>3, <2>2 DEF ValuesInv
  <2>4. chip'.FSCTRL = chip.FSCTRL /\ chip'.MDMCTRL0 = chip.MDMCTRL0
    BY <1>6 DEF IOSETPOWER, write_reg, ControlTypeOK
  <2>5. reply' = << "done" >> /\ UNCHANGED << short_addr, TOS_LOCAL_ADDRESS, is_ack_enable, sizes >>
    BY <1>6 DEF IOSETPOWER, Done
  <2> QED BY <2>3, <2>4, <2>5 DEF Settings!SetPower, Settings!Done, Up, WhenUp, ChipPower, Settings!Clamp, Limit, BitSet
<1>7. ASSUME NEW on \in BOOLEAN, IOAUTOACK(on) PROVE Settings!SetAck(on)
  <2>1. is_ack_enable' = on /\ reply' = << "done" >> /\ UNCHANGED << short_addr, TOS_LOCAL_ADDRESS, sizes, rf >>
    BY <1>7 DEF IOAUTOACK, Done
  <2>2. ChipAck' = << on, on, on >>
    BY <1>3, <2>1 DEF ValuesInv
  <2>3. chip'.FSCTRL = chip.FSCTRL /\ chip'.TXCTRL = chip.TXCTRL
    BY <1>7 DEF IOAUTOACK, write_reg, ControlTypeOK
  <2> QED BY <2>1, <2>2, <2>3 DEF Settings!SetAck, Settings!Done, Up, WhenUp, ChipAck
<1>8. ASSUME NEW a \in Addrs, IOSETADDR(a) PROVE Settings!SetAddr(a)
  <2>1. ChipAddr' = a % 65536
    BY <1>3, <1>8 DEF IOSETADDR, ValuesInv
  <2> QED BY <1>8, <2>1 DEF IOSETADDR, Done, Settings!SetAddr, Settings!Done, Up, WhenUp, ChipAddr, BitSet
<1>9. ASSUME NEW n \in Sizes, IOSETMAXDATASIZE(n) PROVE Settings!SetSize(n)
  <2>1. sizes'.TOSH_DATA_LENGTH = n
    BY <1>9 DEF IOSETMAXDATASIZE, SizesFor
  <2> QED BY <1>9, <2>1 DEF IOSETMAXDATASIZE, Done, Settings!SetSize, Settings!Done, Up, WhenUp, BitSet
<1>10. CASE IOGET
  <2>1. params.FSCTRL \in 16741 .. 16816
    BY DEF WordsInv
  <2>2. /\ (params.FSCTRL % 512) + 2048 = ChipFreq
        /\ ((params.FSCTRL % 512) - 357) \div 5 + 11 = Settings!Channel(ChipFreq)
        /\ params.TXCTRL % 32 = ChipPower /\ TOS_LOCAL_ADDRESS = ChipAddr
    BY <1>1, <2>1 DEF ValuesInv, Settings!Channel
  <2>3. reply' \in { << "freq", ChipFreq >>, << "channel", Settings!Channel(ChipFreq) >>,
                     << "power", ChipPower >>, << "addr", ChipAddr >>, << "size", sizes.TOSH_DATA_LENGTH >> }
    BY <1>10, <2>2 DEF IOGET
  <2>4. UNCHANGED << params, chip, short_addr, TOS_LOCAL_ADDRESS, is_ack_enable, sizes, rf >>
    BY <1>10 DEF IOGET
  <2>5. Settings!Ask
    BY <2>3, <2>4 DEF Settings!Ask, Up, WhenUp, ChipFreq, ChipPower, ChipAddr, BitSet
  <2> QED BY <2>5 DEF Settings!Next
<1>11. CASE RefuseIoctl
  <2>1. reply' = << "EFAULT" >> => NotUser # {}
    BY <1>11 DEF RefuseIoctl
  <2>2. /\ reply' \in { << "EFAULT" >>, << "ENOTTY" >> }
        /\ UNCHANGED << params, chip, short_addr, TOS_LOCAL_ADDRESS, is_ack_enable, sizes, rf >>
    BY <1>11 DEF RefuseIoctl
  <2>3. Settings!Refuse
    BY <2>1, <2>2 DEF Settings!Refuse, Up, WhenUp, BitSet
  <2> QED BY <2>3 DEF Settings!Next
<1>12. /\ \A f \in Freqs : IOSETFREQ(f) => f \notin NotUser
       /\ \A c \in Channels : IOSETCHAN(c) => c \notin NotUser
       /\ \A p \in Powers : IOSETPOWER(p) => p \notin NotUser
       /\ \A a \in Addrs : IOSETADDR(a) => a \notin NotUser
       /\ \A n \in Sizes : IOSETMAXDATASIZE(n) => n \notin NotUser
  BY DEF IOSETFREQ, IOSETCHAN, IOSETPOWER, IOSETADDR, IOSETMAXDATASIZE
<1> QED BY <1>4, <1>5, <1>6, <1>7, <1>8, <1>9, <1>10, <1>11, <1>12 DEF tosmac_ioctl, Settings!Next

LEMMA SettingsStep ==
  ASSUME ~CutShort, LifeInv, LifeInv', ControlInv, ControlInv', [Next]_vars
  PROVE  [Settings!Next]_(Settings!vars)
<1> USE DEF Turn
<1>1. ControlTypeOK /\ ControlTypeOK' /\ LoadingInv /\ LoadingInv'
  BY DEF ControlInv, TypeOK
<1>2. CASE InitCdev
  <2>1. UNCHANGED << controlVars, reply >> /\ pc = "cdev" /\ pc' \in {"loaded", "give_up"}
    BY <1>2 DEF InitCdev, Step, controlVars
  <2>2. CASE pc' = "give_up"
    BY <2>1, <2>2, StaysDown
  <2>3. CASE pc' = "loaded"
    <3>1. /\ WordsInv /\ params = CC2420_set_parameters /\ TOS_LOCAL_ADDRESS = DefaultAddr
          /\ ~is_ack_enable /\ sizes = SizesFor(28)
      BY <1>1, <2>1 DEF LoadingInv, LoadSteps, Written
    <3>2. ValuesInv
      BY <1>1, <3>1, SettingValues
    <3>3. ChipFreq = 2405 /\ ChipPower = 31 /\ ChipAddr = DefaultAddr
      BY <3>1, <3>2, Defaults DEF ValuesInv
    <3>4. is_ack_enable = FALSE
      BY <1>1, <3>1 DEF ControlTypeOK
    <3>5. ChipAck = << FALSE, FALSE, FALSE >>
      <4>1. \A on \in BOOLEAN : ~on => << on, on, on >> = << FALSE, FALSE, FALSE >>
        OBVIOUS
      <4>2. ChipAck = << is_ack_enable, is_ack_enable, is_ack_enable >>
        BY <3>2 DEF ValuesInv
      <4> QED BY <1>1, <3>1, <4>1, <4>2 DEF ControlTypeOK
    <3>6. sizes.TOSH_DATA_LENGTH = 28
      BY <3>1 DEF SizesFor
    <3>7. UNCHANGED << ChipFreq, ChipPower, ChipAck, ChipAddr, sizes >>
      BY <2>1 DEF controlVars, ChipFreq, ChipPower, ChipAck, ChipAddr, BitSet
    <3>8. Settings!Load
      BY <2>1, <2>3, <3>3, <3>5, <3>6, <3>7
         DEF Settings!Load, Up, WhenUp, ChipFreq, ChipPower, ChipAck, ChipAddr
    <3> QED BY <3>8 DEF Settings!Next
  <2> QED BY <2>1, <2>2, <2>3
<1>3. CASE Rmmod
  <2>1. pc = "loaded" /\ pc' = "unload" /\ reply' = reply
    BY <1>3 DEF Rmmod, controlVars
  <2>2. Settings!Unload
    BY <2>1 DEF Settings!Unload, Settings!Down, Up, WhenUp
  <2> QED BY <2>2 DEF Settings!Next
<1>4. CASE Ioctl
  <2>1. tosmac_ioctl /\ pc = "loaded" /\ pc' = "loaded"
    BY <1>4 DEF Ioctl, LifeInv, IrqInv, Quiet, BehaviourDefined, lifeVars
  <2>2. WordsInv /\ WordsInv'
    BY <1>1, <2>1 DEF LoadingInv
  <2> QED BY <1>1, <2>1, <2>2, SettingsIoctl
<1>5. CASE InitMemory
  BY <1>5, StaysDown DEF InitMemory
<1>6. CASE InitChrdev \/ InitOscillator
  BY <1>6, StaysDown DEF InitChrdev, InitOscillator, Step, controlVars
<1>7. CASE InitPower \/ InitRegisters
  BY <1>7, StaysDown DEF InitPower, InitRegisters
<1>8. CASE InitInterrupt("FIFOP", "SFD") \/ InitInterrupt("SFD", "OST") \/ InitInterrupt("OST", "cdev")
  BY <1>8, StaysDown DEF InitInterrupt, Step, controlVars
<1>9. CASE ExitInterrupts("unload", "radio_off") \/ ExitInterrupts("give_up", "give_up_radio")
  BY <1>9, StaysDown DEF ExitInterrupts, GiveBack, controlVars
<1>10. CASE ExitRadio("radio_off", "device_off") \/ ExitRadio("give_up_radio", "give_up_device")
  BY <1>10, StaysDown DEF ExitRadio, GiveBack, settingVars
<1>11. CASE ExitDevice("device_off", "unloaded") \/ ExitDevice("give_up_device", "failed")
  BY <1>11, StaysDown DEF ExitDevice, GiveBack, controlVars
<1>12. CASE FrameArrives \/ Interrupt \/ Tasklet \/ tosmac_open \/ tosmac_release \/ tosmac_write \/ TimerTick
  BY <1>12, StaysAsIs DEF FrameArrives, Interrupt, Tasklet, tosmac_open, tosmac_release, tosmac_write, TimerTick,
     controlVars
<1>14. CASE TimerInterrupt
  <2>1. UNCHANGED controlVars /\ pc' \in {pc, "undefined"}
    BY <1>14 DEF TimerInterrupt
  <2>2. CASE pc' = pc
    BY <2>1, <2>2, StaysAsIs DEF controlVars
  <2>3. CASE pc' = "undefined" /\ pc # "loaded"
    BY <2>1, <2>3, StaysDown DEF controlVars
  <2>4. CASE pc' = "undefined" /\ pc = "loaded"
    <3>1. Settings!Unload
      BY <2>1, <2>4 DEF Settings!Unload, Settings!Down, Up, WhenUp, controlVars
    <3> QED BY <3>1 DEF Settings!Next
  <2> QED BY <2>1, <2>2, <2>3, <2>4
<1>13. CASE UNCHANGED vars
  BY <1>13, StaysAsIs DEF vars, lifeVars, controlVars
<1> QED BY <1>2, <1>3, <1>4, <1>5, <1>6, <1>7, <1>8, <1>9, <1>10, <1>11, <1>12, <1>13, <1>14 DEF Next

(* THEOREM: the settings in the registers of the chip implement            *)
(* RadioSettings, as long as every write of the short address reaches the  *)
(* chip whole: what a program sets last is what the radio uses and what it *)
(* is told, whatever 32-bit argument it gives, the refused ones, the       *)
(* truncated ones and the negative ones included, whatever the byte order  *)
(* of the processor (tosmac_ioctl, tosmac_init).                           *)
THEOREM SettingsImplemented == ~CutShort => (Spec => ImplementsSettings)
<1> SUFFICES ASSUME ~CutShort PROVE Spec => ImplementsSettings
  OBVIOUS
<1>1. AllInv /\ AllInv' /\ [Next]_vars => [Settings!Next]_(Settings!vars)
  BY SettingsStep DEF AllInv
<1> QED BY <1>1, AllInit, AllStep, SettingsInit, PTL DEF Spec, ImplementsSettings, Settings!Spec
=============================================================================
