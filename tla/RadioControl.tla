---------------------------- MODULE RadioControl ----------------------------
(***************************************************************************)
(* The settings of the radio: the register words that CC2420.c keeps in    *)
(* g_current_parameters, the registers of the chip, and the ioctls of      *)
(* TOSMac.c that change them.  The ioctls run one at a time (the kernel    *)
(* holds its big lock around ioctl), so each is one action.                *)
(***************************************************************************)
EXTENDS Integers

CONSTANTS DefaultAddr,                            \* module parameter local_addr
          HostIsLsb,                              \* is_host_lsb() of byteorder.c
          Freqs, Channels, Powers, Addrs, Sizes,  \* arguments of the ioctls
          TASK_SIZE,                              \* of the kernel: user addresses end here
          CutShort                                \* CC2420_write_RAM may deselect too early

U16 == 0 .. 65535

(* The argument is an unsigned long of 32 bits.  It is kept here as the    *)
(* int that tosmac_ioctl makes of it, TASK_SIZE as well.                   *)
MaxInt == 2147483647
MinInt == -MaxInt - 1
S32 == MinInt .. MaxInt

ASSUME SettingsAssumption ==
  /\ DefaultAddr \in U16
  /\ HostIsLsb \in BOOLEAN /\ CutShort \in BOOLEAN
  /\ TASK_SIZE \in -MaxInt .. -1
  /\ Freqs \subseteq S32 /\ Channels \subseteq S32 /\ Powers \subseteq S32
  /\ Addrs \subseteq S32 /\ Sizes \subseteq S32

VARIABLES params,      \* g_current_parameters
          chip,        \* the registers of the CC2420
          short_addr,  \* its RAM at CC2420_RAM_SHORTADR: two bytes
          TOS_LOCAL_ADDRESS, is_ack_enable,
          sizes,       \* TOSH_DATA_LENGTH and the sizes that follow from it
          rf,          \* the radio: "off", "idle" or "rx"
          reply        \* what the last ioctl returned

controlVars == << params, chip, short_addr, TOS_LOCAL_ADDRESS, is_ack_enable, sizes, rf, reply >>
-----------------------------------------------------------------------------
(* 1 << the bit position of a register field. *)
Bit == [MDMCTRL0_ADRDECODE |-> 2048, MDMCTRL0_CCAHIST |-> 256, MDMCTRL0_CCAMODE |-> 64,
        MDMCTRL0_AUTOCRC |-> 32, MDMCTRL0_AUTOACK |-> 16, MDMCTRL0_PREAMBL |-> 1,
        MDMCTRL1_CORRTHRESH |-> 64,
        TXCTRL_BUFCUR |-> 16384, TXCTRL_TURNARND |-> 8192, TXCTRL_PACUR |-> 64,
        TXCTRL_PADIFF |-> 32, TXCTRL_PAPWR |-> 1,
        RXCTRL0_BUFCUR |-> 4096, RXCTRL0_MLNAG |-> 256, RXCTRL0_LOLNAG |-> 64,
        RXCTRL0_HICUR |-> 16, RXCTRL0_MCUR |-> 4, RXCTRL0_LOCUR |-> 1,
        RXCTRL1_LOLOGAIN |-> 2048, RXCTRL1_HIHGM |-> 512, RXCTRL1_LNACAP |-> 64,
        RXCTRL1_RMIXT |-> 16, RXCTRL1_RMIXV |-> 4, RXCTRL1_RMIXCUR |-> 1,
        FSCTRL_LOCK |-> 16384, FSCTRL_FREQ |-> 1,
        SECCTRL0_CBCHEAD |-> 256, SECCTRL0_SAKEYSEL |-> 128, SECCTRL0_TXKEYSEL |-> 64,
        SECCTRL0_SECM |-> 4,
        IOCFG0_FIFOTHR |-> 1, IOCFG0_FIFOPPOL |-> 512]

CC2420_DEF_CHANNEL == 11
CC2420_DEF_RFPOWER == 31

CC2420_set_parameters ==
  [MAIN     |-> 63488,
   MDMCTRL0 |-> 2 * Bit.MDMCTRL0_CCAHIST + 3 * Bit.MDMCTRL0_CCAMODE
                + Bit.MDMCTRL0_AUTOCRC + 2 * Bit.MDMCTRL0_PREAMBL,
   MDMCTRL1 |-> 20 * Bit.MDMCTRL1_CORRTHRESH,
   RSSI     |-> 57472,
   SYNCWORD |-> 42767,
   TXCTRL   |-> Bit.TXCTRL_BUFCUR + Bit.TXCTRL_TURNARND + 3 * Bit.TXCTRL_PACUR
                + Bit.TXCTRL_PADIFF + CC2420_DEF_RFPOWER * Bit.TXCTRL_PAPWR,
   RXCTRL0  |-> Bit.RXCTRL0_BUFCUR + 2 * Bit.RXCTRL0_MLNAG + 3 * Bit.RXCTRL0_LOLNAG
                + 2 * Bit.RXCTRL0_HICUR + Bit.RXCTRL0_MCUR + Bit.RXCTRL0_LOCUR,
   RXCTRL1  |-> Bit.RXCTRL1_LOLOGAIN + Bit.RXCTRL1_HIHGM + Bit.RXCTRL1_LNACAP
                + Bit.RXCTRL1_RMIXT + Bit.RXCTRL1_RMIXV + 2 * Bit.RXCTRL1_RMIXCUR,
   FSCTRL   |-> Bit.FSCTRL_LOCK + (357 + 5 * (CC2420_DEF_CHANNEL - 11)) * Bit.FSCTRL_FREQ,
   SECCTRL0 |-> Bit.SECCTRL0_CBCHEAD + Bit.SECCTRL0_SAKEYSEL + Bit.SECCTRL0_TXKEYSEL
                + Bit.SECCTRL0_SECM,
   SECCTRL1 |-> 0,
   BATTMON  |-> 0,
   IOCFG0   |-> 127 * Bit.IOCFG0_FIFOTHR + Bit.IOCFG0_FIFOPPOL,
   IOCFG1   |-> 0]

Registers == DOMAIN CC2420_set_parameters

(* The chip after a reset: its own values, none of which the code relies on. *)
ResetRegisters == [r \in Registers |-> 0]

(* CC2420_set_regs writes every word but BATTMON.  It reads MDMCTRL0 back  *)
(* and does not look at it.                                                *)
CC2420_set_regs == [r \in Registers |-> IF r = "BATTMON" THEN chip[r] ELSE params[r]]

write_reg(r, word) == /\ params' = [params EXCEPT ![r] = word]
                      /\ chip' = [chip EXCEPT ![r] = word]

(* toLSB16, and the two bytes that a 16-bit word has in memory. *)
toLSB16(a) == IF HostIsLsb THEN a ELSE (a % 256) * 256 + a \div 256
MemoryBytes(a) == IF HostIsLsb THEN << a % 256, a \div 256 >> ELSE << a \div 256, a % 256 >>

ShortAddr(a) == MemoryBytes(toLSB16(a))

(* CC2420_set_short_addr.  A write that is cut short gets no byte, or the  *)
(* first one, into the RAM (SpiPort has the transaction).                  *)
CC2420_set_short_addr(a) ==
  short_addr' \in {ShortAddr(a)} \cup
    IF CutShort THEN {short_addr, << ShortAddr(a)[1], short_addr[2] >>} ELSE {}

limit_below(n, low, high) == IF n < low THEN low ELSE n   \* seeded fault
Limit(n, low, high) == IF n < low THEN low ELSE IF n > high THEN high ELSE n

(* access_ok of the kernel, for two bytes: the argument of an ioctl that   *)
(* sets something must look like a user address, though none is read.      *)
access_ok(arg) == arg >= 0 \/ arg + 2 =< TASK_SIZE

Arguments == Freqs \cup Channels \cup Powers \cup Addrs \cup Sizes
-----------------------------------------------------------------------------
tune_unmasked(fsctrl) == write_reg("FSCTRL", fsctrl * Bit.FSCTRL_FREQ) /\ rf' = "rx"   \* seeded fault
(* CC2420_tune_manual and CC2420_tune_preset: & 0xfc00, then the new       *)
(* frequency, then SRXON, as the oscillator is running.                    *)
tune(fsctrl) ==
  /\ write_reg("FSCTRL", (params.FSCTRL \div 1024) * 1024 + fsctrl * Bit.FSCTRL_FREQ)
  /\ rf' = "rx"

Done == reply' = << "done" >>

IOSETFREQ(freq) ==
  /\ access_ok(freq)
  /\ tune(Limit(freq, 2405, 2480) - 2048)
  /\ Done
  /\ UNCHANGED << short_addr, TOS_LOCAL_ADDRESS, is_ack_enable, sizes >>

IOSETCHAN(channel) ==
  /\ access_ok(channel)
  /\ tune(357 + 5 * (Limit(channel, 11, 26) - 11))
  /\ Done
  /\ UNCHANGED << short_addr, TOS_LOCAL_ADDRESS, is_ack_enable, sizes >>

(* CC2420_set_rf_power: & ~0x1F, then the new power. *)
IOSETPOWER(power) ==
  /\ access_ok(power)
  /\ write_reg("TXCTRL", (params.TXCTRL \div 32) * 32 + Limit(power, 3, 31) * Bit.TXCTRL_PAPWR)
  /\ Done
  /\ UNCHANGED << short_addr, TOS_LOCAL_ADDRESS, is_ack_enable, sizes, rf >>

BitSet(word, bit) == (word \div bit) % 2 = 1
WithBit(word, bit, on) ==
  IF BitSet(word, bit) <=> on THEN word ELSE IF on THEN word + bit ELSE word - bit

ack_bit_only(on) ==   \* seeded fault: address decoding is left as it was
  /\ is_ack_enable' = on
  /\ write_reg("MDMCTRL0", WithBit(params.MDMCTRL0, Bit.MDMCTRL0_AUTOACK, on))
  /\ Done
  /\ UNCHANGED << short_addr, TOS_LOCAL_ADDRESS, sizes, rf >>

(* CC2420_enable_ack, CC2420_disable_ack: address decoding, then automatic *)
(* acknowledgement.  These commands have no argument to check.             *)
IOAUTOACK(on) ==
  /\ is_ack_enable' = on
  /\ write_reg("MDMCTRL0", WithBit(WithBit(params.MDMCTRL0, Bit.MDMCTRL0_ADRDECODE, on),
                                   Bit.MDMCTRL0_AUTOACK, on))
  /\ Done
  /\ UNCHANGED << short_addr, TOS_LOCAL_ADDRESS, sizes, rf >>

(* TOS_LOCAL_ADDRESS is a u16: the argument is truncated. *)
IOSETADDR(arg) ==
  /\ access_ok(arg)
  /\ TOS_LOCAL_ADDRESS' = arg % 65536
  /\ CC2420_set_short_addr(arg % 65536)
  /\ Done
  /\ UNCHANGED << params, chip, is_ack_enable, sizes, rf >>

(* n + k in 32 bits, for a small k. *)
Plus32(n, k) == IF n =< MaxInt - k THEN n + k ELSE (n - MaxInt) + (k - 1) + MinInt

SizesFor(n) == [TOSH_DATA_LENGTH |-> n, MSG_DATA_SIZE |-> Plus32(n, 12),
                MSG_HEADER_DATA_SIZE |-> Plus32(n, 10), TOSMSG_SIZE |-> Plus32(n, 16)]

(* Any size that looks like a user address is taken, negative ones too. *)
IOSETMAXDATASIZE(n) ==
  /\ access_ok(n)
  /\ sizes' = SizesFor(n)
  /\ Done
  /\ UNCHANGED << params, chip, short_addr, TOS_LOCAL_ADDRESS, is_ack_enable, rf >>

(* CC2420_get_frequency, get_preset and get_rf_power look at the words     *)
(* kept; the mask of the frequency is 0x1FF.                               *)
IOGET ==
  /\ LET fsctrl == params.FSCTRL % 512
     IN reply' \in { << "freq", fsctrl + 2048 >>, << "channel", (fsctrl - 357) \div 5 + 11 >>,
                     << "power", params.TXCTRL % 32 >>, << "addr", TOS_LOCAL_ADDRESS >>,
                     << "size", sizes.TOSH_DATA_LENGTH >> }
  /\ UNCHANGED << params, chip, short_addr, TOS_LOCAL_ADDRESS, is_ack_enable, sizes, rf >>

(* An argument that is no user address, and a command that is none.        *)
RefuseIoctl ==
  /\ \/ (\E arg \in Arguments : ~access_ok(arg)) /\ reply' = << "EFAULT" >>
     \/ reply' = << "ENOTTY" >>
  /\ UNCHANGED << params, chip, short_addr, TOS_LOCAL_ADDRESS, is_ack_enable, sizes, rf >>

tosmac_ioctl == \/ \E f \in Freqs : IOSETFREQ(f)
                \/ \E c \in Channels : IOSETCHAN(c)
                \/ \E p \in Powers : IOSETPOWER(p)
                \/ \E on \in BOOLEAN : IOAUTOACK(on)
                \/ \E a \in Addrs : IOSETADDR(a)
                \/ \E n \in Sizes : IOSETMAXDATASIZE(n)
                \/ IOGET \/ RefuseIoctl

ControlTypeOK == /\ params \in [Registers -> U16] /\ chip \in [Registers -> U16]
                 /\ short_addr \in (0 .. 255) \X (0 .. 255)
                 /\ TOS_LOCAL_ADDRESS \in U16 /\ is_ack_enable \in BOOLEAN
                 /\ sizes \in [{"TOSH_DATA_LENGTH", "MSG_DATA_SIZE", "MSG_HEADER_DATA_SIZE",
                                "TOSMSG_SIZE"} -> S32]
                 /\ rf \in {"off", "idle", "rx"}
=============================================================================
