--------------------------- MODULE RadioSettings ---------------------------
(***************************************************************************)
(* What the settings of /dev/tosmac promise a program: what was set last,  *)
(* brought into the range the radio can do, is what the radio uses and     *)
(* what a program is told; what is refused changes nothing; loading the    *)
(* driver sets everything back.                                            *)
(***************************************************************************)
EXTENDS Integers

CONSTANTS DefaultAddr,                            \* parameter local_addr of the module
          Freqs, Channels, Powers, Addrs, Sizes,  \* arguments of the ioctls
          Refused                                 \* those that are no user addresses

VARIABLES up,                              \* the device is there
          freq, power, ack, addr, size,    \* ack: <<MAC, address decoding, automatic ACK>>
          reply                            \* what the last ioctl returned

vars == << up, freq, power, ack, addr, size, reply >>

Clamp(n, low, high) == IF n < low THEN low ELSE IF n > high THEN high ELSE n
Channel(f) == 11 + (f - 2405) \div 5

Down == up = FALSE /\ freq = 0 /\ power = 0 /\ ack = << >> /\ addr = 0 /\ size = 0
Init == Down /\ reply = << >>

Load == /\ ~up
        /\ up' = TRUE /\ freq' = 2405 /\ power' = 31 /\ ack' = << FALSE, FALSE, FALSE >>
        /\ addr' = DefaultAddr /\ size' = 28
        /\ UNCHANGED reply

Unload == up /\ Down' /\ UNCHANGED reply

Done == up /\ reply' = << "done" >>

SetFreq(f) == /\ Done /\ freq' = Clamp(f, 2405, 2480)
              /\ UNCHANGED << up, power, ack, addr, size >>

SetChannel(c) == /\ Done /\ freq' = 2405 + 5 * (Clamp(c, 11, 26) - 11)
                 /\ UNCHANGED << up, power, ack, addr, size >>

SetPower(p) == /\ Done /\ power' = Clamp(p, 3, 31)
               /\ UNCHANGED << up, freq, ack, addr, size >>

SetAck(on) == /\ Done /\ ack' = << on, on, on >>
              /\ UNCHANGED << up, freq, power, addr, size >>

(* An address has 16 bits. *)
SetAddr(a) == /\ Done /\ addr' = a % 65536
              /\ UNCHANGED << up, freq, power, ack, size >>

SetSize(n) == /\ Done /\ size' = n
              /\ UNCHANGED << up, freq, power, ack, addr >>

Refuse == /\ up
          /\ \/ Refused # {} /\ reply' = << "EFAULT" >>
             \/ reply' = << "ENOTTY" >>
          /\ UNCHANGED << up, freq, power, ack, addr, size >>

Ask == /\ up
       /\ reply' \in { << "freq", freq >>, << "channel", Channel(freq) >>,
                       << "power", power >>, << "addr", addr >>, << "size", size >> }
       /\ UNCHANGED << up, freq, power, ack, addr, size >>

Next == \/ Load \/ Unload \/ Ask \/ Refuse
        \/ \E f \in Freqs \ Refused : SetFreq(f)
        \/ \E c \in Channels \ Refused : SetChannel(c)
        \/ \E p \in Powers \ Refused : SetPower(p)
        \/ \E on \in BOOLEAN : SetAck(on)
        \/ \E a \in Addrs \ Refused : SetAddr(a)
        \/ \E n \in Sizes \ Refused : SetSize(n)

Spec == Init /\ [][Next]_vars
=============================================================================
