# Verification of the TOSMac driver and the image transfer

TLA+ models, TLC runs and TLAPS proofs about the code under `src/`: the Linux
driver of the Imote2's CC2420 radio (`src/tosmac`) and the programs that send
images over it (`src/file-transmission-code`). The definitions are translated
from the C source; `PROJECT.json` gives for each the lines it stands for.

## The system

| Component | State | Operations | Hard part |
|---|---|---|---|
| OS timer driver, `ostimer.c` | `timer_running`, the bits OIER_E5 and OSSR_E5, the match register | init, start, stop, is_running, channel_check | a match latched before stop or restart stays latched; init does not disarm it |
| MAC, transmit, `CC2420.c` | `CC2420_state`, `CC2420_timer_state`, retry counters, `tx_buf_ptr`, `send_done` | `CC2420_send`, timer handler, SFD handler, `try_to_send`, `send_packet` | interrupts continue a send that a process began; a reception or a signal may end it |
| MAC, receive, `CC2420.c` | `rx_buf`, `rx_packet`, `recv_done`, `ok_to_read`, `is_packet_receiving`, FIFOP masking | FIFOP handler, tasklet `CC2420_read_packet`, `RXFIFO_done`, `flush_RXFIFO`, `CC2420_read` | bottom half preempted by the handlers that share its state; RXFIFO overflow; edges lost while masked |
| Character device, `TOSMac.c` | the allocated packet, no lock (the semaphore is commented out) | open, read, write, poll, ioctl | sticky wake-up flags, one mailbox, one global mode for all opens |
| Radio and GPIO (external) | TXFIFO, RXFIFO, pins SFD, FIFO, FIFOP, CCA, edge detectors | strobes, frames that begin and end | edges not serviced in time merge |
| SPI layer, `SG2_CC2420.c` | a spinlock; the port's two queues of 16 bytes | strobes, register, RAM and FIFO access | a port slower than the loops; answers left in the queue; interrupts in between |
| Radio configuration, `CC2420.c` 892-1085, `TOSMac.c` ioctls | `g_current_parameters`, the registers and the RAM of the chip | tuning, channel, power, acknowledgement, address, packet size | a copy of the registers that must agree with them; fields within a word |
| Loading and unloading, `TOSMac.c` 278-342, `CC2420.c` 1087-1193 | memory, device numbers, power, interrupts | init, exit | a step that fails; frames that arrive half way |
| File transfer, `send_file.c`, `recv_file.c` | file offsets, the packets, the received file | request, block, last block, alarm, restart | lost packets, a one-byte block counter, restart |
| Earlier transfers, `transmit/*_file_{simple,resumeable,advance}.c` | as above | acknowledgement, request by `!GO!` or by number, stop code | as above |

A process calls `write()`, which allocates a packet, hands it to `CC2420_send`
and sleeps until `send_done`. `CC2420_send` sets the timer; timer and SFD
interrupts then take the MAC through IDLE, PRE_TX (backoff, CCA), TX, TX_WAIT,
and with acknowledgements on POST_TX, until `CC2420_packet_sent` or
`CC2420_send_failed` sets `send_done`. A received frame raises FIFOP; its handler
schedules the tasklet, which reads the RXFIFO, recognises acknowledgements,
copies data into `rx_packet` and wakes readers. All of them reach the chip
through the SPI layer. Loading the driver brings the chip up and ioctls change
its settings. The file transfer programs use the device through `read()` and
`write()` only.

What makes the components correct: the transmit loop does not stop half way and
its writer is woken; the packet outlives its last use; an idle MAC has a silent
radio; success means sent; the receiver is never left switched off or with a
frame nobody fetches; the mailbox holds what was received; an access to the chip
arrives whole and returns its own answer; the chip is set as the driver says;
handlers find the driver whole while it is put together and taken apart; the
file received is the file sent, and the transfer ends.

## Modules

| Module | Models |
|---|---|
| `OSTimer` | `ostimer.c`: operators on one record, and the hardware match as an action. `timer_start` writes three registers and is one step: the new interval begins with it |
| `CC2420Radio` | external: the chip and the edge detectors, as far as the MAC uses them |
| `CC2420` | the MAC: the three interrupt handlers and the tasklet as actions, their helper functions as operators |
| `TOSMac` | the character device and the whole driver as a system: `Writer`, `Reader`, open, ACK ioctls, interrupts, tasklet, hardware |
| `SendService` | abstract: what `write()` promises |
| `TOSMacProperties` | the properties of the driver, the refinement mapping, fairness |
| `SpiPort` | `SG2_CC2420.c` byte by byte, with the serial port |
| `RadioControl` | register words, tuning, power, acknowledgement, address, byte order; the ioctls |
| `DriverLife` | extends `RadioControl` and `OSTimer`: loading and unloading step by step, the interrupts, the tasklet, writes and the timer meanwhile |
| `RadioSettings` | abstract: what the settings of the device promise a program |
| `DeviceLink` | two devices as programs see them: a one-packet mailbox each, a link that may lose or garble |
| `FileTransfer` | `send_file.c` and `recv_file.c` over `DeviceLink` |
| `TransmitPrograms` | the three earlier pairs of programs over `DeviceLink` |
| `MCTOSMac`, `MCSpiPort`, `MCDriverLife`, `MCFileTransfer`, `MCTransmitPrograms` | frames, calls, arguments and faults for the model checker; the `MC*.cfg` files choose the constants |
| `TOSMacTypeProofs`, `TOSMacReceiveProofs`, `TOSMacSendProofs` | theorems about the driver: types, the receive path, the transmit path |
| `SendServiceProofs` | extends the last two: what a `write()` gets, and the refinement of `SendService` |
| `SpiPortProofs` | theorems about the SPI layer |
| `DriverLifeProofs` | theorems about loading, unloading and the settings |
| `FileTransferProofs`, `TransmitProofs` | theorems about the file transfers |

Definitions named `..._kept`, `..._forgotten`, `send_packet_gives_up` and the like,
marked "seeded fault", are wrong versions of the definition that follows them.
Nothing uses them; put in its place they must break a property, which shows
that the property depends on the code.

### The MAC and the device

*Atomicity.* One CPU. The interrupt handlers are registered `SA_INTERRUPT` and
are single steps; a pending interrupt runs before any other software does
anything. The tasklet is split where an interrupt between two of its accesses
makes a difference (before the read, between flush and rearm, between reading
`CC2420_state` and acting on it). The kernel is preemptible (the module's
vermagic says so), so processes interleave at each access to shared state, but
not while a tasklet runs. An SPI transaction is one step: it holds a spinlock
with interrupts off, and `SpiPort` shows what that is worth.

*Timing.* `Slow` names the software that may lag behind the hardware: `"send"`,
a timer interval may end while `CC2420_send` is still being set up; `"tasklet"`, a
frame may complete before the bottom half is through with the last;
`"interrupt"`, a pin may change again before the interrupt for its last edge. The
length of a timer interval is otherwise open. Runs and theorems say which they
allow.

*Data.* A frame is a record with MAC length, type, number and CRC; payload bytes
are left out. `length` fields are bytes and wrap (`% 256`). A freed packet's
address may be reused (`heap`, `Bufs`).

*Loading.* `timer_init` sets the mode of the counter and a flag, no more; and
`CC2420_exit` does not stop the timer. `TimersLeft` is what an earlier load may have
left: at rest in the runs and in the theorems (`LoadedAtRest`), armed in
`MCstale_timer`. How a timer comes to be left armed is in `DriverLife`.

*Simplifications.* CCA may be clear whenever nothing is being received. SFD is
always set back to both edges. The transient state POST_TX_ACK is passed within
one step and is not kept. `RXFIFO_done`'s branch for a length above the maximum
(CC2420.c:722) cannot be taken, since `CC2420_read_RXFIFO` clamps. The read that
empties the RXFIFO in `CC2420_flush_RXFIFO` is taken to do so. `poll`, copy faults,
the fields time, strength, lqi and the PSI build are left out.

### The SPI layer

Each function of `SG2_CC2420.c` is the sequence of the steps it takes: lock, flush,
select, put a byte, wait, take an answer, deselect, unlock. `todo[a]` is what is
left of the sequence, for the process and for an interrupt, which runs to its end
and cannot begin while the process holds the lock. The port has a transmit queue
with its four-bit level, a byte on the wires, a receive queue and its overrun
flag. Answers are numbered, so `AnswersRight` tells a stale one from the right
one. Assumption `PortKeepsUp`: while 15 bytes are put into the queue the port has
taken up the first; without it the 16th byte finds a level that reads as empty.

### Settings, loading and unloading

`RadioControl` keeps both the words in `g_current_parameters` and the registers of
the chip; words are numbers, fields are cut out of them as the masks of the code
do. An ioctl is one action, since the kernel of that time holds its big lock
around it. Its argument is an `unsigned long` of 32 bits, kept as the `int` the code
makes of it (`S32`). The commands that set something first have `access_ok` look at
it as if it were an address (TOSMac.c:199-204): an argument whose two bytes do not
end below `TASK_SIZE` is refused with `-EFAULT`, -1 for instance, while negative
numbers further down pass and are brought into range, or for the packet size, which
has no range, are taken as they are; an address loses all but its low 16 bits.
`RefuseIoctl` has this and the unknown command, and `reply` is what the last ioctl
returned. `CutShort` says whether `CC2420_write_RAM` may deselect the chip before both
bytes of an address have arrived, which `MCspi_address` finds; the run takes the
address to be written whole, and so does `SettingsImplemented`.

`DriverLife` has one action per step of `tosmac_init`, `CC2420_init`,
`CC2420_exit` and `tosmac_exit`; a step in `Faults` may fail, `held` is what the
driver has taken. From the moment the chip is in receive mode frames may arrive,
and from `request_irq` on they interrupt; interrupt and tasklet run before the
process goes on, which is how one processor behaves unless the tasklet is put off
to ksoftirqd. After a failed load the model stops (`"failed"`): `tosmac_init` has
returned 0 with `tosmac_dev` freed, and nothing the module does from there on is
defined. A failed load runs `tosmac_exit`, which gives back more than was taken:
after a failed `register_chrdev_region` interrupts nobody requested, an SSP port
nobody initialised and a cdev nobody added. What that does is up to the kernel:
`GiveBack` either goes on as if it had no effect or stops in `"undefined"`, about which
nothing is claimed. A failing `ssp_init` has a message for consequence, and the
next step that uses the port fails or is undefined. The timer outlives the module:
`tosmac_write` arms it, `rmmod` leaves it armed, and if it fires after the next
`request_irq` and before the first write its handler has no packet (`MCtimer_left`).
`TimerFindsPacket` says that this is the only way to get there; `timer_left` records
whether the timer was armed when loading began. A frame is `rxfifo`, `edge`, `tasklet`
here; what becomes of it is in `CC2420`.

### The file transfers

`DeviceLink` keeps per node the mailbox `rx_packet` and the flag `recv_done`, set by
each arrival, read or not. `write` delivers, loses, or garbles: a failed
reception marks the mailbox invalid and still wakes the reader, whose `read`
fails without touching the buffer, and no program looks at the result.
`FileTransfer` has one action per step of the two loops, and `AlarmKills` for
SIGALRM and the restart by `inf-recv_file`. A file is a sequence of chunks: which
block, how many bytes of it. The block counter of the request keeps its 8-bit
signed width. The stop code that `recv_file` looks for is never sent by
`send_file`, so that branch is not in the model (a file whose block begins with
it would end the transfer early). Unset variables: the sender's request byte
comes from `GarbageAcks`; an unset length of `recv_file`'s packet is 0 or 28.
Two assumptions about use: `send_file` is started while `recv_file` waits, and a
second is long enough for an answer (`Quiet`). Without either, two requests can be
under way, the sender runs a block ahead, and both `PrefixUnlessLost` and
`BlockNotOverwritten` fail.

`TransmitPrograms` has the pairs simple, resumeable and advance; they share the
sender's `SendPacket`, `ReadRequest` and `SendStop` and the receiver's `ReadPacket`
and `Store`, and the variable `program` says which pair runs. The same two
assumptions are made. What differs is kept: simple acknowledges every block and
tells by the stop code where the file ends; resumeable seeks to the end of its
file before each `!GO!`, writes what it gets before it looks for the stop code,
and gets its remainder with the length 0 of an earlier `msg_init`; advance asks for
a block number less 3000, in a signed byte, which for small files comes out as
block 3072 and beyond.

## Runs

One writer or one reader, a timer and a radio are enough for the hazards of
the driver, which come from handlers meeting each other. `FifoCap` is counted
in whole frames; sequence numbers are counted modulo `DSN_SPACE`; the retry limits
8 and 10 of the code are 0, 1 or 2, which passes through "more left", "last" and
"none left" (`send_ack` and `send_interference` use 0, where a failure is
immediate, to leave room for the frames received).

| Run | Environment | Shows |
|---|---|---|
| `send_quiet` | silent channel, two addresses, two packets, counts 4 and 30, ACK mode switched, fair | `TxBufferLive`, `TxPointerSet`, `SendDoneClaimed`, `IdleMeansSilent`, `FifoUntouchedWhileSending`; `ImplementsService`: `write()` refines `SendService` |
| `send_interference` | good and empty frames received, the writer may be signalled, ACK off, fair | `TransmitLoopRuns`, `WriterNotStranded`, `CountersInRange`, `BackoffRunsOut`, `WriteReturnsEventually` |
| `send_ack` | data and ACK frames received, ACK on, so ACKs race the ACK timer | `TypeOK`, `TransmitLoopRuns`, `SendDoneClaimed` |
| `receive` | data, too long, empty and ACK frames, a reader that may be signalled, fair | `NothingLeftBehind`, `MailboxWhole`, `ReaderIsServed` |
| `receive_busy` | RXFIFO of two frames, tasklet and handlers overtaken, mode changed by opens | `ReceiverNotBusy`, `MaskedOnlyForBottomHalf` |
| `spi` | strobes, registers, frames of 6 to 39 bytes written and up to 40 read, process and interrupt, every pace of the port, fair | `TypeOK`, `AnswersRight`, `NoOverrun`, `TransactionWhole`, `PortReleased` |
| `driver_life` | every step may fail, frames and timer matches at any time, writes, loading again; arguments below, in and above their ranges, refused, and of more than 16 bits | `TypeOK`, `HandlersFindDriver`, `TimerFindsPacket`, `NothingHeldUnloaded`, `ChipConfigured`; `ImplementsSettings`: `DriverLife` refines `RadioSettings` |
| `file_transfer` | 3 blocks and 5 bytes, any number of faults, 2 restarts, disk of 5 blocks, fair | `TypeOK`, `PrefixUnlessLost`, `DoneMeansDelivered`, `BlockNotOverwritten`, `EndsUnlessLost` |
| `transmit_programs` | each pair, 3 blocks and 5 bytes, any number of faults, 2 restarts, fair | `TypeOK`, `BlocksInOrder`, `NeverGoesBack`, `FinishedFile`, `BothEndUnlessLost` |
| `early_success` | data frames received | violates `SuccessMeansSent` |
| `two_writers` | silent channel, two writers | violates `WriterNotStranded` |
| `file_too_long` | 128 blocks, no fault | violates `EndsUnlessLost` |

Three blocks are more than the two that can be under way (one in the mailbox,
one with the sender), and a disk of five lets the receiver run past the end and
then fill it. Two restarts let the receiver be ended before its first block and
again later. The frames of `spi` need one chunk, exactly one, one byte more, and
several; a process and an interrupt are the two users a lock must keep apart.
The arguments of `driver_life` have one of each kind the code tells apart: -1 is
refused, -2000000000 is not, 66049 has 17 bits. Its `TASK_SIZE` is 0xBF000000.
`driver_life` and the transfers do not check deadlock: a load that failed and a
transfer that ended or lost its packet stop.

The three violated runs are disagreements between the code and what its comments
say; `PROJECT.json` quotes them.

- `early_success`: SFD rises for received frames too. An edge of one, latched when
  the timer handler strobes STXONCCA, is taken for the end of the transmission.
- `two_writers`: `CC2420_send` tests for IDLE long before it leaves IDLE, and the
  semaphore around it is commented out. Two writers pass, share `send_done`, and
  the one that does not get it sleeps on an idle MAC.
- `file_too_long`: the number of blocks travels in a signed byte; from block 128
  on it never equals the file length and the sender repeats its last bytes.

Further configurations, each of one property that TLC finds violated:

| Configuration | Property | What happens |
|---|---|---|
| `MCinvalid_read` | `NoInvalidRead` | a reception fails between the test of `rx_packet.length` and the copy; the read returns a packet just marked invalid |
| `MCbackoff_cut_short` | `BackoffRunsOut` | with ACKs on, the FIFOP handler restarts the backoff when its match is latched already; the restarted one ends at once |
| `MCstale_timer` | `TxPointerSet` | the timer was left armed by an earlier load and fires before the first write: the handler follows a null `tx_buf_ptr` |
| `MCtimer_left` | `BehaviourDefined` | the same from the beginning: a write, `rmmod`, `insmod`, no step failing |
| `MCgives_up` | `BehaviourDefined` | `register_chrdev_region` fails and the driver frees interrupts it never requested |
| `MCspi_address` | `TransactionWhole` | `CC2420_write_RAM` waits for BSY only, which is clear before the port takes up the first byte, and may deselect the chip too early |
| `MCload_failed` | `LoadReported` | a step of loading fails and `tosmac_init` returns 0 |
| `MCdeaf_after_load` | `FrameNoticed` | a frame that arrives between receive mode and `request_irq` leaves FIFOP active without an edge; the receiver stays deaf |
| `MCfile_stale` | `DeliveredDespiteLoss` | a block is lost, `recv_file` writes the packet of the round before once more and counts it; `send_file` ends |
| `MCfile_not_resumed` | `ContinuesAtEnd` | `lseek(file, 0, SEEK_CUR)` on a file just opened is 0 |
| `MCresumed_incomplete` | `ResumedFileWhole` | the remainder is sent with length 0, and the stop code may replace it or be written into the file |
| `MCadvance_astray` | `AdvanceSynchronises` | block number less 3000 does not fit the byte it is sent in |

Other behaviour met while modelling, without a configuration: a frame completing
while `CC2420_flush_RXFIFO` has FIFOP masked stays in the RXFIFO unnoticed, when
frames may overtake the tasklet; the tasklet may act on an ACK the ACK timer has
already given up; a signal during `write()` frees a packet the armed timer still
uses. An ACK acted on after the ACK timer has ended the send ends it again:
`CC2420_packet_sent` (CC2420.c:399) takes the 11 bytes of header and footer off the
length a second time, a packet of 10 bytes comes out at 255, which is `INVALID`, and
`write()` returns `-EFAULT` for a packet that was sent and acknowledged.

## Fairness

`Fairness` in `TOSMacProperties`: the clock runs and a frame that has begun ends
(weak, hardware); a pending interrupt is taken (weak); the tasklet and the
processes get on (strong: interrupts disable them again and again, but only for
short). Opens, ioctls, signals, new calls and arriving frames have none.
`ChannelGranted` is an assumption about the channel, not the code:
`CC2420_send_packet` retries STXONCCA without counting, so a channel that is clear
at CCA and lost at the strobe every time keeps the writer for ever. Liveness of
sending is stated with ACKs off: with them on, each FIFOP interrupt restarts the
backoff and steady traffic may postpone a send for ever.

`SpiPort`: the port shifts what it has, and the code between lock and unlock, which
nothing preempts for long, goes on (weak); nobody need begin a call.

`FileTransfer`, `TransmitPrograms`: each program gets on (weak); the operator need
not start the sender, the alarm need not strike.

## Theorems

For all values of the constants, under the named assumptions of the modules.

| Theorem | States | Further assumption |
|---|---|---|
| `TypeCorrect` (`TOSMacTypeProofs`) | `TypeOK` of the driver | `LoadedAtRest` |
| `NoNullPacket` | `TxPointerSet` | `LoadedAtRest` |
| `TaskletNeverBusy` | `ReceiverNotBusy`: CC2420.c:633-634 is dead code | none |
| `InterruptComesBack` | `MaskedOnlyForBottomHalf` | none |
| `NoFrameLeftBehind` | `NothingLeftBehind` | `LoadedAtRest`, `FrameAtATime` |
| `MailboxAlwaysWhole` | `MailboxWhole` | `LoadedAtRest`, `FrameAtATime` |
| `ReadsAreValid` | `NoInvalidRead` | `LoadedAtRest`, `FrameAtATime`, `FramesWhole` |
| `BackoffsRunOut` | `BackoffRunsOut` | `LoadedAtRest`, `NoAckAsked` |
| `LoneWriterNotStranded` | `WriterNotStranded` | `LoadedAtRest`, `OneWriter` |
| `LoneWriterCounters` | `CountersInRange` | `LoadedAtRest`, `OneWriter` |
| `LoneTransmitLoopRuns` | `TransmitLoopRuns` | `LoadedAtRest`, `OneWriter`, `InTime` |
| `SendDoneAlwaysClaimed` | `SendDoneClaimed` | `Undisturbed` |
| `TxBufferNeverFreed` | `TxBufferLive` | `Undisturbed` |
| `IdleIsSilent` | `IdleMeansSilent` | `Undisturbed`, `Silent` |
| `FifoUntouched` | `FifoUntouchedWhileSending` | `Undisturbed`, `Silent` |
| `ServiceImplemented` | `Service!Safety`: `write()` refines `SendService`, its liveness aside | `Undisturbed`, `Silent` |
| `SpiTypeCorrect` | `TypeOK` of `SpiPort` | `NoAddressWrites` |
| `AnswersAlwaysRight` | `AnswersRight` | `NoAddressWrites` |
| `NeverOverrun` | `NoOverrun` | `NoAddressWrites` |
| `TransactionsWhole` | `TransactionWhole` | `NoAddressWrites` |
| `HandlersFindDriverAlways` | `HandlersFindDriver` | none |
| `TimerFindsPacketAlways` | `TimerFindsPacket` | none |
| `OpenFindsRadioAlways` | `OpenFindsRadio`, which no run lists | none |
| `NothingHeldUnloadedAlways` | `NothingHeldUnloaded` | none |
| `TypeCorrect` (`DriverLifeProofs`) | `TypeOK` of `DriverLife`: every word fits its 16 bits | none |
| `ChipConfiguredAlways` | `ChipConfigured` | none |
| `SettingsImplemented` | `ImplementsSettings`, the refinement of `RadioSettings` | `~CutShort` |
| `FileTypeCorrect` | `TypeOK` of `FileTransfer` | none |
| `FileDelivered` | `DoneMeansDelivered`: the sender ends only when as many blocks were written as the file has; each in its place if nothing was lost | `RequestUnset`, `Countable` |
| `FileInOrder` | `PrefixUnlessLost` | `Countable` |
| `FileNotOverwritten` | `BlockNotOverwritten` | `Countable` |
| `TransmitTypeCorrect` | `TypeOK` of `TransmitPrograms` | `Sized` |
| `BlocksNeverGoBack` | `NeverGoesBack` | none |
| `BlocksStayInOrder` | `BlocksInOrder` | none |
| `ReceiverFinishesFile` | `FinishedFile` | none |

The assumptions:

- `LoadedAtRest`: when the driver is loaded its timer is not enabled and no match is
  latched, as after a reset. `timer_init` does not see to that; `MCstale_timer` shows
  what happens when an earlier load left the timer armed, and `TimerFindsPacketAlways`
  that nothing else leads to a null packet.
- `OneWriter`: at most one process writes at a time, which is what the semaphore that
  is commented out would give. `two_writers` shows what happens without.
- `InTime`: `"send"` and `"interrupt"` are not in `Slow`. A timer interval is longer than
  the few instructions that set a send up, and an SFD edge is serviced before the
  next frame.
- `FrameAtATime`: `"tasklet"` is not in `Slow`, the bottom half is through with a frame
  before the next is complete. Without it a frame can stay behind, as described
  above.
- `FramesWhole`: no frame has the length byte 0, so no reception fails.
  `MCinvalid_read` shows what such a frame does; the theorem shows that nothing else
  does it.
- `NoAckAsked`: no process switches acknowledgements on. `MCbackoff_cut_short` shows
  what happens with them.
- `Undisturbed`: `LoadedAtRest`, `OneWriter`, `InTime`, `FrameAtATime`, `FramesWhole`,
  and no signals to the processes. Data and ACK frames may arrive at any time.
- `Silent`: nothing is received. `early_success` shows why the service needs it: the SFD
  edge of a received frame passes for one of the frame sent.
- `NoAddressWrites`: every call but `CC2420_write_RAM`, for which `MCspi_address` finds
  `TransactionWhole` violated. Frames written and read have any length.
- `~CutShort`: `CC2420_write_RAM` writes both bytes of an address. `MCspi_address` shows
  that it may not.
- `RequestUnset`: the file has no whole block, or the byte of `send_file`'s request
  packet, never set before the first `read()`, does not happen to be the number of blocks of the file.
- `Countable`: a file of at most 127 blocks, which the request can count (`file_too_long`
  shows a longer one), on a disk that holds it.
- `Sized`: if the pair advance is among those that run, the sum of the chunk sizes of a
  finite file is a natural number. That is a fact of arithmetic which takes an
  induction over the file, out of the prover's reach; TLC evaluates it for files of
  up to three chunks. Simple and resumeable do not need it.

Where the table has "none" for the driver, the theorem holds in every environment,
any number of writers included; the theorems about `DriverLife` hold for every set of
failing steps, all 32-bit arguments of the ioctls and both byte orders of the
host. They claim nothing about `"undefined"`: `NothingHeldUnloadedAlways` is about
runs in which what `tosmac_exit` does to things never taken had no effect. The
theorems about `TransmitPrograms` hold for files of every length, every fault and any number of
restarts.

The inductive invariants:

- `TypeInv` is `TypeOK` and `TxPointerSet` together: the handlers write through
  `tx_buf_ptr`, so its not being null is needed for the types.
- `RxInv` adds `PacketLock`, the packet lock is held only between the read and the
  flush that follows it, to `MaskedOnlyForBottomHalf`.
- `FrameInv`: the RXFIFO is empty, or holds the one frame that a FIFOP edge or a
  scheduled tasklet will fetch (`OneFrame`); from the read to the copy `rx_buf` has that
  frame and its length (`BufferHoldsFrame`). `NothingFails` adds, with whole frames, that
  the tasklet never takes a path of `CC2420_recv_failed`.
- `BackoffInv`: acknowledgements are off, so the FIFOP handler never restarts a timer,
  and the timer handler restarts it only after it has taken the match.
- `SendInv` adds what the writer's place in `CC2420_send` says of the MAC: idle until
  it enters PRE_TX, with the counters just set, and from then on not idle unless
  `send_done` is set. `SendEffect` sums up what handlers, tasklet and hardware can do
  to a send, so the induction has one case for all of them.
- `LoopInv` ties each transmit state to the event that will end it: a purpose the
  timer was set for, the radio still sending, or an SFD edge waiting.
- `CallInv` follows one call of `write()`: who has the send, MAC or writer (`HandOver`); the
  packet is allocated as long as the MAC can reach it (`PacketHeld`); what the timer was
  set for in each state (`Purpose`), so that a match left over after the end of a send
  is not taken for a backoff; and that an ACK acted on late finds the writer still
  waiting (`LateAck`), because no process runs before the tasklet has ended.
- `QuietInv` follows the frame on a silent channel: radio and MAC are in step
  (`InStep`); the frame in the TXFIFO, on the air and counted as aired is the
  writer's (`FrameFollowed`); and the length it travels with never comes out as `INVALID`
  when header and footer are taken off again (`LengthInv`). The refinement maps each step
  of the driver to `Submit`, `Air`, `Succeed`, `Fail` or a stutter.
- `SpiInv` is a proof outline. A label says what is known before a step: whether the
  caller has the lock, CSn is low, the port is quiet, how many answers were not yet
  taken, and whether they are exactly this call's. `Follows` says which label each step
  leads to and `Leads` extends it to what is left of a function. `StepsLead` shows it for
  every function, loops over any length included (`Loop`); then an action can only take
  its caller from one label to the next (`Works`), and the level of the queues,
  the numbers of the answers and the whole transaction follow from the label.
- `LifeInv`: what is held follows from the step that comes next (`HeldInv`), and the
  interrupts are held only while all their handlers need is there (`IrqInv`). `TimerInv`:
  the timer is at rest until the first send after loading, unless it was armed or due
  when loading began.
- `ControlInv`: from the moment the registers are written, the words kept are the
  defaults outside the fields of the ioctls, and the chip has the same words
  (`WordsInv`). The refinement needs it to read a setting back from a register;
  `TwoBytes` and `ShortAddr` give the address low byte first on either host.
- `AcksTrue`: a request equal to `FullBlocks`, in the mailbox or read, was made when
  the file had that many; it needs `Gapless`, the offset is in the file, and that
  the signed byte never exceeds the count. `BlocksSent` adds that, as
  long as the sender has blocks left, every chunk written or in the mailbox came in a
  packet of its own, so that a sender that ends has sent all; that each block is in its
  place, if nothing was lost, is `FileInOrder`.
- `TurnInv` (in `FileTransferProofs` and, for each of its two pairs, in
  `TransmitProofs`): until a loss the turn is in exactly one place, about to ask,
  in the request, with the sender, in the block; offset, length and sender's
  position agree accordingly. As long as nothing is lost an answer is always on its
  way, so the alarm can strike only before the sender starts; what a restart in the
  middle of a file does, which follows a loss, is the matter of `NeverGoesBack`.
- `HighestInv`: the sender never goes back, so the newest packet is the highest, in
  the order `send_pkt`, mailbox, `recv_pkt`, file, also after a loss.

Every invariant and action property of the passing runs is the statement of a
theorem. Only model-checked are the liveness properties, `WriteReturnsEventually`,
`ReaderIsServed`, `PortReleased`, `EndsUnlessLost`, `BothEndUnlessLost` and the fairness in
`ImplementsService`: liveness under fairness is out of the prover's reach. `send_ack`
and `send_quiet` check some of the properties in environments that the theorems'
assumptions include; `spi` checks frames of a few lengths, the theorems all of them.

## Not modelled

- Small files and commands (`send_small_file.c`, `send_command.c` and their
  receivers): programs of one packet, for which `DeviceLink` and the transfers say
  what a lost or garbled packet does. What a command does is up to the shell.
- The demonstration programs, `ThreadedRecvSend.c` included: loops of one device call
  each, which are the writers and readers of `TOSMac`.
- `poll`, which changes nothing; failing copies to and from user space;
  `CC2420_read_RAM`, which has no caller; `is_host_msb` likewise.
- `TOSMAC_IOSETMAXDATASIZE` and tuning while a packet is under way: the MAC model has
  the ioctls of the ACK mode only, the control model no transmissions.
- What becomes of the machine where `DriverLife` stops (`"undefined"`).
- `TOSMAC_IOSETMAXDATASIZE` has no limit; the MAC assumes a `TOSH_DATA_LENGTH` of at
  most 116, for which a frame fits the 7 bits of its length. The getters that return a negative size
  look like an error to a program; the model only has the number.
- `rmmod` after a failed load, and a tasklet that outlives its driver because
  ksoftirqd took it over (there is no `tasklet_kill`).
- Images, C exercises, build and generated files have no behaviour of interest.

## Plan

Done: every component above but those under "Not modelled". What remains:

1. Join `RadioControl` and `CC2420`: tuning and a change of the packet size while the
   MAC sends or receives.
2. Weaker environments for the theorems about one write: signals to the readers, and
   for `SendDoneClaimed` and `TxBufferLive` frames that are not whole.
3. What `MailboxWhole` becomes when frames overtake the tasklet.
