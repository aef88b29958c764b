---------------------------- MODULE FileTransfer ----------------------------
(***************************************************************************)
(* file-transmission-code/send_file.c and recv_file.c.  The receiver asks  *)
(* for the file block by block: it sends how many whole blocks it has, in  *)
(* one signed byte, and waits for a packet, which it writes to its file.   *)
(* The sender reads such a packet, and unless it says that every whole     *)
(* block has arrived sends the next block of its file; when it does, the   *)
(* sender sends the bytes that remain and ends.                            *)
(*                                                                         *)
(* A file is a sequence of chunks [block, len]: the bytes from position    *)
(* 28 * (k - 1) are the first len bytes of what block of the sent file,    *)
(* Stale standing for bytes that are none of it.  alarm(1) ends recv_file  *)
(* when nothing has come for a second, which is long after an answer       *)
(* would have; the script inf-recv_file starts it again.                   *)
(***************************************************************************)
EXTENDS Integers, Sequences

CONSTANTS FullBlocks,   \* file_size / TOSH_DATA_LENGTH
          Remainder,    \* file_size % TOSH_DATA_LENGTH
          GarbageAcks,  \* what send_file's recv_pkt.data[1] may hold unset
          DiskBlocks,   \* what the receiver's disk can hold
          MaxKills,     \* bound: how often alarm(1) strikes
          Faults, Stale, Invalid

TOSH_DATA_LENGTH == 28
S8 == -128 .. 127
ToS8(n) == ((n + 128) % 256) - 128

Contents == 0 .. FullBlocks \cup {Stale}
Chunks == [block : Contents, len : 0 .. TOSH_DATA_LENGTH]
Acks == [ack : S8]

ASSUME FileAssumption ==
  /\ FullBlocks \in Nat /\ DiskBlocks \in Nat /\ MaxKills \in Nat
  /\ Remainder \in 0 .. TOSH_DATA_LENGTH - 1
  /\ GarbageAcks \subseteq S8
  /\ Faults \subseteq {"lost", "garbled"}
  /\ Invalid \notin Acks \cup Chunks

Peer(n) == IF n = "sender" THEN "receiver" ELSE "sender"

VARIABLES rx_packet, recv_done, lost,
          s_pc, s_pos, s_ack, s_block,  \* send_file: blocks read, recv_pkt.data[1], send_pkt.data
          r_pc, r_pos, r_pkt, r_file,   \* recv_file: file offset, recv_pkt, its file
          kills

INSTANCE DeviceLink WITH Nodes <- {"sender", "receiver"}, Packets <- Acks \cup Chunks

deviceVars == << rx_packet, recv_done, lost >>
senderVars == << s_pc, s_pos, s_ack, s_block >>
receiverVars == << r_pc, r_pos, r_pkt, r_file >>
vars == << deviceVars, senderVars, receiverVars, kills >>

(* recv_file does not set its recv_pkt: an unset length is taken to be     *)
(* none or that of a block.                                                *)
UnsetChunks == [block : {Stale}, len : {0, TOSH_DATA_LENGTH}]

Init == /\ LinkInit
        /\ s_pc = "start" /\ s_pos = 0 /\ s_ack \in GarbageAcks /\ s_block = Stale
        /\ r_pc = "ask" /\ r_pos = 0 /\ r_pkt \in UnsetChunks /\ r_file = << >>
        /\ kills = 0
-----------------------------------------------------------------------------
(* send_file is started once recv_file waits. *)
SenderStarts == /\ s_pc = "start" /\ r_pc = "wait"
                /\ s_pc' = "wait"
                /\ UNCHANGED << deviceVars, s_pos, s_ack, s_block, receiverVars, kills >>

(* h = recv_pkt.data[1] * 28 is compared with file_size - Remainder. *)
all_but_one_asked(ack) == ack = FullBlocks - 1   \* seeded fault
AllBlocksAsked(ack) ==
  ack * TOSH_DATA_LENGTH = FullBlocks * TOSH_DATA_LENGTH

SenderReads ==
  /\ s_pc = "wait"
  /\ read("sender")
  /\ s_ack' = BufferAfterRead("sender", [ack |-> s_ack]).ack
  /\ s_pc' = IF AllBlocksAsked(s_ack') THEN "last" ELSE "send"
  /\ UNCHANGED << s_pos, s_block, receiverVars, kills >>

read_past_end == s_block' = s_pos /\ s_pos' = s_pos + 1   \* seeded fault

(* read() of the file leaves send_pkt.data alone at the end of the file. *)
ReadFile ==
  LET more == s_pos < FullBlocks \/ (s_pos = FullBlocks /\ Remainder > 0)
  IN /\ s_block' = IF more THEN s_pos ELSE s_block
     /\ s_pos' = IF more THEN s_pos + 1 ELSE s_pos

SenderSends(pc, len, next) ==
  /\ s_pc = pc
  /\ ReadFile
  /\ write("sender", [block |-> s_block', len |-> len])
  /\ s_pc' = next
  /\ UNCHANGED << s_ack, receiverVars, kills >>

SendBlock == SenderSends("send", TOSH_DATA_LENGTH, "wait")
SendLast == SenderSends("last", Remainder, "done")
-----------------------------------------------------------------------------
(* The top of recv_file's loop: the number of whole blocks, in one byte. *)
ReceiverAsks ==
  /\ r_pc = "ask"
  /\ write("receiver", [ack |-> ToS8(r_pos \div TOSH_DATA_LENGTH)])
  /\ r_pc' = "wait"
  /\ UNCHANGED << senderVars, r_pos, r_pkt, r_file, kills >>

store_at_start(chunk) ==   \* seeded fault: the offset stays where it was
  r_pos' = 0 /\ r_file' = << chunk >>

(* write() to the file at its offset; it fails, unnoticed, on a full disk. *)
Store(chunk) ==
  LET k == r_pos \div TOSH_DATA_LENGTH
  IN IF chunk.len = 0 \/ k >= DiskBlocks
     THEN UNCHANGED << r_pos, r_file >>
     ELSE /\ r_pos' = r_pos + chunk.len
          /\ r_file' = IF k < Len(r_file) THEN [r_file EXCEPT ![k + 1] = chunk]
                                          ELSE Append(r_file, chunk)

stale_stored ==   \* seeded fault: the packet of the round before is stored
  /\ r_pc = "wait"
  /\ read("receiver")
  /\ r_pkt' = BufferAfterRead("receiver", r_pkt)
  /\ Store(r_pkt)
  /\ r_pc' = "ask"
  /\ UNCHANGED << senderVars, kills >>

(* The stop code that the loop also looks for is never sent by send_file. *)
ReceiverStores ==
  /\ r_pc = "wait"
  /\ read("receiver")
  /\ r_pkt' = BufferAfterRead("receiver", r_pkt)
  /\ Store(r_pkt')
  /\ r_pc' = "ask"
  /\ UNCHANGED << senderVars, kills >>

(* Nothing is on its way to recv_file. *)
Quiet == /\ ~recv_done["receiver"]
         /\ \/ s_pc \in {"start", "done"}
            \/ s_pc = "wait" /\ ~recv_done["sender"]

(* SIGALRM ends recv_file; started again it opens its file at offset 0. *)
AlarmKills ==
  /\ kills < MaxKills
  /\ r_pc = "wait" /\ Quiet
  /\ r_pc' = "ask" /\ r_pos' = 0 /\ r_pkt' \in UnsetChunks
  /\ kills' = kills + 1
  /\ UNCHANGED << deviceVars, senderVars, r_file >>
-----------------------------------------------------------------------------
SenderGoesOn == SenderReads \/ SendBlock \/ SendLast
ReceiverGoesOn == ReceiverAsks \/ ReceiverStores

Next == SenderStarts \/ SenderGoesOn \/ ReceiverGoesOn \/ AlarmKills

Spec == Init /\ [][Next]_vars

(* Both processes get on; the operator and the alarm need not. *)
Fairness == WF_vars(SenderGoesOn) /\ WF_vars(ReceiverGoesOn)

FairSpec == Spec /\ Fairness

TypeOK == /\ LinkTypeOK
          /\ rx_packet["sender"] \in Acks \cup {Invalid}
          /\ rx_packet["receiver"] \in Chunks \cup {Invalid}
          /\ s_pc \in {"start", "wait", "send", "last", "done"}
          /\ s_pos \in 0 .. FullBlocks + 1 /\ s_ack \in S8 /\ s_block \in Contents
          /\ r_pc \in {"ask", "wait"} /\ r_pos \in Nat
          /\ r_pkt \in Chunks /\ r_file \in Seq(Chunks)
          /\ kills \in 0 .. MaxKills
-----------------------------------------------------------------------------
(* The received file is the sent file as far as it goes (recv_file.c:89):  *)
(* no block twice, out of turn or left out.                                *)
SentChunk(k) == [block |-> k - 1,
                 len |-> IF k =< FullBlocks THEN TOSH_DATA_LENGTH ELSE Remainder]

FilePrefix == \A k \in DOMAIN r_file : r_file[k] = SentChunk(k)

(* It is as long as no packet is lost: request and block alternate, though *)
(* nothing numbers the blocks.                                             *)
PrefixUnlessLost == lost \/ FilePrefix

(* The mailbox of the receiver holds one packet: no block arrives before   *)
(* the one before has been read.                                           *)
BlockNotOverwritten ==
  [][recv_done["receiver"] /\ ~lost => rx_packet'["receiver"] = rx_packet["receiver"]]_vars

(* The loop of send_file ends (send_file.c:79) only when each whole block  *)
(* has been sent and recv_file has written as many, lost packets and       *)
(* restarts or not; and if no packet was lost, each is in its place.       *)
(* After a loss it need not be: recv_file does not look at the result of   *)
(* read(), writes the packet of the round before once more and counts it.  *)
InPlace == \A k \in 1 .. FullBlocks : r_file[k] = SentChunk(k)

DoneMeansDelivered ==
  s_pc \in {"last", "done"} =>
    /\ s_pos >= FullBlocks
    /\ Len(r_file) >= FullBlocks
    /\ lost \/ InPlace

(* What a user of the two programs would like, whatever is lost.           *)
DeliveredDespiteLoss == s_pc \in {"last", "done"} => InPlace

(* send_file comes to its end unless a packet is lost.  The loop "will     *)
(* stop when j = h (total number of 28 bytes payload)" (send_file.c:92).   *)
EndsUnlessLost == s_pc = "wait" ~> s_pc = "done" \/ lost

(* recv_file asks for what is missing: "if previous file exist and         *)
(* transmission stops in the middle, it will seek end of file, can be use  *)
(* to continue transmission" (recv_file.c:73).                             *)
ContinuesAtEnd == r_pc = "ask" => r_pos >= TOSH_DATA_LENGTH * (Len(r_file) - 1)
=============================================================================
