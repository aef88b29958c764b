------------------------- MODULE FileTransferProofs -------------------------
(***************************************************************************)
(* What the file transfer guarantees for files of every length, with any   *)
(* number of lost packets and restarts: what send_file has sent and        *)
(* recv_file has written when the loop of send_file ends.  And, as long as *)
(* no packet is lost, that the received file is a prefix of the sent one:  *)
(* the requests carry no number the sender would look at, but request and  *)
(* block take turns.  The latter for files of at most 127 blocks, the most *)
(* the signed byte counts, on a disk that can hold them.                   *)
(***************************************************************************)
EXTENDS FileTransfer, TLAPS

USE DEF TOSH_DATA_LENGTH

Ends == {"sender", "receiver"}

(* The offset of recv_file is in its file or at the end of it. *)
Gapless == r_pos < TOSH_DATA_LENGTH * (Len(r_file) + 1)

(* Store keeps the file a sequence of chunks, never shortens it and never  *)
(* moves the offset past its end.                                          *)
LEMMA StoreGrows ==
  ASSUME r_pos \in Nat, r_file \in Seq(Chunks), NEW chunk \in Chunks, Store(chunk)
  PROVE  /\ r_pos' \in Nat /\ r_file' \in Seq(Chunks)
         /\ Len(r_file') >= Len(r_file)
         /\ Gapless => Gapless'
<1> DEFINE k == r_pos \div TOSH_DATA_LENGTH
<1>1. /\ k \in Nat /\ TOSH_DATA_LENGTH * k =< r_pos
      /\ r_pos < TOSH_DATA_LENGTH * k + TOSH_DATA_LENGTH
  OBVIOUS
<1>2. /\ chunk.len \in Nat /\ chunk.len =< TOSH_DATA_LENGTH
      /\ Len(r_file) \in Nat
  <2>1. chunk.len \in 0 .. TOSH_DATA_LENGTH
    BY DEF Chunks
  <2>2. Len(r_file) \in Nat
    OBVIOUS
  <2>3. chunk.len \in Nat /\ chunk.len =< TOSH_DATA_LENGTH
    <3>1. \A n \in 0 .. TOSH_DATA_LENGTH : n \in Nat /\ n =< TOSH_DATA_LENGTH
      OBVIOUS
    <3> QED BY <2>1, <3>1, Zenon
  <2> QED BY <2>2, <2>3
<1>3. CASE UNCHANGED << r_pos, r_file >>
  BY <1>2, <1>3 DEF Gapless
<1>4. CASE /\ r_pos' = r_pos + chunk.len
           /\ k < Len(r_file)
           /\ r_file' = [r_file EXCEPT ![k + 1] = chunk]
  <2>1. r_file' \in Seq(Chunks) /\ Len(r_file') = Len(r_file)
    BY <1>4
  <2>2. r_pos' \in Nat /\ r_pos' =< r_pos + TOSH_DATA_LENGTH
    BY <1>2, <1>4
  <2>3. k + 1 =< Len(r_file)
    BY <1>1, <1>2, <1>4
  <2> QED BY <1>1, <1>2, <2>1, <2>2, <2>3 DEF Gapless
<1>5. CASE /\ r_pos' = r_pos + chunk.len
           /\ ~(k < Len(r_file))
           /\ r_file' = Append(r_file, chunk)
  <2>1. r_file' \in Seq(Chunks) /\ Len(r_file') = Len(r_file) + 1
    BY <1>5
  <2>2. r_pos' \in Nat /\ r_pos' =< r_pos + TOSH_DATA_LENGTH
    BY <1>2, <1>5
  <2> QED BY <1>2, <2>1, <2>2 DEF Gapless
<1> QED BY <1>3, <1>4, <1>5 DEF Store

(* What write and read do to the devices, whatever the packet. *)
LEMMA WriteType ==
  ASSUME LinkTypeOK, NEW n \in Ends, NEW p, write(n, p)
  PROVE  /\ recv_done' \in [Ends -> BOOLEAN] /\ lost' \in BOOLEAN
         /\ rx_packet'[n] = rx_packet[n] /\ recv_done'[n] = recv_done[n]
         /\ rx_packet'[Peer(n)] \in {rx_packet[Peer(n)], p, Invalid}
         /\ DOMAIN rx_packet' = Ends
         /\ rx_packet' = [e \in Ends |-> rx_packet'[e]]
         /\ lost => lost'
  BY DEF LinkTypeOK, write, Arrives, Peer, Ends

LEMMA S8Type == \A n \in Nat : ToS8(n) \in S8 /\ ToS8(n) =< n
  BY DEF ToS8, S8

(* While nothing has been lost, a packet that is written arrives. *)
LEMMA NotLost ==
  ASSUME LinkTypeOK, NEW n \in Ends, NEW p, write(n, p), ~lost'
  PROVE  Arrives(Peer(n), p) /\ ~lost
  BY DEF LinkTypeOK, write
-----------------------------------------------------------------------------
LEMMA InitType == Init => TypeOK /\ Gapless
<1> SUFFICES ASSUME Init PROVE TypeOK /\ Gapless
  OBVIOUS
<1>1. LinkTypeOK /\ rx_packet["sender"] = Invalid /\ rx_packet["receiver"] = Invalid
  BY DEF Init, LinkInit, LinkTypeOK
<1>2. r_pkt \in Chunks /\ s_block \in Contents /\ s_ack \in S8
  BY FileAssumption DEF Init, UnsetChunks, Chunks, Contents
<1>3. r_pos = 0 /\ r_file \in Seq(Chunks) /\ Len(r_file) = 0
  BY DEF Init
<1> QED BY <1>1, <1>2, <1>3, FileAssumption DEF Init, TypeOK, Gapless

(* The packet that write leaves in the device of the peer is in Ps if the  *)
(* one written is; nothing happens to the writer's own device.             *)
LEMMA WriteKeepsLink ==
  ASSUME LinkTypeOK, NEW n \in Ends, NEW p \in Acks \cup Chunks, write(n, p)
  PROVE  LinkTypeOK'
<1>1. CASE UNCHANGED << rx_packet, recv_done >> /\ lost' = TRUE
  BY <1>1 DEF LinkTypeOK
<1>2. ASSUME NEW q \in Acks \cup Chunks \cup {Invalid}, Arrives(Peer(n), q)
      PROVE  /\ rx_packet' \in [Ends -> Acks \cup Chunks \cup {Invalid}]
             /\ recv_done' \in [Ends -> BOOLEAN]
  <2>1. Peer(n) \in Ends
    BY DEF Peer, Ends
  <2> QED BY <1>2, <2>1 DEF LinkTypeOK, Arrives, Ends
<1> QED BY <1>1, <1>2 DEF LinkTypeOK, write, Ends

LEMMA SenderType ==
  ASSUME TypeOK, Gapless, SenderStarts \/ SenderReads \/ SendBlock \/ SendLast
  PROVE  TypeOK' /\ Gapless'
<1>1. CASE SenderStarts
  BY <1>1 DEF SenderStarts, TypeOK, LinkTypeOK, deviceVars, receiverVars, Gapless
<1>2. CASE SenderReads
  <2>1. s_ack' \in S8
    BY <1>2 DEF SenderReads, BufferAfterRead, TypeOK, Acks
  <2>2. LinkTypeOK' /\ rx_packet' = rx_packet
    BY <1>2 DEF SenderReads, read, TypeOK, LinkTypeOK
  <2> QED BY <1>2, <2>1, <2>2 DEF SenderReads, TypeOK, receiverVars, Gapless
<1>3. ASSUME NEW pc, NEW len \in 0 .. TOSH_DATA_LENGTH, NEW next \in {"wait", "done"},
             SenderSends(pc, len, next)
      PROVE  TypeOK' /\ Gapless'
  <2>1. s_block' \in Contents /\ s_pos' \in 0 .. FullBlocks + 1
    BY <1>3, FileAssumption DEF SenderSends, ReadFile, TypeOK, Contents
  <2> DEFINE p == [block |-> s_block', len |-> len]
  <2>2. p \in Chunks
    BY <2>1 DEF Chunks
  <2>3. LinkTypeOK /\ write("sender", p)
    BY <1>3 DEF SenderSends, TypeOK
  <2>4. LinkTypeOK'
    BY <2>2, <2>3, WriteKeepsLink DEF Ends
  <2>5. /\ rx_packet'["sender"] = rx_packet["sender"]
        /\ rx_packet'["receiver"] \in {rx_packet["receiver"], p, Invalid}
    BY <2>3, WriteType DEF Ends, Peer
  <2> QED BY <1>3, <2>1, <2>2, <2>4, <2>5 DEF SenderSends, TypeOK, receiverVars, Gapless
<1> QED
  BY <1>1, <1>2, <1>3, FileAssumption DEF SendBlock, SendLast

LEMMA ReceiverType ==
  ASSUME TypeOK, Gapless, ReceiverAsks \/ ReceiverStores \/ AlarmKills
  PROVE  TypeOK' /\ Gapless'
<1>1. CASE ReceiverAsks
  <2> DEFINE p == [ack |-> ToS8(r_pos \div TOSH_DATA_LENGTH)]
  <2>1. p \in Acks
    BY S8Type DEF TypeOK, Acks
  <2>2. LinkTypeOK /\ write("receiver", p)
    BY <1>1 DEF ReceiverAsks, TypeOK
  <2>3. LinkTypeOK'
    BY <2>1, <2>2, WriteKeepsLink DEF Ends
  <2>4. /\ rx_packet'["receiver"] = rx_packet["receiver"]
        /\ rx_packet'["sender"] \in {rx_packet["sender"], p, Invalid}
    BY <2>2, WriteType DEF Ends, Peer
  <2> QED BY <1>1, <2>1, <2>3, <2>4 DEF ReceiverAsks, TypeOK, senderVars, Gapless
<1>2. CASE ReceiverStores
  <2>1. r_pkt' \in Chunks
    BY <1>2 DEF ReceiverStores, BufferAfterRead, TypeOK
  <2>2. LinkTypeOK' /\ rx_packet' = rx_packet
    BY <1>2 DEF ReceiverStores, read, TypeOK, LinkTypeOK
  <2>3. r_pos' \in Nat /\ r_file' \in Seq(Chunks) /\ Gapless'
    BY <1>2, <2>1, StoreGrows DEF ReceiverStores, TypeOK
  <2> QED BY <1>2, <2>1, <2>2, <2>3 DEF ReceiverStores, TypeOK, senderVars
<1>3. CASE AlarmKills
  <2>1. r_pkt' \in Chunks
    BY <1>3 DEF AlarmKills, UnsetChunks, Chunks, Contents
  <2>2. kills' \in 0 .. MaxKills
    BY <1>3, FileAssumption DEF AlarmKills, TypeOK
  <2>3. Len(r_file) \in Nat
    BY DEF TypeOK
  <2> QED BY <1>3, <2>1, <2>2, <2>3 DEF AlarmKills, TypeOK, LinkTypeOK, deviceVars, senderVars, Gapless
<1> QED BY <1>1, <1>2, <1>3

LEMMA TypeInductive == Spec => [](TypeOK /\ Gapless)
<1>1. TypeOK /\ Gapless /\ [Next]_vars => (TypeOK /\ Gapless)'
  <2> SUFFICES ASSUME TypeOK, Gapless, [Next]_vars PROVE TypeOK' /\ Gapless'
    OBVIOUS
  <2>1. CASE UNCHANGED vars
    BY <2>1 DEF vars, deviceVars, senderVars, receiverVars, TypeOK, LinkTypeOK, Gapless
  <2> QED BY <2>1, SenderType, ReceiverType DEF Next, SenderGoesOn, ReceiverGoesOn
<1> QED BY <1>1, InitType, PTL DEF Spec

(* Every variable keeps its type for files of every length. *)
THEOREM FileTypeCorrect == Spec => []TypeOK
  BY TypeInductive, PTL
-----------------------------------------------------------------------------
(* The sender ends on a request that counts all whole blocks.  Such a      *)
(* request is only ever made when the file has them: the byte is at most   *)
(* the number of blocks before the offset, the offset is in the file, and  *)
(* the file never gets shorter.                                            *)
AckTrue(ack) == ack = FullBlocks => Len(r_file) >= FullBlocks

AcksTrue == /\ rx_packet["sender"] # Invalid => AckTrue(rx_packet["sender"].ack)
            /\ AckTrue(s_ack)
            /\ s_pc \in {"last", "done"} => Len(r_file) >= FullBlocks

LEMMA AcksTrueUnchanged ==
  ASSUME TypeOK, AcksTrue, Len(r_file') \in Nat, Len(r_file') >= Len(r_file),
         rx_packet'["sender"] \in {rx_packet["sender"], Invalid},
         s_ack' = s_ack, s_pc' \in {"last", "done"} => s_pc \in {"last", "done"}
  PROVE  AcksTrue'
<1>1. Len(r_file) \in Nat /\ FullBlocks \in Nat
  BY FileAssumption DEF TypeOK
<1> QED BY <1>1 DEF AcksTrue, AckTrue

LEMMA AcksTrueStep ==
  ASSUME TypeOK, Gapless, AcksTrue, [Next]_vars
  PROVE  AcksTrue'
<1>0. Len(r_file) \in Nat /\ r_pos \in Nat
  BY DEF TypeOK
<1>1. CASE SenderStarts \/ AlarmKills \/ UNCHANGED vars
  BY <1>0, <1>1, AcksTrueUnchanged DEF SenderStarts, AlarmKills, vars, deviceVars,
     senderVars, receiverVars
<1>2. CASE SenderReads
  <2>1. s_ack' = s_ack \/ (rx_packet["sender"] # Invalid /\ s_ack' = rx_packet["sender"].ack)
    BY <1>2 DEF SenderReads, BufferAfterRead
  <2>2. AckTrue(s_ack')
    BY <2>1 DEF AcksTrue
  <2>3. s_ack' \in S8
    BY <1>2, SenderType DEF TypeOK
  <2>4. s_pc' = "last" => s_ack' = FullBlocks
    BY <1>2, <2>3, FileAssumption DEF SenderReads, AllBlocksAsked, S8
  <2>5. s_pc' \in {"last", "send"} /\ r_file' = r_file /\ rx_packet' = rx_packet
    BY <1>2 DEF SenderReads, read, receiverVars
  <2> QED BY <2>2, <2>4, <2>5 DEF AcksTrue, AckTrue
<1>3. CASE SendBlock \/ SendLast
  <2>1. PICK pc, len, next : /\ SenderSends(pc, len, next)
                             /\ next = "done" => pc = "last"
                             /\ next \in {"wait", "done"}
    BY <1>3 DEF SendBlock, SendLast
  <2>2. rx_packet'["sender"] = rx_packet["sender"]
    BY <2>1, WriteType DEF SenderSends, TypeOK, Ends
  <2> QED BY <1>0, <2>1, <2>2, AcksTrueUnchanged DEF SenderSends, receiverVars
<1>4. CASE ReceiverAsks
  <2> DEFINE n == r_pos \div TOSH_DATA_LENGTH
  <2>1. n \in Nat /\ n =< Len(r_file)
    BY <1>0 DEF Gapless
  <2>2. AckTrue(ToS8(n))
    BY <1>0, <2>1, S8Type, FileAssumption DEF AckTrue, S8
  <2>3. rx_packet'["sender"] \in {rx_packet["sender"], [ack |-> ToS8(n)], Invalid}
    BY <1>4, WriteType DEF ReceiverAsks, TypeOK, Ends, Peer
  <2>4. UNCHANGED << r_file, s_ack, s_pc >>
    BY <1>4 DEF ReceiverAsks, senderVars
  <2> QED BY <2>2, <2>3, <2>4 DEF AcksTrue, AckTrue
<1>5. CASE ReceiverStores
  <2>1. r_pkt' \in Chunks
    BY <1>5, ReceiverType DEF TypeOK
  <2>2. Len(r_file') >= Len(r_file) /\ r_file' \in Seq(Chunks)
    BY <1>5, <2>1, StoreGrows DEF ReceiverStores, TypeOK
  <2> QED BY <1>5, <2>2, AcksTrueUnchanged DEF ReceiverStores, read, senderVars
<1> QED
  BY <1>1, <1>2, <1>3, <1>4, <1>5 DEF Next, SenderGoesOn, ReceiverGoesOn

(* Every chunk that recv_file has written, or is about to, came in a       *)
(* packet of its own, and that was a block of the file unless the whole    *)
(* file had been sent.                                                     *)
Unread == IF recv_done["receiver"] THEN 1 ELSE 0

BlocksSent == s_pos < FullBlocks => Len(r_file) + Unread =< s_pos

LEMMA StoreOne ==
  ASSUME r_file \in Seq(Chunks), NEW chunk \in Chunks, Store(chunk)
  PROVE  Len(r_file') =< Len(r_file) + 1
  BY DEF Store

LEMMA BlocksSentStep ==
  ASSUME TypeOK, Gapless, AcksTrue, BlocksSent, [Next]_vars
  PROVE  BlocksSent'
<1>0. /\ Len(r_file) \in Nat /\ s_pos \in Nat /\ FullBlocks \in Nat
      /\ r_file \in Seq(Chunks) /\ LinkTypeOK
  BY FileAssumption DEF TypeOK
<1>1. CASE SenderStarts \/ SenderReads \/ AlarmKills \/ UNCHANGED vars
  <2>1. UNCHANGED << s_pos, r_file >> /\ recv_done'["receiver"] = recv_done["receiver"]
    BY <1>0, <1>1 DEF SenderStarts, SenderReads, read, AlarmKills, vars, deviceVars,
       senderVars, receiverVars, LinkTypeOK
  <2> QED BY <2>1 DEF BlocksSent, Unread
<1>2. CASE SendBlock
  <2>1. r_file' = r_file /\ s_pos' = IF s_pos < FullBlocks THEN s_pos + 1 ELSE s_pos'
    BY <1>2 DEF SendBlock, SenderSends, ReadFile, receiverVars
  <2>2. s_pos >= FullBlocks => s_pos' >= FullBlocks
    BY <1>0, <1>2 DEF SendBlock, SenderSends, ReadFile
  <2>3. CASE s_pos < FullBlocks
    BY <1>0, <2>1, <2>3 DEF BlocksSent, Unread
  <2>4. CASE ~(s_pos < FullBlocks)
    BY <1>0, <1>2, <2>2, <2>4 DEF SendBlock, SenderSends, ReadFile, BlocksSent
  <2> QED BY <2>3, <2>4
<1>3. CASE SendLast
  <2>1. s_pos >= FullBlocks
    BY <1>0, <1>3 DEF SendLast, SenderSends, AcksTrue, BlocksSent, Unread
  <2> QED BY <1>0, <1>3, <2>1 DEF SendLast, SenderSends, ReadFile, BlocksSent
<1>4. CASE ReceiverAsks
  <2>1. UNCHANGED << s_pos, r_file >> /\ recv_done'["receiver"] = recv_done["receiver"]
    BY <1>0, <1>4, WriteType DEF ReceiverAsks, senderVars, Ends
  <2> QED BY <2>1 DEF BlocksSent, Unread
<1>5. CASE ReceiverStores
  <2>1. r_pkt' \in Chunks /\ r_file' \in Seq(Chunks)
    BY <1>5, ReceiverType DEF TypeOK
  <2>2. Len(r_file') \in Nat /\ Len(r_file') =< Len(r_file) + 1
    BY <1>0, <1>5, <2>1, StoreOne DEF ReceiverStores
  <2>3. recv_done["receiver"] /\ ~recv_done'["receiver"] /\ s_pos' = s_pos
    BY <1>0, <1>5 DEF ReceiverStores, read, senderVars, LinkTypeOK
  <2> QED BY <1>0, <2>2, <2>3 DEF BlocksSent, Unread
<1> QED
  BY <1>1, <1>2, <1>3, <1>4, <1>5 DEF Next, SenderGoesOn, ReceiverGoesOn

(* The byte of send_file's request buffer, before it is read into, does    *)
(* not happen to say that all has arrived.                                 *)
RequestUnset == FullBlocks = 0 \/ FullBlocks \notin GarbageAcks

LEMMA CountsInductive == RequestUnset => (Spec => [](TypeOK /\ AcksTrue /\ BlocksSent))
<1> SUFFICES ASSUME RequestUnset PROVE Spec => [](TypeOK /\ AcksTrue /\ BlocksSent)
  OBVIOUS
<1>1. Init => AcksTrue /\ BlocksSent
  BY FileAssumption DEF RequestUnset, Init, LinkInit, AcksTrue, AckTrue, BlocksSent, Unread
<1>2. TypeOK /\ Gapless /\ AcksTrue /\ BlocksSent /\ [Next]_vars => AcksTrue' /\ BlocksSent'
  BY AcksTrueStep, BlocksSentStep
<1> QED BY <1>1, <1>2, TypeInductive, PTL DEF Spec
-----------------------------------------------------------------------------
Countable == FullBlocks =< 127 /\ FullBlocks < DiskBlocks

Empty(n) == ~recv_done[n]

(* Where the turn may be: with recv_file about to ask, in the request, with *)
(* the sender, or in the block.                                            *)
Asking == /\ r_pc = "ask" /\ s_pc = "wait"
          /\ Empty("sender") /\ Empty("receiver") /\ s_pos = Len(r_file)

Asked == /\ r_pc = "wait" /\ s_pc = "wait"
         /\ recv_done["sender"] /\ Empty("receiver") /\ s_pos = Len(r_file)
         /\ rx_packet["sender"] = [ack |-> Len(r_file)]

Answering == /\ r_pc = "wait" /\ s_pc \in {"send", "last"}
             /\ Empty("sender") /\ Empty("receiver") /\ s_pos = Len(r_file)
             /\ s_pc = "last" <=> Len(r_file) = FullBlocks

Answered == /\ r_pc = "wait" /\ s_pc = "wait"
            /\ Empty("sender") /\ recv_done["receiver"]
            /\ Len(r_file) < FullBlocks /\ s_pos = Len(r_file) + 1
            /\ rx_packet["receiver"] = SentChunk(Len(r_file) + 1)

Starting == /\ s_pc = "start" /\ s_pos = 0 /\ r_file = << >> /\ r_pos = 0
            /\ Empty("receiver")
            /\ r_pc = "wait" => recv_done["sender"]
            /\ recv_done["sender"] => rx_packet["sender"] = [ack |-> 0]

LastBlock == /\ s_pc = "done" /\ r_pc = "wait" /\ recv_done["receiver"]
             /\ Len(r_file) = FullBlocks
             /\ rx_packet["receiver"] \in Chunks
             /\ rx_packet["receiver"].len = Remainder
             /\ Remainder > 0 => rx_packet["receiver"] = SentChunk(FullBlocks + 1)

Ended == s_pc = "done" /\ Empty("receiver")

Turn == /\ Len(r_file) =< FullBlocks /\ r_pos = TOSH_DATA_LENGTH * Len(r_file)
        /\ Asking \/ Asked \/ Answering \/ Answered \/ LastBlock

TurnInv == ~lost => FilePrefix /\ (Starting \/ Turn \/ Ended)
-----------------------------------------------------------------------------
(* Storing the chunk that is next in line. *)
LEMMA StoreNext ==
  ASSUME TypeOK, FilePrefix, Countable,
         Len(r_file) =< FullBlocks, r_pos = TOSH_DATA_LENGTH * Len(r_file),
         NEW chunk \in Chunks, Store(chunk),
         chunk.len > 0 => chunk = SentChunk(Len(r_file) + 1)
  PROVE  /\ FilePrefix'
         /\ chunk.len > 0 => /\ Len(r_file') = Len(r_file) + 1
                             /\ r_pos' = r_pos + chunk.len
<1> DEFINE k == r_pos \div TOSH_DATA_LENGTH
<1>1. Len(r_file) \in Nat /\ FullBlocks \in Nat /\ DiskBlocks \in Nat
  BY FileAssumption DEF TypeOK
<1>2. k = Len(r_file) /\ k < DiskBlocks
  BY <1>1 DEF Countable
<1>3. CASE chunk.len = 0
  BY <1>3 DEF Store, FilePrefix, SentChunk
<1>4. CASE chunk.len # 0
  <2>1. chunk.len > 0
    <3>1. \A n \in 0 .. TOSH_DATA_LENGTH : n # 0 => n > 0
      OBVIOUS
    <3>2. chunk.len \in 0 .. TOSH_DATA_LENGTH
      BY DEF Chunks
    <3> QED BY <1>4, <3>1, <3>2, Zenon
  <2>2. r_file' = Append(r_file, chunk) /\ r_pos' = r_pos + chunk.len
    BY <1>1, <1>2, <1>4 DEF Store
  <2>3. r_file \in Seq(Chunks)
    BY DEF TypeOK
  <2>4. /\ Len(r_file') = Len(r_file) + 1
        /\ DOMAIN r_file' = 1 .. Len(r_file) + 1
        /\ \A i \in 1 .. Len(r_file) : r_file'[i] = r_file[i]
        /\ r_file'[Len(r_file) + 1] = chunk
    BY <2>2, <2>3
  <2>5. \A i \in 1 .. Len(r_file) : r_file[i] = SentChunk(i)
    BY <2>3 DEF FilePrefix
  <2>6. \A i \in DOMAIN r_file' : r_file'[i] = SentChunk(i)
    BY <1>1, <2>1, <2>4, <2>5
  <2>7. FilePrefix'
    BY <2>6 DEF FilePrefix, SentChunk
  <2> QED BY <2>1, <2>2, <2>4, <2>7
<1> QED BY <1>3, <1>4
-----------------------------------------------------------------------------
LEMMA Sizes ==
  ASSUME TypeOK
  PROVE  /\ Len(r_file) \in Nat /\ FullBlocks \in Nat /\ s_pos \in Nat /\ r_pos \in Nat
         /\ Remainder \in Nat /\ Remainder =< TOSH_DATA_LENGTH
  BY FileAssumption DEF TypeOK

LEMMA TurnSender ==
  ASSUME TypeOK, Gapless, Countable, TurnInv, ~lost',
         SenderStarts \/ SenderReads \/ SendBlock \/ SendLast
  PROVE  FilePrefix' /\ (Starting \/ Turn \/ Ended)'
<1>0. ~lost /\ LinkTypeOK
  BY WriteType DEF TypeOK, SenderStarts, SenderReads, SendBlock, SendLast,
     SenderSends, read, deviceVars, Ends
<1>1. FilePrefix /\ (Starting \/ Turn \/ Ended)
  BY <1>0 DEF TurnInv
<1>2. UNCHANGED receiverVars
  BY DEF SenderStarts, SenderReads, SendBlock, SendLast, SenderSends
<1>3. FilePrefix'
  BY <1>1, <1>2 DEF receiverVars, FilePrefix, SentChunk
<1>4. CASE SenderStarts
  <2>1. Starting /\ r_pc = "wait"
    BY <1>1, <1>4 DEF SenderStarts, Turn, Ended, Asking, Asked, Answering, Answered, LastBlock
  <2>2. Len(r_file) = 0
    BY <2>1 DEF Starting
  <2>3. Turn'
    BY <1>2, <1>4, <2>1, <2>2, Sizes DEF SenderStarts, Starting, Turn, Asked, Empty,
       deviceVars, receiverVars
  <2> QED BY <1>3, <2>3
<1>5. CASE SenderReads
  <2>1. Turn /\ Asked
    BY <1>1, <1>5 DEF SenderReads, read, Starting, Turn, Ended, Asking, Answering,
       Answered, LastBlock, Empty
  <2>2. Len(r_file) \in S8
    <3>1. Len(r_file) =< FullBlocks /\ FullBlocks =< 127
      BY <2>1 DEF Turn, Countable
    <3>2. \A n \in Nat : n =< FullBlocks => n \in S8
      BY <3>1, FileAssumption DEF S8
    <3> QED BY <3>1, <3>2, Sizes, Zenon
  <2>3. rx_packet["sender"] # Invalid
    BY <2>1, <2>2, FileAssumption DEF Asked, Acks
  <2>4. s_ack' = Len(r_file)
    BY <1>5, <2>1, <2>3 DEF SenderReads, BufferAfterRead, Asked
  <2>5. /\ s_pc' \in {"send", "last"}
        /\ s_pc' = "last" <=> Len(r_file) = FullBlocks
    BY <1>5, <2>4, Sizes DEF SenderReads, AllBlocksAsked
  <2>6. /\ recv_done' = [recv_done EXCEPT !["sender"] = FALSE]
        /\ s_pos' = s_pos
    BY <1>5 DEF SenderReads, read
  <2>7. ~recv_done'["sender"] /\ ~recv_done'["receiver"]
    BY <1>0, <2>1, <2>6 DEF LinkTypeOK, Asked, Empty
  <2>8. Answering'
    BY <1>2, <2>1, <2>5, <2>6, <2>7 DEF receiverVars, Asked, Answering, Empty
  <2> QED BY <1>2, <1>3, <2>1, <2>8 DEF Turn, receiverVars
<1>6. CASE SendBlock \/ SendLast
  <2>1. Turn /\ Answering
    BY <1>1, <1>6 DEF SendBlock, SendLast, SenderSends, Starting, Turn, Ended, Asking,
       Asked, Answered, LastBlock
  <2>2. PICK len, next :
          /\ UNCHANGED << s_ack, kills >> /\ ReadFile
          /\ write("sender", [block |-> s_block', len |-> len])
          /\ s_pc' = next
          /\ \/ s_pc = "send" /\ len = TOSH_DATA_LENGTH /\ next = "wait"
             \/ s_pc = "last" /\ len = Remainder /\ next = "done"
    BY <1>6 DEF SendBlock, SendLast, SenderSends
  <2> DEFINE p == [block |-> s_block', len |-> len]
  <2>3. Arrives("receiver", p)
    BY <1>0, <2>2, NotLost DEF Ends, Peer
  <2>4. /\ ~recv_done'["sender"] /\ recv_done'["receiver"]
        /\ rx_packet'["receiver"] = p
    BY <1>0, <2>1, <2>3 DEF Arrives, LinkTypeOK, Answering, Empty
  <2>5. CASE s_pc = "send"
    <3>1. Len(r_file) < FullBlocks /\ s_pos = Len(r_file)
      BY <2>1, <2>5, Sizes DEF Turn, Answering
    <3>2. s_block' = Len(r_file) /\ s_pos' = Len(r_file) + 1
      BY <2>2, <3>1 DEF ReadFile
    <3>3. p = SentChunk(Len(r_file) + 1)
      BY <2>2, <2>5, <3>1, <3>2, Sizes DEF SentChunk
    <3>4. Answered'
      BY <1>2, <2>1, <2>2, <2>4, <2>5, <3>1, <3>2, <3>3
      DEF Answered, Answering, Empty, receiverVars, SentChunk
    <3> QED BY <1>2, <1>3, <2>1, <3>4 DEF Turn, receiverVars
  <2>6. CASE s_pc = "last"
    <3>1. Len(r_file) = FullBlocks /\ s_pos = FullBlocks
      BY <2>1, <2>6 DEF Answering
    <3>2. Remainder > 0 => s_block' = FullBlocks
      BY <2>2, <3>1 DEF ReadFile
    <3>3. Remainder > 0 => p = SentChunk(FullBlocks + 1)
      BY <2>2, <2>6, <3>2, Sizes DEF SentChunk
    <3>4. p \in Chunks /\ p.len = Remainder
      <4>1. s_block' \in Contents
        BY <2>2, FileAssumption DEF ReadFile, TypeOK, Contents
      <4>2. len \in 0 .. TOSH_DATA_LENGTH /\ len = Remainder
        BY <2>2, <2>6, FileAssumption
      <4> QED BY <4>1, <4>2 DEF Chunks
    <3>5. LastBlock'
      BY <1>2, <2>1, <2>2, <2>4, <2>6, <3>1, <3>3, <3>4
      DEF LastBlock, Answering, receiverVars, SentChunk
    <3> QED BY <1>2, <1>3, <2>1, <3>5 DEF Turn, receiverVars
  <2> QED BY <2>2, <2>5, <2>6
<1> QED BY <1>4, <1>5, <1>6

LEMMA TurnReceiver ==
  ASSUME TypeOK, Gapless, Countable, TurnInv, ~lost',
         ReceiverAsks \/ ReceiverStores \/ AlarmKills
  PROVE  FilePrefix' /\ (Starting \/ Turn \/ Ended)'
<1>0. ~lost /\ LinkTypeOK
  BY WriteType DEF TypeOK, ReceiverAsks, ReceiverStores, AlarmKills, read, deviceVars, Ends
<1>1. FilePrefix /\ (Starting \/ Turn \/ Ended)
  BY <1>0 DEF TurnInv
<1>2. UNCHANGED senderVars
  BY DEF ReceiverAsks, ReceiverStores, AlarmKills
<1>3. CASE ReceiverAsks
  <2> DEFINE n == r_pos \div TOSH_DATA_LENGTH
  <2>1. Arrives("sender", [ack |-> ToS8(n)])
    BY <1>0, <1>3, NotLost DEF ReceiverAsks, Ends, Peer
  <2>2. /\ recv_done'["sender"] /\ recv_done'["receiver"] = recv_done["receiver"]
        /\ rx_packet'["sender"] = [ack |-> ToS8(n)]
    BY <1>0, <2>1 DEF Arrives, LinkTypeOK
  <2>3. r_pc = "ask" /\ r_pc' = "wait" /\ UNCHANGED << r_pos, r_file >>
    BY <1>3 DEF ReceiverAsks
  <2>4. FilePrefix'
    BY <1>1, <2>3 DEF FilePrefix, SentChunk
  <2>5. CASE Starting
    <3>1. ToS8(n) = 0
      BY <2>5 DEF Starting, ToS8
    <3> QED BY <1>2, <2>2, <2>3, <2>4, <2>5, <3>1 DEF Starting, Empty, senderVars
  <2>6. CASE Turn
    <3>1. Asking
      BY <2>3, <2>6 DEF Turn, Asked, Answering, Answered, LastBlock
    <3>2. Len(r_file) =< 127 /\ r_pos = TOSH_DATA_LENGTH * Len(r_file)
      BY <2>6, Sizes DEF Turn, Countable
    <3>3. n = Len(r_file)
      BY <3>2, Sizes
    <3>4. ToS8(n) = Len(r_file)
      BY <3>2, <3>3, Sizes DEF ToS8
    <3>5. Asked'
      BY <1>2, <2>2, <2>3, <3>1, <3>4 DEF Asked, Asking, Empty, senderVars
    <3> QED BY <2>3, <2>4, <2>6, <3>5 DEF Turn
  <2>7. CASE Ended
    BY <1>2, <2>2, <2>4, <2>7 DEF Ended, Empty, senderVars
  <2> QED BY <1>1, <2>5, <2>6, <2>7
<1>4. CASE ReceiverStores
  <2>1. recv_done["receiver"] /\ ~recv_done'["receiver"]
    BY <1>0, <1>4 DEF ReceiverStores, read, LinkTypeOK
  <2>2. Turn /\ (Answered \/ LastBlock)
    BY <1>1, <2>1 DEF Starting, Turn, Ended, Asking, Asked, Answering, Empty
  <2>3. rx_packet["receiver"] \in Chunks
    <3>1. \A n \in Nat : n < FullBlocks => SentChunk(n + 1) \in Chunks
      BY FileAssumption DEF SentChunk, Chunks, Contents
    <3> QED BY <2>2, <3>1, Sizes DEF Answered, LastBlock
  <2>4. r_pkt' = rx_packet["receiver"] /\ Store(r_pkt')
    BY <1>4, <2>3, FileAssumption DEF ReceiverStores, BufferAfterRead
  <2>5. r_pkt'.len > 0 => r_pkt' = SentChunk(Len(r_file) + 1)
    BY <2>2, <2>4 DEF Answered, LastBlock
  <2>6. /\ FilePrefix'
        /\ r_pkt'.len > 0 => /\ Len(r_file') = Len(r_file) + 1
                             /\ r_pos' = r_pos + r_pkt'.len
    BY <1>1, <2>2, <2>3, <2>4, <2>5, StoreNext DEF Turn
  <2>7. CASE Answered
    <3>1. r_pkt'.len = TOSH_DATA_LENGTH
      BY <2>4, <2>7, Sizes DEF Answered, SentChunk
    <3>2. /\ r_pc' = "ask" /\ recv_done'["sender"] = recv_done["sender"]
      BY <1>0, <1>4 DEF ReceiverStores, read, LinkTypeOK
    <3>3. /\ Len(r_file') =< FullBlocks /\ r_pos' = TOSH_DATA_LENGTH * Len(r_file')
          /\ s_pos' = Len(r_file')
      BY <1>2, <2>2, <2>6, <2>7, <3>1, Sizes DEF Turn, Answered, senderVars
    <3>4. Asking'
      BY <1>2, <2>1, <2>7, <3>2, <3>3 DEF Asking, Answered, Empty, senderVars
    <3> QED BY <2>6, <3>3, <3>4 DEF Turn
  <2>8. CASE LastBlock
    BY <1>2, <2>1, <2>6, <2>8 DEF LastBlock, Ended, Empty, senderVars
  <2> QED BY <2>2, <2>7, <2>8
<1>5. CASE AlarmKills
  <2>1. Starting \/ Ended
    BY <1>1, <1>5 DEF AlarmKills, Quiet, Turn, Asking, Asked, Answering, Answered, LastBlock,
       Empty
  <2>2. UNCHANGED << rx_packet, recv_done, r_file >> /\ r_pc' = "ask" /\ r_pos' = 0
    BY <1>5 DEF AlarmKills, deviceVars
  <2>3. FilePrefix'
    BY <1>1, <2>2 DEF FilePrefix, SentChunk
  <2> QED BY <1>2, <2>1, <2>2, <2>3 DEF Starting, Ended, Empty, senderVars
<1> QED BY <1>3, <1>4, <1>5

LEMMA TurnStep ==
  ASSUME TypeOK, Gapless, Countable, TurnInv, [Next]_vars
  PROVE  TurnInv'
<1>1. CASE UNCHANGED vars
  BY <1>1 DEF vars, deviceVars, senderVars, receiverVars, TurnInv, FilePrefix, SentChunk,
     Starting, Turn, Ended, Asking, Asked, Answering, Answered, LastBlock, Empty
<1> QED BY <1>1, TurnSender, TurnReceiver DEF TurnInv, Next, SenderGoesOn, ReceiverGoesOn

LEMMA TurnInductive == Countable => (Spec => [](TypeOK /\ Gapless /\ TurnInv))
<1> SUFFICES ASSUME Countable PROVE Spec => [](TypeOK /\ Gapless /\ TurnInv)
  OBVIOUS
<1>1. Init => TurnInv
  BY DEF Init, LinkInit, TurnInv, FilePrefix, Starting, Empty
<1>2. TypeOK /\ Gapless /\ TurnInv /\ [Next]_vars => TurnInv'
  BY TurnStep
<1> QED BY <1>1, <1>2, TypeInductive, PTL DEF Spec

(* The received file is a prefix of the sent one until a packet is lost. *)
THEOREM FileInOrder == Countable => (Spec => []PrefixUnlessLost)
<1>1. TurnInv => PrefixUnlessLost
  BY DEF TurnInv, PrefixUnlessLost
<1> QED BY <1>1, TurnInductive, PTL

(* The loop of send_file ends only when every whole block has been sent    *)
(* and recv_file has written as many, whatever is lost and however often   *)
(* recv_file is started again; and until a packet is lost each block is in *)
(* its place.                                                              *)
THEOREM FileDelivered ==
  Countable /\ RequestUnset => (Spec => []DoneMeansDelivered)
<1> SUFFICES ASSUME Countable, RequestUnset PROVE Spec => []DoneMeansDelivered
  OBVIOUS
<1>1. TypeOK /\ AcksTrue /\ BlocksSent /\ TurnInv => DoneMeansDelivered
  <2> SUFFICES ASSUME TypeOK, AcksTrue, BlocksSent, TurnInv, s_pc \in {"last", "done"}
               PROVE  s_pos >= FullBlocks /\ Len(r_file) >= FullBlocks /\ (lost \/ InPlace)
    BY DEF DoneMeansDelivered
  <2>0. Len(r_file) \in Nat /\ s_pos \in Nat /\ FullBlocks \in Nat /\ r_file \in Seq(Chunks)
    BY FileAssumption DEF TypeOK
  <2>1. Len(r_file) >= FullBlocks
    BY DEF AcksTrue
  <2>2. s_pos >= FullBlocks
    BY <2>0, <2>1 DEF BlocksSent, Unread
  <2>3. ASSUME ~lost PROVE InPlace
    <3>1. FilePrefix
      BY <2>3 DEF TurnInv
    <3>2. \A k \in 1 .. FullBlocks : k \in DOMAIN r_file
      BY <2>0, <2>1
    <3> QED BY <3>1, <3>2 DEF FilePrefix, InPlace
  <2> QED BY <2>1, <2>2, <2>3
<1> QED BY <1>1, CountsInductive, TurnInductive, PTL

(* Until then no block reaches a device whose last block is still unread. *)
THEOREM FileNotOverwritten == Countable => (Spec => BlockNotOverwritten)
<1> DEFINE Kept == recv_done["receiver"] /\ ~lost
                     => rx_packet'["receiver"] = rx_packet["receiver"]
<1>1. TypeOK /\ Gapless /\ TurnInv /\ [Next]_vars => [Kept]_vars
  <2> SUFFICES ASSUME TypeOK, TurnInv, Next, recv_done["receiver"], ~lost
               PROVE  rx_packet'["receiver"] = rx_packet["receiver"]
    OBVIOUS
  <2>1. Starting \/ Turn \/ Ended
    BY DEF TurnInv
  <2>2. s_pc \notin {"send", "last"}
    BY <2>1 DEF Starting, Turn, Ended, Asking, Asked, Answering, Answered, LastBlock, Empty
  <2>3. CASE ReceiverAsks
    BY <2>3, WriteType DEF ReceiverAsks, TypeOK, Ends
  <2> QED
    BY <2>2, <2>3 DEF Next, SenderGoesOn, ReceiverGoesOn, SenderStarts, SenderReads,
       SendBlock, SendLast, SenderSends, ReceiverStores, AlarmKills, read, deviceVars
<1> QED BY <1>1, TurnInductive, PTL DEF Spec, BlockNotOverwritten
=============================================================================
