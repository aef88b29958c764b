--------------------------- MODULE TransmitProofs ---------------------------
(***************************************************************************)
(* Theorems about TransmitPrograms, for files of every length, any number  *)
(* of faults and any number of restarts.                                   *)
(***************************************************************************)
EXTENDS TransmitPrograms, TLAPS

USE DEF TOSH_DATA_LENGTH, Stale, Stop, Go

Chunks == [data : -2 .. FullBlocks, len : 0 .. TOSH_DATA_LENGTH]

FileTypes ==
  /\ s_pos \in Nat /\ s_data \in -2 .. FullBlocks
  /\ \E f : rx_packet = [n \in {"sender", "receiver"} |-> f[n]]
  /\ rx_packet["receiver"] \in Packets \cup {Invalid}
  /\ r_pkt \in Packets /\ r_pos \in Nat /\ r_file \in Seq(Chunks)

(* The sender never goes back, so the newest block is the highest: that of *)
(* send_pkt is at least as high as any in the mailbox, in recv_pkt or in   *)
(* the file, the mailbox as recv_pkt, and recv_pkt as the file.  A         *)
(* receiver that stores does so at the end of its file.                    *)
NotAbove(bound) == \A k \in 1 .. Len(r_file) : r_file[k].data =< bound

HighestInv ==
  /\ s_pc # "done" => /\ Stale =< s_data /\ s_data < s_pos
                      /\ NotAbove(s_data) /\ r_pkt.data =< s_data
                      /\ rx_packet["receiver"] # Invalid => rx_packet["receiver"].data =< s_data
  /\ rx_packet["receiver"] # Invalid /\ rx_packet["receiver"].data >= 0 =>
       NotAbove(rx_packet["receiver"].data) /\ r_pkt.data =< rx_packet["receiver"].data
  /\ r_pkt.data >= 0 => NotAbove(r_pkt.data)
  /\ r_pc \in {"read", "ack"} => r_pos = Len(r_file)

NoneBefore == \A k, l \in 1 .. Len(r_file) : k < l /\ r_file[l].data >= 0 => r_file[k].data =< r_file[l].data

OrderInv == InOrderPrograms => FileTypes /\ HighestInv /\ NoneBefore

LEMMA OrderInit == Init => OrderInv
<1> SUFFICES ASSUME Init PROVE OrderInv
  OBVIOUS
<1> USE TransmitAssumption DEF TransmitAssumption
<1>1. FileTypes
  BY DEF Init, LinkInit, FileTypes, UnsetPackets, Packets, Chunks
<1>2. HighestInv /\ NoneBefore
  BY <1>1 DEF Init, LinkInit, FileTypes, HighestInv, NoneBefore, NotAbove, UnsetPackets
<1> QED BY <1>1, <1>2 DEF OrderInv
-----------------------------------------------------------------------------
LEMMA Written ==
  ASSUME FileTypes, NEW p, write("sender", p)
  PROVE  /\ \E f : rx_packet' = [n \in {"sender", "receiver"} |-> f[n]]
         /\ rx_packet'["receiver"] \in {rx_packet["receiver"], p, Invalid}
         /\ rx_packet'["sender"] = rx_packet["sender"]
  BY DEF FileTypes, write, Arrives, Peer

LEMMA Requested ==
  ASSUME FileTypes, NEW q, write("receiver", q)
  PROVE  /\ \E f : rx_packet' = [n \in {"sender", "receiver"} |-> f[n]]
         /\ rx_packet'["receiver"] = rx_packet["receiver"]
  BY DEF FileTypes, write, Arrives, Peer

(* A packet that the sender writes is the highest so far.                  *)
LEMMA SendsHighest ==
  ASSUME FileTypes, HighestInv, NoneBefore, NEW len \in 0 .. TOSH_DATA_LENGTH, NEW next,
         s_pc # "done", SendPacket(s_pos, len, next)
  PROVE  FileTypes' /\ HighestInv' /\ NoneBefore'
<1> USE TransmitAssumption DEF TransmitAssumption
<1> DEFINE p == [data |-> s_data', len |-> len, group |-> Group]
<1>1. /\ write("sender", p) /\ s_pos' = s_pos + 1 /\ s_data' = DataAt(s_pos)
      /\ UNCHANGED << r_pc, r_pos, r_pkt, r_file >>
  BY DEF SendPacket, receiverVars
<1>2. s_data' = s_data \/ (s_data' = s_pos /\ s_pos \in 0 .. FullBlocks)
  <2>1. s_pos \in Nat /\ FullBlocks \in Nat
    BY DEF FileTypes
  <2>2. CASE s_pos < FullBlocks \/ (s_pos = FullBlocks /\ Remainder > 0)
    BY <1>1, <2>1, <2>2 DEF DataAt
  <2>3. CASE ~(s_pos < FullBlocks \/ (s_pos = FullBlocks /\ Remainder > 0))
    BY <1>1, <2>3 DEF DataAt
  <2> QED BY <2>2, <2>3
<1>3. /\ s_data' \in -2 .. FullBlocks /\ s_data =< s_data' /\ Stale =< s_data' /\ s_data' < s_pos'
  BY <1>1, <1>2 DEF FileTypes, HighestInv
<1>4. p \in Packets /\ p.data = s_data' /\ p # Invalid
  BY <1>3 DEF Packets, Group
<1> HIDE DEF p
<1>5. /\ \E f : rx_packet' = [n \in {"sender", "receiver"} |-> f[n]]
      /\ rx_packet'["receiver"] \in {rx_packet["receiver"], p, Invalid}
  BY <1>1, Written
<1>6. FileTypes'
  BY <1>1, <1>3, <1>4, <1>5 DEF FileTypes
<1>7. (NotAbove(s_data))' /\ r_pkt' = r_pkt /\ r_pkt.data =< s_data'
  <2>1. \A k \in 1 .. Len(r_file) : r_file[k].data \in Int
    <3>1. \A k \in 1 .. Len(r_file) : r_file[k] \in Chunks
      BY DEF FileTypes
    <3>2. \A c \in Chunks : c.data \in Int
      BY DEF Chunks
    <3> QED BY <3>1, <3>2
  <2>2. r_pkt.data \in Int /\ s_data \in Int /\ s_data' \in Int
    BY <1>3 DEF FileTypes, Packets
  <2>3. NotAbove(s_data) /\ r_pkt.data =< s_data
    BY DEF HighestInv
  <2>4. \A k \in 1 .. Len(r_file) : r_file[k].data =< s_data'
    BY <1>3, <2>1, <2>2, <2>3 DEF NotAbove
  <2> QED BY <1>1, <1>3, <2>2, <2>3, <2>4 DEF NotAbove
<1>8. HighestInv'
  <2>1. rx_packet["receiver"] # Invalid => rx_packet["receiver"].data =< s_data'
    BY <1>3 DEF FileTypes, HighestInv, Packets
  <2> QED BY <1>1, <1>3, <1>4, <1>5, <1>7, <2>1 DEF HighestInv, NotAbove
<1> QED BY <1>1, <1>6, <1>8 DEF NoneBefore

(* What the receiver reads is at least as high as its file.                *)
LEMMA ReadsHighest ==
  ASSUME FileTypes, HighestInv, ReadPacket
  PROVE  /\ UNCHANGED << rx_packet, s_pc, s_pos, s_data >>
         /\ r_pkt' \in Packets
         /\ s_pc # "done" => r_pkt'.data =< s_data
         /\ rx_packet["receiver"] # Invalid /\ rx_packet["receiver"].data >= 0 =>
              r_pkt'.data =< rx_packet["receiver"].data
         /\ r_pkt'.data >= 0 => NotAbove(r_pkt'.data)
<1>1. /\ r_pkt' = IF rx_packet["receiver"] = Invalid THEN r_pkt ELSE rx_packet["receiver"]
      /\ UNCHANGED << rx_packet, s_pc, s_pos, s_data >>
  BY DEF ReadPacket, read, BufferAfterRead, senderVars
<1>2. r_pkt' \in Packets
  BY <1>1 DEF FileTypes
<1>3. CASE rx_packet["receiver"] = Invalid
  BY <1>1, <1>2, <1>3 DEF FileTypes, HighestInv
<1>4. CASE rx_packet["receiver"] # Invalid
  BY <1>1, <1>2, <1>4 DEF FileTypes, HighestInv, Packets
<1> QED BY <1>3, <1>4

(* It is stored at the end of the file. *)
LEMMA StoresHighest ==
  ASSUME FileTypes, HighestInv, NoneBefore, r_pos = Len(r_file), ReadPacket, Store(r_pkt')
  PROVE  FileTypes' /\ HighestInv' /\ NoneBefore'
<1>1. /\ UNCHANGED << rx_packet, s_pc, s_pos, s_data >>
      /\ r_pkt' \in Packets
      /\ s_pc # "done" => r_pkt'.data =< s_data
      /\ rx_packet["receiver"] # Invalid /\ rx_packet["receiver"].data >= 0 =>
           r_pkt'.data =< rx_packet["receiver"].data
      /\ r_pkt'.data >= 0 => NotAbove(r_pkt'.data)
  BY ReadsHighest
<1> DEFINE chunk == [data |-> r_pkt'.data, len |-> r_pkt'.len]
<1>2. chunk \in Chunks /\ chunk.data = r_pkt'.data
  BY <1>1 DEF Chunks, Packets
<1>3. \/ (r_file' = r_file /\ r_pos' = r_pos)
      \/ (r_file' = Append(r_file, chunk) /\ r_pos' = r_pos + 1)
  BY DEF Store
<1> HIDE DEF chunk
<1>4. FileTypes' /\ r_pos' = Len(r_file')
  <2>1. r_file \in Seq(Chunks) /\ r_pos \in Nat
    BY DEF FileTypes
  <2>2. r_file' \in Seq(Chunks) /\ r_pos' \in Nat /\ r_pos' = Len(r_file')
    BY <1>2, <1>3, <2>1
  <2> QED BY <1>1, <2>2 DEF FileTypes
<1>5. \A k \in 1 .. Len(r_file') : \/ (k \in 1 .. Len(r_file) /\ r_file'[k] = r_file[k])
                                  \/ (k = Len(r_file) + 1 /\ r_file'[k] = chunk)
  <2>1. r_file \in Seq(Chunks)
    BY DEF FileTypes
  <2>2. CASE r_file' = r_file
    BY <2>2
  <2>3. CASE r_file' = Append(r_file, chunk)
    BY <1>2, <2>1, <2>3
  <2> QED BY <1>3, <2>2, <2>3
<1>6. ASSUME NEW bound \in Int, NotAbove(bound), r_pkt'.data =< bound
      PROVE  \A k \in 1 .. Len(r_file') : r_file'[k].data =< bound
  BY <1>2, <1>5, <1>6 DEF NotAbove
<1>7. /\ r_pkt'.data \in Int /\ s_data \in Int
      /\ rx_packet["receiver"] # Invalid => rx_packet["receiver"].data \in Int
  BY <1>1 DEF FileTypes, Packets
<1>8. HighestInv'
  <2>1. s_pc # "done" => \A k \in 1 .. Len(r_file') : r_file'[k].data =< s_data
    BY <1>1, <1>6, <1>7 DEF HighestInv
  <2>2. rx_packet["receiver"] # Invalid /\ rx_packet["receiver"].data >= 0 =>
          \A k \in 1 .. Len(r_file') : r_file'[k].data =< rx_packet["receiver"].data
    BY <1>1, <1>6, <1>7 DEF HighestInv
  <2>3. r_pkt'.data >= 0 => \A k \in 1 .. Len(r_file') : r_file'[k].data =< r_pkt'.data
    BY <1>1, <1>6, <1>7
  <2> QED BY <1>1, <1>4, <2>1, <2>2, <2>3 DEF HighestInv, NotAbove
<1>9. NoneBefore'
  <2> SUFFICES ASSUME NEW k \in 1 .. Len(r_file'), NEW l \in 1 .. Len(r_file'), k < l, r_file'[l].data >= 0
               PROVE  r_file'[k].data =< r_file'[l].data
    BY DEF NoneBefore
  <2>1. k \in 1 .. Len(r_file) /\ r_file'[k] = r_file[k]
    BY <1>4, <1>5 DEF FileTypes
  <2>2. CASE l \in 1 .. Len(r_file) /\ r_file'[l] = r_file[l]
    BY <2>1, <2>2 DEF NoneBefore
  <2>3. CASE r_file'[l] = chunk
    BY <1>1, <1>2, <2>1, <2>3 DEF NotAbove
  <2> QED BY <1>5, <2>2, <2>3
<1> QED BY <1>4, <1>8, <1>9

(* Every other step leaves the file, and passes it on as it is.            *)
LEMMA OthersKeep ==
  ASSUME FileTypes, HighestInv, NoneBefore, FileTypes',
         UNCHANGED << s_data, s_pos, r_file >>,
         s_pc # "done" \/ s_pc' = "done",
         rx_packet'["receiver"] = rx_packet["receiver"],
         r_pkt' = r_pkt \/ r_pkt'.data = Stale,
         r_pc' \in {"read", "ack"} => r_pos' = Len(r_file)
  PROVE  HighestInv' /\ NoneBefore'
<1>1. HighestInv'
  BY DEF FileTypes, Packets, HighestInv, NotAbove
<1> QED BY <1>1 DEF NoneBefore

LEMMA OrderStep == OrderInv /\ [Next]_vars => OrderInv'
<1> SUFFICES ASSUME OrderInv, [Next]_vars, InOrderPrograms' PROVE FileTypes' /\ HighestInv' /\ NoneBefore'
  BY DEF OrderInv
<1>1. program' = program
  BY DEF Next, SenderStarts, SenderGoesOn, ReceiverGoesOn, AlarmKills, SimpleSend, SimpleAcked, SimpleLast,
         SimpleLastAcked, ResumeableAsked, ResumeableSend, ResumeableLast, AdvanceAsked, AdvanceSend, AdvanceLast,
         SendStop, SendPacket, ReadRequest, SimpleRead, SimpleAck, Ask, ResumeableRead, AdvanceRead, ReadPacket,
         Answer, vars
<1>2. InOrderPrograms /\ FileTypes /\ HighestInv /\ NoneBefore
  BY <1>1 DEF OrderInv, InOrderPrograms
<1>3. program # "advance"
  BY <1>2 DEF InOrderPrograms
<1>4. Remainder \in 0 .. TOSH_DATA_LENGTH /\ FullBlocks \in Nat
  BY TransmitAssumption DEF TransmitAssumption
<1>5. CASE SimpleSend \/ SimpleLast \/ ResumeableSend \/ ResumeableLast
  BY <1>2, <1>4, <1>5, SendsHighest DEF SimpleSend, SimpleLast, ResumeableSend, ResumeableLast
<1>6. ASSUME ReadPacket, r_pc = "read", Store(r_pkt') PROVE FileTypes' /\ HighestInv' /\ NoneBefore'
  BY <1>2, <1>6, StoresHighest DEF HighestInv
<1>7. ASSUME ReadPacket, r_pc' \notin {"read", "ack"}, UNCHANGED << r_pos, r_file >>
      PROVE  FileTypes' /\ HighestInv' /\ NoneBefore'
  <2>1. FileTypes'
    BY <1>2, <1>7, ReadsHighest DEF FileTypes
  <2>2. HighestInv'
    BY <1>2, <1>7, <2>1, ReadsHighest DEF HighestInv, NotAbove
  <2> QED BY <1>2, <1>7, <2>1, <2>2 DEF NoneBefore
<1>8. CASE SimpleRead \/ ResumeableRead
  BY <1>6, <1>7, <1>8 DEF SimpleRead, ResumeableRead
<1>9. CASE SimpleAcked \/ SimpleLastAcked \/ ResumeableAsked
  <2>1. /\ UNCHANGED << rx_packet, s_pos, s_data, receiverVars >> /\ s_pc # "done"
    BY <1>9 DEF SimpleAcked, SimpleLastAcked, ResumeableAsked, ReadRequest, read
  <2>2. FileTypes'
    BY <1>2, <2>1 DEF FileTypes, receiverVars
  <2> QED BY <1>2, <2>1, <2>2, OthersKeep DEF HighestInv, receiverVars
<1>10. CASE SenderStarts
  <2>1. /\ UNCHANGED << rx_packet, s_pos, s_data, receiverVars >> /\ s_pc # "done"
    BY <1>10 DEF SenderStarts, deviceVars
  <2>2. FileTypes'
    BY <1>2, <2>1 DEF FileTypes, receiverVars
  <2> QED BY <1>2, <2>1, <2>2, OthersKeep DEF HighestInv, receiverVars
<1>11. CASE SendStop
  <2> DEFINE p == [data |-> Stop, len |-> 9, group |-> Group]
  <2>1. /\ write("sender", p) /\ s_pc' = "done" /\ s_data' = Stop
        /\ UNCHANGED << s_pos, receiverVars >>
    BY <1>11 DEF SendStop
  <2>2. p \in Packets /\ p.data = Stop
    BY <1>4 DEF Packets, Group
  <2> HIDE DEF p
  <2>3. /\ \E f : rx_packet' = [n \in {"sender", "receiver"} |-> f[n]]
        /\ rx_packet'["receiver"] \in {rx_packet["receiver"], p, Invalid}
    BY <1>2, <2>1, Written
  <2>4. FileTypes'
    BY <1>2, <1>4, <2>1, <2>2, <2>3 DEF FileTypes, receiverVars
  <2>5. HighestInv'
    BY <1>2, <2>1, <2>2, <2>3 DEF HighestInv, NotAbove, receiverVars
  <2> QED BY <1>2, <2>1, <2>4, <2>5 DEF NoneBefore, receiverVars
<1>12. ASSUME NEW q, NEW next, Answer(q, next), r_pos' \in Nat, next \in {"read", "ack"} => r_pos' = Len(r_file)
       PROVE  FileTypes' /\ HighestInv' /\ NoneBefore'
  <2>1. /\ write("receiver", [req |-> q]) /\ r_pc' = next
        /\ UNCHANGED << s_pc, s_pos, s_data, r_pkt, r_file >>
    BY <1>12 DEF Answer, senderVars
  <2>2. /\ \E f : rx_packet' = [n \in {"sender", "receiver"} |-> f[n]]
        /\ rx_packet'["receiver"] = rx_packet["receiver"]
    BY <1>2, <2>1, Requested
  <2>3. FileTypes'
    BY <1>2, <1>12, <2>1, <2>2 DEF FileTypes
  <2> QED BY <1>2, <1>12, <2>1, <2>2, <2>3, OthersKeep
<1>13. CASE SimpleAck
  BY <1>2, <1>12, <1>13 DEF SimpleAck, HighestInv, FileTypes
<1>14. CASE Ask
  <2>1. PICK q : Answer(q, "read") /\ r_pos' = Len(r_file)
    BY <1>14 DEF Ask
  <2> QED BY <1>2, <1>12, <2>1 DEF FileTypes
<1>15. CASE AlarmKills
  <2>1. /\ r_pkt' \in Packets /\ r_pkt'.data = Stale /\ r_pos' = 0 /\ r_pc' = "ask"
        /\ UNCHANGED << rx_packet, s_pc, s_pos, s_data, r_file >>
    BY <1>4, <1>15 DEF AlarmKills, UnsetPackets, Packets, deviceVars, senderVars
  <2>2. FileTypes'
    BY <1>2, <2>1 DEF FileTypes
  <2> QED BY <1>2, <2>1, <2>2, OthersKeep
<1>16. CASE UNCHANGED vars
  <2>1. UNCHANGED << rx_packet, s_pc, s_pos, s_data, r_pc, r_pos, r_pkt, r_file >>
    BY <1>16 DEF vars, deviceVars, senderVars, receiverVars
  <2>2. FileTypes'
    BY <1>2, <2>1 DEF FileTypes
  <2> QED BY <1>2, <2>1, <2>2, OthersKeep DEF HighestInv
<1>17. ~(AdvanceAsked \/ AdvanceSend \/ AdvanceLast \/ AdvanceRead)
  BY <1>3 DEF AdvanceAsked, AdvanceSend, AdvanceLast, AdvanceRead
<1> QED BY <1>5, <1>8, <1>9, <1>10, <1>11, <1>13, <1>14, <1>15, <1>16, <1>17 DEF Next, SenderGoesOn, ReceiverGoesOn

(* THEOREM: whatever is lost or garbled and however often the receiver is  *)
(* restarted, no block stands before one that was sent earlier             *)
(* (send_file_simple.c, send_file_resumeable.c and their receivers).       *)
THEOREM BlocksNeverGoBack == Spec => []NeverGoesBack
<1>1. OrderInv => NeverGoesBack
  <2>1. FileTypes => DOMAIN r_file = 1 .. Len(r_file)
    BY DEF FileTypes
  <2> QED BY <2>1 DEF OrderInv, NoneBefore, NeverGoesBack
<1> QED BY <1>1, OrderInit, OrderStep, PTL DEF Spec
-----------------------------------------------------------------------------
(* As long as no packet is lost the two programs take turns.  The turn is  *)
(* in one place: with the receiver about to acknowledge or ask, in the     *)
(* request, with the sender, or in the block; file and sender's position   *)
(* agree accordingly.                                                      *)
RequestOut == recv_done["sender"]
BlockOut == recv_done["receiver"]
Silent == ~RequestOut /\ ~BlockOut

Filled(n) == /\ Len(r_file) = n
             /\ \A k \in 1 .. Len(r_file) : k =< FullBlocks => r_file[k] = FullBlock(k)

Carries(pos) == /\ rx_packet["receiver"].data = pos
                /\ rx_packet["receiver"].len = TOSH_DATA_LENGTH

NextPc(pc) == s_pc = IF s_pos < FullBlocks THEN pc ELSE "last"

StopOut == s_pc = "done" /\ BlockOut /\ rx_packet["receiver"].data = Stop

(* simple: the sender is not started; is about to send; a block is out;    *)
(* it is acknowledged; the same for the last one; the stop code is sent.   *)
Starting == s_pc = "start" /\ r_pc = "read" /\ Silent /\ s_pos = 0 /\ Filled(0)
Sending == NextPc("send") /\ r_pc = "read" /\ Silent /\ s_pos =< FullBlocks /\ Filled(s_pos)
Sent == /\ s_pc = "ack" /\ r_pc = "read" /\ BlockOut /\ ~RequestOut
        /\ s_pos > 0 /\ s_pos =< FullBlocks /\ Filled(s_pos - 1) /\ Carries(s_pos - 1)
Acking == /\ s_pc = "ack" /\ ~BlockOut /\ s_pos =< FullBlocks /\ Filled(s_pos)
          /\ r_pc = IF RequestOut THEN "read" ELSE "ack"
LastSent == /\ s_pc = "last_ack" /\ r_pc = "read" /\ BlockOut /\ ~RequestOut /\ Filled(FullBlocks)
            /\ rx_packet["receiver"].len = Remainder /\ rx_packet["receiver"].data # Stop
            /\ Remainder > 0 => rx_packet["receiver"].data = FullBlocks
LastAcking == /\ s_pc = "last_ack" /\ ~BlockOut /\ r_file = WholeFile
              /\ r_pc = IF RequestOut THEN "read" ELSE "ack"
Stopping == s_pc = "stop" /\ r_pc = "read" /\ Silent /\ r_file = WholeFile
Stopped == StopOut /\ r_pc = "read" /\ r_file = WholeFile
Ended == s_pc = "done" /\ r_pc = "done" /\ r_file = WholeFile

SimpleTurn == \/ Starting \/ Sending \/ Sent \/ Acking \/ LastSent \/ LastAcking
              \/ Stopping \/ Stopped \/ Ended

(* resumeable: the sender is not started; the receiver is to ask or has    *)
(* asked; the sender is about to send; a block is out; the last packet and *)
(* the stop code, which may overtake it.                                   *)
GoOut == RequestOut /\ rx_packet["sender"] = [req |-> Go]
InGroup == rx_packet["receiver"].group = 7

GoStarting == /\ s_pc = "start" /\ r_pc \in {"ask", "read"} /\ ~BlockOut /\ s_pos = 0 /\ Filled(0)
              /\ r_pc = "read" => RequestOut
              /\ RequestOut => GoOut
GoAsking == /\ s_pc = "wait" /\ ~BlockOut /\ s_pos =< FullBlocks /\ Filled(s_pos)
            /\ \/ r_pc = "ask" /\ ~RequestOut
               \/ r_pc = "read" /\ GoOut
GoSending == NextPc("send") /\ r_pc = "read" /\ Silent /\ s_pos =< FullBlocks /\ Filled(s_pos)
GoSent == /\ s_pc = "wait" /\ r_pc = "read" /\ BlockOut /\ ~RequestOut
          /\ s_pos > 0 /\ s_pos =< FullBlocks /\ Filled(s_pos - 1) /\ Carries(s_pos - 1) /\ InGroup
GoLast == /\ s_pc = "stop" /\ r_pc \in {"ask", "read"} /\ Filled(FullBlocks)
          /\ BlockOut => rx_packet["receiver"].len = 0 /\ rx_packet["receiver"].data # Stop /\ InGroup
GoStopped == StopOut /\ r_pc \in {"ask", "read"} /\ Filled(FullBlocks) /\ InGroup
GoEnded == s_pc = "done" /\ r_pc = "done" /\ Len(r_file) >= FullBlocks /\ Filled(Len(r_file))

ResumeableTurn == \/ GoStarting \/ GoAsking \/ GoSending \/ GoSent
                  \/ GoLast \/ GoStopped \/ GoEnded

TurnInv ==
  /\ recv_done \in [{"sender", "receiver"} -> BOOLEAN]
  /\ InOrderPrograms /\ ~lost =>
       /\ BlockOut => rx_packet["receiver"] # Invalid
       /\ program = "simple" => SimpleTurn
       /\ program = "resumeable" => ResumeableTurn

LEMMA TurnInit == Init => TurnInv
<1> SUFFICES ASSUME Init PROVE TurnInv
  OBVIOUS
<1> USE TransmitAssumption DEF TransmitAssumption
<1>1. recv_done = [n \in {"sender", "receiver"} |-> FALSE] /\ ~BlockOut /\ ~RequestOut
  BY DEF Init, LinkInit, BlockOut, RequestOut
<1>2. Filled(0)
  BY DEF Init, Filled
<1>3. program = "simple" => SimpleTurn
  BY <1>1, <1>2 DEF Init, SimpleTurn, Starting, Silent
<1>4. program = "resumeable" => ResumeableTurn
  BY <1>1, <1>2 DEF Init, ResumeableTurn, GoStarting
<1> QED BY <1>1, <1>3, <1>4 DEF TurnInv

(* The steps of the device when nothing is lost. *)
LEMMA Delivered ==
  ASSUME FileTypes, TurnInv, NEW p, write("sender", p), ~lost'
  PROVE  /\ rx_packet'["receiver"] = p /\ rx_packet'["sender"] = rx_packet["sender"]
         /\ BlockOut' /\ (RequestOut' <=> RequestOut) /\ ~lost
         /\ recv_done' \in [{"sender", "receiver"} -> BOOLEAN]
<1>1. Arrives("receiver", p) /\ ~lost
  BY DEF write, Peer
<1> QED BY <1>1 DEF FileTypes, TurnInv, Arrives, BlockOut, RequestOut

LEMMA RequestDelivered ==
  ASSUME FileTypes, TurnInv, NEW q, write("receiver", q), ~lost'
  PROVE  /\ rx_packet'["sender"] = q /\ rx_packet'["receiver"] = rx_packet["receiver"]
         /\ RequestOut' /\ (BlockOut' <=> BlockOut) /\ ~lost
         /\ recv_done' \in [{"sender", "receiver"} -> BOOLEAN]
<1>1. Arrives("sender", q) /\ ~lost
  BY DEF write, Peer
<1> QED BY <1>1 DEF FileTypes, TurnInv, Arrives, BlockOut, RequestOut

LEMMA BlockRead ==
  ASSUME FileTypes, TurnInv, ReadPacket
  PROVE  /\ BlockOut /\ ~BlockOut' /\ (RequestOut' <=> RequestOut) /\ rx_packet' = rx_packet /\ lost' = lost
         /\ recv_done' \in [{"sender", "receiver"} -> BOOLEAN]
         /\ rx_packet["receiver"] # Invalid => r_pkt' = rx_packet["receiver"]
  BY DEF TurnInv, ReadPacket, read, BufferAfterRead, BlockOut, RequestOut

LEMMA RequestRead ==
  ASSUME FileTypes, TurnInv, ReadRequest
  PROVE  /\ RequestOut /\ ~RequestOut' /\ (BlockOut' <=> BlockOut) /\ rx_packet' = rx_packet /\ lost' = lost
         /\ recv_done' \in [{"sender", "receiver"} -> BOOLEAN]
         /\ rx_packet["sender"] # Invalid => s_req' = rx_packet["sender"].req
  BY DEF TurnInv, ReadRequest, read, BufferAfterRead, BlockOut, RequestOut

(* The next block in its place. *)
LEMMA StoreNext ==
  ASSUME r_file \in Seq(Chunks), r_pos = Len(r_file), NEW n \in Nat, Filled(n),
         NEW q \in Packets, q.len > 0, Store(q),
         n < FullBlocks => q.data = n /\ q.len = TOSH_DATA_LENGTH
  PROVE  /\ (Filled(n + 1))'
         /\ r_file' = Append(r_file, [data |-> q.data, len |-> q.len])
<1> DEFINE chunk == [data |-> q.data, len |-> q.len]
<1>1. r_file' = Append(r_file, chunk)
  BY DEF Store, Packets
<1>2. chunk \in Chunks
  BY DEF Packets, Chunks
<1>3. n < FullBlocks => chunk = FullBlock(n + 1)
  BY DEF FullBlock
<1> HIDE DEF chunk
<1>4. Len(r_file) = n /\ Len(r_file') = n + 1
  BY <1>1, <1>2 DEF Filled
<1>5. \A k \in 1 .. n : r_file'[k] = r_file[k]
  BY <1>1, <1>2, <1>4
<1>6. r_file'[n + 1] = chunk
  BY <1>1, <1>2, <1>4
<1>7. \A k \in 1 .. n + 1 : k =< FullBlocks => r_file'[k] = FullBlock(k)
  <2> SUFFICES ASSUME NEW k \in 1 .. n + 1, k =< FullBlocks PROVE r_file'[k] = FullBlock(k)
    OBVIOUS
  <2>1. CASE k = n + 1
    <3>1. FullBlocks \in Nat
      BY TransmitAssumption DEF TransmitAssumption
    <3> QED BY <1>3, <1>6, <2>1, <3>1
  <2>2. CASE k \in 1 .. n
    BY <1>4, <1>5, <2>2 DEF Filled
  <2> QED BY <2>1, <2>2
<1> QED BY <1>1, <1>4, <1>7 DEF Filled, FullBlock, chunk

(* All blocks and, if there is one, the remainder are the file. *)
LEMMA FilledIsWhole ==
  ASSUME r_file \in Seq(Chunks), Filled(FullBlocks)
  PROVE  r_file = WholeBlocks
<1>1. FullBlocks \in Nat
  BY TransmitAssumption DEF TransmitAssumption
<1>2. r_file = [k \in 1 .. FullBlocks |-> r_file[k]]
  BY <1>1 DEF Filled
<1> QED BY <1>1, <1>2 DEF Filled, WholeBlocks

(* Any step keeps track of what was read. *)
LEMMA FlagStep == recv_done \in [{"sender", "receiver"} -> BOOLEAN] /\ [Next]_vars
                    => recv_done' \in [{"sender", "receiver"} -> BOOLEAN]
<1> SUFFICES ASSUME recv_done \in [{"sender", "receiver"} -> BOOLEAN], [Next]_vars
             PROVE  recv_done' \in [{"sender", "receiver"} -> BOOLEAN]
  OBVIOUS
<1>1. ASSUME NEW n \in {"sender", "receiver"}, NEW q, write(n, q)
      PROVE  recv_done' \in [{"sender", "receiver"} -> BOOLEAN]
  BY <1>1 DEF write, Arrives, Peer
<1>2. ASSUME NEW n, read(n) PROVE recv_done' \in [{"sender", "receiver"} -> BOOLEAN]
  BY <1>2 DEF read
<1>3. CASE SimpleSend \/ SimpleLast \/ ResumeableSend \/ ResumeableLast \/ AdvanceSend \/ AdvanceLast \/ SendStop
  BY <1>1, <1>3 DEF SimpleSend, SimpleLast, ResumeableSend, ResumeableLast, AdvanceSend, AdvanceLast, SendStop, SendPacket
<1>4. CASE SimpleAck \/ Ask
  BY <1>1, <1>4 DEF SimpleAck, Ask, Answer
<1>5. CASE SimpleAcked \/ SimpleLastAcked \/ ResumeableAsked \/ AdvanceAsked \/ SimpleRead \/ ResumeableRead
           \/ AdvanceRead
  BY <1>2, <1>5 DEF SimpleAcked, SimpleLastAcked, ResumeableAsked, AdvanceAsked, SimpleRead, ResumeableRead,
                   AdvanceRead, ReadRequest, ReadPacket
<1>6. CASE SenderStarts \/ AlarmKills \/ UNCHANGED vars
  BY <1>6 DEF SenderStarts, AlarmKills, vars, deviceVars
<1> QED BY <1>3, <1>4, <1>5, <1>6 DEF Next, SenderGoesOn, ReceiverGoesOn
-----------------------------------------------------------------------------
(* The turn is where the programs are. *)
LEMMA SimplePlaces ==
  SimpleTurn =>
    /\ s_pc = "start" => Starting
    /\ s_pc \in {"send", "last"} => Sending
    /\ s_pc = "ack" => IF BlockOut THEN Sent ELSE Acking
    /\ s_pc = "last_ack" => IF BlockOut THEN LastSent ELSE LastAcking
    /\ s_pc = "stop" => Stopping
    /\ s_pc = "done" => IF r_pc = "done" THEN Ended ELSE Stopped
  BY DEF SimpleTurn, Starting, Sending, Sent, Acking, LastSent, LastAcking, Stopping, Stopped, Ended, NextPc,
         StopOut, Silent

LEMMA Constants == FullBlocks \in Nat /\ Remainder \in 0 .. TOSH_DATA_LENGTH - 1 /\ Invalid \notin Packets
  BY TransmitAssumption DEF TransmitAssumption

LEMMA KeepsFilled == \A n : r_file' = r_file /\ Filled(n) => (Filled(n))'
  BY DEF Filled, FullBlock

(* One case for each action of the simple programs. *)
LEMMA SimpleStep ==
  ASSUME FileTypes, HighestInv, TurnInv, [Next]_vars, program = "simple", ~lost'
  PROVE  /\ BlockOut' => rx_packet'["receiver"] # Invalid
         /\ SimpleTurn'
<1>1. FullBlocks \in Nat /\ Remainder \in 0 .. TOSH_DATA_LENGTH - 1 /\ Invalid \notin Packets
  BY Constants
<1>2. ~lost => SimpleTurn /\ (BlockOut => rx_packet["receiver"] # Invalid)
  BY DEF TurnInv, InOrderPrograms
<1>3. s_pos \in Nat /\ r_file \in Seq(Chunks)
  BY DEF FileTypes
<1>4. CASE SenderStarts
  <2>1. UNCHANGED << rx_packet, recv_done, lost, s_pos, r_pc, r_file >>
    BY <1>4 DEF SenderStarts, deviceVars, receiverVars
  <2>2. s_pc = "start" /\ s_pc' = IF s_pos < FullBlocks THEN "send" ELSE "last"
    BY <1>1, <1>3, <1>4 DEF SenderStarts, AllBlocksSent
  <2>3. Starting
    BY <1>2, <2>1, <2>2, SimplePlaces
  <2>4. (Filled(0))' /\ (BlockOut' <=> BlockOut) /\ (RequestOut' <=> RequestOut)
    BY <2>1, <2>3, KeepsFilled DEF Starting, BlockOut, RequestOut
  <2>5. Sending'
    BY <1>1, <2>1, <2>2, <2>3, <2>4 DEF Starting, Sending, NextPc, Silent, Filled
  <2> QED BY <1>2, <2>1, <2>4, <2>5 DEF SimpleTurn
<1>5. CASE SimpleSend
  <2>1. /\ write("sender", [data |-> s_data', len |-> TOSH_DATA_LENGTH, group |-> Group])
        /\ s_pc = "send" /\ s_pc' = "ack" /\ s_pos' = s_pos + 1 /\ s_data' = DataAt(s_pos)
        /\ UNCHANGED << r_pc, r_file >>
    BY <1>5 DEF SimpleSend, SendPacket, receiverVars
  <2>2. /\ rx_packet'["receiver"] = [data |-> s_data', len |-> TOSH_DATA_LENGTH, group |-> Group]
        /\ BlockOut' /\ (RequestOut' <=> RequestOut) /\ ~lost
    BY <2>1, Delivered
  <2>3. Sending
    BY <1>2, <2>1, <2>2, SimplePlaces
  <2>4. s_pos < FullBlocks /\ r_pc = "read" /\ ~RequestOut /\ Filled(s_pos)
    BY <1>1, <1>3, <2>1, <2>3 DEF Sending, NextPc, Silent
  <2>5. s_data' = s_pos /\ s_data' \in -2 .. FullBlocks
    BY <1>1, <1>3, <2>1, <2>4 DEF DataAt
  <2>6. rx_packet'["receiver"] # Invalid
    BY <1>1, <2>2, <2>5 DEF Packets, Group
  <2>7. Sent'
    BY <1>1, <1>3, <2>1, <2>2, <2>4, <2>5 DEF Sent, Carries, Filled, FullBlock
  <2> QED BY <2>6, <2>7 DEF SimpleTurn
<1>6. CASE SimpleAcked
  <2>1. /\ ReadRequest /\ s_pc = "ack" /\ s_pc' = IF s_pos < FullBlocks THEN "send" ELSE "last"
        /\ UNCHANGED << s_pos, r_pc, r_file >>
    BY <1>1, <1>3, <1>6 DEF SimpleAcked, AllBlocksSent, ReadRequest, receiverVars
  <2>2. RequestOut /\ ~RequestOut' /\ (BlockOut' <=> BlockOut) /\ rx_packet' = rx_packet /\ ~lost
    BY <2>1, RequestRead
  <2>3. Acking
    BY <1>2, <2>1, <2>2, SimplePlaces DEF Sent
  <2>4. Sending'
    BY <1>1, <1>3, <2>1, <2>2, <2>3 DEF Acking, Sending, NextPc, Silent, Filled, FullBlock
  <2> QED BY <1>2, <2>2, <2>4 DEF SimpleTurn
<1>7. CASE SimpleLast
  <2>1. /\ write("sender", [data |-> s_data', len |-> Remainder, group |-> Group])
        /\ s_pc = "last" /\ s_pc' = "last_ack" /\ s_data' = DataAt(s_pos)
        /\ UNCHANGED << r_pc, r_file >>
    BY <1>7 DEF SimpleLast, SendPacket, receiverVars
  <2>2. /\ rx_packet'["receiver"] = [data |-> s_data', len |-> Remainder, group |-> Group]
        /\ BlockOut' /\ (RequestOut' <=> RequestOut) /\ ~lost
    BY <2>1, Delivered
  <2>3. Sending
    BY <1>2, <2>1, <2>2, SimplePlaces
  <2>4. s_pos = FullBlocks /\ r_pc = "read" /\ ~RequestOut /\ Filled(FullBlocks)
    BY <1>1, <1>3, <2>1, <2>3 DEF Sending, NextPc, Silent
  <2>5. s_data' \in -1 .. FullBlocks /\ (Remainder > 0 => s_data' = FullBlocks)
    BY <1>1, <2>1, <2>4 DEF DataAt, FileTypes, HighestInv
  <2>6. rx_packet'["receiver"] # Invalid
    BY <1>1, <2>2, <2>5 DEF Packets, Group
  <2>7. LastSent'
    BY <1>1, <1>3, <2>1, <2>2, <2>4, <2>5 DEF LastSent, Filled, FullBlock
  <2> QED BY <2>6, <2>7 DEF SimpleTurn
<1>8. CASE SimpleLastAcked
  <2>1. /\ ReadRequest /\ s_pc = "last_ack" /\ s_pc' = "stop" /\ UNCHANGED << r_pc, r_file >>
    BY <1>8 DEF SimpleLastAcked, ReadRequest, receiverVars
  <2>2. RequestOut /\ ~RequestOut' /\ (BlockOut' <=> BlockOut) /\ rx_packet' = rx_packet /\ ~lost
    BY <2>1, RequestRead
  <2>3. LastAcking
    BY <1>2, <2>1, <2>2, SimplePlaces DEF LastSent
  <2>4. Stopping'
    BY <2>1, <2>2, <2>3 DEF LastAcking, Stopping, Silent, WholeFile, WholeBlocks, FullBlock
  <2> QED BY <1>2, <2>2, <2>4 DEF SimpleTurn
<1>9. CASE SendStop
  <2>1. /\ write("sender", [data |-> Stop, len |-> 9, group |-> Group])
        /\ s_pc = "stop" /\ s_pc' = "done" /\ UNCHANGED << r_pc, r_file >>
    BY <1>9 DEF SendStop, receiverVars
  <2>2. /\ rx_packet'["receiver"] = [data |-> Stop, len |-> 9, group |-> Group]
        /\ BlockOut' /\ ~lost
    BY <2>1, Delivered
  <2>3. Stopping
    BY <1>2, <2>1, <2>2, SimplePlaces
  <2>4. rx_packet'["receiver"] # Invalid
    BY <1>1, <2>2 DEF Packets, Group
  <2>5. Stopped'
    BY <2>1, <2>2, <2>3 DEF Stopping, Stopped, StopOut, WholeFile, WholeBlocks, FullBlock
  <2> QED BY <2>4, <2>5 DEF SimpleTurn
<1>10. CASE SimpleAck
  <2>1. /\ write("receiver", [req |-> 0]) /\ r_pc = "ack" /\ r_pc' = "read"
        /\ UNCHANGED << s_pc, s_pos, r_file >>
    BY <1>10 DEF SimpleAck, Answer, senderVars
  <2>2. /\ rx_packet'["receiver"] = rx_packet["receiver"]
        /\ RequestOut' /\ (BlockOut' <=> BlockOut) /\ ~lost
    BY <2>1, RequestDelivered
  <2>3. CASE Acking
    <3>1. Acking'
      BY <2>1, <2>2, <2>3 DEF Acking, Filled, FullBlock
    <3> QED BY <1>2, <2>2, <3>1 DEF SimpleTurn
  <2>4. CASE LastAcking
    <3>1. LastAcking'
      BY <2>1, <2>2, <2>4 DEF LastAcking, WholeFile, WholeBlocks, FullBlock
    <3> QED BY <1>2, <2>2, <3>1 DEF SimpleTurn
  <2> QED BY <1>2, <2>1, <2>2, <2>3, <2>4 DEF SimpleTurn, Starting, Sending, Sent, LastSent, Stopping, Stopped, Ended
<1>11. CASE SimpleRead
  <2>1. /\ ReadPacket /\ r_pc = "read" /\ UNCHANGED << s_pc, s_pos >>
        /\ r_pkt'.data = Stop => r_pc' = "done" /\ UNCHANGED r_file
        /\ r_pkt'.data # Stop => r_pc' = "ack" /\ Store(r_pkt')
    BY <1>11 DEF SimpleRead, ReadPacket, senderVars
  <2>2. /\ BlockOut /\ ~BlockOut' /\ (RequestOut' <=> RequestOut) /\ ~lost
        /\ rx_packet["receiver"] # Invalid => r_pkt' = rx_packet["receiver"]
    BY <2>1, BlockRead
  <2>3. r_pkt' = rx_packet["receiver"] /\ r_pkt' \in Packets /\ r_pos = Len(r_file)
    BY <1>2, <2>1, <2>2 DEF FileTypes, HighestInv
  <2>4. CASE Sent
    <3>1. r_pkt'.data = s_pos - 1 /\ r_pkt'.data # Stop /\ r_pkt'.len = TOSH_DATA_LENGTH /\ s_pos > 0
          /\ Filled(s_pos - 1) /\ s_pos =< FullBlocks /\ ~RequestOut /\ s_pc = "ack"
      BY <1>3, <2>3, <2>4 DEF Sent, Carries
    <3>2. s_pos - 1 \in Nat /\ (s_pos - 1) + 1 = s_pos
      BY <1>3, <3>1
    <3>3. Store(r_pkt') /\ r_pc' = "ack" /\ r_pkt'.len > 0
      BY <2>1, <3>1
    <3>4. /\ Len(r_file') = s_pos
          /\ \A k \in 1 .. Len(r_file') : k =< FullBlocks => r_file'[k] = FullBlock(k)
      BY <1>3, <2>3, <3>1, <3>2, <3>3, StoreNext DEF Filled, FullBlock
    <3>5. Acking'
      BY <2>1, <2>2, <3>1, <3>3, <3>4 DEF Acking, Filled, FullBlock
    <3> QED BY <2>2, <3>5 DEF SimpleTurn
  <2>5. CASE LastSent
    <3>1. /\ r_pkt'.data # Stop /\ r_pkt'.len = Remainder /\ Filled(FullBlocks)
          /\ Remainder > 0 => r_pkt'.data = FullBlocks
          /\ ~RequestOut /\ s_pc = "last_ack"
      BY <2>3, <2>5 DEF LastSent
    <3>2. Store(r_pkt') /\ r_pc' = "ack"
      BY <2>1, <3>1
    <3>3. r_file = WholeBlocks
      BY <1>3, <3>1, FilledIsWhole
    <3>4. ASSUME Remainder = 0 PROVE r_file' = WholeFile
      BY <3>1, <3>2, <3>3, <3>4 DEF Store, WholeFile
    <3>5. ASSUME Remainder > 0 PROVE r_file' = WholeFile
      <4>1. r_file' = Append(r_file, [data |-> r_pkt'.data, len |-> r_pkt'.len])
        BY <1>1, <1>3, <2>3, <3>1, <3>2, <3>5, StoreNext
      <4> QED BY <3>1, <3>3, <3>5, <4>1 DEF WholeFile
    <3>6. r_file' = WholeFile
      BY <1>1, <3>4, <3>5
    <3>7. LastAcking'
      BY <2>1, <2>2, <3>1, <3>2, <3>6 DEF LastAcking, WholeFile, WholeBlocks, FullBlock
    <3> QED BY <2>2, <3>7 DEF SimpleTurn
  <2>6. CASE Stopped
    <3>1. Ended'
      BY <2>1, <2>3, <2>6 DEF Stopped, StopOut, Ended, WholeFile, WholeBlocks, FullBlock
    <3> QED BY <2>2, <3>1 DEF SimpleTurn
  <2> QED BY <1>2, <2>1, <2>2, <2>4, <2>5, <2>6
          DEF SimpleTurn, Starting, Sending, Acking, LastAcking, Stopping, Ended, Silent
<1>12. CASE UNCHANGED vars
  <2>1. UNCHANGED << rx_packet, recv_done, lost, s_pc, s_pos, r_pc, r_file >>
    BY <1>12 DEF vars, deviceVars, senderVars, receiverVars
  <2>2. (BlockOut' <=> BlockOut) /\ (RequestOut' <=> RequestOut) /\ ~lost
    BY <2>1 DEF BlockOut, RequestOut
  <2>3. CASE Starting \/ Sending \/ Acking
    BY <1>2, <2>1, <2>2, <2>3 DEF SimpleTurn, Starting, Sending, Acking, NextPc, Silent, Filled, FullBlock
  <2>4. CASE Sent
    BY <1>2, <2>1, <2>2, <2>4 DEF SimpleTurn, Sent, Carries, Filled, FullBlock
  <2>5. CASE LastSent
    BY <1>2, <2>1, <2>2, <2>5 DEF SimpleTurn, LastSent, Filled, FullBlock
  <2>6. CASE LastAcking \/ Stopping \/ Stopped \/ Ended
    BY <1>2, <2>1, <2>2, <2>6
       DEF SimpleTurn, LastAcking, Stopping, Stopped, Ended, StopOut, Silent, WholeFile, WholeBlocks, FullBlock
  <2> QED BY <1>2, <2>2, <2>3, <2>4, <2>5, <2>6 DEF SimpleTurn
<1>13. ~Ask
  <2>1. ~lost /\ r_pc = "ask" => FALSE
    BY <1>2 DEF SimpleTurn, Starting, Sending, Sent, Acking, LastSent, LastAcking, Stopping, Stopped, Ended
  <2>2. ASSUME Ask PROVE ~lost /\ r_pc = "ask"
    <3>1. PICK q : Answer(q, "read")
      BY <2>2 DEF Ask
    <3> QED BY <2>2, <3>1, RequestDelivered DEF Ask, Answer
  <2> QED BY <2>1, <2>2
<1>14. ~(ResumeableAsked \/ ResumeableSend \/ ResumeableLast \/ AdvanceAsked \/ AdvanceSend \/ AdvanceLast
         \/ ResumeableRead \/ AdvanceRead \/ AlarmKills)
  BY DEF ResumeableAsked, ResumeableSend, ResumeableLast, AdvanceAsked, AdvanceSend, AdvanceLast, ResumeableRead,
         AdvanceRead, AlarmKills
<1> QED BY <1>4, <1>5, <1>6, <1>7, <1>8, <1>9, <1>10, <1>11, <1>12, <1>13, <1>14 DEF Next, SenderGoesOn, ReceiverGoesOn
-----------------------------------------------------------------------------
LEMMA ResumeablePlaces ==
  ResumeableTurn =>
    /\ s_pc = "start" => GoStarting
    /\ s_pc = "wait" => IF BlockOut THEN GoSent ELSE GoAsking
    /\ s_pc \in {"send", "last"} => GoSending
    /\ s_pc = "stop" => GoLast
    /\ s_pc = "done" => IF r_pc = "done" THEN GoEnded ELSE GoStopped
  BY DEF ResumeableTurn, GoStarting, GoAsking, GoSending, GoSent, GoLast, GoStopped, GoEnded, NextPc, StopOut, Silent

(* One case for each action of the resumeable programs. *)
LEMMA ResumeableStep ==
  ASSUME FileTypes, HighestInv, TurnInv, [Next]_vars, program = "resumeable", ~lost'
  PROVE  /\ BlockOut' => rx_packet'["receiver"] # Invalid
         /\ ResumeableTurn'
<1>1. FullBlocks \in Nat /\ Remainder \in 0 .. TOSH_DATA_LENGTH - 1 /\ Invalid \notin Packets \cup Requests
  BY TransmitAssumption DEF TransmitAssumption
<1>2. ~lost => ResumeableTurn /\ (BlockOut => rx_packet["receiver"] # Invalid)
  BY DEF TurnInv, InOrderPrograms
<1>3. s_pos \in Nat /\ r_file \in Seq(Chunks) /\ Group = 7
  BY DEF FileTypes, Group
<1>4. CASE SenderStarts
  <2>1. /\ UNCHANGED << rx_packet, recv_done, lost, s_pos, r_pc, r_file >>
        /\ s_pc = "start" /\ r_pc = "read" /\ s_pc' = "wait"
    BY <1>4 DEF SenderStarts, deviceVars, receiverVars
  <2>2. GoStarting
    BY <1>2, <2>1, ResumeablePlaces
  <2>3. (BlockOut' <=> BlockOut) /\ (RequestOut' <=> RequestOut)
    BY <2>1 DEF BlockOut, RequestOut
  <2>4. GoAsking'
    BY <1>1, <2>1, <2>2, <2>3 DEF GoStarting, GoAsking, GoOut, Filled, FullBlock
  <2> QED BY <1>2, <2>1, <2>3, <2>4 DEF ResumeableTurn
<1>5. CASE ResumeableAsked
  <2>1. /\ ReadRequest /\ s_pc = "wait" /\ UNCHANGED << s_pos, r_pc, r_file >>
        /\ s_req' = Go => s_pc' = IF s_pos < FullBlocks THEN "send" ELSE "last"
    BY <1>1, <1>3, <1>5 DEF ResumeableAsked, AllBlocksSent, ReadRequest, receiverVars
  <2>2. /\ RequestOut /\ ~RequestOut' /\ (BlockOut' <=> BlockOut) /\ rx_packet' = rx_packet /\ ~lost
        /\ rx_packet["sender"] # Invalid => s_req' = rx_packet["sender"].req
    BY <2>1, RequestRead
  <2>3. GoAsking /\ r_pc = "read" /\ rx_packet["sender"] = [req |-> Go]
    BY <1>2, <2>1, <2>2, ResumeablePlaces DEF GoSent, GoAsking, GoOut
  <2>4. s_req' = Go
    BY <1>1, <2>2, <2>3 DEF Requests, S8
  <2>5. GoSending'
    BY <1>1, <1>3, <2>1, <2>2, <2>3, <2>4 DEF GoAsking, GoSending, NextPc, Silent, Filled, FullBlock
  <2> QED BY <1>2, <2>2, <2>5 DEF ResumeableTurn
<1>6. CASE ResumeableSend
  <2>1. /\ write("sender", [data |-> s_data', len |-> TOSH_DATA_LENGTH, group |-> 7])
        /\ s_pc = "send" /\ s_pc' = "wait" /\ s_pos' = s_pos + 1 /\ s_data' = DataAt(s_pos)
        /\ UNCHANGED << r_pc, r_file >>
    BY <1>3, <1>6 DEF ResumeableSend, SendPacket, receiverVars
  <2>2. /\ rx_packet'["receiver"] = [data |-> s_data', len |-> TOSH_DATA_LENGTH, group |-> 7]
        /\ BlockOut' /\ (RequestOut' <=> RequestOut) /\ ~lost
    BY <2>1, Delivered
  <2>3. GoSending
    BY <1>2, <2>1, <2>2, ResumeablePlaces
  <2>4. s_pos < FullBlocks /\ r_pc = "read" /\ ~RequestOut /\ Filled(s_pos)
    BY <1>1, <1>3, <2>1, <2>3 DEF GoSending, NextPc, Silent
  <2>5. s_data' = s_pos /\ s_data' \in -2 .. FullBlocks
    BY <1>1, <1>3, <2>1, <2>4 DEF DataAt
  <2>6. rx_packet'["receiver"] # Invalid
    BY <1>1, <2>2, <2>5 DEF Packets
  <2>7. GoSent'
    BY <1>1, <1>3, <2>1, <2>2, <2>4, <2>5 DEF GoSent, InGroup, Carries, Filled, FullBlock
  <2> QED BY <2>6, <2>7 DEF ResumeableTurn
<1>7. CASE ResumeableLast
  <2>1. /\ write("sender", [data |-> s_data', len |-> 0, group |-> 7])
        /\ s_pc = "last" /\ s_pc' = "stop" /\ s_data' = DataAt(s_pos)
        /\ UNCHANGED << r_pc, r_file >>
    BY <1>3, <1>7 DEF ResumeableLast, SendPacket, receiverVars
  <2>2. rx_packet'["receiver"] = [data |-> s_data', len |-> 0, group |-> 7] /\ BlockOut' /\ ~lost
    BY <2>1, Delivered
  <2>3. GoSending
    BY <1>2, <2>1, <2>2, ResumeablePlaces
  <2>4. s_pos = FullBlocks /\ r_pc = "read" /\ Filled(FullBlocks)
    BY <1>1, <1>3, <2>1, <2>3 DEF GoSending, NextPc
  <2>5. s_data' \in -1 .. FullBlocks
    BY <1>1, <2>1, <2>4 DEF DataAt, FileTypes, HighestInv
  <2>6. rx_packet'["receiver"] # Invalid
    BY <1>1, <2>2, <2>5 DEF Packets
  <2>7. GoLast'
    BY <1>1, <2>1, <2>2, <2>4, <2>5 DEF GoLast, InGroup, Filled, FullBlock
  <2> QED BY <2>6, <2>7 DEF ResumeableTurn
<1>8. CASE SendStop
  <2>1. /\ write("sender", [data |-> Stop, len |-> 9, group |-> 7])
        /\ s_pc = "stop" /\ s_pc' = "done" /\ UNCHANGED << r_pc, r_file >>
    BY <1>3, <1>8 DEF SendStop, receiverVars
  <2>2. rx_packet'["receiver"] = [data |-> Stop, len |-> 9, group |-> 7] /\ BlockOut' /\ ~lost
    BY <2>1, Delivered
  <2>3. GoLast
    BY <1>2, <2>1, <2>2, ResumeablePlaces
  <2>4. rx_packet'["receiver"] # Invalid
    BY <1>1, <2>2 DEF Packets
  <2>5. GoStopped'
    BY <2>1, <2>2, <2>3 DEF GoLast, GoStopped, StopOut, InGroup, Filled, FullBlock
  <2> QED BY <2>4, <2>5 DEF ResumeableTurn
<1>9. CASE Ask
  <2>1. /\ write("receiver", [req |-> Go]) /\ r_pc = "ask" /\ r_pc' = "read"
        /\ UNCHANGED << s_pc, s_pos, r_file >>
    BY <1>9 DEF Ask, Answer, senderVars
  <2>2. /\ rx_packet'["receiver"] = rx_packet["receiver"] /\ rx_packet'["sender"] = [req |-> Go]
        /\ RequestOut' /\ (BlockOut' <=> BlockOut) /\ ~lost
    BY <2>1, RequestDelivered
  <2>3. CASE GoStarting
    BY <2>1, <2>2, <2>3 DEF ResumeableTurn, GoStarting, GoOut, Filled, FullBlock
  <2>4. CASE GoAsking
    BY <2>1, <2>2, <2>4 DEF ResumeableTurn, GoAsking, GoOut, Filled, FullBlock
  <2>5. CASE GoLast
    BY <1>2, <2>1, <2>2, <2>5 DEF ResumeableTurn, GoLast, InGroup, Filled, FullBlock
  <2>6. CASE GoStopped
    BY <1>2, <2>1, <2>2, <2>6 DEF ResumeableTurn, GoStopped, StopOut, InGroup, Filled, FullBlock
  <2> QED BY <1>2, <2>1, <2>2, <2>3, <2>4, <2>5, <2>6 DEF ResumeableTurn, GoSending, GoSent, GoEnded
<1>10. CASE ResumeableRead
  <2>1. /\ ReadPacket /\ r_pc = "read" /\ UNCHANGED << s_pc, s_pos >>
        /\ r_pkt'.group = 7 => /\ r_pc' = IF r_pkt'.data = Stop THEN "done" ELSE "ask"
                               /\ Store(r_pkt')
    BY <1>10 DEF ResumeableRead, ReadPacket, senderVars
  <2>2. /\ BlockOut /\ ~BlockOut' /\ (RequestOut' <=> RequestOut) /\ ~lost
        /\ rx_packet["receiver"] # Invalid => r_pkt' = rx_packet["receiver"]
    BY <2>1, BlockRead
  <2>3. r_pkt' = rx_packet["receiver"] /\ r_pkt' \in Packets /\ r_pos = Len(r_file)
    BY <1>2, <2>1, <2>2 DEF FileTypes, HighestInv
  <2>4. CASE GoSent
    <3>1. r_pkt'.data = s_pos - 1 /\ r_pkt'.data # Stop /\ r_pkt'.len = TOSH_DATA_LENGTH /\ r_pkt'.group = 7
          /\ s_pos > 0 /\ Filled(s_pos - 1) /\ s_pos =< FullBlocks /\ ~RequestOut /\ s_pc = "wait"
      BY <1>3, <2>3, <2>4 DEF GoSent, Carries, InGroup
    <3>2. s_pos - 1 \in Nat /\ (s_pos - 1) + 1 = s_pos
      BY <1>3, <3>1
    <3>3. Store(r_pkt') /\ r_pc' = "ask" /\ r_pkt'.len > 0
      BY <2>1, <3>1
    <3>4. /\ Len(r_file') = s_pos
          /\ \A k \in 1 .. Len(r_file') : k =< FullBlocks => r_file'[k] = FullBlock(k)
      BY <1>3, <2>3, <3>1, <3>2, <3>3, StoreNext DEF Filled, FullBlock
    <3>5. GoAsking'
      BY <2>1, <2>2, <3>1, <3>3, <3>4 DEF GoAsking, Filled, FullBlock
    <3> QED BY <2>2, <3>5 DEF ResumeableTurn
  <2>5. CASE GoLast
    <3>1. Store(r_pkt') /\ r_pc' = "ask" /\ r_pkt'.len = 0
      BY <2>1, <2>2, <2>3, <2>5 DEF GoLast, InGroup
    <3>2. r_file' = r_file
      BY <3>1 DEF Store
    <3>3. GoLast'
      BY <2>1, <2>2, <2>5, <3>1, <3>2 DEF GoLast, Filled, FullBlock
    <3> QED BY <2>2, <3>3 DEF ResumeableTurn
  <2>6. CASE GoStopped
    <3>1. Store(r_pkt') /\ r_pc' = "done"
      BY <2>1, <2>3, <2>6 DEF GoStopped, StopOut, InGroup
    <3>2. Filled(FullBlocks)
      BY <2>6 DEF GoStopped
    <3>3. r_pkt'.len \in Nat
      <4>1. \A q \in Packets : q.len \in Nat
        BY DEF Packets
      <4> QED BY <2>3, <4>1
    <3>4. /\ Len(r_file') >= FullBlocks
          /\ \A k \in 1 .. Len(r_file') : k =< FullBlocks => r_file'[k] = FullBlock(k)
      <4>1. CASE r_pkt'.len = 0
        BY <1>1, <3>1, <3>2, <4>1 DEF Store, Filled, FullBlock
      <4>2. CASE r_pkt'.len > 0
        <5>1. PICK n \in Nat : n = FullBlocks
          BY <1>1
        <5>2. Filled(n) /\ ~(n < FullBlocks)
          BY <3>2, <5>1
        <5>3. /\ Len(r_file') = n + 1
              /\ \A k \in 1 .. Len(r_file') : k =< FullBlocks => r_file'[k] = FullBlock(k)
          BY <1>3, <2>3, <3>1, <4>2, <5>2, StoreNext DEF Filled, FullBlock
        <5> QED BY <1>1, <5>1, <5>3
      <4> QED BY <3>3, <4>1, <4>2
    <3>5. GoEnded'
      BY <2>1, <2>6, <3>1, <3>4 DEF GoStopped, StopOut, GoEnded, Filled, FullBlock
    <3> QED BY <2>2, <3>5 DEF ResumeableTurn
  <2> QED BY <1>2, <2>1, <2>2, <2>4, <2>5, <2>6 DEF ResumeableTurn, GoStarting, GoAsking, GoSending, GoEnded, Silent
<1>11. CASE AlarmKills
  <2>1. /\ r_pc = "read" /\ r_pc' = "ask" /\ Quiet
        /\ UNCHANGED << rx_packet, recv_done, lost, s_pc, s_pos, r_file >>
    BY <1>11 DEF AlarmKills, deviceVars, senderVars
  <2>2. (BlockOut' <=> BlockOut) /\ (RequestOut' <=> RequestOut) /\ ~lost
    BY <2>1 DEF BlockOut, RequestOut
  <2>3. ~BlockOut /\ (s_pc \in {"start", "done"} \/ (s_pc = "wait" /\ ~RequestOut) \/ s_pc = "wait_last")
    BY <2>1 DEF Quiet, BlockOut, RequestOut
  <2>4. GoStarting
    BY <1>2, <2>1, <2>2, <2>3, ResumeablePlaces
       DEF ResumeableTurn, GoStarting, GoAsking, GoOut, GoSending, GoSent, GoLast, GoStopped, GoEnded, StopOut, NextPc
  <2>5. GoStarting'
    BY <2>1, <2>2, <2>4 DEF GoStarting, GoOut, Filled, FullBlock
  <2> QED BY <2>2, <2>3, <2>5 DEF ResumeableTurn
<1>12. CASE UNCHANGED vars
  <2>1. UNCHANGED << rx_packet, recv_done, lost, s_pc, s_pos, r_pc, r_file >>
    BY <1>12 DEF vars, deviceVars, senderVars, receiverVars
  <2>2. (BlockOut' <=> BlockOut) /\ (RequestOut' <=> RequestOut) /\ ~lost
    BY <2>1 DEF BlockOut, RequestOut
  <2>3. CASE GoStarting \/ GoAsking \/ GoSending
    BY <1>2, <2>1, <2>2, <2>3
       DEF ResumeableTurn, GoStarting, GoAsking, GoSending, GoOut, NextPc, Silent, Filled, FullBlock
  <2>4. CASE GoSent
    BY <1>2, <2>1, <2>2, <2>4 DEF ResumeableTurn, GoSent, InGroup, Carries, Filled, FullBlock
  <2>5. CASE GoLast \/ GoStopped \/ GoEnded
    BY <1>2, <2>1, <2>2, <2>5 DEF ResumeableTurn, GoLast, GoStopped, GoEnded, StopOut, InGroup, Filled, FullBlock
  <2> QED BY <1>2, <2>2, <2>3, <2>4, <2>5 DEF ResumeableTurn
<1>13. ~SimpleAck
  <2>1. ~lost => r_pc # "ack"
    BY <1>2 DEF ResumeableTurn, GoStarting, GoAsking, GoSending, GoSent, GoLast, GoStopped, GoEnded
  <2>2. SimpleAck => ~lost /\ r_pc = "ack"
    BY RequestDelivered DEF SimpleAck, Answer
  <2> QED BY <2>1, <2>2
<1>14. ~(SimpleSend \/ SimpleAcked \/ SimpleLast \/ SimpleLastAcked \/ SimpleRead
         \/ AdvanceAsked \/ AdvanceSend \/ AdvanceLast \/ AdvanceRead)
  BY DEF SimpleSend, SimpleAcked, SimpleLast, SimpleLastAcked, SimpleRead, AdvanceAsked, AdvanceSend, AdvanceLast,
         AdvanceRead
<1> QED BY <1>4, <1>5, <1>6, <1>7, <1>8, <1>9, <1>10, <1>11, <1>12, <1>13, <1>14 DEF Next, SenderGoesOn, ReceiverGoesOn
-----------------------------------------------------------------------------
LEMMA TurnStep == OrderInv /\ TurnInv /\ [Next]_vars => TurnInv'
<1> SUFFICES ASSUME OrderInv, TurnInv, [Next]_vars PROVE TurnInv'
  OBVIOUS
<1>1. recv_done' \in [{"sender", "receiver"} -> BOOLEAN]
  BY FlagStep DEF TurnInv
<1>2. program' = program
  BY DEF Next, SenderStarts, SenderGoesOn, ReceiverGoesOn, AlarmKills, SimpleSend, SimpleAcked, SimpleLast,
         SimpleLastAcked, ResumeableAsked, ResumeableSend, ResumeableLast, AdvanceAsked, AdvanceSend, AdvanceLast,
         SendStop, SendPacket, ReadRequest, SimpleRead, SimpleAck, Ask, ResumeableRead, AdvanceRead, ReadPacket,
         Answer, vars
<1>3. ASSUME InOrderPrograms, ~lost'
      PROVE  /\ BlockOut' => rx_packet'["receiver"] # Invalid
             /\ program = "simple" => SimpleTurn'
             /\ program = "resumeable" => ResumeableTurn'
  <2>1. FileTypes /\ HighestInv
    BY <1>3 DEF OrderInv
  <2> QED BY <1>3, <2>1, SimpleStep, ResumeableStep DEF InOrderPrograms
<1> QED BY <1>1, <1>2, <1>3 DEF TurnInv, InOrderPrograms

LEMMA ProgressInvariant == Spec => [](OrderInv /\ TurnInv)
<1>1. Init => OrderInv /\ TurnInv
  BY OrderInit, TurnInit
<1>2. OrderInv /\ TurnInv /\ [Next]_vars => (OrderInv /\ TurnInv)'
  BY OrderStep, TurnStep
<1> QED BY <1>1, <1>2, PTL DEF Spec

LEMMA WholeIsFilled ==
  r_file \in Seq(Chunks) /\ r_file = WholeFile => \A k \in 1 .. Len(r_file) : k =< FullBlocks => r_file[k] = FullBlock(k)
<1> SUFFICES ASSUME r_file \in Seq(Chunks), r_file = WholeFile, NEW k \in 1 .. Len(r_file), k =< FullBlocks
             PROVE  r_file[k] = FullBlock(k)
  OBVIOUS
<1>1. FullBlocks \in Nat /\ Remainder \in 0 .. TOSH_DATA_LENGTH - 1
  BY Constants
<1>2. \A j \in 1 .. FullBlocks : FullBlock(j) \in Chunks
  BY <1>1 DEF FullBlock, Chunks
<1>3. WholeBlocks \in Seq(Chunks) /\ Len(WholeBlocks) = FullBlocks
  BY <1>1, <1>2 DEF WholeBlocks
<1>4. k \in 1 .. FullBlocks /\ WholeBlocks[k] = FullBlock(k)
  BY <1>1 DEF WholeBlocks
<1>5. [data |-> FullBlocks, len |-> Remainder] \in Chunks
  BY <1>1 DEF Chunks
<1>6. Append(WholeBlocks, [data |-> FullBlocks, len |-> Remainder])[k] = WholeBlocks[k]
  BY <1>3, <1>4, <1>5
<1> QED BY <1>4, <1>6 DEF WholeFile

(* THEOREM: until a packet is lost, every whole block of the received file *)
(* is the one of the sent file in that place (send_file_simple.c,          *)
(* send_file_resumeable.c and their receivers).                            *)
THEOREM BlocksStayInOrder == Spec => []BlocksInOrder
<1>1. OrderInv /\ TurnInv => BlocksInOrder
  <2> SUFFICES ASSUME OrderInv, TurnInv, InOrderPrograms, ~lost
               PROVE  \A k \in DOMAIN r_file : k =< FullBlocks => r_file[k] = FullBlock(k)
    BY DEF BlocksInOrder
  <2>1. r_file \in Seq(Chunks) /\ DOMAIN r_file = 1 .. Len(r_file)
    BY DEF OrderInv, FileTypes
  <2>2. CASE program = "simple"
    BY <2>1, <2>2, WholeIsFilled
       DEF TurnInv, SimpleTurn, Starting, Sending, Sent, Acking, LastSent, LastAcking, Stopping, Stopped, Ended, Filled
  <2>3. CASE program = "resumeable"
    BY <2>1, <2>3
       DEF TurnInv, ResumeableTurn, GoStarting, GoAsking, GoSending, GoSent, GoLast, GoStopped, GoEnded, Filled
  <2> QED BY <2>2, <2>3 DEF InOrderPrograms
<1> QED BY <1>1, ProgressInvariant, PTL

(* THEOREM: a receiver that has seen the stop code and lost nothing has    *)
(* every whole block; that of simple has the file to its last byte         *)
(* (send_file_simple.c, send_file_resumeable.c and their receivers).       *)
THEOREM ReceiverFinishesFile == Spec => []FinishedFile
<1>1. OrderInv /\ TurnInv => FinishedFile
  <2> SUFFICES ASSUME OrderInv, TurnInv, r_pc = "done", ~lost
               PROVE  /\ program = "simple" => r_file = WholeFile
                      /\ program = "resumeable" => \A k \in 1 .. FullBlocks : r_file[k] = FullBlock(k)
    BY DEF FinishedFile
  <2>1. program = "simple" => r_file = WholeFile
    BY DEF TurnInv, InOrderPrograms, SimpleTurn, Starting, Sending, Sent, Acking, LastSent, LastAcking, Stopping,
           Stopped, Ended
  <2>2. ASSUME program = "resumeable" PROVE \A k \in 1 .. FullBlocks : r_file[k] = FullBlock(k)
    <3>1. GoEnded /\ r_file \in Seq(Chunks) /\ FullBlocks \in Nat
      BY <2>2, Constants DEF OrderInv, FileTypes, TurnInv, InOrderPrograms, ResumeableTurn, GoStarting, GoAsking,
         GoSending, GoSent, GoLast, GoStopped
    <3> QED BY <3>1 DEF GoEnded, Filled
  <2> QED BY <2>1, <2>2
<1> QED BY <1>1, ProgressInvariant, PTL
-----------------------------------------------------------------------------
(* Type correctness, of all three programs.  The request of advance is     *)
(* computed from the size of the file, a sum over its blocks: that this is *)
(* a number is a hypothesis, since it takes induction over the file.       *)
FileChunks == [data : -2 .. FullBlocks, len : 1 .. TOSH_DATA_LENGTH]
FilesHaveSizes == \A file \in Seq(FileChunks) : Bytes(file) \in Nat
Sized == "advance" \in Programs => FilesHaveSizes

TypeInv == TypeOK /\ program \in Programs /\ (program = "simple" => r_pc # "ask")

LEMMA LinkWritten ==
  ASSUME LinkTypeOK, NEW n \in {"sender", "receiver"}, NEW p, write(n, p),
         n = "sender" => p \in Packets, n = "receiver" => p \in Requests,
         rx_packet["sender"] \in Requests \cup {Invalid}, rx_packet["receiver"] \in Packets \cup {Invalid}
  PROVE  /\ LinkTypeOK'
         /\ rx_packet'["sender"] \in Requests \cup {Invalid} /\ rx_packet'["receiver"] \in Packets \cup {Invalid}
<1>1. /\ rx_packet \in [{"sender", "receiver"} -> (Packets \cup Requests) \cup {Invalid}]
      /\ recv_done \in [{"sender", "receiver"} -> BOOLEAN] /\ lost \in BOOLEAN
  BY DEF LinkTypeOK
<1>2. ASSUME NEW q \in {p, Invalid}, Arrives(Peer(n), q)
      PROVE  /\ rx_packet' \in [{"sender", "receiver"} -> (Packets \cup Requests) \cup {Invalid}]
             /\ recv_done' \in [{"sender", "receiver"} -> BOOLEAN]
             /\ rx_packet'["sender"] \in Requests \cup {Invalid} /\ rx_packet'["receiver"] \in Packets \cup {Invalid}
  <2>1. CASE n = "sender"
    BY <1>1, <1>2, <2>1 DEF Arrives, Peer
  <2>2. CASE n = "receiver"
    BY <1>1, <1>2, <2>2 DEF Arrives, Peer
  <2> QED BY <2>1, <2>2
<1>3. CASE Arrives(Peer(n), p) /\ UNCHANGED lost
  BY <1>1, <1>2, <1>3 DEF LinkTypeOK
<1>4. CASE lost' = TRUE /\ UNCHANGED << rx_packet, recv_done >>
  BY <1>1, <1>4 DEF LinkTypeOK
<1>5. CASE lost' = TRUE /\ Arrives(Peer(n), Invalid)
  BY <1>1, <1>2, <1>5 DEF LinkTypeOK
<1> QED BY <1>3, <1>4, <1>5 DEF write

LEMMA Wraps == \A n \in Int : ToS8(n) \in S8
  BY DEF ToS8, S8

LEMMA UnsetType == UnsetPackets \subseteq Packets
  BY Constants DEF UnsetPackets, Packets

LEMMA DataType ==
  ASSUME NEW pos \in Nat, s_data \in -2 .. FullBlocks
  PROVE  DataAt(pos) \in -2 .. FullBlocks
  BY Constants DEF DataAt

LEMMA SenderTypes ==
  ASSUME TypeInv, SenderGoesOn
  PROVE  TypeInv'
<1>1. /\ FullBlocks \in Nat /\ Remainder \in 0 .. TOSH_DATA_LENGTH /\ TypeOK
      /\ rx_packet["sender"] \in Requests \cup {Invalid} /\ rx_packet["receiver"] \in Packets \cup {Invalid}
  BY Constants DEF TypeInv, TypeOK
<1>2. Group \in {0, 7}
  BY DEF Group
<1>3. ASSUME NEW data \in -2 .. FullBlocks, NEW len \in 0 .. TOSH_DATA_LENGTH,
             write("sender", [data |-> data, len |-> len, group |-> Group])
      PROVE  /\ LinkTypeOK'
             /\ rx_packet'["sender"] \in Requests \cup {Invalid}
             /\ rx_packet'["receiver"] \in Packets \cup {Invalid}
  <2>1. [data |-> data, len |-> len, group |-> Group] \in Packets
    BY <1>2 DEF Packets
  <2> QED BY <1>1, <1>3, <2>1, LinkWritten DEF TypeOK
<1>4. ASSUME NEW pos \in Nat, NEW len \in 0 .. TOSH_DATA_LENGTH, NEW next, SendPacket(pos, len, next),
             next \in {"ack", "last_ack", "wait", "wait_last", "stop"}
      PROVE  TypeInv'
  <2>1. s_data' \in -2 .. FullBlocks /\ s_pos' \in Nat /\ s_pc' = next
        /\ write("sender", [data |-> s_data', len |-> len, group |-> Group])
        /\ UNCHANGED << program, s_req, receiverVars, kills >>
    BY <1>1, <1>4, DataType DEF SendPacket, TypeOK
  <2> QED BY <1>1, <1>3, <1>4, <2>1 DEF TypeInv, TypeOK, receiverVars
<1>5. ASSUME ReadRequest, s_pc' \in {"send", "last", "stop", "done", "wait"}
      PROVE  TypeInv'
  <2>1. s_req' \in S8
    BY <1>1, <1>5 DEF ReadRequest, BufferAfterRead, Requests, TypeOK
  <2>2. LinkTypeOK'
    BY <1>1, <1>5 DEF ReadRequest, read, LinkTypeOK, TypeOK
  <2> QED BY <1>1, <1>5, <2>1, <2>2 DEF ReadRequest, read, TypeInv, TypeOK, receiverVars
<1>6. CASE SendStop
  <2>1. 9 \in 0 .. TOSH_DATA_LENGTH /\ Stop \in -2 .. FullBlocks
    BY <1>1
  <2>2. write("sender", [data |-> Stop, len |-> 9, group |-> Group]) /\ s_data' = Stop /\ s_pc' = "done"
        /\ UNCHANGED << program, s_pos, s_req, receiverVars, kills >>
    BY <1>6 DEF SendStop
  <2> HIDE DEF Stop
  <2> QED BY <1>1, <1>3, <2>1, <2>2 DEF TypeInv, TypeOK, receiverVars
<1>7. s_pos \in Nat /\ s_req + 3000 \in Nat /\ TOSH_DATA_LENGTH \in 0 .. TOSH_DATA_LENGTH
      /\ 0 \in 0 .. TOSH_DATA_LENGTH
  BY <1>1 DEF TypeOK, S8
<1>8. CASE SimpleSend \/ SimpleLast \/ ResumeableSend \/ ResumeableLast \/ AdvanceSend \/ AdvanceLast
  BY <1>1, <1>4, <1>7, <1>8 DEF SimpleSend, SimpleLast, ResumeableSend, ResumeableLast, AdvanceSend, AdvanceLast
<1>9. CASE SimpleAcked \/ SimpleLastAcked \/ ResumeableAsked \/ AdvanceAsked
  BY <1>5, <1>9 DEF SimpleAcked, SimpleLastAcked, ResumeableAsked, AdvanceAsked
<1> QED BY <1>6, <1>8, <1>9 DEF SenderGoesOn

LEMMA StoreTypes ==
  ASSUME TypeOK, NEW p \in Packets, Store(p)
  PROVE  r_pos' \in Nat /\ r_file' \in Seq(FileChunks)
<1>1. p.data \in -2 .. FullBlocks /\ p.len \in 0 .. TOSH_DATA_LENGTH
  BY DEF Packets
<1>2. r_pos \in Nat /\ r_file \in Seq(FileChunks)
  BY DEF TypeOK, FileChunks
<1>3. CASE p.len = 0
  BY <1>2, <1>3 DEF Store
<1>4. CASE p.len # 0
  <2> DEFINE chunk == [data |-> p.data, len |-> p.len]
  <2>1. chunk \in FileChunks
    BY <1>1, <1>4 DEF FileChunks
  <2>2. /\ r_pos' = r_pos + 1
        /\ r_file' = IF r_pos < Len(r_file) THEN [r_file EXCEPT ![r_pos + 1] = chunk]
                                            ELSE Append(r_file, chunk)
    BY <1>4 DEF Store
  <2> HIDE DEF chunk, FileChunks
  <2> QED BY <1>2, <2>1, <2>2
<1> QED BY <1>3, <1>4

LEMMA ReceiverTypes ==
  ASSUME Sized, TypeInv, ReceiverGoesOn
  PROVE  TypeInv'
<1>1. /\ TypeOK /\ FullBlocks \in Nat /\ r_file \in Seq(FileChunks)
      /\ rx_packet["sender"] \in Requests \cup {Invalid} /\ rx_packet["receiver"] \in Packets \cup {Invalid}
  BY Constants DEF TypeInv, TypeOK, FileChunks
<1>2. ASSUME NEW req \in S8, NEW next, next \in {"read"}, Answer(req, next), r_pos' \in Nat PROVE TypeInv'
  <2>1. [req |-> req] \in Requests
    BY DEF Requests
  <2>2. LinkTypeOK' /\ rx_packet'["sender"] \in Requests \cup {Invalid}
        /\ rx_packet'["receiver"] \in Packets \cup {Invalid}
    BY <1>1, <1>2, <2>1, LinkWritten DEF Answer, TypeOK
  <2> QED BY <1>2, <2>2 DEF Answer, TypeInv, TypeOK, senderVars
<1>3. ASSUME ReadPacket PROVE /\ r_pkt' \in Packets /\ LinkTypeOK' /\ rx_packet' = rx_packet
                              /\ UNCHANGED << program, senderVars, kills >>
  BY <1>1, <1>3 DEF ReadPacket, read, BufferAfterRead, LinkTypeOK, TypeOK
<1>4. ASSUME ReadPacket, r_pc' \in {"ask", "ack", "done"}, r_pc' = "ask" => program # "simple",
             UNCHANGED << r_pos, r_file >> \/ Store(r_pkt')
      PROVE  TypeInv'
  <2>1. r_pos' \in Nat /\ r_file' \in Seq(FileChunks)
    BY <1>1, <1>3, <1>4, StoreTypes DEF TypeOK
  <2> QED BY <1>1, <1>3, <1>4, <2>1 DEF TypeInv, TypeOK, senderVars, FileChunks
<1>5. CASE SimpleAck
  <2>1. 0 \in S8
    BY DEF S8
  <2> QED BY <1>1, <1>2, <1>5, <2>1 DEF SimpleAck, TypeOK
<1>6. CASE Ask
  <2>1. Go \in S8
    BY DEF S8
  <2>2. ASSUME program = "advance" PROVE ToS8(Bytes(r_file) \div TOSH_DATA_LENGTH - 3000) \in S8
    <3>1. Bytes(r_file) \in Nat
      BY <1>1, <2>2 DEF Sized, FilesHaveSizes, TypeInv
    <3>2. Bytes(r_file) \div TOSH_DATA_LENGTH - 3000 \in Int
      BY <3>1
    <3> QED BY <3>2, Wraps
  <2>3. program \in {"resumeable", "advance"}
    BY <1>1, <1>6 DEF Ask, TypeInv, TypeOK
  <2>4. r_pos' \in Nat
    BY <1>1, <1>6 DEF Ask
  <2>5. Answer(IF program = "resumeable" THEN Go
               ELSE ToS8(Bytes(r_file) \div TOSH_DATA_LENGTH - 3000), "read")
    BY <1>6 DEF Ask
  <2> HIDE DEF Go
  <2>6. CASE program = "resumeable"
    BY <1>2, <2>1, <2>4, <2>5, <2>6
  <2>7. CASE program = "advance"
    BY <1>2, <2>2, <2>4, <2>5, <2>7
  <2> QED BY <2>3, <2>6, <2>7
<1>7. CASE SimpleRead \/ ResumeableRead \/ AdvanceRead
  BY <1>4, <1>7 DEF SimpleRead, ResumeableRead, AdvanceRead
<1> QED BY <1>5, <1>6, <1>7 DEF ReceiverGoesOn

(* THEOREM: every variable keeps its type, in all three programs: the      *)
(* offsets are never negative, a device holds a packet of the other        *)
(* program or nothing, and the file consists of blocks that are not empty. *)
THEOREM TransmitTypeCorrect == Sized => (Spec => []TypeOK)
<1> SUFFICES ASSUME Sized PROVE Spec => []TypeOK
  OBVIOUS
<1>1. Init => TypeInv
  <2> SUFFICES ASSUME Init PROVE TypeInv
    OBVIOUS
  <2>1. LinkTypeOK /\ rx_packet["sender"] = Invalid /\ rx_packet["receiver"] = Invalid
    BY DEF Init, LinkInit, LinkTypeOK
  <2>2. r_pkt \in Packets
    BY UnsetType DEF Init
  <2>3. program \in Programs /\ program \in {"simple", "resumeable", "advance"}
    BY TransmitAssumption DEF Init, TransmitAssumption
  <2>4. s_data \in -2 .. FullBlocks /\ s_req \in S8 /\ kills \in 0 .. MaxKills
    BY Constants, TransmitAssumption DEF Init, TransmitAssumption, S8
  <2> QED BY <2>1, <2>2, <2>3, <2>4 DEF Init, TypeInv, TypeOK
<1>2. TypeInv /\ [Next]_vars => TypeInv'
  <2> SUFFICES ASSUME TypeInv, [Next]_vars PROVE TypeInv'
    OBVIOUS
  <2>1. CASE SenderStarts
    BY <2>1 DEF SenderStarts, TypeInv, TypeOK, LinkTypeOK, deviceVars, receiverVars
  <2>2. CASE AlarmKills
    <3>1. UnsetPackets \subseteq Packets
      BY UnsetType
    <3>2. kills' \in 0 .. MaxKills
      BY <2>2, TransmitAssumption DEF AlarmKills, TypeInv, TypeOK, TransmitAssumption
    <3> QED BY <2>2, <3>1, <3>2 DEF AlarmKills, TypeInv, TypeOK, LinkTypeOK, deviceVars, senderVars
  <2>3. CASE UNCHANGED vars
    BY <2>3 DEF vars, TypeInv, TypeOK, LinkTypeOK, deviceVars, senderVars, receiverVars
  <2> QED BY <2>1, <2>2, <2>3, SenderTypes, ReceiverTypes DEF Next
<1>3. TypeInv => TypeOK
  BY DEF TypeInv
<1> QED BY <1>1, <1>2, <1>3, PTL DEF Spec
=============================================================================
