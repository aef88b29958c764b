-------------------------- MODULE TransmitPrograms --------------------------
(***************************************************************************)
(* The transfers of file-transmission-code/transmit, each a sender and a   *)
(* receiver over a TOSMac device, that preceded send_file and recv_file:   *)
(*   simple      the receiver acknowledges every block;                    *)
(*   resumeable  it asks for the next block with "!GO!", is ended by       *)
(*               alarm(2) when none comes, and goes on with the file it    *)
(*               has when the script starts it again;                      *)
(*   advance     it asks for a block by number, less 3000.                 *)
(* The bytes of a block are its number; Stale stands for bytes that are    *)
(* not of the file and Stop for the stop code.                             *)
(***************************************************************************)
EXTENDS Integers, SequencesExt

CONSTANTS FullBlocks,  \* h = file_size / TOSH_DATA_LENGTH
          Remainder,   \* i = file_size % TOSH_DATA_LENGTH
          Programs,    \* \subseteq {"simple", "resumeable", "advance"}
          MaxKills,    \* bound: how often alarm(2) strikes
          Faults, Invalid

TOSH_DATA_LENGTH == 28
Stale == -1
Stop == -2
Go == 1           \* as a request: "!GO!"
S8 == -128 .. 127
wider_byte(n) == n   \* seeded fault
ToS8(n) == ((n + 128) % 256) - 128

Packets == [data : -2 .. FullBlocks, len : 0 .. TOSH_DATA_LENGTH, group : {0, 7}]
Requests == [req : S8]

ASSUME TransmitAssumption ==
  /\ FullBlocks \in Nat /\ MaxKills \in Nat /\ Remainder \in 0 .. TOSH_DATA_LENGTH - 1
  /\ Programs \subseteq {"simple", "resumeable", "advance"}
  /\ Faults \subseteq {"lost", "garbled"}
  /\ Invalid \notin Packets \cup Requests

Peer(n) == IF n = "sender" THEN "receiver" ELSE "sender"

VARIABLES rx_packet, recv_done, lost,
          program,                     \* which pair of programs runs
          s_pc, s_pos, s_req, s_data,  \* sender: block the file offset is at, recv_pkt, send_pkt.data
          r_pc, r_pos, r_pkt, r_file,  \* receiver: file offset in blocks, recv_pkt, its file
          kills

INSTANCE DeviceLink WITH Nodes <- {"sender", "receiver"}, Packets <- Packets \cup Requests

deviceVars == << rx_packet, recv_done, lost >>
senderVars == << s_pc, s_pos, s_req, s_data >>
receiverVars == << r_pc, r_pos, r_pkt, r_file >>
vars == << deviceVars, program, senderVars, receiverVars, kills >>

(* An unset recv_pkt of the receiver; that of the sender says nothing. *)
UnsetPackets == [data : {Stale}, len : {0, TOSH_DATA_LENGTH}, group : {0, 7}]

Init == /\ LinkInit
        /\ program \in Programs
        /\ s_pc = "start" /\ s_pos = 0 /\ s_req = 0 /\ s_data = Stale
        /\ r_pc = (IF program = "simple" THEN "read" ELSE "ask")
        /\ r_pos = 0 /\ r_pkt \in UnsetPackets /\ r_file = << >>
        /\ kills = 0
-----------------------------------------------------------------------------
(* What the senders have in common. *)
all_but_one_sent == s_pos + 1 >= FullBlocks   \* seeded fault
AllBlocksSent == s_pos >= FullBlocks

(* read() of the file at block pos leaves send_pkt.data alone at its end.  *)
DataAt(pos) ==
  IF pos < FullBlocks \/ (pos = FullBlocks /\ Remainder > 0) THEN pos ELSE s_data

(* Only advance with a file of less than two blocks never sets its group.  *)
Group == IF program = "simple" \/ (program = "advance" /\ FullBlocks < 2) THEN 0 ELSE 7

SendPacket(pos, len, next) ==
  /\ s_data' = DataAt(pos)
  /\ s_pos' = pos + 1
  /\ write("sender", [data |-> s_data', len |-> len, group |-> Group])
  /\ s_pc' = next
  /\ UNCHANGED << program, s_req, receiverVars, kills >>

ReadRequest ==
  /\ read("sender")
  /\ s_req' = BufferAfterRead("sender", [req |-> s_req]).req
  /\ UNCHANGED << program, s_pos, s_data, receiverVars, kills >>

(* A sender is started while the receiver waits. *)
SenderStarts == /\ s_pc = "start" /\ r_pc = "read"
                /\ s_pc' = CASE program = "simple" -> IF AllBlocksSent THEN "last" ELSE "send"
                             [] program = "resumeable" -> "wait"
                             [] program = "advance" -> IF 1 < FullBlocks THEN "wait" ELSE "wait_last"
                /\ UNCHANGED << deviceVars, program, s_pos, s_req, s_data, receiverVars, kills >>

SendStop ==
  /\ s_pc = "stop"
  /\ s_data' = Stop
  /\ write("sender", [data |-> Stop, len |-> 9, group |-> Group])
  /\ s_pc' = "done"
  /\ UNCHANGED << program, s_pos, s_req, receiverVars, kills >>
-----------------------------------------------------------------------------
(* send_file_simple: a block, its acknowledgement, and so on. *)
SimpleSend == program = "simple" /\ s_pc = "send" /\ SendPacket(s_pos, TOSH_DATA_LENGTH, "ack")

not_awaited ==   \* seeded fault: goes on without the acknowledgement
  /\ program = "simple" /\ s_pc = "ack"
  /\ s_pc' = IF AllBlocksSent THEN "last" ELSE "send"
  /\ UNCHANGED << deviceVars, program, s_pos, s_req, s_data, receiverVars, kills >>

SimpleAcked == /\ program = "simple" /\ s_pc = "ack"
               /\ ReadRequest
               /\ s_pc' = IF AllBlocksSent THEN "last" ELSE "send"

SimpleLast == program = "simple" /\ s_pc = "last" /\ SendPacket(s_pos, Remainder, "last_ack")

SimpleLastAcked == program = "simple" /\ s_pc = "last_ack" /\ ReadRequest /\ s_pc' = "stop"

(* send_file_resumeable: a block for every "!GO!". *)
ResumeableAsked == /\ program = "resumeable" /\ s_pc = "wait"
                   /\ ReadRequest
                   /\ s_pc' = IF AllBlocksSent
                              THEN IF s_req' = Go THEN "last" ELSE "done"
                              ELSE IF s_req' = Go THEN "send" ELSE "wait"

ResumeableSend ==
  program = "resumeable" /\ s_pc = "send" /\ SendPacket(s_pos, TOSH_DATA_LENGTH, "wait")

(* The last write() is of send_pkt.length bytes, which is 0 from msg_init. *)
ResumeableLast == program = "resumeable" /\ s_pc = "last" /\ SendPacket(s_pos, 0, "stop")

(* send_file_advance: the block asked for, wherever the file offset is.    *)
AdvanceAsked == /\ program = "advance" /\ s_pc \in {"wait", "wait_last"}
                /\ ReadRequest
                /\ s_pc' = IF s_pc = "wait" THEN "send" ELSE "last"

AdvanceSend ==
  /\ program = "advance" /\ s_pc = "send"
  /\ LET j == s_req + 3000
     IN SendPacket(j, TOSH_DATA_LENGTH, IF j + 1 < FullBlocks THEN "wait" ELSE "wait_last")

AdvanceLast == program = "advance" /\ s_pc = "last" /\ SendPacket(s_pos, Remainder, "stop")
-----------------------------------------------------------------------------
(* write() to the received file at its offset. *)
Store(p) == IF p.len = 0
            THEN UNCHANGED << r_pos, r_file >>
            ELSE LET chunk == [data |-> p.data, len |-> p.len]
                 IN /\ r_pos' = r_pos + 1
                    /\ r_file' = IF r_pos < Len(r_file) THEN [r_file EXCEPT ![r_pos + 1] = chunk]
                                                        ELSE Append(r_file, chunk)

ReadPacket == /\ read("receiver")
              /\ r_pkt' = BufferAfterRead("receiver", r_pkt)
              /\ UNCHANGED << program, senderVars, kills >>

Answer(req, next) == /\ write("receiver", [req |-> req])
                     /\ r_pc' = next
                     /\ UNCHANGED << program, senderVars, r_pkt, r_file, kills >>

SimpleRead == /\ program = "simple" /\ r_pc = "read"
              /\ ReadPacket
              /\ IF r_pkt'.data = Stop
                 THEN r_pc' = "done" /\ UNCHANGED << r_pos, r_file >>
                 ELSE r_pc' = "ack" /\ Store(r_pkt')

not_acknowledged == r_pc = "ack" /\ r_pc' = "read"   \* seeded fault
                    /\ UNCHANGED << deviceVars, program, senderVars, r_pos, r_pkt, r_file, kills >>
SimpleAck == r_pc = "ack" /\ Answer(0, "read") /\ UNCHANGED r_pos

Bytes(file) == FoldLeft(LAMBDA n, chunk : n + chunk.len, 0, file)

ask_where_it_is ==   \* seeded fault: lseek(SEEK_CUR), as in recv_file.c
  /\ r_pc = "ask" /\ UNCHANGED r_pos
  /\ Answer(IF program = "resumeable" THEN Go
            ELSE ToS8(Bytes(r_file) \div TOSH_DATA_LENGTH - 3000), "read")

(* lseek(SEEK_END), the request, alarm(2). *)
Ask == /\ r_pc = "ask"
       /\ r_pos' = Len(r_file)
       /\ Answer(IF program = "resumeable" THEN Go
                 ELSE ToS8(Bytes(r_file) \div TOSH_DATA_LENGTH - 3000), "read")

(* The resumeable receiver looks for the stop code after writing it. *)
ResumeableRead ==
  /\ program = "resumeable" /\ r_pc = "read"
  /\ ReadPacket
  /\ IF r_pkt'.group # 7
     THEN r_pc' = "ask" /\ UNCHANGED << r_pos, r_file >>
     ELSE r_pc' = (IF r_pkt'.data = Stop THEN "done" ELSE "ask") /\ Store(r_pkt')

AdvanceRead ==
  /\ program = "advance" /\ r_pc = "read"
  /\ ReadPacket
  /\ r_pc' = IF r_pkt'.data = Stop THEN "done" ELSE "ask"
  /\ IF r_pkt'.data = Stop \/ r_pkt'.group # 7 THEN UNCHANGED << r_pos, r_file >> ELSE Store(r_pkt')

(* Two seconds are longer than an answer takes: nothing is on its way.     *)
Quiet == /\ ~recv_done["receiver"]
         /\ \/ s_pc \in {"start", "done"}
            \/ s_pc \in {"wait", "wait_last"} /\ ~recv_done["sender"]

AlarmKills == /\ kills < MaxKills
              /\ program # "simple" /\ r_pc = "read" /\ Quiet
              /\ r_pc' = "ask" /\ r_pos' = 0 /\ r_pkt' \in UnsetPackets
              /\ kills' = kills + 1
              /\ UNCHANGED << deviceVars, program, senderVars, r_file >>
-----------------------------------------------------------------------------
SenderGoesOn == \/ SimpleSend \/ SimpleAcked \/ SimpleLast \/ SimpleLastAcked
                \/ ResumeableAsked \/ ResumeableSend \/ ResumeableLast
                \/ AdvanceAsked \/ AdvanceSend \/ AdvanceLast
                \/ SendStop
ReceiverGoesOn == SimpleRead \/ SimpleAck \/ Ask \/ ResumeableRead \/ AdvanceRead

Next == SenderStarts \/ SenderGoesOn \/ ReceiverGoesOn \/ AlarmKills

Spec == Init /\ [][Next]_vars

(* Both processes get on; the operator and the alarm need not. *)
FairSpec == Spec /\ WF_vars(SenderGoesOn) /\ WF_vars(ReceiverGoesOn)

TypeOK == /\ LinkTypeOK
          /\ rx_packet["sender"] \in Requests \cup {Invalid}
          /\ rx_packet["receiver"] \in Packets \cup {Invalid}
          /\ program \in {"simple", "resumeable", "advance"}
          /\ s_pc \in {"start", "send", "ack", "last", "last_ack", "wait", "wait_last", "stop", "done"}
          /\ s_pos \in Nat /\ s_req \in S8 /\ s_data \in -2 .. FullBlocks
          /\ r_pc \in {"ask", "read", "ack", "done"} /\ r_pos \in Nat /\ r_pkt \in Packets
          /\ r_file \in Seq([data : -2 .. FullBlocks, len : 1 .. TOSH_DATA_LENGTH])
          /\ kills \in 0 .. MaxKills
-----------------------------------------------------------------------------
FullBlock(k) == [data |-> k - 1, len |-> TOSH_DATA_LENGTH]
WholeBlocks == [k \in 1 .. FullBlocks |-> FullBlock(k)]
WholeFile == IF Remainder = 0 THEN WholeBlocks
             ELSE Append(WholeBlocks, [data |-> FullBlocks, len |-> Remainder])
InOrderPrograms == program \in {"simple", "resumeable"}

(* Until a packet is lost, the whole blocks of the received file are those *)
(* of the sent one, in their places: "seek to end of the file, so the data *)
(* received will not overwrite" (recv_file_resumeable.c:70).               *)
BlocksInOrder ==
  InOrderPrograms /\ ~lost =>
    \A k \in DOMAIN r_file : k =< FullBlocks => r_file[k] = FullBlock(k)

(* Whatever is lost or garbled and however often the receiver starts       *)
(* again, no block comes to stand before one that was sent earlier.        *)
NeverGoesBack ==
  InOrderPrograms =>
    \A k, l \in DOMAIN r_file :
      k < l /\ r_file[l].data >= 0 => r_file[k].data =< r_file[l].data

(* A receiver that has seen the stop code has every whole block; that of   *)
(* simple has the file, to its last byte.                                  *)
FinishedFile ==
  r_pc = "done" /\ ~lost =>
    /\ program = "simple" => r_file = WholeFile
    /\ program = "resumeable" => \A k \in 1 .. FullBlocks : r_file[k] = FullBlock(k)

(* Once the sender runs both programs end, unless a packet is lost. *)
BothEndUnlessLost ==
  s_pc # "start" ~> (s_pc = "done" /\ r_pc = "done") \/ lost

(* The resumeable transfer, too, ends with the file: "Sending the last     *)
(* bytes", "i = remainder" (send_file_resumeable.c:95, 98).                *)
ResumedFileWhole == r_pc = "done" /\ ~lost => r_file = WholeFile

(* "This feature request tells the transmitter how much bytes already      *)
(* received so the transmitter will sinchronize" (recv_file_advance.c:72). *)
AdvanceSynchronises ==
  program = "advance" /\ ~lost =>
    \A k \in DOMAIN r_file : k =< FullBlocks => r_file[k] = FullBlock(k)
=============================================================================
