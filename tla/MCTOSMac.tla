------------------------------ MODULE MCTOSMac ------------------------------
(***************************************************************************)
(* Frames for the model checker: a data frame of 4 payload bytes, one      *)
(* longer than a packet may be (it is cut off), one with a length byte of  *)
(* 0, and the acknowledgement of the packet with number 1.  And what the   *)
(* timer may be like when the driver is loaded: at rest, as after a reset, *)
(* or started by a write before rmmod and still counting.                  *)
(***************************************************************************)
EXTENDS TOSMacProperties

DataFrame == [len |-> 15, type |-> "data", dsn |-> 0, crc |-> TRUE]
LongFrame == [len |-> 60, type |-> "data", dsn |-> 0, crc |-> TRUE]
EmptyFrame == [len |-> 0, type |-> "data", dsn |-> 0, crc |-> FALSE]
AckFrame == [len |-> 5, type |-> "ack", dsn |-> 1, crc |-> TRUE]

AtRest == {[running |-> FALSE, OIER |-> FALSE, OSSR |-> FALSE, elapsed |-> FALSE]}
LeftRunning == {[running |-> TRUE, OIER |-> TRUE, OSSR |-> FALSE, elapsed |-> FALSE]}

Silent == {}
DataFrames == {DataFrame}
BadFrames == {DataFrame, EmptyFrame}
AckFrames == {DataFrame, AckFrame}
AllFrames == {DataFrame, LongFrame, EmptyFrame, AckFrame}
=============================================================================
