----------------------------- MODULE MCSpiPort -----------------------------
(***************************************************************************)
(* Calls for the model checker.  Frames are written and read in one chunk, *)
(* in exactly one, and in several; 40 is MSG_DATA_SIZE.                    *)
(***************************************************************************)
EXTENDS SpiPort

Registers == [f : {"cmd_strobe", "write_reg", "read_reg"}]
Writes == [f : {"write_TXFIFO"}, length : {6, 16, 17, 39}]
Reads == [f : {"read_RXFIFO"}, pktlen : {0, 5, 16, 60}, max : {40}]
Transfers == Registers \cup Writes \cup Reads

AddressWrites == [f : {"write_RAM"}, length : {2}]
=============================================================================
