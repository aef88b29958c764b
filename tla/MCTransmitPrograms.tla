------------------------ MODULE MCTransmitPrograms ------------------------
(***************************************************************************)
(* A file of 3 blocks and a remainder.                                     *)
(***************************************************************************)
EXTENDS TransmitPrograms

AnyFault == {"lost", "garbled"}
NoFault == {}

(* The hypothesis FilesHaveSizes of TransmitProofs, for files of up to     *)
(* three blocks.                                                           *)
ASSUME SizesOfShortFiles ==
  \A n \in 0 .. 3 : \A file \in [1 .. n -> [data : {0}, len : 1 .. TOSH_DATA_LENGTH]] :
    Bytes(file) \in Nat
=============================================================================
