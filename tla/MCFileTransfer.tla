--------------------------- MODULE MCFileTransfer ---------------------------
(***************************************************************************)
(* Files of 3 blocks and a remainder, and of 128 blocks, which the signed  *)
(* byte of the request cannot count.                                       *)
(***************************************************************************)
EXTENDS FileTransfer

AnyFault == {"lost", "garbled"}
NoFault == {}
=============================================================================
