---------------------------- MODULE MCDriverLife ----------------------------
(***************************************************************************)
(* Arguments below, within and above the ranges of the ioctls, one of more *)
(* than 16 bits, negative ones that access_ok takes, and -1, which it      *)
(* refuses.                                                                *)
(***************************************************************************)
EXTENDS DriverLife

SomeFreqs == {0, 2412, 100000}
SomeChannels == {12, 30}
SomePowers == {-1, -2000000000, 10, 31}
SomeAddrs == {40, 66049, -1}
SomeSizes == {100, -1500000000}
NoArgument == {}
StargateTop == -1090519040   \* 0xBF000000
=============================================================================
