---------------------------- MODULE MCDeviceCli ----------------------------
(* Arguments on both sides of every limit; 500 does not fit a uint32_t, the
   masks 12 and 73 combine BeiDou with Galileo and with GPS and GLONASS.
   Of the Mini's frequencies, 80 has a chain in the native band, 9 one that
   the multiples do not reach, 35 only others, and 79 none. *)
EXTENDS DeviceCli

AllModels == {"1420", "1421", "1423", "1425", "Mini"}
Frequencies == {0, 80, 82, 141, 161, 500}
MiniFrequencies == {9, 35, 79}
MCValues ==
  [o \in Sets |->
     CASE o = "f1" -> Frequencies \cup MiniFrequencies
       [] o = "f1t" -> Frequencies \ {0, 500}
       [] o \in {"f2", "f2t"} -> {82, 141, 500}
       [] o \in Flags -> {1, 2}
       [] o = "drive" -> {16, 12}
       [] o = "gnss" -> {8, 12, 73, 256}
       [] o = "dynmodel" -> {2}]
=============================================================================
