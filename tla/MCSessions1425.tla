-------------------------- MODULE MCSessions1425 --------------------------
(* Ticks of 500 ms: a second of 2, reads of up to 1, a clock that wraps at *)
(* 16, and logs of 1, 2 and 8 seconds, the last of which exceeds it.       *)
EXTENDS Sessions1425
=============================================================================
