--------------------------- MODULE MCMonitorLoop ---------------------------
(* A second of six units, an asserted pulse of three, rounds of at most three;
   lines that are empty, fit, fill rx to the last byte, and do not fit. *)
EXTENDS MonitorLoop

MCScripts == { <<5, 3, 1>> }
MCPhases == {-2, 1}
=============================================================================
