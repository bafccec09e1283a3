--------------------------- MODULE MCControlPipe ---------------------------
(* The counters of the code; every counter of the model is bounded by them. *)
EXTENDS ControlPipe
=============================================================================
