--------------------------- MODULE ControlRequest ---------------------------
(***************************************************************************)
(* What a control request of the HID device promises its caller: it ends,  *)
(* a SET that succeeds was carried out at least once, and a status that is *)
(* returned is plausible.  A SET that fails may have been carried out too, *)
(* and any SET may be carried out more than once.                          *)
(***************************************************************************)

CONSTANT Requests    \* "status" and "set"

VARIABLES
  request,     \* the request in progress, or "none"
  delivered,   \* whether the device has carried out the SET in progress
  result,      \* of the last request that ended: "none", "ok" or "fail"
  frequency    \* OUT1 frequency of the last status returned

vars == <<request, delivered, result, frequency>>

Init ==
  /\ request = "none" /\ result = "none"
  /\ delivered = FALSE
  /\ frequency = "none"

Start(r) ==
  /\ request = "none"
  /\ request' = r /\ result' = "none"
  /\ delivered' = FALSE
  /\ UNCHANGED frequency

\* The SET takes effect, while its answer does not arrive.
Carry ==
  /\ request = "set"
  /\ delivered' = TRUE
  /\ UNCHANGED <<request, result, frequency>>

Succeed ==
  /\ request # "none"
  /\ request' = "none" /\ result' = "ok"
  /\ IF request = "set" THEN delivered' = TRUE ELSE UNCHANGED delivered
  /\ frequency' = IF request = "status" THEN "good" ELSE frequency

Fail ==
  /\ request # "none"
  /\ request' = "none" /\ result' = "fail"
  /\ \/ UNCHANGED delivered
     \/ request = "set" /\ delivered' = TRUE
  /\ UNCHANGED frequency

Next == (\E r \in Requests : Start(r)) \/ Carry \/ Succeed \/ Fail

\* Without the promise that it ends:
Safety == Init /\ [][Next]_vars

Spec == Safety /\ WF_vars(Succeed \/ Fail)
=============================================================================
