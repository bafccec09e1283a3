----------------------------- MODULE ClockSeries -----------------------------
(***************************************************************************)
(* What --clocklog promises of its table (README.md, "Honesty guarantees"):*)
(* one row at most for a second of receiver time, in order, flagged gap    *)
(* exactly when the second before it has no row although an earlier one    *)
(* has, and flagged valid exactly when the receiver trusted its solution.  *)
(***************************************************************************)
EXTENDS Integers, Sequences

VARIABLES
  epoch,   \* the second the receiver is in
  rows     \* the table so far; a row carries the second it is about

vars == <<epoch, rows>>

Init == epoch = 0 /\ rows = <<>>

Advance == epoch' = epoch + 1 /\ UNCHANGED rows

\* One row for the present second is added at the end.
Record ==
  /\ UNCHANGED epoch
  /\ Len(rows') = Len(rows) + 1
  /\ \A i \in 1..Len(rows) : rows'[i] = rows[i]
  /\ LET row == rows'[Len(rows) + 1] IN
       /\ row.epoch = epoch
       /\ row.valid = row.trusted
       /\ IF rows = <<>>
            THEN ~ row.gap
            ELSE LET last == rows[Len(rows)].epoch IN
                   /\ last < epoch
                   /\ row.gap = (last + 1 < epoch)

Next == Advance \/ Record

Spec == Init /\ [][Next]_vars
=============================================================================
