----------------------------- MODULE UbxChannel -----------------------------
(***************************************************************************)
(* What the UBX reassembler promises to the code that decodes messages: a  *)
(* lossy channel that keeps order.  Bytes of `wire` arrive, and now and    *)
(* then an intact message that has arrived in full is delivered; a message *)
(* that is delivered lies entirely after the one delivered before it.      *)
(* Messages may be lost, but never damaged, duplicated or reordered.       *)
(***************************************************************************)
EXTENDS Integers, Sequences

CONSTANTS Wires, MaxTotal

VARIABLES
  wire,       \* the byte stream, as in UbxReassembly
  rd,         \* how many of its bytes have arrived
  delivered   \* the wire positions of the messages delivered

vars == <<wire, rd, delivered>>

Good(p) == /\ p \in 0..(Len(wire) - 1)
           /\ wire[p + 1].sync /\ wire[p + 1].intact
           /\ wire[p + 1].total <= MaxTotal
EndOf(p) == p + wire[p + 1].total

Init == /\ wire \in Wires
        /\ rd = 0
        /\ delivered = <<>>

Arrive == /\ rd' \in rd..Len(wire)
          /\ UNCHANGED <<wire, delivered>>

Deliver(p) ==
  /\ Good(p)
  /\ EndOf(p) <= rd
  /\ delivered # <<>> => EndOf(delivered[Len(delivered)]) <= p
  /\ delivered' = Append(delivered, p)
  /\ UNCHANGED <<wire, rd>>

Next == Arrive \/ \E p \in 0..(rd - 1) : Deliver(p)

Spec == Init /\ [][Next]_vars
=============================================================================
