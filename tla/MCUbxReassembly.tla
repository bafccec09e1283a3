-------------------------- MODULE MCUbxReassembly --------------------------
(***************************************************************************)
(* Small byte streams for UbxReassembly: every concatenation of three      *)
(* segments, among them padding, garbage, good messages of three sizes (one*)
(* with a whole message inside its payload), a message with a bad checksum *)
(* and headers that claim too much.                                        *)
(***************************************************************************)
EXTENDS UbxReassembly, SequencesExt

Other(p) == [sync |-> FALSE, pad |-> p, total |-> 0, intact |-> FALSE]
Header(t, ok) == [sync |-> TRUE, pad |-> FALSE, total |-> t, intact |-> ok]
P == Other(TRUE)
J == Other(FALSE)

MCSegments ==
  { <<P>>, <<J, P>>,
    <<Header(2, TRUE), J>>,
    <<Header(3, TRUE), J, J>>,
    <<Header(4, TRUE), P, Header(2, TRUE), J>>,
    <<Header(5, TRUE), J, J, P, J>>,
    <<Header(3, FALSE), J, P>>,
    <<Header(4, FALSE)>>,
    <<Header(5, FALSE)>>,
    <<Header(6, TRUE), J>> }

MCWires == { s[1] \o s[2] \o s[3] :
               s \in [1..3 -> MCSegments] }

\* Sizes scaled from 8, 1032, 1024 and 62.
MCMinTotal == 2
MCMaxTotal == 5
MCMaxChunk == 3
MCTightCap == 5   \* as in the code: smaller than the longest message + report
=============================================================================
