--------------------------- MODULE UbxReassembly ---------------------------
(***************************************************************************)
(* The UBX reassembly buffer: ubx_next() and the append / scan / compact   *)
(* skeleton around it that ubx_consume(), clocklog_feed() and              *)
(* mini_consume_ubx() share.                                               *)
(*                                                                         *)
(* The host reads reports of at most MaxChunk payload bytes; their         *)
(* concatenation, as the host received it, is `wire`.  Every caller only   *)
(* appends at the end of the buffer, drops a prefix of it or resets it, so *)
(* the buffer always holds the last buf_len received bytes: it is modelled *)
(* by its length and by rd, the number of bytes received so far.           *)
(*                                                                         *)
(* A byte of the wire is abstracted to what the scanner finds when it      *)
(* looks at it: whether a B5 62 sync starts there, the total length the    *)
(* length field then claims, and whether the Fletcher-8 sums of that many  *)
(* bytes match.  Loss and corruption on the USB side are wires whose       *)
(* headers claim a wrong length or are not intact.                         *)
(***************************************************************************)
EXTENDS Integers, Sequences

CONSTANTS
  Wires,      \* the received byte streams considered
  Cap,        \* buf_cap: sizeof buf, 1024 in every monitor
  MinTotal,   \* 8: header and checksum of an empty message
  MaxTotal,   \* 8 + UBX_MAX_PAYLOAD
  MaxChunk    \* the most payload bytes of a report: 62

Byte == [sync : BOOLEAN, pad : BOOLEAN, total : Nat, intact : BOOLEAN]

\* The length field is unsigned, so a header claims at least MinTotal bytes;
\* in_len > buf_cap (ubx.c:131) never happens, as no report is that long.
ASSUME SizesAssumption ==
  /\ Cap \in Nat /\ MinTotal \in Nat /\ MaxTotal \in Nat /\ MaxChunk \in Nat
  /\ 0 < MinTotal /\ MinTotal <= MaxTotal
  /\ MaxChunk <= Cap

ASSUME WiresAssumption ==
  /\ Wires \subseteq Seq(Byte)
  /\ \A w \in Wires : \A i \in 1..Len(w) : w[i].sync => w[i].total >= MinTotal

VARIABLES
  wire,       \* the bytes the reports will have carried, in order
  rd,         \* how many of them the host has read
  buf_len,    \* *buf_len
  off,        \* off in ubx_consume(): the scan position i of ubx_next()
  pc,         \* "idle" between two calls, "scan" inside the while loop
  st,         \* ubx_scan_stats
  delivered,  \* wire positions of the messages handed to the dispatcher
  dropped     \* intervals of wire positions thrown away by an overflow

vars == <<wire, rd, buf_len, off, pc, st, delivered, dropped>>

\* Wire position of buf[0], of the scan position, and the byte buf[k].
Base == rd - buf_len
ScanPos == Base + off
BufByte(k) == wire[Base + k + 1]

Init ==
  /\ wire \in Wires
  /\ rd = 0 /\ buf_len = 0 /\ off = 0
  /\ pc = "idle"
  /\ st = [resyncs |-> 0, ck_fails |-> 0, pad_skips |-> 0]
  /\ delivered = <<>>
  /\ dropped = {}

\* Mutants: an overflow test that forgets what is buffered, or is off by one.
OverflowsForgetful(n) == n > Cap
OverflowsEarly(n) == buf_len + n >= Cap

Overflows(n) == buf_len + n > Cap

\* A report of n payload bytes arrives and is appended.
Feed(n) ==
  /\ pc = "idle"
  /\ rd + n <= Len(wire)
  /\ rd' = rd + n
  /\ IF Overflows(n)
       THEN /\ buf_len' = n
            /\ dropped' = dropped \cup {[from |-> Base, to |-> rd]}
       ELSE /\ buf_len' = buf_len + n
            /\ UNCHANGED dropped
  /\ off' = 0
  /\ pc' = "scan"
  /\ UNCHANGED <<wire, st, delivered>>

\* Mutant: the loop condition off by one.
CanScanShort == off + MinTotal < buf_len

\* The loop condition of ubx_next(), and the tests its body makes in turn.
CanScan == off + MinTotal <= buf_len
AtSync == CanScan /\ BufByte(off).sync
Plausible == AtSync /\ BufByte(off).total <= MaxTotal
Whole == Plausible /\ off + BufByte(off).total <= buf_len

SkipByte ==
  /\ pc = "scan"
  /\ CanScan /\ ~ BufByte(off).sync
  /\ st' = IF BufByte(off).pad THEN [st EXCEPT !.pad_skips = @ + 1]
                               ELSE [st EXCEPT !.resyncs = @ + 1]
  /\ off' = off + 1
  /\ UNCHANGED <<wire, rd, buf_len, pc, delivered, dropped>>

SkipBadLength ==
  /\ pc = "scan"
  /\ AtSync /\ ~ Plausible
  /\ st' = [st EXCEPT !.resyncs = @ + 1]
  /\ off' = off + 1
  /\ UNCHANGED <<wire, rd, buf_len, pc, delivered, dropped>>

\* Mutant: a damaged message is skipped by the length it claims.
SkipBadMessage ==
  /\ pc = "scan"
  /\ Whole /\ ~ BufByte(off).intact
  /\ st' = [st EXCEPT !.ck_fails = @ + 1, !.resyncs = @ + 1]
  /\ off' = off + BufByte(off).total
  /\ UNCHANGED <<wire, rd, buf_len, pc, delivered, dropped>>

SkipBadChecksum ==
  /\ pc = "scan"
  /\ Whole /\ ~ BufByte(off).intact
  /\ st' = [st EXCEPT !.ck_fails = @ + 1, !.resyncs = @ + 1]
  /\ off' = off + 1
  /\ UNCHANGED <<wire, rd, buf_len, pc, delivered, dropped>>

\* Mutants: no checksum test; the scan resumes inside the message.
DeliverUnchecked ==
  /\ pc = "scan"
  /\ Whole
  /\ delivered' = Append(delivered, ScanPos)
  /\ off' = off + BufByte(off).total
  /\ UNCHANGED <<wire, rd, buf_len, pc, st, dropped>>
DeliverInside ==
  /\ pc = "scan"
  /\ Whole /\ BufByte(off).intact
  /\ delivered' = Append(delivered, ScanPos)
  /\ off' = off + 1
  /\ UNCHANGED <<wire, rd, buf_len, pc, st, dropped>>

Deliver ==
  /\ pc = "scan"
  /\ Whole /\ BufByte(off).intact
  /\ delivered' = Append(delivered, ScanPos)
  /\ off' = off + BufByte(off).total
  /\ UNCHANGED <<wire, rd, buf_len, pc, st, dropped>>

\* Mutant: the scan waits for the rest of an incomplete message.
ReturnWaiting ==
  /\ pc = "scan" /\ ~ CanScan
  /\ buf_len' = buf_len - off
  /\ off' = 0
  /\ pc' = "idle"
  /\ UNCHANGED <<wire, rd, st, delivered, dropped>>

\* No further complete message: the consumed prefix is moved out and the
\* call returns.
Return ==
  /\ pc = "scan"
  /\ ~ CanScan \/ (Plausible /\ ~ Whole)
  /\ buf_len' = buf_len - off
  /\ off' = 0
  /\ pc' = "idle"
  /\ UNCHANGED <<wire, rd, st, delivered, dropped>>

Scan == SkipByte \/ SkipBadLength \/ SkipBadChecksum \/ Deliver \/ Return

Next == (\E n \in 1..MaxChunk : Feed(n)) \/ Scan

\* The scan is ordinary sequential code: once entered it runs.  Nothing is
\* assumed of the device, which may stop sending at any time.
Spec == Init /\ [][Next]_vars /\ WF_vars(Scan)

-----------------------------------------------------------------------------

TypeOK ==
  /\ wire \in Seq(Byte)
  /\ rd \in 0..Len(wire)
  /\ buf_len \in 0..Cap /\ buf_len <= rd
  /\ off \in 0..buf_len
  /\ pc \in {"idle", "scan"}
  /\ pc = "idle" => off = 0
  /\ st \in [resyncs : Nat, ck_fails : Nat, pad_skips : Nat]
  /\ delivered \in Seq(Nat)
  /\ dropped \subseteq [from : Nat, to : Nat]

\* A message of the wire that a receiver of these bytes should get.
Good(p) == /\ p \in 0..(Len(wire) - 1)
           /\ wire[p + 1].sync /\ wire[p + 1].intact
           /\ wire[p + 1].total <= MaxTotal
EndOf(p) == p + wire[p + 1].total

IsDelivered(p) == \E i \in 1..Len(delivered) : delivered[i] = p
Covered(p) ==
  \E i \in 1..Len(delivered) : delivered[i] < p /\ p < EndOf(delivered[i])
IsDropped(p) == \E d \in dropped : d.from <= p /\ p < d.to

\* The parsers see only intact messages, each of them at most once, in the
\* order sent and without overlap, whatever garbage, chunking or buffer
\* reset lies between them (ubx_next: checksum test and *off advance;
\* ubx_consume: memmove).
DeliveredInOrder ==
  /\ \A i \in 1..Len(delivered) :
       Good(delivered[i]) /\ EndOf(delivered[i]) <= rd
  /\ \A i, j \in 1..Len(delivered) :
       i < j => EndOf(delivered[i]) <= delivered[j]

\* Resynchronising one byte at a time never steps over a good message: each
\* one the scan has passed was delivered, lay inside a delivered message, or
\* was in the buffer when an overflow reset it.
NothingSkipped ==
  \A p \in 0..(ScanPos - 1) :
    Good(p) => IsDelivered(p) \/ Covered(p) \/ IsDropped(p)

\* What a call leaves behind is less than a minimal message, or starts with
\* a plausible header whose message is still incomplete.
RemainderIncomplete ==
  pc = "idle" =>
    \/ buf_len < MinTotal
    \/ /\ BufByte(0).sync
       /\ BufByte(0).total <= MaxTotal
       /\ BufByte(0).total > buf_len

\* When a call returns, a good message received in full is only held back
\* behind another header that claims bytes not received yet.
PromptDelivery ==
  pc = "idle" =>
    \A p \in 0..(rd - 1) :
      Good(p) /\ EndOf(p) <= rd =>
        \/ IsDelivered(p) \/ Covered(p) \/ IsDropped(p)
        \/ Base < p /\ BufByte(0).sync /\ EndOf(Base) > rd

\* A buffer that exceeds the longest plausible message by a report never
\* overflows, however the headers of the stream are damaged.
Fits == \A i \in 1..Len(wire) :
          wire[i].sync /\ wire[i].total <= MaxTotal
            => wire[i].total + MaxChunk <= Cap + 1
NoOverflowWhenFits ==
  Fits /\ MinTotal + MaxChunk <= Cap + 1 => dropped = {}


\* The scan terminates (ubx_next: every iteration advances or leaves the loop),
\* so the monitor gets back to reading reports.
ScanTerminates == pc = "scan" ~> pc = "idle"

\* The reassembler implements the lossy ordered channel the decoders rely on.
Channel == INSTANCE UbxChannel WITH
  Wires <- Wires, MaxTotal <- MaxTotal,
  wire <- wire, rd <- rd, delivered <- delivered
ImplementsChannel == Channel!Spec
=============================================================================
