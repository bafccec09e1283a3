----------------------------- MODULE SerialLine -----------------------------
(***************************************************************************)
(* The line reader of the NMEA port: lbe_serial_readline() over the bytes  *)
(* the tty delivers.  Bytes are counted, not named; a line is its length,  *)
(* with the newline.  The reader only appends at the end of rx, takes a    *)
(* line from its front or clears it, so rx always holds the bytes from     *)
(* base to rd of the stream.                                               *)
(***************************************************************************)
EXTENDS Integers, Sequences, FiniteSets, FiniteSetsExt

CONSTANTS
  Scripts,   \* the sequences of line lengths considered
  RxCap,     \* sizeof rx: 1024
  BufSize    \* the caller's buffer: 256

ASSUME LineAssumption ==
  /\ Scripts \subseteq Seq(Nat \ {0})
  /\ RxCap \in Nat /\ RxCap > 1
  /\ BufSize \in Nat /\ BufSize > 1

VARIABLES
  script,    \* the lines the device sends
  rd,        \* bytes read so far
  base,      \* position of rx[0]
  lines      \* the lines returned, as intervals of positions

reader == <<script, rd, base, lines>>

rx_len == rd - base

\* EndOf[i] is the position after the newline of line i.
EndOf == LET f[i \in 0..Len(script)] ==
               IF i = 0 THEN 0 ELSE f[i - 1] + script[i]
         IN f
Newlines == { EndOf[i] : i \in DOMAIN script }

ReaderInit ==
  /\ script \in Scripts
  /\ rd = 0 /\ base = 0 /\ lines = <<>>

\* memchr: the lines complete in rx.
Complete == { e \in Newlines : base < e /\ e <= rd }

\* Mutant: the caller's buffer is not considered.
CopiedAll(length) == length

\* What the caller gets of a line of `length` bytes and a newline.
Copied(length) == IF length > BufSize - 1 THEN BufSize - 1 ELSE length

\* Mutant: only the newline of the last complete line is found.
NextLineLast == Max(Complete)

NextLine == Min(Complete)

TakeLine ==
  /\ Complete # {}
  /\ lines' = Append(lines, [from |-> base, to |-> NextLine,
                             copied |-> Copied(NextLine - 1 - base)])
  /\ base' = NextLine
  /\ UNCHANGED <<script, rd>>

\* Mutant: one byte too early.
RxFullEarly == rx_len >= RxCap - 2

\* A full rx without a newline is cleared before the next read.
RxFull == rx_len >= RxCap - 1

\* read() returns some of the bytes that have come.
ReadBytes(k) ==
  /\ Complete = {}
  /\ base' = IF RxFull THEN rd ELSE base
  /\ k <= RxCap - (rd - base')
  /\ rd + k <= EndOf[Len(script)]
  /\ rd' = rd + k
  /\ UNCHANGED <<script, lines>>

-----------------------------------------------------------------------------

ReaderTypeOK ==
  /\ script \in Scripts
  /\ base \in 0..rd /\ rd \in 0..EndOf[Len(script)]
  /\ rx_len <= RxCap
  /\ \A i \in DOMAIN lines : lines[i].copied \in 0..(BufSize - 1)

\* A line that fits rx is returned once and whole, whatever the reads cut the
\* stream into and however long the lines before it are: what a full rx throws
\* away is of one overlong line (lbe_serial_linux.c:75-108).
ShortLinesSurvive ==
  \A i \in DOMAIN script :
    script[i] <= RxCap - 1 /\ EndOf[i] <= base =>
      Cardinality({ j \in DOMAIN lines :
          lines[j].from = EndOf[i - 1] /\ lines[j].to = EndOf[i] }) = 1
=============================================================================
