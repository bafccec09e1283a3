------------------------ MODULE UbxReassemblyProofs ------------------------
(***************************************************************************)
(* Proofs about the UBX reassembly buffer for every stream, every buffer   *)
(* capacity and every report size that satisfy the assumptions of          *)
(* UbxReassembly.                                                          *)
(***************************************************************************)
EXTENDS UbxReassembly, TLAPS

\* Everything delivered ends before the scan position; this is what makes the
\* order inductive.
Behind ==
  \A i \in 1..Len(delivered) :
    Good(delivered[i]) /\ EndOf(delivered[i]) <= ScanPos
Ordered ==
  \A i, j \in 1..Len(delivered) : i < j => EndOf(delivered[i]) <= delivered[j]

HeadersPlausible ==
  \A i \in 1..Len(wire) : wire[i].sync => wire[i].total >= MinTotal

IInv == /\ TypeOK
        /\ HeadersPlausible
        /\ Behind
        /\ Ordered
        /\ NothingSkipped
        /\ RemainderIncomplete

-----------------------------------------------------------------------------

\* Reading buf[k] inside the buffer reads a byte of the wire.
LEMMA BufByteType ==
  ASSUME TypeOK, NEW k \in Nat, k < buf_len
  PROVE  /\ BufByte(k) \in Byte
         /\ Base + k + 1 \in 1..Len(wire)
         /\ Base + k \in 0..(rd - 1)
  BY SizesAssumption DEF TypeOK, BufByte, Base

\* The end of a byte that starts a message is a position.
LEMMA ElementType ==
  ASSUME wire \in Seq(Byte), NEW p \in 0..(Len(wire) - 1)
  PROVE  wire[p + 1] \in Byte /\ EndOf(p) \in Nat
<1>1. p + 1 \in 1..Len(wire)
  OBVIOUS
<1>2. wire[p + 1] \in Byte
  BY <1>1
<1> QED
  BY <1>2 DEF EndOf, Byte

\* The buffer is empty at the start and the stream is well formed.
LEMMA InitIInv == Init => IInv
<1> SUFFICES ASSUME Init PROVE IInv
  OBVIOUS
<1>1. TypeOK
  BY SizesAssumption, WiresAssumption DEF Init, TypeOK
<1>2. HeadersPlausible
  BY WiresAssumption DEF Init, HeadersPlausible
<1>3. Behind /\ Ordered
  BY DEF Init, Behind, Ordered
<1>4. NothingSkipped
  BY DEF Init, NothingSkipped, ScanPos, Base
<1>5. RemainderIncomplete
  BY SizesAssumption DEF Init, RemainderIncomplete
<1> QED
  BY <1>1, <1>2, <1>3, <1>4, <1>5 DEF IInv

\* A byte-wise step of the scan (no delivery) keeps the invariant, because the
\* byte it steps over does not start a good message.
LEMMA SkipIInv ==
  ASSUME IInv, CanScan, pc = "scan",
         ~ Good(ScanPos),
         off' = off + 1,
         st' \in [resyncs : Nat, ck_fails : Nat, pad_skips : Nat],
         UNCHANGED <<wire, rd, buf_len, pc, delivered, dropped>>
  PROVE  IInv'
<1> USE SizesAssumption
<1>1. TypeOK'
  BY DEF IInv, TypeOK, CanScan
<1>2. ScanPos \in Nat /\ ScanPos' = ScanPos + 1
  BY DEF IInv, TypeOK, ScanPos, Base
<1>3. HeadersPlausible' /\ Ordered'
  BY DEF IInv, HeadersPlausible, Ordered, EndOf
<1>4. Behind'
  <2> SUFFICES ASSUME NEW i \in 1..Len(delivered)
               PROVE  Good(delivered[i])' /\ EndOf(delivered[i]) <= ScanPos + 1
    BY <1>2 DEF Behind, EndOf
  <2>1. Good(delivered[i]) /\ EndOf(delivered[i]) <= ScanPos
    BY DEF IInv, Behind
  <2>2. delivered[i] \in 0..(Len(wire) - 1) /\ wire \in Seq(Byte)
    BY <2>1 DEF Good, IInv, TypeOK
  <2>3. EndOf(delivered[i]) \in Int
    BY <2>2, ElementType DEF EndOf
  <2> QED
    BY <2>1, <2>3, <1>2 DEF Good
<1>5. NothingSkipped'
  <2> SUFFICES ASSUME NEW p \in 0..(ScanPos' - 1), Good(p)'
               PROVE  (IsDelivered(p) \/ Covered(p) \/ IsDropped(p))'
    BY DEF NothingSkipped
  <2>0. Good(p)
    BY DEF Good
  <2>1. p \in 0..(ScanPos - 1)
    BY <2>0, <1>2
  <2>2. IsDelivered(p) \/ Covered(p) \/ IsDropped(p)
    BY <2>0, <2>1 DEF IInv, NothingSkipped
  <2> QED
    BY <2>2 DEF IsDelivered, Covered, IsDropped, EndOf
<1>6. RemainderIncomplete'
  BY DEF RemainderIncomplete
<1> QED
  BY <1>1, <1>3, <1>4, <1>5, <1>6 DEF IInv

\* An appended report: the buffer stays the last buf_len bytes received, and
\* what an overflow throws away is recorded as dropped.
LEMMA FeedIInv ==
  ASSUME IInv, NEW n \in 1..MaxChunk, Feed(n)
  PROVE  IInv'
<1> USE SizesAssumption
<1>1. TypeOK'
  <2>1. CASE Overflows(n)
    BY <2>1 DEF IInv, TypeOK, Feed, Base
  <2>2. CASE ~ Overflows(n)
    BY <2>2 DEF IInv, TypeOK, Feed, Overflows
  <2> QED
    BY <2>1, <2>2
<1>2. /\ ScanPos \in Nat /\ ScanPos' \in Nat /\ ScanPos <= ScanPos'
      /\ Overflows(n) => ScanPos = Base /\ ScanPos' = rd
      /\ ~ Overflows(n) => ScanPos' = ScanPos
  BY DEF IInv, TypeOK, Feed, ScanPos, Base
<1>3. HeadersPlausible' /\ Ordered'
  BY DEF IInv, HeadersPlausible, Ordered, EndOf, Feed
<1>4. Behind'
  <2> SUFFICES ASSUME NEW i \in 1..Len(delivered)
               PROVE  (Good(delivered[i]) /\ EndOf(delivered[i]) <= ScanPos)'
    BY DEF Behind, Feed
  <2>1. Good(delivered[i]) /\ EndOf(delivered[i]) <= ScanPos
    BY DEF IInv, Behind
  <2>2. EndOf(delivered[i]) \in Nat
    BY <2>1, ElementType DEF Good, IInv, TypeOK
  <2> QED
    BY <2>1, <2>2, <1>2 DEF Good, EndOf, Feed
<1>5. NothingSkipped'
  <2> SUFFICES ASSUME NEW p \in 0..(ScanPos' - 1), Good(p)'
               PROVE  (IsDelivered(p) \/ Covered(p) \/ IsDropped(p))'
    BY DEF NothingSkipped
  <2>0. Good(p)
    BY DEF Good, Feed
  <2>1. CASE p < ScanPos
    <3>1. IsDelivered(p) \/ Covered(p) \/ IsDropped(p)
      BY <2>0, <2>1, <1>2 DEF IInv, NothingSkipped
    <3>2. IsDropped(p) => IsDropped(p)'
      BY DEF IsDropped, Feed
    <3> QED
      BY <3>1, <3>2 DEF IsDelivered, Covered, EndOf, Feed
  <2>2. CASE ~ (p < ScanPos)
    <3>0. Overflows(n)
      <4>1. SUFFICES ASSUME ~ Overflows(n) PROVE FALSE
        OBVIOUS
      <4>2. p \in 0..(ScanPos - 1)
        BY <4>1, <1>2
      <4> QED
        BY <4>2, <2>2, <1>2
    <3>1. Base <= p /\ p < rd
      BY <2>2, <3>0, <1>2
    <3>2. [from |-> Base, to |-> rd] \in dropped'
      BY <3>0 DEF Feed
    <3> QED
      BY <3>1, <3>2 DEF IsDropped
  <2> QED
    BY <2>1, <2>2
<1>6. RemainderIncomplete'
  BY DEF RemainderIncomplete, Feed
<1> QED
  BY <1>1, <1>3, <1>4, <1>5, <1>6 DEF IInv

\* The three ways the scan steps over one byte.
LEMMA SkipStepsIInv ==
  ASSUME IInv, SkipByte \/ SkipBadLength \/ SkipBadChecksum
  PROVE  IInv'
<1> USE SizesAssumption
<1>0. CanScan /\ off \in Nat /\ off < buf_len /\ TypeOK
  BY DEF SkipByte, SkipBadLength, SkipBadChecksum, AtSync, Plausible, Whole,
         CanScan, IInv, TypeOK
<1>1. wire[ScanPos + 1] = BufByte(off)
  BY DEF BufByte, ScanPos
<1>2. ~ Good(ScanPos)
  <2>1. CASE SkipByte
    BY <2>1, <1>1 DEF SkipByte, Good
  <2>2. CASE SkipBadLength
    BY <2>2, <1>1 DEF SkipBadLength, Plausible, Good
  <2>3. CASE SkipBadChecksum
    BY <2>3, <1>1 DEF SkipBadChecksum, Good
  <2> QED
    BY <2>1, <2>2, <2>3
<1>3. st' \in [resyncs : Nat, ck_fails : Nat, pad_skips : Nat]
  <2>0. st \in [resyncs : Nat, ck_fails : Nat, pad_skips : Nat]
    BY <1>0 DEF TypeOK
  <2>1. CASE SkipByte
    BY <2>0, <2>1 DEF SkipByte
  <2>2. CASE SkipBadLength
    BY <2>0, <2>2 DEF SkipBadLength
  <2>3. CASE SkipBadChecksum
    <3>1. [st EXCEPT !.ck_fails = @ + 1]
            \in [resyncs : Nat, ck_fails : Nat, pad_skips : Nat]
      BY <2>0
    <3>2. \A r \in [resyncs : Nat, ck_fails : Nat, pad_skips : Nat] :
            [r EXCEPT !.resyncs = @ + 1]
              \in [resyncs : Nat, ck_fails : Nat, pad_skips : Nat]
      OBVIOUS
    <3>3. st' = [[st EXCEPT !.ck_fails = @ + 1] EXCEPT !.resyncs = @ + 1]
      BY <2>0, <2>3 DEF SkipBadChecksum
    <3> QED
      BY <3>1, <3>2, <3>3
  <2> QED
    BY <2>1, <2>2, <2>3
<1>4. /\ pc = "scan"
      /\ off' = off + 1
      /\ UNCHANGED <<wire, rd, buf_len, pc, delivered, dropped>>
  BY DEF SkipByte, SkipBadLength, SkipBadChecksum
<1> QED
  BY <1>0, <1>2, <1>3, <1>4, SkipIInv

\* A delivery: the message starts at the scan position, which is behind
\* everything delivered before, and the scan moves to its end.
LEMMA DeliverIInv ==
  ASSUME IInv, Deliver
  PROVE  IInv'
<1> USE SizesAssumption
<1> DEFINE t == BufByte(off).total
<1>0. /\ TypeOK /\ CanScan /\ off \in Nat /\ off < buf_len
      /\ BufByte(off).sync /\ t <= MaxTotal /\ off + t <= buf_len
      /\ BufByte(off).intact
  BY DEF Deliver, Whole, Plausible, AtSync, CanScan, IInv, TypeOK
<1>1. /\ t \in Nat /\ ScanPos \in Nat /\ ScanPos \in 0..(Len(wire) - 1)
      /\ ScanPos + 1 = Base + off + 1
  <2>1. BufByte(off) \in Byte /\ Base + off \in 0..(rd - 1)
    BY <1>0, BufByteType
  <2> QED
    BY <2>1, <1>0 DEF Byte, ScanPos, TypeOK, Base
<1>2. wire[ScanPos + 1] = BufByte(off)
  BY DEF BufByte, ScanPos
<1>3. Good(ScanPos) /\ EndOf(ScanPos) = ScanPos + t
  BY <1>0, <1>1, <1>2 DEF Good, EndOf
<1>4. t >= MinTotal
  BY <1>0, <1>1, <1>2 DEF IInv, HeadersPlausible
<1>20. /\ delivered' = Append(delivered, ScanPos) /\ off' = off + t
       /\ UNCHANGED <<wire, rd, buf_len, pc, st, dropped>>
  BY DEF Deliver
<1> HIDE DEF t
<1>5. ScanPos' = ScanPos + t
  BY <1>0, <1>1, <1>20 DEF ScanPos, Base, TypeOK
<1>6. TypeOK'
  <2>3. pc = "scan"
    BY DEF Deliver
  <2>4. off \in Nat /\ t \in Nat /\ buf_len \in Nat /\ off + t <= buf_len
    BY <1>0, <1>1 DEF t, TypeOK
  <2>1. off' \in 0..buf_len /\ (pc' = "idle" => off' = 0)
    BY <1>20, <2>3, <2>4
  <2>2. delivered' \in Seq(Nat)
    <3>1. delivered \in Seq(Nat)
      BY <1>0 DEF TypeOK
    <3> HIDE DEF ScanPos
    <3> QED
      BY <1>1, <1>20, <3>1
  <2> QED
    BY <1>0, <1>20, <2>1, <2>2 DEF TypeOK
<1>7. HeadersPlausible'
  BY DEF IInv, HeadersPlausible, Deliver
<1>8. /\ Len(delivered') = Len(delivered) + 1
      /\ \A i \in 1..Len(delivered) : delivered'[i] = delivered[i]
      /\ delivered'[Len(delivered) + 1] = ScanPos
      /\ Len(delivered) \in Nat
  BY <1>0, <1>1 DEF Deliver, TypeOK
<1>9. ASSUME NEW i \in 1..Len(delivered)
      PROVE  /\ Good(delivered[i]) /\ EndOf(delivered[i]) \in Nat
             /\ EndOf(delivered[i]) <= ScanPos
  <2>1. Good(delivered[i]) /\ EndOf(delivered[i]) <= ScanPos
    BY DEF IInv, Behind
  <2> QED
    BY <2>1, <1>0, ElementType DEF Good, TypeOK
<1>10. Behind'
  <2> SUFFICES ASSUME NEW i \in 1..Len(delivered')
               PROVE  (Good(delivered[i]) /\ EndOf(delivered[i]) <= ScanPos)'
    BY DEF Behind
  <2>1. CASE i \in 1..Len(delivered)
    <3>1. delivered'[i] = delivered[i] /\ wire' = wire
      BY <1>8, <1>20, <2>1
    <3>2. Good(delivered[i])' /\ EndOf(delivered[i])' = EndOf(delivered[i])
      BY <1>9, <2>1, <3>1 DEF Good, EndOf
    <3> QED
      BY <1>1, <1>5, <1>9, <2>1, <3>2
  <2>2. CASE i = Len(delivered) + 1
    BY <2>2, <1>3, <1>5, <1>8, <1>1 DEF Good, EndOf, Deliver
  <2> QED
    BY <2>1, <2>2, <1>8
<1>11. Ordered'
  <2> SUFFICES ASSUME NEW i \in 1..Len(delivered'), NEW j \in 1..Len(delivered'),
                      i < j
               PROVE  (EndOf(delivered[i]) <= delivered[j])'
    BY DEF Ordered
  <2>0. i \in 1..Len(delivered)
    BY <1>8
  <2>1. CASE j \in 1..Len(delivered)
    BY <2>0, <2>1, <1>8 DEF IInv, Ordered, EndOf, Deliver
  <2>2. CASE j = Len(delivered) + 1
    BY <2>0, <2>2, <1>8, <1>9 DEF EndOf, Deliver
  <2> QED
    BY <2>1, <2>2, <1>8
<1>12. NothingSkipped'
  <2> SUFFICES ASSUME NEW p \in 0..(ScanPos' - 1), Good(p)'
               PROVE  (IsDelivered(p) \/ Covered(p) \/ IsDropped(p))'
    BY DEF NothingSkipped
  <2>0. Good(p)
    BY DEF Good, Deliver
  <2>1. CASE p < ScanPos
    <3>1. IsDelivered(p) \/ Covered(p) \/ IsDropped(p)
      BY <2>0, <2>1, <1>1 DEF IInv, NothingSkipped
    <3>2. IsDelivered(p) => IsDelivered(p)'
      BY <1>8 DEF IsDelivered
    <3>3. Covered(p) => Covered(p)'
      BY <1>8 DEF Covered, EndOf, Deliver
    <3>4. IsDropped(p) => IsDropped(p)'
      BY DEF IsDropped, Deliver
    <3> QED
      BY <3>1, <3>2, <3>3, <3>4
  <2>2. CASE p = ScanPos
    BY <2>2, <1>8 DEF IsDelivered
  <2>3. CASE p > ScanPos
    <3>1. p < ScanPos + t
      BY <1>1, <1>5
    <3>2. \A q : q = ScanPos => q + wire'[q + 1].total = ScanPos + t
      BY <1>3 DEF EndOf, Deliver
    <3>3. delivered'[Len(delivered')] < p /\ Len(delivered') \in 1..Len(delivered')
      BY <2>3, <1>8
    <3>4. p < delivered'[Len(delivered')] + wire'[delivered'[Len(delivered')] + 1].total
      BY <3>1, <3>2, <1>8
    <3> QED
      BY <3>3, <3>4 DEF Covered, EndOf
  <2> QED
    BY <2>1, <2>2, <2>3, <1>1, <1>5
<1>13. RemainderIncomplete'
  BY DEF RemainderIncomplete, Deliver
<1> QED
  BY <1>6, <1>7, <1>10, <1>11, <1>12, <1>13 DEF IInv

\* The return compacts the buffer: its front moves to the scan position.
LEMMA ReturnIInv ==
  ASSUME IInv, Return
  PROVE  IInv'
<1> USE SizesAssumption
<1>0. TypeOK /\ off \in Nat /\ off <= buf_len /\ buf_len <= rd
  BY DEF IInv, TypeOK
<1>1. TypeOK'
  BY <1>0 DEF Return, TypeOK
<1>2. ScanPos' = ScanPos /\ Base' = ScanPos
  BY <1>0 DEF Return, ScanPos, Base, TypeOK
<1>3. HeadersPlausible' /\ Ordered'
  BY DEF IInv, HeadersPlausible, Ordered, EndOf, Return
<1>4. Behind'
  BY <1>2 DEF IInv, Behind, Good, EndOf, Return
<1>5. NothingSkipped'
  BY <1>2 DEF IInv, NothingSkipped, Good, IsDelivered, Covered, IsDropped,
              EndOf, Return
<1>6. RemainderIncomplete'
  <2>1. CASE ~ CanScan
    BY <2>1, <1>0 DEF RemainderIncomplete, CanScan, Return, TypeOK
  <2>2. CASE Plausible /\ ~ Whole
    <3>1. BufByte(off) \in Byte
      BY <2>2, <1>0, BufByteType DEF Plausible, AtSync, CanScan, TypeOK
    <3>2. BufByte(0)' = BufByte(off)
      BY <1>0, <1>2 DEF BufByte, ScanPos, Base, Return, TypeOK
    <3> QED
      BY <2>2, <3>1, <3>2, <1>0
         DEF RemainderIncomplete, Plausible, AtSync, Whole, Return, Byte, TypeOK
  <2> QED
    BY <2>1, <2>2 DEF Return
<1> QED
  BY <1>1, <1>3, <1>4, <1>5, <1>6 DEF IInv

\* Every call of ubx_consume, byte by byte (ubx.c:124-155), keeps it.
LEMMA StepIInv == IInv /\ [Next]_vars => IInv'
<1> SUFFICES ASSUME IInv, [Next]_vars PROVE IInv'
  OBVIOUS
<1>1. CASE \E n \in 1..MaxChunk : Feed(n)
  BY <1>1, FeedIInv
<1>2. CASE SkipByte \/ SkipBadLength \/ SkipBadChecksum
  BY <1>2, SkipStepsIInv
<1>3. CASE Deliver
  BY <1>3, DeliverIInv
<1>4. CASE Return
  BY <1>4, ReturnIInv
<1>5. CASE UNCHANGED vars
  BY <1>5 DEF vars, IInv, TypeOK, HeadersPlausible, Behind, Ordered,
              NothingSkipped, RemainderIncomplete, Good, EndOf, IsDelivered,
              Covered, IsDropped, ScanPos, Base, BufByte
<1> QED
  BY <1>1, <1>2, <1>3, <1>4, <1>5 DEF Next, Scan

\* The inductive invariant holds in every reachable state of the reassembler.
LEMMA Inductive == Spec => []IInv
  BY InitIInv, StepIInv, PTL DEF Spec

-----------------------------------------------------------------------------

\* The scan and fill positions of ubx_next() and ubx_consume() stay inside the
\* buffer and inside what was received.
THEOREM TypeCorrect == Spec => []TypeOK
<1>1. IInv => TypeOK
  BY DEF IInv
<1> QED
  BY <1>1, Inductive, PTL

\* The decoders see intact messages only, each at most once, in order and
\* without overlap.
THEOREM InOrder == Spec => []DeliveredInOrder
<1>1. IInv => DeliveredInOrder
  <2> SUFFICES ASSUME IInv PROVE DeliveredInOrder
    OBVIOUS
  <2>1. ASSUME NEW i \in 1..Len(delivered)
        PROVE  Good(delivered[i]) /\ EndOf(delivered[i]) <= rd
    <3>1. Good(delivered[i]) /\ EndOf(delivered[i]) <= ScanPos
      BY DEF IInv, Behind
    <3>2. EndOf(delivered[i]) \in Nat
      BY <3>1, ElementType DEF Good, IInv, TypeOK
    <3>3. ScanPos <= rd /\ ScanPos \in Int /\ rd \in Int
      BY SizesAssumption DEF IInv, TypeOK, ScanPos, Base
    <3> QED
      BY <3>1, <3>2, <3>3
  <2> QED
    BY <2>1 DEF IInv, Ordered, DeliveredInOrder
<1> QED
  BY <1>1, Inductive, PTL

\* Resynchronisation never steps over a good message.
THEOREM NoneSkipped == Spec => []NothingSkipped
<1>1. IInv => NothingSkipped
  BY DEF IInv
<1> QED
  BY <1>1, Inductive, PTL

\* When ubx_consume() returns, a complete good message is delivered, covered,
\* dropped by an overflow, or waits behind an incomplete header.
THEOREM Prompt == Spec => []PromptDelivery
<1>1. IInv => PromptDelivery
  <2> SUFFICES ASSUME IInv, pc = "idle",
                      NEW p \in 0..(rd - 1), Good(p), EndOf(p) <= rd,
                      ~ (IsDelivered(p) \/ Covered(p) \/ IsDropped(p))
               PROVE  Base < p /\ BufByte(0).sync /\ EndOf(Base) > rd
    BY DEF PromptDelivery
  <2> USE SizesAssumption
  <2>1. /\ ScanPos = Base /\ Base \in Nat /\ rd \in Nat /\ buf_len \in Nat
        /\ rd = Base + buf_len
    BY DEF IInv, TypeOK, ScanPos, Base
  <2>2. Base <= p
    <3>1. p \notin 0..(ScanPos - 1)
      BY DEF IInv, NothingSkipped
    <3> QED
      BY <3>1, <2>1
  <2>3. wire[p + 1] \in Byte /\ wire[p + 1].total >= MinTotal
    <3>1. wire[p + 1] \in Byte /\ p + 1 \in 1..Len(wire)
      BY ElementType DEF Good, IInv, TypeOK
    <3> QED
      BY <3>1 DEF IInv, HeadersPlausible, Good
  <2>4. buf_len >= MinTotal
    BY <2>1, <2>2, <2>3 DEF EndOf, Byte
  <2>5. /\ BufByte(0).sync /\ BufByte(0).total > buf_len
        /\ BufByte(0) \in Byte /\ BufByte(0) = wire[Base + 1]
    <3>1. BufByte(0) \in Byte /\ BufByte(0) = wire[Base + 1]
      <4>1. BufByte(0) \in Byte
        BY <2>1, <2>4, BufByteType DEF IInv
      <4>2. Base + 0 + 1 = Base + 1
        BY <2>1
      <4> QED
        BY <4>1, <4>2 DEF BufByte
    <3> QED
      BY <3>1, <2>1, <2>4 DEF IInv, RemainderIncomplete
  <2>6. EndOf(Base) > rd
    BY <2>5, <2>1 DEF EndOf, Byte
  <2>7. p # Base
    <3>1. EndOf(p) \in Nat
      BY ElementType DEF Good, IInv, TypeOK
    <3> QED
      BY <3>1, <2>6, <2>1
  <2> QED
    BY <2>1, <2>2, <2>5, <2>6, <2>7
<1> QED
  BY <1>1, Inductive, PTL

\* A buffer one report larger than the longest plausible message of the
\* stream is never reset.
THEOREM NeverOverflows == Spec => []NoOverflowWhenFits
<1>1. Init => NoOverflowWhenFits
  BY DEF Init, NoOverflowWhenFits
<1>2. IInv /\ NoOverflowWhenFits /\ [Next]_vars => NoOverflowWhenFits'
  <2> SUFFICES ASSUME IInv, NoOverflowWhenFits, [Next]_vars,
                      Fits', MinTotal + MaxChunk <= Cap + 1
               PROVE  dropped' = {}
    BY DEF NoOverflowWhenFits
  <2> USE SizesAssumption
  <2>1. Fits /\ dropped = {}
    <3>1. wire' = wire
      BY DEF Next, Scan, Feed, SkipByte, SkipBadLength, SkipBadChecksum,
             Deliver, Return, vars
    <3> QED
      BY <3>1 DEF Fits, NoOverflowWhenFits
  <2>2. CASE \E n \in 1..MaxChunk : Feed(n)
    <3> PICK n \in 1..MaxChunk : Feed(n)
      BY <2>2
    <3>0. TypeOK /\ buf_len \in Nat
      BY DEF IInv, TypeOK
    <3>1. CASE buf_len < MinTotal
      BY <3>0, <3>1, <2>1 DEF Feed, Overflows
    <3>2. CASE ~ (buf_len < MinTotal)
      <4>1. /\ BufByte(0).sync /\ BufByte(0).total <= MaxTotal
            /\ BufByte(0).total > buf_len
        BY <3>2 DEF IInv, RemainderIncomplete, Feed
      <4>2. /\ BufByte(0) \in Byte /\ Base + 0 + 1 \in 1..Len(wire)
            /\ BufByte(0) = wire[Base + 0 + 1]
        BY <3>0, <3>2, BufByteType DEF BufByte
      <4>3. BufByte(0).total + MaxChunk <= Cap + 1
        BY <4>1, <4>2, <2>1 DEF Fits
      <4>4. buf_len + n <= Cap
        BY <4>1, <4>2, <4>3, <3>0 DEF Byte
      <4> QED
        BY <4>4, <3>0, <2>1 DEF Feed, Overflows
    <3> QED
      BY <3>1, <3>2
  <2>3. CASE Scan \/ UNCHANGED vars
    BY <2>1, <2>3 DEF Scan, SkipByte, SkipBadLength, SkipBadChecksum, Deliver,
                      Return, vars
  <2> QED
    BY <2>2, <2>3 DEF Next
<1> QED
  BY <1>1, <1>2, Inductive, PTL DEF Spec

\* The reassembler implements the lossy ordered channel: a feed is an arrival,
\* a delivery is a delivery, and every other step of the scan is invisible.
THEOREM Refinement == Spec => ImplementsChannel
<1>1. Init => Channel!Init
  BY DEF Init, Channel!Init
<1>2. IInv /\ [Next]_vars => [Channel!Next]_Channel!vars
  <2> SUFFICES ASSUME IInv, [Next]_vars
               PROVE  [Channel!Next]_Channel!vars
    OBVIOUS
  <2> USE SizesAssumption
  <2>1. CASE \E n \in 1..MaxChunk : Feed(n)
    <3>1. Channel!Arrive
      BY <2>1 DEF Feed, Channel!Arrive, IInv, TypeOK
    <3> QED
      BY <3>1 DEF Channel!Next
  <2>2. CASE Deliver
    <3>0. /\ TypeOK /\ CanScan /\ off \in Nat /\ off < buf_len
          /\ BufByte(off).sync /\ BufByte(off).total <= MaxTotal
          /\ off + BufByte(off).total <= buf_len /\ BufByte(off).intact
      BY <2>2 DEF Deliver, Whole, Plausible, AtSync, CanScan, IInv, TypeOK
    <3>1. /\ BufByte(off) \in Byte /\ BufByte(off) = wire[ScanPos + 1]
          /\ ScanPos \in 0..(rd - 1)
      BY <3>0, BufByteType DEF BufByte, ScanPos
    <3>2. Channel!Good(ScanPos)
      BY <3>0, <3>1 DEF Channel!Good, TypeOK
    <3>3. Channel!EndOf(ScanPos) <= rd
      <4>1. Channel!EndOf(ScanPos) = ScanPos + BufByte(off).total
        BY <3>1 DEF Channel!EndOf
      <4>2. BufByte(off).total \in Nat
        BY <3>1 DEF Byte
      <4>3. ScanPos + BufByte(off).total <= rd
        BY <3>0, <4>2 DEF ScanPos, Base, TypeOK
      <4> QED
        BY <4>1, <4>3
    <3>4. delivered # <<>> =>
            Channel!EndOf(delivered[Len(delivered)]) <= ScanPos
      <4> SUFFICES ASSUME delivered # <<>>
                   PROVE  Channel!EndOf(delivered[Len(delivered)]) <= ScanPos
        OBVIOUS
      <4>1. Len(delivered) \in 1..Len(delivered)
        BY <3>0 DEF TypeOK
      <4> QED
        BY <4>1 DEF IInv, Behind, EndOf, Channel!EndOf
    <3>5. Channel!Deliver(ScanPos)
      BY <2>2, <3>2, <3>3, <3>4 DEF Deliver, Channel!Deliver
    <3> QED
      BY <3>1, <3>5 DEF Channel!Next
  <2>3. CASE SkipByte \/ SkipBadLength \/ SkipBadChecksum \/ Return
    BY <2>3 DEF SkipByte, SkipBadLength, SkipBadChecksum, Return, Channel!vars
  <2>4. CASE UNCHANGED vars
    BY <2>4 DEF vars, Channel!vars
  <2> QED
    BY <2>1, <2>2, <2>3, <2>4 DEF Next, Scan
<1> QED
  BY <1>1, <1>2, Inductive, PTL DEF Spec, ImplementsChannel, Channel!Spec
=============================================================================
