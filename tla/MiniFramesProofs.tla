-------------------------- MODULE MiniFramesProofs --------------------------
(***************************************************************************)
(* The frames of the LBE-Mini for any messages, any number of frames in    *)
(* each, any buffer and any number of reads.  What the scan delivers was   *)
(* read whole; what was read whole is not lost, if every message fits the  *)
(* buffer and the keepalive frames are skipped; and --status reports the   *)
(* lock and the fix the frames told.                                       *)
(***************************************************************************)
EXTENDS MiniFrames, WellFoundedInduction, TLAPS

-----------------------------------------------------------------------------
(* Least and greatest elements: induction, in the form the provers can use. *)

LEMMA LeastOf ==
  ASSUME NEW S \in SUBSET Nat, S # {}
  PROVE  \E m \in S : \A n \in S : m <= n
<1> DEFINE R == {ss \in Nat \X Nat : ss[1] < ss[2]}
<1>1. IsWellFoundedOn(R, Nat)
  BY NatLessThanWellFounded, Zenon DEF OpToRel
<1>2. PICK m \in S : \A n \in S : ~ (<<n, m>> \in R)
  <2> HIDE DEF R
  <2> QED
    BY <1>1, WFMin, Zenon
<1>3. \A n \in S : ~ (n < m)
  BY <1>2
<1> QED
  BY <1>3

LEMMA GreatestOf ==
  ASSUME NEW n \in Nat, NEW S \in SUBSET (1..n), S # {}
  PROVE  \E m \in S : \A k \in S : k <= m
<1> DEFINE D == {n - k : k \in S}
<1>0. \A k \in S : k \in 1..n /\ k \in Int
  OBVIOUS
<1>1. D \in SUBSET Nat /\ D # {}
  <2>1. \A k \in S : n - k \in Nat
    BY <1>0
  <2>2. PICK k \in S : TRUE
    OBVIOUS
  <2>3. n - k \in D
    BY <2>2
  <2> QED
    BY <2>1, <2>3
<1>2. PICK d \in D : \A e \in D : d <= e
  <2> HIDE DEF D
  <2> QED
    BY <1>1, LeastOf
<1>3. PICK m \in S : d = n - m
  BY <1>2
<1>4. \A k \in S : n - m <= n - k
  BY <1>2, <1>3
<1> QED
  BY <1>0, <1>4

LEMMA MaxIn ==
  ASSUME NEW n \in Nat, NEW S \in SUBSET (1..n), S # {}
  PROVE  Max(S) \in S
<1>1. PICK m \in S : \A k \in S : k <= m
  BY GreatestOf
<1>2. \A k \in S : m >= k
  BY <1>1
<1> QED
  BY <1>2 DEF Max

\* Induction from n down to 1, over the members of a set, with all greater ones.
LEMMA DownTo ==
  ASSUME NEW n \in Nat, NEW T,
         \A i \in 1..n : (\A j \in (i + 1)..n : j \in T) => i \in T
  PROVE  \A i \in 1..n : i \in T
<1> DEFINE Bad == {i \in 1..n : i \notin T}
<1> SUFFICES ASSUME Bad # {}
             PROVE  FALSE
  OBVIOUS
<1>1. Bad \in SUBSET (1..n)
  OBVIOUS
<1>2. PICK m \in Bad : \A i \in Bad : i <= m
  <2> HIDE DEF Bad
  <2> QED
    BY <1>1, GreatestOf
<1>3. \A j \in (m + 1)..n : j \in T
  <2> SUFFICES ASSUME NEW j \in (m + 1)..n, j \notin T
               PROVE  FALSE
    OBVIOUS
  <2>1. j \in Bad /\ j > m
    BY <1>2
  <2>2. j <= m /\ m \in Int
    BY <1>2, <2>1
  <2> QED
    BY <2>1, <2>2
<1> QED
  BY <1>2, <1>3

-----------------------------------------------------------------------------
(* The scan as a recursive function.                                       *)

\* What a frame holds.
Piece == { p \in [msg : Messages \cup {None}, part : Nat] :
             p = Padding \/ (p.msg \in Messages /\ p.part \in 1..Parts[p.msg]) }

Results == [msgs : Seq(Messages), stop : Nat]

Step(b, i, f) ==
  IF i > Len(b) THEN [msgs |-> <<>>, stop |-> i]
  ELSE IF b[i].part # 1 THEN f[i + 1]
  ELSE LET last == i + Parts[b[i].msg] - 1 IN
       IF last > Len(b) THEN [msgs |-> <<>>, stop |-> i]
       ELSE IF IntactAt(b, i)
              THEN [f[last + 1] EXCEPT !.msgs = <<b[i].msg>> \o @]
              ELSE f[i + 1]

Scans(b, f) == /\ f \in [1..(Len(b) + 1) -> Results]
               /\ \A i \in 1..(Len(b) + 1) : f[i] = Step(b, i, f)

LEMMA Pieces ==
  /\ \A p \in Piece : p.part = 1 => p.msg \in Messages
  /\ \A p \in Piece : p.part \in Nat
  /\ \A m \in Messages : Parts[m] \in Nat /\ Parts[m] >= 1
  /\ None \notin Messages
<1>1. Padding.part = 0
  BY DEF Padding
<1>2. \A p \in Piece : p.part = 1 => p.msg \in Messages
  BY <1>1 DEF Piece
<1>3. \A p \in Piece : p.part \in Nat
  BY DEF Piece
<1> QED
  BY <1>2, <1>3, MiniAssumption

\* A step looks at later values only.
LEMMA StepTyped ==
  ASSUME NEW b \in Seq(Piece), NEW i \in 1..(Len(b) + 1),
         NEW f \in [1..(Len(b) + 1) -> Results]
  PROVE  /\ Step(b, i, f) \in Results
         /\ \A g :
              (\A j \in 1..(Len(b) + 1) : j > i => g[j] = f[j])
                => Step(b, i, g) = Step(b, i, f)
<1> DEFINE n == Len(b)
           last == i + Parts[b[i].msg] - 1
<1>1. n \in Nat /\ \A k \in 1..n : b[k] \in Piece
  OBVIOUS
<1>2. CASE i = n + 1
  <2>1. i > n /\ i \in Nat /\ <<>> \in Seq(Messages)
    BY <1>1, <1>2
  <2> QED
    BY <2>1 DEF Step, Results
<1>3. CASE i \in 1..n /\ b[i].part # 1
  <2>1. ~ (i > n) /\ i + 1 \in 1..(n + 1) /\ i + 1 > i
    BY <1>1, <1>3
  <2> QED
    BY <1>3, <2>1 DEF Step
<1>4. CASE i \in 1..n /\ b[i].part = 1
  <2>1. b[i].msg \in Messages /\ last \in Nat /\ last >= i
    BY <1>1, <1>4, Pieces
  <2>2. ~ (i > n) /\ i + 1 \in 1..(n + 1) /\ i + 1 > i
    BY <1>1, <1>4
  <2> HIDE DEF n, last
  <2>3. CASE last > n
    <3>1. \A g : Step(b, i, g) = [msgs |-> <<>>, stop |-> i]
      BY <1>4, <2>2, <2>3 DEF Step, n, last
    <3>2. i \in Nat /\ <<>> \in Seq(Messages)
      BY <1>4
    <3>3. [msgs |-> <<>>, stop |-> i] \in Results
      BY <3>2 DEF Results
    <3> QED
      BY <3>1, <3>3
  <2>4. CASE last <= n /\ IntactAt(b, i)
    <3>5. ~ (last > n)
      BY <1>1, <2>1, <2>4 DEF n
    <3>1. \A g : Step(b, i, g) = [g[last + 1] EXCEPT !.msgs = <<b[i].msg>> \o @]
      BY <1>4, <2>2, <2>4, <3>5, Zenon DEF Step, n, last
    <3>2. last + 1 \in 1..(n + 1) /\ last + 1 > i
      BY <1>1, <1>4, <2>1, <2>4
    <3>3. f[last + 1] \in Results
      BY <3>2 DEF n
    <3>4. \A r \in Results : [r EXCEPT !.msgs = <<b[i].msg>> \o @] \in Results
      <4> TAKE r \in Results
      <4>1. r.msgs \in Seq(Messages) /\ <<b[i].msg>> \in Seq(Messages)
        BY <2>1 DEF Results
      <4>2. <<b[i].msg>> \o r.msgs \in Seq(Messages)
        BY <4>1
      <4> QED
        BY <4>2 DEF Results
    <3> QED
      BY <3>1, <3>2, <3>3, <3>4 DEF n
  <2>5. CASE last <= n /\ ~ IntactAt(b, i)
    <3>2. ~ (last > n)
      BY <1>1, <2>1, <2>5 DEF n
    <3>1. \A g : Step(b, i, g) = g[i + 1]
      BY <1>4, <2>2, <2>5, <3>2, Zenon DEF Step, n, last
    <3> QED
      BY <2>2, <3>1 DEF n
  <2> QED
    BY <1>1, <2>1, <2>3, <2>4, <2>5
<1> QED
  BY <1>1, <1>2, <1>3, <1>4

LEMMA ScanExists ==
  ASSUME NEW b \in Seq(Piece)
  PROVE  \E f : Scans(b, f)
<1> DEFINE n == Len(b) + 1
           From(i, f) == /\ f \in [1..n -> Results]
                         /\ \A j \in i..n : f[j] = Step(b, j, f)
           T == {i \in 1..n : \E f : From(i, f)}
<1>1. n \in Nat /\ n >= 1
  OBVIOUS
<1>2. ASSUME NEW i \in 1..n, NEW f \in [1..n -> Results],
             \A j \in (i + 1)..n : f[j] = Step(b, j, f)
      PROVE  i \in T
  <2> DEFINE h == [f EXCEPT ![i] = Step(b, i, f)]
  <2>1. Step(b, i, f) \in Results
    BY StepTyped
  <2>2. h \in [1..n -> Results] /\ h[i] = Step(b, i, f)
        /\ \A j \in 1..n : j # i => h[j] = f[j]
    BY <2>1
  <2> HIDE DEF h
  <2>3. ASSUME NEW j \in i..n
        PROVE  h[j] = Step(b, j, h)
    <3>1. j \in 1..n /\ \A k \in 1..n : k > j => h[k] = f[k]
      BY <1>1, <2>2
    <3>2. Step(b, j, h) = Step(b, j, f)
      BY <2>2, <3>1, StepTyped
    <3>3. CASE j = i
      BY <2>2, <3>2, <3>3
    <3>4. CASE j # i
      <4>1. j \in (i + 1)..n
        BY <1>1, <3>4
      <4> QED
        BY <1>2, <2>2, <3>1, <3>2, <3>4, <4>1
    <3> QED
      BY <3>3, <3>4
  <2>4. From(i, h)
    BY <2>2, <2>3
  <2> HIDE DEF From
  <2> QED
    BY <2>4
<1>3. ASSUME NEW i \in 1..n, \A j \in (i + 1)..n : j \in T
      PROVE  i \in T
  <2>1. CASE i = n
    <3> DEFINE f == [k \in 1..n |-> [msgs |-> <<>>, stop |-> 0]]
    <3>1. f \in [1..n -> Results]
      <4>1. [msgs |-> <<>>, stop |-> 0] \in Results
        BY DEF Results
      <4> QED
        BY <4>1
    <3>2. (i + 1)..n = {}
      BY <1>1, <2>1
    <3> HIDE DEF f, T
    <3> QED
      BY <1>2, <3>1, <3>2
  <2>2. CASE i # n
    <3>1. i + 1 \in (i + 1)..n
      BY <1>1, <2>2
    <3>2. PICK f : From(i + 1, f)
      BY <1>3, <3>1
    <3>3. f \in [1..n -> Results] /\ \A j \in (i + 1)..n : f[j] = Step(b, j, f)
      BY <3>2
    <3> HIDE DEF T
    <3> QED
      BY <1>2, <3>3
  <2> QED
    BY <2>1, <2>2
<1>4. 1 \in T
  <2> HIDE DEF T
  <2>1. \A i \in 1..n : i \in T
    BY <1>1, <1>3, DownTo
  <2> QED
    BY <1>1, <2>1
<1>5. PICK f : From(1, f)
  BY <1>4
<1>6. Scans(b, f)
  BY <1>5 DEF Scans
<1> QED
  BY <1>6

LEMMA FoundIs ==
  ASSUME NEW b \in Seq(Piece)
  PROVE  \E f : Scans(b, f) /\ Found(b) = f[1]
<1> DEFINE Out == CHOOSE f : f = [i \in 1..(Len(b) + 1) |-> Step(b, i, f)]
<1>1. PICK f : Scans(b, f)
  BY ScanExists
<1>2. f = [i \in 1..(Len(b) + 1) |-> Step(b, i, f)]
  BY <1>1 DEF Scans
<1>3. Out = [i \in 1..(Len(b) + 1) |-> Step(b, i, Out)]
  BY <1>2
<1>4. Found(b) = Out[1]
  BY DEF Found, Step
<1> HIDE DEF Out
<1>5. \A i \in 1..(Len(b) + 1) : Out[i] = Step(b, i, Out)
  BY <1>3
<1>6. Out[1] = f[1]
  <2> DEFINE n == Len(b) + 1
             T == {i \in 1..n : Out[i] = f[i]}
  <2>1. n \in Nat /\ n >= 1
    OBVIOUS
  <2>2. ASSUME NEW i \in 1..n, \A j \in (i + 1)..n : j \in T
        PROVE  i \in T
    <3>1. \A j \in 1..n : j > i => Out[j] = f[j]
      <4> SUFFICES ASSUME NEW j \in 1..n, j > i
                   PROVE  Out[j] = f[j]
        OBVIOUS
      <4>1. j \in (i + 1)..n
        BY <2>1
      <4> QED
        BY <2>2, <4>1
    <3>2. f \in [1..n -> Results]
      BY <1>1 DEF Scans
    <3>3. Step(b, i, Out) = Step(b, i, f)
      BY <3>1, <3>2, StepTyped
    <3> QED
      BY <1>1, <1>5, <3>3 DEF Scans
  <2>3. \A i \in 1..n : i \in T
    <3> HIDE DEF T
    <3> QED
      BY <2>1, <2>2, DownTo
  <2> QED
    BY <2>1, <2>3
<1> QED
  BY <1>1, <1>4, <1>6

\* The three things the scan does at a position.
Skipped(b, f, i) ==
  /\ f[i] = f[i + 1]
  /\ b[i].part = 1 => i + Parts[b[i].msg] <= Len(b) + 1 /\ ~ IntactAt(b, i)
Waits(b, f, i) ==
  /\ b[i].part = 1 /\ i + Parts[b[i].msg] > Len(b) + 1
  /\ f[i].msgs = <<>> /\ f[i].stop = i
Takes(b, f, i, next) ==
  /\ b[i].part = 1 /\ b[i].msg \in Messages /\ IntactAt(b, i)
  /\ next = i + Parts[b[i].msg] /\ next \in (i + 1)..(Len(b) + 1)
  /\ f[i].msgs = <<b[i].msg>> \o f[next].msgs
  /\ f[i].stop = f[next].stop

LEMMA ScanCases ==
  ASSUME NEW b \in Seq(Piece), NEW f, Scans(b, f), NEW i \in 1..Len(b)
  PROVE  Skipped(b, f, i) \/ Waits(b, f, i) \/ \E next : Takes(b, f, i, next)
<1> DEFINE n == Len(b)
           last == i + Parts[b[i].msg] - 1
<1>1. n \in Nat /\ b[i] \in Piece /\ i \in 1..(n + 1) /\ ~ (i > n) /\ i \in Nat
  OBVIOUS
<1>2. f[i] = Step(b, i, f)
  BY <1>1 DEF Scans
<1>3. CASE b[i].part # 1
  BY <1>1, <1>2, <1>3 DEF Step, Skipped
<1>4. CASE b[i].part = 1
  <2>1. b[i].msg \in Messages /\ Parts[b[i].msg] \in Nat /\ Parts[b[i].msg] >= 1
    BY <1>1, <1>4, Pieces
  <2>2. last \in Nat /\ last >= i /\ last + 1 = i + Parts[b[i].msg]
    BY <1>1, <2>1
  <2> HIDE DEF last, n
  <2>3. CASE last > n
    <3>1. f[i] = [msgs |-> <<>>, stop |-> i]
      BY <1>1, <1>2, <1>4, <2>3 DEF Step, last, n
    <3>2. i + Parts[b[i].msg] > n + 1
      BY <1>1, <2>2, <2>3
    <3> QED
      BY <1>4, <3>1, <3>2 DEF Waits, n
  <2>4. CASE last <= n /\ ~ IntactAt(b, i)
    <3>3. ~ (last > n) /\ ~ (i > n)
      BY <1>1, <2>2, <2>4 DEF n
    <3>1. f[i] = f[i + 1]
      BY <1>2, <1>4, <2>4, <3>3, Zenon DEF Step, last, n
    <3>2. i + Parts[b[i].msg] <= n + 1
      BY <1>1, <2>2, <2>4
    <3> QED
      BY <2>4, <3>1, <3>2 DEF Skipped, n
  <2>5. CASE last <= n /\ IntactAt(b, i)
    <3>6. ~ (last > n) /\ ~ (i > n)
      BY <1>1, <2>2, <2>5 DEF n
    <3>1. f[i] = [f[last + 1] EXCEPT !.msgs = <<b[i].msg>> \o @]
      BY <1>2, <1>4, <2>5, <3>6, Zenon DEF Step, last, n
    <3>2. last + 1 \in (i + 1)..(n + 1) /\ last + 1 \in 1..(n + 1)
      BY <1>1, <2>2, <2>5
    <3>3. f[last + 1] \in Results
      BY <3>2 DEF Scans, n
    <3>4. f[i].msgs = <<b[i].msg>> \o f[last + 1].msgs /\ f[i].stop = f[last + 1].stop
      BY <3>1, <3>3 DEF Results
    <3>5. Takes(b, f, i, last + 1)
      BY <1>4, <2>1, <2>2, <2>5, <3>2, <3>4 DEF Takes, n
    <3> QED
      BY <3>5
  <2> QED
    BY <1>1, <2>2, <2>3, <2>4, <2>5
<1> QED
  BY <1>3, <1>4

LEMMA ScanEnd ==
  ASSUME NEW b \in Seq(Piece), NEW f, Scans(b, f)
  PROVE  f[Len(b) + 1] = [msgs |-> <<>>, stop |-> Len(b) + 1]
<1>1. Len(b) \in Nat /\ Len(b) + 1 \in 1..(Len(b) + 1) /\ Len(b) + 1 > Len(b)
  OBVIOUS
<1> QED
  BY <1>1 DEF Scans, Step

\* The scan stops at the end or at a message that still lacks frames.
LEMMA StopIs ==
  ASSUME NEW b \in Seq(Piece), NEW f, Scans(b, f)
  PROVE  \A i \in 1..(Len(b) + 1) :
           /\ f[i].stop \in i..(Len(b) + 1)
           /\ f[i].stop <= Len(b) =>
                /\ b[f[i].stop].part = 1
                /\ f[i].stop + Parts[b[f[i].stop].msg] > Len(b) + 1
<1> DEFINE n == Len(b) + 1
           Good(i) == /\ f[i].stop \in i..n
                      /\ f[i].stop < n => /\ b[f[i].stop].part = 1
                                          /\ f[i].stop + Parts[b[f[i].stop].msg] > n
           T == {i \in 1..n : Good(i)}
<1>1. n \in Nat /\ n >= 1 /\ Len(b) \in Nat
  OBVIOUS
<1>2. ASSUME NEW i \in 1..n, \A j \in (i + 1)..n : j \in T
      PROVE  i \in T
  <2>1. CASE i = n
    <3>1. f[i].stop = n
      <4>1. f[n] = [msgs |-> <<>>, stop |-> n]
        BY ScanEnd
      <4> QED
        BY <2>1, <4>1
    <3> QED
      BY <1>1, <2>1, <3>1
  <2>2. CASE i # n
    <3>1. i \in 1..Len(b) /\ i + 1 \in (i + 1)..n /\ i \in Nat
      BY <1>1, <2>2
    <3>2. CASE Skipped(b, f, i)
      <4>1. Good(i + 1) /\ f[i] = f[i + 1]
        BY <1>2, <3>1, <3>2 DEF Skipped
      <4>2. f[i + 1].stop \in i..n
        BY <1>1, <3>1, <4>1
      <4> QED
        BY <4>1, <4>2
    <3>3. CASE Waits(b, f, i)
      BY <1>1, <3>1, <3>3 DEF Waits
    <3>4. ASSUME NEW next, Takes(b, f, i, next)
          PROVE  i \in T
      <4>1. next \in (i + 1)..n /\ f[i].stop = f[next].stop
        BY <3>4 DEF Takes
      <4>2. Good(next)
        BY <1>2, <4>1
      <4>3. f[next].stop \in i..n
        BY <1>1, <3>1, <4>1, <4>2
      <4> QED
        BY <4>1, <4>2, <4>3
    <3> QED
      BY <3>1, <3>2, <3>3, <3>4, ScanCases
  <2> QED
    BY <2>1, <2>2
<1>3. \A i \in 1..n : i \in T
  <2> HIDE DEF T
  <2> QED
    BY <1>1, <1>2, DownTo
<1> QED
  <2> SUFFICES ASSUME NEW i \in 1..n
               PROVE  /\ f[i].stop \in i..(Len(b) + 1)
                      /\ f[i].stop <= Len(b) =>
                           /\ b[f[i].stop].part = 1
                           /\ f[i].stop + Parts[b[f[i].stop].msg] > Len(b) + 1
    OBVIOUS
  <2>1. Good(i)
    BY <1>3
  <2>2. f[i].stop <= Len(b) => f[i].stop < n
    BY <1>1, <2>1
  <2> QED
    BY <2>1, <2>2

\* Every frame of m is in b.
AllThere(b, m) ==
  \A q \in 1..Parts[m] : \E k \in DOMAIN b : b[k] = [msg |-> m, part |-> q]

\* What the scan returns is there.
LEMMA ScanSound ==
  ASSUME NEW b \in Seq(Piece), NEW f, Scans(b, f)
  PROVE  \A i \in 1..(Len(b) + 1) : \A j \in DOMAIN f[i].msgs :
           f[i].msgs[j] \in Messages /\ AllThere(b, f[i].msgs[j])
<1> DEFINE n == Len(b) + 1
           Good(r) == \A j \in DOMAIN r.msgs :
                        r.msgs[j] \in Messages /\ AllThere(b, r.msgs[j])
           T == {i \in 1..n : Good(f[i])}
<1>1. n \in Nat /\ n >= 1 /\ Len(b) \in Nat /\ DOMAIN b = 1..Len(b)
      /\ f \in [1..n -> Results]
  BY DEF Scans
<1>2. ASSUME NEW i \in 1..n, \A j \in (i + 1)..n : j \in T
      PROVE  i \in T
  <2>1. CASE i = n
    <3>1. f[i].msgs = <<>>
      <4>1. f[n] = [msgs |-> <<>>, stop |-> n]
        BY ScanEnd
      <4> QED
        BY <2>1, <4>1
    <3> QED
      BY <3>1
  <2>2. CASE i # n
    <3>1. i \in 1..Len(b) /\ i + 1 \in (i + 1)..n /\ i \in Nat
      BY <1>1, <2>2
    <3>2. CASE Skipped(b, f, i)
      <4>1. Good(f[i + 1])
        BY <1>2, <3>1
      <4>2. f[i] = f[i + 1]
        BY <3>2 DEF Skipped
      <4> HIDE DEF Good
      <4> QED
        BY <4>1, <4>2
    <3>3. CASE Waits(b, f, i)
      <4>1. DOMAIN f[i].msgs = {}
        BY <3>3 DEF Waits
      <4> QED
        BY <4>1
    <3>4. ASSUME NEW next, Takes(b, f, i, next)
          PROVE  i \in T
      <4> DEFINE m == b[i].msg
                 rest == f[next].msgs
      <4>1. /\ next \in (i + 1)..n /\ f[i].msgs = <<m>> \o rest /\ m \in Messages
            /\ next = i + Parts[m] /\ IntactAt(b, i)
        BY <3>4 DEF Takes
      <4>2. Good(f[next]) /\ rest \in Seq(Messages)
        <5> HIDE DEF m, rest
        <5>1. next \in 1..n
          BY <1>1, <4>1
        <5>2. f[next] \in Results
          BY <1>1, <5>1
        <5> QED
          BY <1>2, <4>1, <5>2 DEF Results, rest
      <4>3. AllThere(b, m)
        <5> SUFFICES ASSUME NEW q \in 1..Parts[m]
                     PROVE  \E k \in DOMAIN b : b[k] = [msg |-> m, part |-> q]
          BY DEF AllThere
        <5>1. b[i + q - 1] = [msg |-> m, part |-> q]
          BY <4>1 DEF IntactAt
        <5>2. Parts[m] \in Nat
          BY <4>1, Pieces
        <5> DEFINE size == Parts[m]
        <5>4. q \in 1..size /\ size \in Nat /\ next = i + size
          BY <4>1, <5>2
        <5> HIDE DEF size, m, rest
        <5>5. next <= Len(b) + 1
          BY <1>1, <4>1
        <5>3. i + q - 1 \in DOMAIN b
          BY <1>1, <3>1, <5>4, <5>5
        <5> QED
          BY <5>1, <5>3
      <4> HIDE DEF m, rest
      <4>4. ASSUME NEW j \in DOMAIN f[i].msgs
            PROVE  f[i].msgs[j] = m \/ \E k \in DOMAIN rest : f[i].msgs[j] = rest[k]
        <5>1. /\ Len(rest) \in Nat /\ DOMAIN rest = 1..Len(rest)
              /\ DOMAIN f[i].msgs = 1..(Len(rest) + 1)
              /\ f[i].msgs[1] = m
              /\ \A k \in 2..(Len(rest) + 1) : f[i].msgs[k] = rest[k - 1]
          BY <4>1, <4>2
        <5>2. j = 1 \/ (j \in 2..(Len(rest) + 1) /\ j - 1 \in DOMAIN rest)
          BY <5>1
        <5> QED
          BY <5>1, <5>2
      <4>5. \A k \in DOMAIN rest : rest[k] \in Messages /\ AllThere(b, rest[k])
        BY <4>2 DEF rest
      <4> QED
        BY <4>1, <4>3, <4>4, <4>5
    <3> HIDE DEF T
    <3> QED
      BY <3>1, <3>2, <3>3, <3>4, ScanCases
  <2> QED
    BY <2>1, <2>2
<1>3. \A i \in 1..n : i \in T
  <2> HIDE DEF T
  <2> QED
    BY <1>1, <1>2, DownTo
<1> QED
  BY <1>3

\* The first k frames of m stand in b from a on.
RunAt(b, a, m, k) ==
  /\ a \in 1..Len(b) /\ a + k <= Len(b) + 1
  /\ \A q \in 1..k : b[a + q - 1] = [msg |-> m, part |-> q]

\* A message that is there from a on is found, unless the scan stops at one
\* that lacks frames before; the begin of one at the end of b is kept.
LEMMA ScanComplete ==
  ASSUME NEW b \in Seq(Piece), NEW f, Scans(b, f),
         NEW m \in Messages, NEW k \in 1..Parts[m], NEW a, RunAt(b, a, m, k),
         k = Parts[m] \/ a + k = Len(b) + 1
  PROVE  \/ f[1].stop <= a
         \/ k = Parts[m] /\ \E j \in DOMAIN f[1].msgs : f[1].msgs[j] = m
<1> DEFINE n == Len(b) + 1
           Good(r) == \/ r.stop <= a
                      \/ k = Parts[m] /\ \E j \in DOMAIN r.msgs : r.msgs[j] = m
           T == {i \in 1..a : Good(f[i])}
<1>1. /\ n \in Nat /\ Len(b) \in Nat /\ DOMAIN b = 1..Len(b) /\ f \in [1..n -> Results]
      /\ a \in 1..Len(b) /\ a \in Nat /\ a + k <= n /\ Parts[m] \in Nat /\ k \in Nat /\ k >= 1
  BY Pieces DEF Scans, RunAt
<1>2. b[a] = [msg |-> m, part |-> 1]
  <2>1. b[a + 1 - 1] = [msg |-> m, part |-> 1]
    <3>1. 1 \in 1..k
      BY <1>1
    <3> QED
      BY <3>1 DEF RunAt
  <2>2. a + 1 - 1 = a
    BY <1>1
  <2> QED
    BY <2>1, <2>2
<1>3. \A i \in 1..n : f[i].msgs \in Seq(Messages)
  BY <1>1 DEF Results
<1>4. ASSUME NEW i \in 1..a, \A j \in (i + 1)..a : j \in T
      PROVE  Good(f[i])
  <2>1. i \in 1..Len(b) /\ i \in Nat
    BY <1>1
  <2>2. CASE Waits(b, f, i)
    BY <1>1, <2>1, <2>2 DEF Waits
  <2>3. CASE Skipped(b, f, i)
    <3>1. i # a
      <4>1. ASSUME i = a
            PROVE  FALSE
        <5>1. a + Parts[m] <= n /\ ~ IntactAt(b, a)
          BY <1>2, <2>3, <4>1 DEF Skipped
        <5>2. k = Parts[m]
          BY <1>1, <5>1
        <5>3. IntactAt(b, a)
          BY <1>2, <5>2 DEF IntactAt, RunAt
        <5> QED
          BY <5>1, <5>3
      <4> QED
        BY <4>1
    <3>2. i + 1 \in (i + 1)..a
      BY <1>1, <2>1, <3>1
    <3>3. Good(f[i + 1]) /\ f[i] = f[i + 1]
      BY <1>4, <2>3, <3>2 DEF Skipped
    <3> HIDE DEF Good
    <3> QED
      BY <3>3
  <2>4. ASSUME NEW next, Takes(b, f, i, next)
        PROVE  Good(f[i])
    <3> DEFINE u == b[i].msg
               rest == f[next].msgs
    <3>1. /\ next \in (i + 1)..n /\ f[i].msgs = <<u>> \o rest /\ u \in Messages
          /\ next = i + Parts[u] /\ IntactAt(b, i) /\ f[i].stop = f[next].stop
      BY <2>4 DEF Takes
    <3>2. rest \in Seq(Messages) /\ Parts[u] \in Nat /\ next \in 1..n
      <4> HIDE DEF u
      <4>1. next \in 1..n
        <5> HIDE DEF rest
        <5> QED
          BY <1>1, <2>1, <3>1
      <4>2. rest \in Seq(Messages)
        BY <1>3, <4>1
      <4>3. Parts[u] \in Nat
        BY <3>1, Pieces
      <4> QED
        BY <4>1, <4>2, <4>3
    <3>3. CASE i = a
      <4>1. u = m /\ k = Parts[m]
        BY <1>1, <1>2, <3>1, <3>3
      <4>2. 1 \in DOMAIN f[i].msgs /\ f[i].msgs[1] = u
        <5> HIDE DEF u, rest
        <5> QED
          BY <3>1, <3>2
      <4> QED
        BY <4>1, <4>2
    <3>4. CASE i # a
      <4>1. next <= a
        <5>1. ASSUME a < next
              PROVE  FALSE
          <6> DEFINE size == Parts[u]
          <6>5. size \in Nat /\ next = i + size
            BY <3>1, <3>2
          <6> HIDE DEF size, u, rest
          <6>6. i <= a /\ a \in Nat /\ i \in Nat
            BY <1>1, <2>1
          <6>7. a - i + 1 \in 1..size /\ a - i + 1 # 1 /\ i + (a - i + 1) - 1 = a
            BY <3>4, <5>1, <6>5, <6>6
          <6>1. a - i + 1 \in 1..Parts[u] /\ a - i + 1 # 1 /\ i + (a - i + 1) - 1 = a
            BY <6>7 DEF size
          <6>2. b[i + (a - i + 1) - 1] = [msg |-> u, part |-> a - i + 1]
            BY <3>1, <6>1 DEF IntactAt, u
          <6>3. b[a] = [msg |-> u, part |-> a - i + 1]
            BY <6>1, <6>2
          <6>4. b[a].part = a - i + 1 /\ b[a].part = 1
            BY <1>2, <6>3
          <6> QED
            BY <6>1, <6>4
        <5> QED
          BY <1>1, <3>2, <5>1
      <4>2. next \in (i + 1)..a
        <5> HIDE DEF u, rest
        <5>1. next \in Nat /\ next >= i + 1
          BY <1>1, <2>1, <3>1
        <5> QED
          BY <1>1, <2>1, <4>1, <5>1
      <4>3. Good(f[next])
        BY <1>4, <4>2
      <4>4. ASSUME NEW j \in DOMAIN rest
            PROVE  \E h \in DOMAIN f[i].msgs : f[i].msgs[h] = rest[j]
        <5> HIDE DEF u, rest
        <5>1. j + 1 \in DOMAIN f[i].msgs /\ f[i].msgs[j + 1] = rest[j]
          BY <3>1, <3>2
        <5> QED
          BY <5>1
      <4> QED
        BY <3>1, <4>3, <4>4
    <3> QED
      BY <3>3, <3>4
  <2> QED
    BY <2>1, <2>2, <2>3, <2>4, ScanCases
<1>5. \A i \in 1..a : i \in T
  <2>1. \A i \in 1..a : (\A j \in (i + 1)..a : j \in T) => i \in T
    BY <1>4
  <2> HIDE DEF T
  <2> QED
    BY <1>1, <2>1, DownTo
<1>6. Good(f[1])
  BY <1>1, <1>5
<1> QED
  BY <1>6

-----------------------------------------------------------------------------
(* What a frame that is appended does.                                     *)

Appending(p) == Append(IF Len(buf) + 1 > Capacity THEN <<>> ELSE buf, p)

LEMMA AppendingIs ==
  ASSUME buf \in Seq(Piece), Len(buf) <= Capacity, NEW p \in Piece
  PROVE  /\ Appending(p) \in Seq(Piece)
         /\ Len(Appending(p)) \in Nat /\ Len(Appending(p)) >= 1 /\ Len(Appending(p)) <= Capacity
         /\ \A i \in DOMAIN Appending(p) :
              Appending(p)[i] = p \/ \E j \in DOMAIN buf : Appending(p)[i] = buf[j]
         /\ Len(buf) < Capacity => Appending(p) = Append(buf, p)
<1>1. Capacity \in Nat /\ Capacity >= 1 /\ Len(buf) \in Nat /\ DOMAIN buf = 1..Len(buf)
  BY MiniAssumption
<1>2. CASE Len(buf) + 1 > Capacity
  <2>1. Appending(p) = <<p>>
    BY <1>2 DEF Appending
  <2> QED
    BY <1>1, <1>2, <2>1
<1>3. CASE Len(buf) + 1 <= Capacity
  <2>1. Appending(p) = Append(buf, p)
    BY <1>1, <1>3 DEF Appending
  <2>2. /\ Append(buf, p) \in Seq(Piece) /\ Len(Append(buf, p)) = Len(buf) + 1
        /\ DOMAIN Append(buf, p) = 1..(Len(buf) + 1)
        /\ \A i \in 1..Len(buf) : Append(buf, p)[i] = buf[i]
        /\ Append(buf, p)[Len(buf) + 1] = p
    BY <1>1
  <2>3. \A i \in 1..(Len(buf) + 1) : i \in 1..Len(buf) \/ i = Len(buf) + 1
    BY <1>1
  <2> QED
    BY <1>1, <1>3, <2>1, <2>2, <2>3
<1> QED
  BY <1>1, <1>2, <1>3

\* A frame that was in the buffer, or the one that came.
Had(x, p) == x = p \/ \E j \in DOMAIN buf : x = buf[j]
AllHad(m, p) == \A q \in 1..Parts[m] : Had([msg |-> m, part |-> q], p)

\* The buffer is empty or begins with a message that lacks frames.
Lacking(b) == b = <<>> \/ (b[1].part = 1 /\ Len(b) < Parts[b[1].msg])

Consumed(p) ==
  /\ buf' \in Seq(Piece) /\ Len(buf') <= Capacity /\ Lacking(buf')
  /\ \A i \in DOMAIN buf' : Had(buf'[i], p)
  /\ delivered \subseteq delivered'
  /\ \A m \in delivered' : m \in delivered \/ (m \in Messages /\ AllHad(m, p))
  /\ fix' = fix \/ (fix = Unknown /\ \E m \in Messages : fix' = FixOf(m) /\ AllHad(m, p))

\* What the scan keeps of a run in the buffer.
Kept(m, k, a, p) ==
  \/ k = Parts[m] /\ m \in delivered'
  \/ \E c : /\ RunAt(buf', c, m, k)
            /\ a + k = Len(Appending(p)) + 1 => c + k = Len(buf') + 1

LEMMA ConsumeIs ==
  ASSUME buf \in Seq(Piece), Len(buf) <= Capacity, NEW p \in Piece, Consume(p)
  PROVE  /\ Consumed(p)
         /\ \A m \in Messages : \A k \in 1..Parts[m] : \A a :
              RunAt(Appending(p), a, m, k) /\ (k = Parts[m] \/ a + k = Len(Appending(p)) + 1)
                => Kept(m, k, a, p)
<1> DEFINE b == Appending(p)
           n == Len(b)
           pvts == { i \in DOMAIN Found(b).msgs : Found(b).msgs[i] \in Solutions }
<1>1. /\ b \in Seq(Piece) /\ n \in Nat /\ n >= 1 /\ n <= Capacity
      /\ \A i \in DOMAIN b : Had(b[i], p)
  BY AppendingIs DEF Had
<1>2. /\ delivered' = delivered \cup ToSet(Found(b).msgs)
      /\ buf' = SubSeq(b, Found(b).stop, n)
      /\ fix' = IF reader = "status" /\ fix = Unknown /\ pvts # {}
                  THEN FixOf(Found(b).msgs[Max(pvts)]) ELSE fix
  BY DEF Consume, Appending
<1> HIDE DEF b
<1>3. PICK f : Scans(b, f) /\ Found(b) = f[1]
  BY <1>1, FoundIs
<1> DEFINE ms == f[1].msgs
           s == f[1].stop
<1>4. /\ 1 \in 1..(n + 1) /\ f[1] \in Results
  BY <1>1, <1>3 DEF Scans
<1>5. /\ ms \in Seq(Messages) /\ s \in 1..(n + 1)
      /\ s <= n => b[s].part = 1 /\ s + Parts[b[s].msg] > n + 1
      /\ \A j \in DOMAIN ms : ms[j] \in Messages /\ AllThere(b, ms[j])
  <2>1. ms \in Seq(Messages)
    BY <1>4 DEF Results
  <2>2. s \in 1..(n + 1) /\ (s <= n => b[s].part = 1 /\ s + Parts[b[s].msg] > n + 1)
    BY <1>1, <1>3, <1>4, StopIs
  <2>3. \A j \in DOMAIN ms : ms[j] \in Messages /\ AllThere(b, ms[j])
    BY <1>1, <1>3, <1>4, ScanSound
  <2> QED
    BY <2>1, <2>2, <2>3
<1>6. \A m : AllThere(b, m) => AllHad(m, p)
  BY <1>1 DEF AllThere, AllHad
<1>7. buf' = SubSeq(b, s, n)
  BY <1>2, <1>3
<1>12. s \in Nat /\ s >= 1 /\ s <= n + 1
  BY <1>1, <1>5
<1> HIDE DEF n, s
<1>8. /\ buf' \in Seq(Piece) /\ Len(buf') = n + 1 - s /\ DOMAIN buf' = 1..(n + 1 - s)
      /\ \A i \in 1..(n + 1 - s) : buf'[i] = b[i + s - 1]
  <2>1. n = Len(b) /\ n \in Nat
    BY <1>1 DEF n
  <2>2. \A i \in s..n : i \in 1..Len(b)
    BY <1>12, <2>1
  <2>3. \A i \in s..n : b[i] \in Piece
    BY <1>1, <2>2
  <2>4. SubSeq(b, s, n) \in Seq(Piece)
    BY <1>1, <1>12, <2>1, <2>3
  <2>5. Len(SubSeq(b, s, n)) = n + 1 - s
    BY <1>1, <1>12, <2>1
  <2> QED
    BY <1>1, <1>7, <1>12, <2>1, <2>4, <2>5
<1>9. DOMAIN b = 1..n
  BY <1>1 DEF n
<1>10. Consumed(p)
  <2>1. Len(buf') <= Capacity
    BY <1>1, <1>5, <1>8, MiniAssumption
  <2>2. Lacking(buf')
    <3>1. CASE s = n + 1
      <4>1. Len(buf') = 0
        BY <1>1, <1>8, <3>1
      <4> QED
        BY <1>8, <4>1 DEF Lacking
    <3>2. CASE s <= n
      <4>1. 1 \in 1..(n + 1 - s) /\ 1 + s - 1 = s
        BY <1>1, <1>5, <3>2
      <4>2. buf'[1] = b[s]
        BY <1>8, <4>1
      <4>3. b[s] \in Piece /\ b[s].part = 1 /\ s + Parts[b[s].msg] > n + 1
        BY <1>1, <1>5, <1>9, <3>2
      <4>4. Parts[b[s].msg] \in Nat
        BY <4>3, Pieces
      <4>5. n + 1 - s < Parts[b[s].msg]
        BY <1>1, <1>5, <4>3, <4>4
      <4> QED
        BY <1>8, <4>2, <4>3, <4>5 DEF Lacking
    <3> QED
      BY <1>1, <1>5, <3>1, <3>2
  <2>3. ASSUME NEW i \in DOMAIN buf'
        PROVE  Had(buf'[i], p)
    <3>1. i + s - 1 \in DOMAIN b /\ buf'[i] = b[i + s - 1]
      BY <1>1, <1>8, <1>9, <1>12
    <3> QED
      BY <1>1, <3>1
  <2>4. delivered' = delivered \cup ToSet(ms)
    BY <1>2, <1>3
  <2>5. ASSUME NEW m \in delivered', m \notin delivered
        PROVE  m \in Messages /\ AllHad(m, p)
    <3>1. PICK j \in DOMAIN ms : m = ms[j]
      BY <2>4, <2>5 DEF ToSet
    <3> QED
      BY <1>5, <1>6, <3>1
  <2>6. fix' = fix \/ (fix = Unknown /\ \E m \in Messages : fix' = FixOf(m) /\ AllHad(m, p))
    <3>1. CASE fix = Unknown /\ pvts # {} /\ fix' = FixOf(Found(b).msgs[Max(pvts)])
      <4>1. pvts \in SUBSET (1..Len(ms)) /\ Len(ms) \in Nat
        BY <1>3, <1>5
      <4>2. Max(pvts) \in pvts
        <5> HIDE DEF pvts
        <5> QED
          BY <3>1, <4>1, MaxIn
      <4>3. Max(pvts) \in DOMAIN ms /\ fix' = FixOf(ms[Max(pvts)])
        BY <1>3, <3>1, <4>2
      <4> HIDE DEF pvts
      <4> QED
        BY <1>5, <1>6, <3>1, <4>3
    <3> QED
      BY <1>2, <3>1
  <2> QED
    BY <1>8, <2>1, <2>2, <2>3, <2>4, <2>5, <2>6 DEF Consumed
<1>11. ASSUME NEW m \in Messages, NEW k \in 1..Parts[m], NEW a,
              RunAt(b, a, m, k), k = Parts[m] \/ a + k = n + 1
       PROVE  Kept(m, k, a, p)
  <2>1. s <= a \/ (k = Parts[m] /\ \E j \in DOMAIN ms : ms[j] = m)
    BY <1>1, <1>3, <1>11, ScanComplete DEF n, s
  <2>2. CASE k = Parts[m] /\ \E j \in DOMAIN ms : ms[j] = m
    <3>1. m \in ToSet(ms)
      BY <2>2 DEF ToSet
    <3> QED
      BY <1>2, <1>3, <2>2, <3>1 DEF Kept
  <2>3. CASE s <= a
    <3> DEFINE c == a - s + 1
    <3>1. a \in 1..n /\ a + k <= n + 1 /\ k \in Nat /\ k >= 1
      BY <1>11, Pieces DEF RunAt, n
    <3>6. n \in Nat /\ a \in Nat /\ Len(buf') = n + 1 - s
      BY <1>1, <1>8, <3>1
    <3>2. c \in 1..Len(buf') /\ c + k <= Len(buf') + 1
      BY <1>12, <2>3, <3>1, <3>6
    <3>3. ASSUME NEW q \in 1..k
          PROVE  buf'[c + q - 1] = [msg |-> m, part |-> q]
      <4>1. c + q - 1 \in 1..(n + 1 - s) /\ (c + q - 1) + s - 1 = a + q - 1
        BY <1>1, <1>12, <2>3, <3>1
      <4>2. buf'[c + q - 1] = b[a + q - 1]
        BY <1>8, <4>1
      <4> QED
        BY <1>11, <4>2 DEF RunAt
    <3>4. a + k = n + 1 => c + k = Len(buf') + 1
      BY <1>1, <1>5, <1>8, <3>1
    <3>5. RunAt(buf', c, m, k)
      BY <3>2, <3>3 DEF RunAt
    <3> HIDE DEF c
    <3> QED
      BY <3>4, <3>5 DEF Kept, b, n
  <2> QED
    BY <2>1, <2>2, <2>3
<1> QED
  BY <1>10, <1>11 DEF b, n

-----------------------------------------------------------------------------
(* The inductive invariant.                                                *)

InBuf(m, q) == \E i \in DOMAIN buf : buf[i] = [msg |-> m, part |-> q]

Ranges ==
  /\ locked \in BOOLEAN /\ signal \in BOOLEAN
  /\ sending \in Messages \cup {None}
  /\ part \in Nat /\ (sending # None => part \in 2..Parts[sending])
  /\ sent \subseteq Messages /\ whole \subseteq sent /\ torn \in BOOLEAN
  /\ sending # None => sending \in sent /\ sending \notin whole
  /\ sending = None => ~ torn
  /\ reader \in Readers /\ reads \in 0..Reads
  /\ buf \in Seq(Piece) /\ Len(buf) <= Capacity /\ Lacking(buf)
  /\ delivered \subseteq Messages
  /\ pll_hw_locked \in BOOLEAN /\ gps_signal_ok \in BOOLEAN
  /\ fix \in {Unknown, 0, 3} /\ told \in {None, "locked", "unlocked"}
  /\ result \in {None, "status", "ok", "timeout"}
  /\ status \in [pll_locked : BOOLEAN, gps_lock : BOOLEAN]

\* What a message that was not read whole lacks: the frames not yet sent, and
\* one of those sent if any was lost.
Lack(m) ==
  /\ m = sending => /\ \A q \in Nat : q >= part => ~ InBuf(m, q)
                    /\ torn => \E q \in 1..(part - 1) : ~ InBuf(m, q)
  /\ m # sending /\ m \in sent => \E q \in 1..Parts[m] : ~ InBuf(m, q)
  /\ m \notin sent => \A q \in Nat : ~ InBuf(m, q)

TornLack == \A m \in Messages \ whole : Lack(m)

\* Nothing is delivered, and no fix is taken, but from what was read whole.
WholeOnly == delivered \subseteq whole /\ (fix >= 2 => whole \cap Fixes # {})

\* Where keepalive frames are skipped, what was read of the present message
\* stands at the end of the buffer, and a message read whole somewhere in it.
Unbroken ==
  (reader # "gps-info" /\ \A m \in Messages : Parts[m] <= Capacity) =>
    /\ sending # None /\ ~ torn =>
         \E a : RunAt(buf, a, sending, part - 1) /\ a + (part - 1) = Len(buf) + 1
    /\ \A m \in whole : m \in delivered \/ \E a : RunAt(buf, a, m, Parts[m])

\* What --status samples, and what it reports at the end.
SampleTrue ==
  /\ reader = "status" /\ told # None => (pll_hw_locked <=> told = "locked")
  /\ result = "status" =>
       /\ reader = "status" /\ status.pll_locked = pll_hw_locked
       /\ status.gps_lock = (gps_signal_ok \/ fix >= 2)

IInv == Ranges /\ TornLack /\ WholeOnly /\ Unbroken /\ SampleTrue

LEMMA InitIInv == Init => IInv
<1> SUFFICES ASSUME Init
             PROVE  IInv
  OBVIOUS
<1>1. buf = <<>> /\ DOMAIN buf = {} /\ Len(buf) = 0 /\ buf \in Seq(Piece)
  BY DEF Init
<1>2. sending = None /\ sent = {} /\ whole = {} /\ delivered = {} /\ result = None
      /\ told = None /\ fix = Unknown /\ torn = FALSE /\ part = 0
      /\ reader \in Readers /\ reads = Reads
  BY DEF Init
<1>3. Ranges
  <2>1. status \in [pll_locked : BOOLEAN, gps_lock : BOOLEAN]
    BY DEF Init
  <2>2. Len(buf) <= Capacity /\ reads \in 0..Reads
    BY <1>1, <1>2, MiniAssumption
  <2>3. locked \in BOOLEAN /\ signal \in BOOLEAN
        /\ pll_hw_locked \in BOOLEAN /\ gps_signal_ok \in BOOLEAN
    BY DEF Init
  <2> QED
    BY <1>1, <1>2, <2>1, <2>2, <2>3 DEF Ranges, Lacking
<1>4. TornLack
  <2>1. \A m, q : ~ InBuf(m, q)
    BY <1>1 DEF InBuf
  <2>2. \A m \in Messages : m # sending /\ m \notin sent
    BY <1>2, Pieces
  <2> QED
    BY <2>1, <2>2 DEF TornLack, Lack
<1>5. WholeOnly
  BY <1>2 DEF WholeOnly, Unknown
<1>6. Unbroken
  BY <1>2 DEF Unbroken
<1>7. SampleTrue
  <2>1. result # "status"
    BY <1>2 DEF None
  <2> QED
    BY <1>2, <2>1 DEF SampleTrue
<1> QED
  BY <1>3, <1>4, <1>5, <1>6, <1>7 DEF IInv

\* Whether the frame is appended or skipped.
LEMMA AppendedIs ==
  ASSUME Ranges, NEW p \in Piece, Appended(p)
  PROVE  /\ Consumed(p)
         /\ Skips(p) => UNCHANGED <<buf, delivered>>
         /\ ~ Skips(p) => \A m \in Messages : \A k \in 1..Parts[m] : \A a :
              RunAt(Appending(p), a, m, k) /\ (k = Parts[m] \/ a + k = Len(Appending(p)) + 1)
                => Kept(m, k, a, p)
<1>1. buf \in Seq(Piece) /\ Len(buf) <= Capacity /\ Lacking(buf)
  BY DEF Ranges
<1>2. CASE Skips(p)
  <2>1. UNCHANGED <<buf, delivered, fix>>
    BY <1>2 DEF Appended
  <2>2. \A i \in DOMAIN buf : Had(buf[i], p)
    BY DEF Had
  <2> QED
    BY <1>1, <1>2, <2>1, <2>2 DEF Consumed
<1>3. CASE ~ Skips(p)
  <2>1. Consume(p)
    BY <1>3 DEF Appended
  <2> QED
    BY <1>1, <1>3, <2>1, ConsumeIs
<1> QED
  BY <1>2, <1>3

LEMMA ReceivedTyped ==
  ASSUME Ranges, NEW p \in Piece, Receive(p), Reading
  PROVE  /\ buf' \in Seq(Piece) /\ Len(buf') <= Capacity /\ Lacking(buf')
         /\ delivered' \subseteq Messages
         /\ pll_hw_locked' \in BOOLEAN /\ gps_signal_ok' \in BOOLEAN
         /\ fix' \in {Unknown, 0, 3} /\ told' \in {None, "locked", "unlocked"}
         /\ result' \in {None, "ok"} /\ reads' \in 0..Reads
         /\ UNCHANGED <<locked, signal, reader, status>>
<1>1. Consumed(p)
  BY AppendedIs DEF Receive
<1>2. UNCHANGED <<locked, signal, reader, status>>
      /\ pll_hw_locked' \in BOOLEAN /\ gps_signal_ok' \in BOOLEAN
      /\ told' \in {None, "locked", "unlocked"}
  BY DEF Receive, device, Sampled, Ranges
<1>3. result' \in {None, "ok"}
  BY DEF Receive, Reading
<1>4. reads' \in 0..Reads
  <2>1. reads \in 0..Reads /\ reads > 0 /\ Reads \in Nat
    BY MiniAssumption DEF Reading, Ranges
  <2>2. reads' = reads \/ reads' = reads - 1
    BY DEF Receive, Spend
  <2> QED
    BY <2>1, <2>2
<1>5. fix' \in {Unknown, 0, 3}
  BY <1>1 DEF Consumed, FixOf, Ranges
<1>6. delivered' \subseteq Messages
  BY <1>1 DEF Consumed, Ranges
<1> QED
  BY <1>1, <1>2, <1>3, <1>4, <1>5, <1>6 DEF Consumed

\* Lack, of the buffer and the frame that came.
HadLack(m, p) ==
  /\ m = sending' => /\ \A q \in Nat : q >= part' => ~ Had([msg |-> m, part |-> q], p)
                     /\ torn' => \E q \in 1..(part' - 1) : ~ Had([msg |-> m, part |-> q], p)
  /\ m # sending' /\ m \in sent' => \E q \in 1..Parts[m] : ~ Had([msg |-> m, part |-> q], p)
  /\ m \notin sent' => \A q \in Nat : ~ Had([msg |-> m, part |-> q], p)

LEMMA ReceivedWhole ==
  ASSUME Ranges', NEW p \in Piece, Consumed(p), WholeOnly, whole \subseteq whole',
         \A m \in Messages \ whole' : HadLack(m, p)
  PROVE  TornLack' /\ WholeOnly'
<1>1. \A m, q : InBuf(m, q)' => Had([msg |-> m, part |-> q], p)
  BY DEF InBuf, Consumed
<1>2. TornLack'
  <2> SUFFICES ASSUME NEW m \in Messages \ whole'
               PROVE  Lack(m)'
    BY DEF TornLack
  <2>1. HadLack(m, p)
    OBVIOUS
  <2> QED
    BY <1>1, <2>1 DEF HadLack, Lack
<1>3. ASSUME NEW m \in Messages, AllHad(m, p)
      PROVE  m \in whole'
  <2> SUFFICES ASSUME m \notin whole'
               PROVE  FALSE
    OBVIOUS
  <2>1. HadLack(m, p)
    OBVIOUS
  <2>2. Parts[m] \in Nat /\ Parts[m] >= 1
    BY Pieces
  <2>3. \A q \in 1..Parts[m] : Had([msg |-> m, part |-> q], p)
    BY <1>3 DEF AllHad
  <2>4. CASE m = sending'
    <3>1. part' \in 2..Parts[m] /\ part' \in Nat
      BY <2>4, Pieces DEF Ranges
    <3>2. part' \in 1..Parts[m] /\ part' >= part'
      BY <2>2, <3>1
    <3> QED
      BY <2>1, <2>3, <2>4, <3>1, <3>2 DEF HadLack
  <2>5. CASE m # sending' /\ m \in sent'
    BY <2>1, <2>3, <2>5 DEF HadLack
  <2>6. CASE m \notin sent'
    <3>1. 1 \in 1..Parts[m] /\ 1 \in Nat
      BY <2>2
    <3> QED
      BY <2>1, <2>3, <2>6, <3>1 DEF HadLack
  <2> QED
    BY <2>4, <2>5, <2>6
<1>4. delivered' \subseteq whole'
  BY <1>3 DEF Consumed, WholeOnly
<1>5. fix' >= 2 => whole' \cap Fixes # {}
  <2>1. CASE fix' = fix
    BY <2>1 DEF WholeOnly
  <2>2. ASSUME NEW m \in Messages, fix' = FixOf(m), AllHad(m, p), fix' >= 2
        PROVE  whole' \cap Fixes # {}
    <3>1. m \in Fixes
      BY <2>2 DEF FixOf
    <3> QED
      BY <1>3, <2>2, <3>1
  <2> QED
    BY <2>1, <2>2 DEF Consumed
<1> QED
  BY <1>2, <1>4, <1>5 DEF WholeOnly

LEMMA ReceivedSample ==
  ASSUME Ranges, SampleTrue, NEW p, Receive(p), Reading
  PROVE  SampleTrue'
<1>1. reader' = reader /\ (result' = result \/ result' = "ok") /\ result = None
      /\ told' = (IF locked THEN "locked" ELSE "unlocked")
  BY DEF Receive, Reading
<1>2. result' # "status"
  BY <1>1 DEF None
<1>3. reader = "status" => pll_hw_locked' = locked
  BY DEF Receive, Sampled
<1>4. locked \in BOOLEAN
  BY DEF Ranges
<1> QED
  BY <1>1, <1>2, <1>3, <1>4 DEF SampleTrue

-----------------------------------------------------------------------------
(* The steps.                                                              *)

\* The frame that is sent next, and what is sent after it.
LEMMA AdvanceIs ==
  ASSUME Ranges, NEW m \in Messages, NextPart(m), Advance(m)
  PROVE  LET q == Present(m).part
         IN  /\ Present(m) = [msg |-> m, part |-> q] /\ q \in 1..Parts[m] /\ q \in Nat
             /\ Present(m) \in Piece /\ Present(m) # Padding
             /\ sending = None => q = 1 /\ m \notin sent /\ m \notin whole /\ ~ torn
             /\ sending # None => sending = m /\ q = part /\ q > 1 /\ m \in sent /\ m \notin whole
             /\ q = Parts[m] => sending' = None /\ part' = 0
             /\ q # Parts[m] => sending' = m /\ part' = q + 1 /\ part' \in 2..Parts[m]
             /\ sent' = sent \cup {m} /\ m # None
<1> DEFINE q == Present(m).part
<1>1. Present(m) = [msg |-> m, part |-> q]
  BY DEF Present
<1>2. m # None /\ Parts[m] \in Nat /\ Parts[m] >= 1
  BY Pieces
<1>3. sending = None => q = 1 /\ m \notin sent /\ m \notin whole /\ ~ torn
  BY DEF Present, NextPart, Ranges
<1>5. ASSUME sending # None
      PROVE  sending = m /\ q = part /\ q > 1 /\ q \in 2..Parts[m] /\ m \in sent /\ m \notin whole
  <2>1. sending = m /\ q = part
    BY <1>5 DEF Present, NextPart
  <2>2. part \in 2..Parts[m]
    BY <1>5, <2>1 DEF Ranges
  <2> QED
    BY <1>2, <1>5, <2>1, <2>2 DEF Ranges
<1>6. q \in 1..Parts[m] /\ q \in Nat
  BY <1>2, <1>3, <1>5
<1>7. Present(m) \in Piece /\ Present(m) # Padding
  <2>1. [msg |-> m, part |-> q] \in [msg : Messages \cup {None}, part : Nat]
    BY <1>6
  <2>2. [msg |-> m, part |-> q] # Padding
    BY <1>2 DEF Padding
  <2> QED
    BY <1>1, <1>6, <2>1, <2>2 DEF Piece
<1>8. /\ q = Parts[m] => sending' = None /\ part' = 0
      /\ q # Parts[m] => sending' = m /\ part' = q + 1
      /\ sent' = sent \cup {m}
  BY DEF Advance
<1>9. q # Parts[m] => q + 1 \in 2..Parts[m]
  BY <1>2, <1>6
<1> HIDE DEF q
<1> QED
  BY <1>1, <1>2, <1>3, <1>5, <1>6, <1>7, <1>8, <1>9 DEF q

\* A message of which a frame was lost lacks it, whatever else came.
LEMMA DataLack ==
  ASSUME Ranges, TornLack, NEW m \in Messages, NextPart(m), Advance(m),
         torn' = (torn /\ sending' # None),
         whole' = IF sending' = None /\ ~ torn THEN whole \cup {m} ELSE whole
  PROVE  \A u \in Messages \ whole' : HadLack(u, Present(m))
<1> DEFINE q == Present(m).part
           p == Present(m)
<1>1. /\ p = [msg |-> m, part |-> q] /\ q \in 1..Parts[m] /\ q \in Nat
      /\ sending = None => q = 1 /\ m \notin sent /\ m \notin whole /\ ~ torn
      /\ sending # None => sending = m /\ q = part /\ q > 1 /\ m \in sent /\ m \notin whole
      /\ q = Parts[m] => sending' = None /\ part' = 0
      /\ q # Parts[m] => sending' = m /\ part' = q + 1 /\ part' \in 2..Parts[m]
      /\ sent' = sent \cup {m} /\ m # None
  BY AdvanceIs
<1> HIDE DEF p, q
<1>2. \A u, k : Had([msg |-> u, part |-> k], p) <=> InBuf(u, k) \/ (u = m /\ k = q)
  BY <1>1 DEF Had, InBuf
<1>3. Parts[m] \in Nat
  BY Pieces
<1>4. ASSUME NEW u \in Messages \ whole', u # m
      PROVE  HadLack(u, p)
  <2>1. u \in Messages \ whole /\ u # sending /\ u # sending'
    BY <1>1, <1>4, Pieces
  <2>2. Lack(u)
    BY <2>1 DEF TornLack
  <2> QED
    BY <1>1, <1>2, <1>4, <2>1, <2>2 DEF Lack, HadLack
<1>5. ASSUME m \notin whole'
      PROVE  HadLack(m, p)
  <2>1. m \in Messages \ whole
    BY <1>1
  <2>2. Lack(m)
    BY <2>1 DEF TornLack
  <2>3. \A k \in Nat : k >= q => ~ InBuf(m, k)
    BY <1>1, <2>2, Pieces DEF Lack
  <2>4. torn => \E k \in 1..(q - 1) : ~ InBuf(m, k)
    BY <1>1, <2>2 DEF Lack
  <2>5. \A k \in 1..(q - 1) : k \in 1..Parts[m] /\ k # q
    BY <1>1, <1>3
  <2>6. CASE q = Parts[m]
    <3>1. torn
      BY <1>1, <1>5, <2>6
    <3>2. PICK k \in 1..(q - 1) : ~ InBuf(m, k)
      BY <2>4, <3>1
    <3>3. k \in 1..Parts[m] /\ ~ Had([msg |-> m, part |-> k], p)
      BY <1>2, <2>5, <3>2
    <3>4. m # sending' /\ m \in sent'
      BY <1>1, <2>6
    <3> QED
      BY <3>3, <3>4 DEF HadLack
  <2>7. CASE q # Parts[m]
    <3>1. sending' = m /\ part' = q + 1 /\ m \in sent'
      BY <1>1, <2>7
    <3>2. ASSUME NEW k \in Nat, k >= q + 1
          PROVE  ~ Had([msg |-> m, part |-> k], p)
      <4>1. k >= q /\ k # q
        BY <1>1, <3>2
      <4> QED
        BY <1>2, <2>3, <4>1
    <3>3. ASSUME torn'
          PROVE  \E k \in 1..(part' - 1) : ~ Had([msg |-> m, part |-> k], p)
      <4>1. PICK k \in 1..(q - 1) : ~ InBuf(m, k)
        BY <2>4, <3>3
      <4>2. k \in 1..(part' - 1) /\ ~ Had([msg |-> m, part |-> k], p)
        BY <1>1, <1>2, <2>5, <3>1, <4>1
      <4> QED
        BY <4>2
    <3> QED
      BY <3>1, <3>2, <3>3 DEF HadLack
  <2> QED
    BY <2>6, <2>7
<1> QED
  BY <1>4, <1>5 DEF p

\* Where no frame of it was lost a message is whole in the buffer when its last
\* frame is appended.
LEMMA DataUnbroken ==
  ASSUME Ranges, Ranges', Unbroken, NEW m \in Messages, NextPart(m), Advance(m),
         torn' = (torn /\ sending' # None),
         whole' = IF sending' = None /\ ~ torn THEN whole \cup {m} ELSE whole,
         Receive(Present(m)), Reading
  PROVE  Unbroken'
<1> SUFFICES ASSUME reader # "gps-info", \A u \in Messages : Parts[u] <= Capacity
             PROVE  /\ sending' # None /\ ~ torn' =>
                         \E a : /\ RunAt(buf', a, sending', part' - 1)
                                /\ a + (part' - 1) = Len(buf') + 1
                    /\ \A u \in whole' : u \in delivered' \/ \E a : RunAt(buf', a, u, Parts[u])
  <2>1. reader' = reader
    BY DEF Receive
  <2> QED
    BY <2>1 DEF Unbroken
<1> DEFINE q == Present(m).part
           p == Present(m)
           b == Appending(p)
<1>1. /\ p = [msg |-> m, part |-> q] /\ q \in 1..Parts[m] /\ q \in Nat
      /\ p \in Piece /\ p # Padding
      /\ sending = None => q = 1 /\ m \notin sent /\ m \notin whole /\ ~ torn
      /\ sending # None => sending = m /\ q = part /\ q > 1 /\ m \in sent /\ m \notin whole
      /\ q = Parts[m] => sending' = None /\ part' = 0
      /\ q # Parts[m] => sending' = m /\ part' = q + 1 /\ part' \in 2..Parts[m]
      /\ sent' = sent \cup {m} /\ m # None
  BY AdvanceIs
<1>2. Appended(p) /\ ~ Skips(p)
  BY <1>1 DEF Receive, Skips
<1>3. \A u \in Messages : \A k \in 1..Parts[u] : \A a :
        RunAt(b, a, u, k) /\ (k = Parts[u] \/ a + k = Len(b) + 1) => Kept(u, k, a, p)
  BY <1>1, <1>2, AppendedIs
<1>4. Consumed(p)
  BY <1>1, <1>2, AppendedIs
<1> HIDE DEF p, q
\* The buffer does not overflow.
<1>5. Len(buf) < Capacity /\ Len(buf) \in Nat /\ buf \in Seq(Piece)
  <2>1. Lacking(buf) /\ buf \in Seq(Piece) /\ Len(buf) \in Nat /\ Capacity \in Nat /\ Capacity >= 1
    BY MiniAssumption DEF Ranges
  <2>2. CASE buf = <<>>
    <3>1. Len(buf) = 0
      BY <2>2
    <3> QED
      BY <2>1, <3>1
  <2>3. CASE buf # <<>>
    <3>1. buf[1].part = 1 /\ Len(buf) < Parts[buf[1].msg]
      BY <2>1, <2>3 DEF Lacking
    <3>2. buf[1] \in Piece
      BY <2>1, <2>3
    <3>3. buf[1].msg \in Messages
      BY <3>1, <3>2, Pieces
    <3>4. Parts[buf[1].msg] <= Capacity /\ Parts[buf[1].msg] \in Nat
      BY <3>3, Pieces
    <3> QED
      BY <2>1, <3>1, <3>4
  <2> QED
    BY <2>1, <2>2, <2>3
<1>6. /\ b = Append(buf, p) /\ Len(b) = Len(buf) + 1
      /\ \A i \in 1..Len(buf) : b[i] = buf[i]
      /\ b[Len(buf) + 1] = p
  <2>1. b = Append(buf, p)
    BY <1>1, <1>5, AppendingIs DEF Ranges
  <2> QED
    BY <1>1, <1>5, <2>1
<1> HIDE DEF b
\* What was a run is one still, and that of m has grown.
<1>7. ASSUME NEW u \in Messages, NEW k \in Nat, NEW a, RunAt(buf, a, u, k)
      PROVE  /\ a \in 1..Len(b) /\ a + k <= Len(b)
             /\ \A j \in 1..k : b[a + j - 1] = [msg |-> u, part |-> j]
  <2>1. a \in 1..Len(buf) /\ a + k <= Len(buf) + 1
    BY <1>7 DEF RunAt
  <2>2. \A j \in 1..k : a + j - 1 \in 1..Len(buf)
    BY <1>5, <2>1
  <2> QED
    BY <1>5, <1>6, <1>7, <2>1, <2>2 DEF RunAt
<1>8. ASSUME ~ torn
      PROVE  \E a : RunAt(b, a, m, q) /\ a + q = Len(b) + 1
  <2>1. CASE sending = None
    <3> DEFINE a == Len(b)
    <3>1. q = 1 /\ a \in 1..Len(b) /\ a + q = Len(b) + 1 /\ b[a] = p
      BY <1>1, <1>5, <1>6, <2>1
    <3>2. \A j \in 1..q : j = 1 /\ a + j - 1 = a
      BY <1>5, <1>6, <3>1
    <3> HIDE DEF a
    <3>3. \A j \in 1..q : b[a + j - 1] = [msg |-> m, part |-> j]
      BY <1>1, <3>1, <3>2
    <3>4. RunAt(b, a, m, q)
      BY <1>5, <1>6, <3>1, <3>3 DEF RunAt
    <3> QED
      BY <3>1, <3>4
  <2>2. CASE sending # None
    <3>1. PICK a : RunAt(buf, a, m, q - 1) /\ a + (q - 1) = Len(buf) + 1
      BY <1>1, <1>8, <2>2 DEF Unbroken
    <3>2. q - 1 \in Nat
      BY <1>1
    <3>3. /\ a \in 1..Len(b) /\ a + (q - 1) <= Len(b)
          /\ \A j \in 1..(q - 1) : b[a + j - 1] = [msg |-> m, part |-> j]
      BY <1>7, <3>1, <3>2
    <3>4. a \in Nat /\ Len(b) \in Nat
      BY <1>5, <1>6, <3>3
    <3>7. a + q = Len(b) + 1 /\ a + q - 1 = Len(buf) + 1 /\ a + q <= Len(b) + 1
      BY <1>1, <1>5, <1>6, <3>1, <3>4
    <3>5. ASSUME NEW j \in 1..q
          PROVE  b[a + j - 1] = [msg |-> m, part |-> j]
      <4>1. j = q \/ j \in 1..(q - 1)
        BY <1>1
      <4> QED
        BY <1>1, <1>6, <3>3, <3>7, <4>1
    <3>6. RunAt(b, a, m, q)
      BY <3>3, <3>5, <3>7 DEF RunAt
    <3> QED
      BY <3>6, <3>7
  <2> QED
    BY <2>1, <2>2
<1>9. ASSUME sending' # None, ~ torn'
      PROVE  \E a : /\ RunAt(buf', a, sending', part' - 1)
                    /\ a + (part' - 1) = Len(buf') + 1
  <2>5. ~ torn
    BY <1>9 DEF Ranges
  <2>6. q # Parts[m] /\ sending' = m /\ part' = q + 1
    BY <1>1, <1>9
  <2>1. q # Parts[m] /\ ~ torn /\ sending' = m /\ part' - 1 = q
    BY <1>1, <2>5, <2>6
  <2>2. PICK a : RunAt(b, a, m, q) /\ a + q = Len(b) + 1
    BY <1>8, <2>1
  <2>3. Kept(m, q, a, p)
    BY <1>1, <1>3, <2>2
  <2>4. PICK c : RunAt(buf', c, m, q) /\ c + q = Len(buf') + 1
    BY <2>1, <2>2, <2>3 DEF Kept, b
  <2> QED
    BY <2>1, <2>4
<1>10. ASSUME NEW u \in whole'
       PROVE  u \in delivered' \/ \E a : RunAt(buf', a, u, Parts[u])
  <2>1. u \in Messages /\ Parts[u] \in Nat /\ Parts[u] \in 1..Parts[u]
    BY Pieces DEF Ranges
  <2>2. ASSUME NEW a, RunAt(b, a, u, Parts[u])
        PROVE  u \in delivered' \/ \E c : RunAt(buf', c, u, Parts[u])
    <3>1. Kept(u, Parts[u], a, p)
      BY <1>3, <2>1, <2>2
    <3> QED
      BY <3>1 DEF Kept
  <2>3. CASE u \in whole
    <3>1. CASE u \in delivered
      BY <1>4, <3>1 DEF Consumed
    <3>2. ASSUME NEW a, RunAt(buf, a, u, Parts[u])
          PROVE  RunAt(b, a, u, Parts[u])
      <4>1. /\ a \in 1..Len(b) /\ a + Parts[u] <= Len(b)
            /\ \A j \in 1..Parts[u] : b[a + j - 1] = [msg |-> u, part |-> j]
        BY <1>7, <2>1, <3>2
      <4>2. a + Parts[u] <= Len(b) + 1
        BY <1>5, <1>6, <2>1, <4>1
      <4> QED
        BY <4>1, <4>2 DEF RunAt
    <3>3. u \in delivered \/ \E a : RunAt(buf, a, u, Parts[u])
      BY <2>3 DEF Unbroken
    <3> QED
      BY <2>2, <3>1, <3>2, <3>3
  <2>4. CASE u \notin whole
    <3>1. u = m /\ ~ torn /\ q = Parts[m]
      BY <1>1, <1>10, <2>4
    <3>2. PICK a : RunAt(b, a, m, q)
      BY <1>8, <3>1
    <3> QED
      BY <2>2, <3>1, <3>2
  <2> QED
    BY <2>3, <2>4
<1> QED
  BY <1>9, <1>10

LEMMA DataFrameStep ==
  ASSUME IInv, NEW m \in Messages, DataFrame(m)
  PROVE  IInv'
<1> USE DEF IInv
<1>1. /\ Reading /\ NextPart(m) /\ Advance(m) /\ Receive(Present(m))
      /\ torn' = (torn /\ sending' # None)
      /\ whole' = IF sending' = None /\ ~ torn THEN whole \cup {m} ELSE whole
  BY DEF DataFrame
<1>2. LET q == Present(m).part
      IN  /\ Present(m) \in Piece /\ q \in Nat
          /\ sending = None => m \notin whole
          /\ sending # None => m \notin whole
          /\ q = Parts[m] => sending' = None /\ part' = 0
          /\ q # Parts[m] => sending' = m /\ part' = q + 1 /\ part' \in 2..Parts[m]
          /\ sent' = sent \cup {m} /\ m # None
  BY <1>1, AdvanceIs
<1>3. Ranges'
  <2>1. sending' \in Messages \cup {None} /\ part' \in Nat
        /\ (sending' # None => part' \in 2..Parts[sending'])
    BY <1>2
  <2>2. sent' \subseteq Messages /\ whole' \subseteq sent' /\ torn' \in BOOLEAN
    BY <1>1, <1>2 DEF Ranges
  <2>3. sending' # None => sending' \in sent' /\ sending' \notin whole'
    BY <1>1, <1>2
  <2>4. sending' = None => ~ torn'
    BY <1>1
  <2>5. /\ buf' \in Seq(Piece) /\ Len(buf') <= Capacity /\ Lacking(buf')
        /\ delivered' \subseteq Messages
        /\ pll_hw_locked' \in BOOLEAN /\ gps_signal_ok' \in BOOLEAN
        /\ fix' \in {Unknown, 0, 3} /\ told' \in {None, "locked", "unlocked"}
        /\ result' \in {None, "ok"} /\ reads' \in 0..Reads
        /\ UNCHANGED <<locked, signal, reader, status>>
    BY <1>1, <1>2, ReceivedTyped
  <2>6. Lacking(buf)' <=> Lacking(buf')
    BY DEF Lacking
  <2> QED
    BY <2>1, <2>2, <2>3, <2>4, <2>5, <2>6 DEF Ranges
<1>4. TornLack' /\ WholeOnly'
  <2>1. Consumed(Present(m))
    BY <1>1, <1>2, AppendedIs DEF Receive
  <2>2. \A u \in Messages \ whole' : HadLack(u, Present(m))
    BY <1>1, DataLack
  <2> QED
    BY <1>1, <1>2, <1>3, <2>1, <2>2, ReceivedWhole
<1>5. Unbroken'
  BY <1>1, <1>3, DataUnbroken
<1>6. SampleTrue'
  BY <1>1, ReceivedSample
<1> QED
  BY <1>3, <1>4, <1>5, <1>6

LEMMA DataLostStep ==
  ASSUME IInv, NEW m \in Messages, DataLost(m)
  PROVE  IInv'
<1> USE DEF IInv
<1> DEFINE q == Present(m).part
<1>1. /\ Reading /\ NextPart(m) /\ Advance(m) /\ torn' = (sending' # None)
      /\ UNCHANGED <<locked, signal, whole, reader, reads, buf, delivered,
                     pll_hw_locked, gps_signal_ok, fix, result, status, told>>
  BY DEF DataLost, host, device, sample
<1>2. /\ q \in 1..Parts[m] /\ q \in Nat
      /\ sending = None => q = 1 /\ m \notin sent /\ m \notin whole /\ ~ torn
      /\ sending # None => sending = m /\ q = part /\ q > 1 /\ m \in sent /\ m \notin whole
      /\ q = Parts[m] => sending' = None /\ part' = 0
      /\ q # Parts[m] => sending' = m /\ part' = q + 1 /\ part' \in 2..Parts[m]
      /\ sent' = sent \cup {m} /\ m # None
  BY <1>1, AdvanceIs
<1> HIDE DEF q
<1>3. Ranges'
  <2>1. sending' \in Messages \cup {None} /\ part' \in Nat
        /\ (sending' # None => part' \in 2..Parts[sending'])
    BY <1>2
  <2>2. sent' \subseteq Messages /\ whole' \subseteq sent' /\ torn' \in BOOLEAN
    BY <1>1, <1>2 DEF Ranges
  <2>3. sending' # None => sending' \in sent' /\ sending' \notin whole'
    BY <1>1, <1>2
  <2>4. sending' = None => ~ torn'
    BY <1>1
  <2>5. buf' \in Seq(Piece) /\ Len(buf') <= Capacity /\ Lacking(buf)'
    BY <1>1 DEF Ranges, Lacking
  <2>6. status' \in [pll_locked : BOOLEAN, gps_lock : BOOLEAN]
    BY <1>1 DEF Ranges
  <2>7. /\ locked' \in BOOLEAN /\ signal' \in BOOLEAN
        /\ reader' \in Readers /\ reads' \in 0..Reads
        /\ delivered' \subseteq Messages
        /\ pll_hw_locked' \in BOOLEAN /\ gps_signal_ok' \in BOOLEAN
        /\ fix' \in {Unknown, 0, 3} /\ told' \in {None, "locked", "unlocked"}
        /\ result' \in {None, "status", "ok", "timeout"}
    BY <1>1 DEF Ranges
  <2> QED
    BY <2>1, <2>2, <2>3, <2>4, <2>5, <2>6, <2>7 DEF Ranges
<1>4. TornLack'
  <2> SUFFICES ASSUME NEW u \in Messages \ whole
               PROVE  Lack(u)'
    BY <1>1 DEF TornLack
  <2>1. Lack(u)
    BY DEF TornLack
  <2>2. \A k : InBuf(u, k)' <=> InBuf(u, k)
    BY <1>1 DEF InBuf
  <2>3. CASE u # m
    <3>1. u # sending /\ u # sending'
      BY <1>2, <2>3, Pieces
    <3> QED
      BY <1>2, <2>1, <2>2, <2>3, <3>1 DEF Lack
  <2>4. CASE u = m
    <3>1. \A k \in Nat : k >= q => ~ InBuf(m, k)
      BY <1>2, <2>1, <2>4, Pieces DEF Lack
    <3>2. ~ InBuf(m, q)
      BY <1>2, <3>1
    <3>3. CASE q = Parts[m]
      BY <1>2, <2>2, <2>4, <3>2, <3>3 DEF Lack
    <3>4. CASE q # Parts[m]
      <4>1. sending' = m /\ part' = q + 1 /\ m \in sent'
        BY <1>2, <3>4
      <4>2. \A k \in Nat : k >= part' => ~ InBuf(m, k)
        BY <1>2, <3>1, <4>1
      <4>3. q \in 1..(part' - 1)
        BY <1>2, <4>1
      <4> QED
        BY <2>2, <2>4, <3>2, <4>1, <4>2, <4>3 DEF Lack
    <3> QED
      BY <3>3, <3>4
  <2> QED
    BY <2>3, <2>4
<1>5. WholeOnly'
  BY <1>1 DEF WholeOnly
<1>6. Unbroken'
  <2>1. sending' # None => torn'
    BY <1>1
  <2> QED
    BY <1>1, <2>1 DEF Unbroken, RunAt
<1>7. SampleTrue'
  BY <1>1 DEF SampleTrue
<1> QED
  BY <1>3, <1>4, <1>5, <1>6, <1>7

LEMMA KeepaliveStep ==
  ASSUME IInv, Keepalive
  PROVE  IInv'
<1> USE DEF IInv
<1>1. /\ Reading /\ Receive(Padding)
      /\ UNCHANGED <<sending, part, sent, whole, torn>>
  BY DEF Keepalive, source
<1>2. Padding \in Piece /\ Padding.msg = None
  BY DEF Padding, Piece
<1>3. /\ buf' \in Seq(Piece) /\ Len(buf') <= Capacity /\ Lacking(buf')
      /\ delivered' \subseteq Messages
      /\ pll_hw_locked' \in BOOLEAN /\ gps_signal_ok' \in BOOLEAN
      /\ fix' \in {Unknown, 0, 3} /\ told' \in {None, "locked", "unlocked"}
      /\ result' \in {None, "ok"} /\ reads' \in 0..Reads
      /\ UNCHANGED <<locked, signal, reader, status>>
  BY <1>1, <1>2, ReceivedTyped
<1>4. Ranges'
  <2>1. Lacking(buf)' <=> Lacking(buf')
    BY DEF Lacking
  <2> QED
    BY <1>1, <1>3, <2>1 DEF Ranges
<1>5. /\ Consumed(Padding)
      /\ Skips(Padding) => UNCHANGED <<buf, delivered>>
  BY <1>1, <1>2, AppendedIs DEF Receive
<1>6. ASSUME NEW u \in Messages \ whole'
      PROVE  HadLack(u, Padding)
  <2>1. Lack(u)
    BY <1>1 DEF TornLack
  <2>2. ASSUME NEW k
        PROVE  Had([msg |-> u, part |-> k], Padding) <=> InBuf(u, k)
    <3>1. u # None
      BY Pieces
    <3>2. [msg |-> u, part |-> k] # Padding
      BY <1>2, <3>1
    <3> QED
      BY <3>2 DEF Had, InBuf
  <2> QED
    BY <1>1, <2>1, <2>2 DEF Lack, HadLack
<1>7. TornLack' /\ WholeOnly'
  BY <1>1, <1>2, <1>4, <1>5, <1>6, ReceivedWhole
<1>8. Unbroken'
  <2>1. CASE reader = "gps-info"
    BY <1>3, <2>1 DEF Unbroken
  <2>2. CASE reader # "gps-info"
    <3>1. UNCHANGED <<buf, delivered>>
      BY <1>5, <2>2 DEF Skips
    <3> QED
      BY <1>1, <1>3, <3>1 DEF Unbroken, RunAt
  <2> QED
    BY <2>1, <2>2
<1>9. SampleTrue'
  BY <1>1, ReceivedSample
<1> QED
  BY <1>4, <1>7, <1>8, <1>9

\* The steps that change neither the stream nor the buffer.
LEMMA QuietStep ==
  ASSUME IInv, UNCHANGED <<source, reader, buf, delivered, fix>>
  PROVE  TornLack' /\ WholeOnly' /\ Unbroken'
<1>1. UNCHANGED <<sending, part, sent, whole, torn>>
  BY DEF source
<1>2. \A m, q : InBuf(m, q)' <=> InBuf(m, q)
  BY DEF InBuf
<1>3. TornLack'
  BY <1>1, <1>2 DEF IInv, TornLack, Lack
<1>4. WholeOnly'
  BY <1>1 DEF IInv, WholeOnly
<1>5. Unbroken'
  BY <1>1 DEF IInv, Unbroken, RunAt
<1> QED
  BY <1>3, <1>4, <1>5

LEMMA TimeoutStep ==
  ASSUME IInv, Timeout
  PROVE  IInv'
<1>1. UNCHANGED <<locked, signal, sending, part, sent, whole, torn, reader, buf,
                  delivered, pll_hw_locked, gps_signal_ok, fix, result, status, told>>
  BY DEF Timeout, device, source, host, sample
<1>2. reads' \in 0..Reads
  <2>1. reads \in 0..Reads /\ reads > 0 /\ Reads \in Nat
    BY MiniAssumption DEF Timeout, Reading, IInv, Ranges
  <2>2. reads' = reads - 1
    BY DEF Timeout, Spend
  <2> QED
    BY <2>1, <2>2
<1>3. Ranges'
  BY <1>1, <1>2 DEF IInv, Ranges, Lacking
<1>4. TornLack' /\ WholeOnly' /\ Unbroken'
  BY <1>1, QuietStep DEF source
<1>5. SampleTrue'
  BY <1>1 DEF IInv, SampleTrue
<1> QED
  BY <1>3, <1>4, <1>5 DEF IInv

LEMMA FinishStep ==
  ASSUME IInv, Finish
  PROVE  IInv'
<1>1. UNCHANGED <<locked, signal, sending, part, sent, whole, torn, reader, reads, buf,
                  delivered, pll_hw_locked, gps_signal_ok, fix, told>>
  BY DEF Finish, device, source, sample
<1>2. pll_hw_locked \in BOOLEAN /\ (gps_signal_ok \/ fix >= 2) \in BOOLEAN
  BY DEF IInv, Ranges
<1>3. /\ result' \in {None, "status", "ok", "timeout"}
      /\ status' \in [pll_locked : BOOLEAN, gps_lock : BOOLEAN]
  <2>1. CASE reader = "status"
    <3>1. result' = "status"
          /\ status' = [pll_locked |-> pll_hw_locked,
                        gps_lock |-> gps_signal_ok \/ fix >= 2]
      BY <2>1 DEF Finish
    <3> DEFINE lock == gps_signal_ok \/ fix >= 2
    <3>2. lock \in BOOLEAN
      BY <1>2
    <3> HIDE DEF lock
    <3>3. [pll_locked |-> pll_hw_locked, gps_lock |-> lock]
            \in [pll_locked : BOOLEAN, gps_lock : BOOLEAN]
      BY <1>2, <3>2
    <3> QED
      BY <3>1, <3>3 DEF lock
  <2>2. CASE reader # "status"
    BY <2>2 DEF Finish, IInv, Ranges
  <2> QED
    BY <2>1, <2>2
<1>4. Ranges'
  BY <1>1, <1>3 DEF IInv, Ranges, Lacking
<1>5. TornLack' /\ WholeOnly' /\ Unbroken'
  BY <1>1, QuietStep DEF source
<1>6. result' = "status" =>
        /\ reader = "status" /\ status'.pll_locked = pll_hw_locked
        /\ status'.gps_lock = (gps_signal_ok \/ fix >= 2)
  BY DEF Finish
<1>7. SampleTrue'
  BY <1>1, <1>6 DEF IInv, SampleTrue
<1> QED
  BY <1>4, <1>5, <1>7 DEF IInv

LEMMA DeviceStep ==
  ASSUME IInv, DeviceChanges
  PROVE  IInv'
<1>1. UNCHANGED <<sending, part, sent, whole, torn, reader, reads, buf, delivered,
                  pll_hw_locked, gps_signal_ok, fix, result, status, told>>
  BY DEF DeviceChanges, source, host, sample
<1>2. Ranges'
  BY <1>1 DEF DeviceChanges, IInv, Ranges, Lacking
<1>3. TornLack' /\ WholeOnly' /\ Unbroken'
  BY <1>1, QuietStep DEF source
<1>4. SampleTrue'
  BY <1>1 DEF IInv, SampleTrue
<1> QED
  BY <1>2, <1>3, <1>4 DEF IInv

\* A message whose begin the last call read is torn for this one.
LEMMA AgainStep ==
  ASSUME IInv, Again
  PROVE  IInv'
<1>1. UNCHANGED <<locked, signal, sending, part, reader, status>>
  BY DEF Again, device
<1>2. /\ result' = None /\ reads' = Reads /\ buf' = <<>> /\ delivered' = {}
      /\ whole' = {} /\ torn' = (sending # None)
      /\ sent' = IF sending = None THEN {} ELSE {sending}
      /\ pll_hw_locked' = TRUE /\ gps_signal_ok' = FALSE /\ fix' = Unknown
      /\ told' = None
  BY DEF Again
<1>3. DOMAIN buf' = {} /\ Len(buf') = 0 /\ buf' \in Seq(Piece)
  BY <1>2
<1>4. \A m, q : ~ InBuf(m, q)'
  BY <1>3 DEF InBuf
<1>5. Ranges'
  <2>1. Len(buf') <= Capacity /\ reads' \in 0..Reads
    BY <1>2, <1>3, MiniAssumption
  <2> QED
    BY <1>1, <1>2, <1>3, <2>1 DEF IInv, Ranges, Lacking
<1>6. TornLack'
  <2> SUFFICES ASSUME NEW m \in Messages
               PROVE  Lack(m)'
    BY DEF TornLack
  <2>1. m # None
    BY Pieces
  <2>2. m # sending => m \notin sent'
    BY <1>2
  <2>3. m = sending' /\ torn' => \E q \in 1..(part' - 1) : ~ InBuf(m, q)'
    <3> SUFFICES ASSUME m = sending
                 PROVE  1 \in 1..(part - 1)
      BY <1>1, <1>4
    <3>1. part \in 2..Parts[m] /\ Parts[m] \in Nat
      BY <2>1, Pieces DEF IInv, Ranges
    <3> QED
      BY <3>1
  <2> QED
    BY <1>1, <1>4, <2>2, <2>3 DEF Lack
<1>7. WholeOnly'
  BY <1>2 DEF WholeOnly, Unknown
<1>8. Unbroken'
  BY <1>1, <1>2 DEF Unbroken
<1>9. SampleTrue'
  <2>1. result' # "status"
    BY <1>2 DEF None
  <2> QED
    BY <1>2, <2>1 DEF SampleTrue
<1> QED
  BY <1>5, <1>6, <1>7, <1>8, <1>9 DEF IInv

LEMMA NextIInv ==
  ASSUME IInv, [Next]_vars
  PROVE  IInv'
<1>1. ASSUME NEW m \in Messages, DataFrame(m)
      PROVE  IInv'
  BY <1>1, DataFrameStep
<1>2. ASSUME NEW m \in Messages, DataLost(m)
      PROVE  IInv'
  BY <1>2, DataLostStep
<1>3. CASE Keepalive
  BY <1>3, KeepaliveStep
<1>4. CASE Timeout
  BY <1>4, TimeoutStep
<1>5. CASE Finish
  BY <1>5, FinishStep
<1>6. CASE DeviceChanges
  BY <1>6, DeviceStep
<1>7. CASE Again
  BY <1>7, AgainStep
<1>8. CASE UNCHANGED vars
  <2>1. UNCHANGED <<locked, signal, sending, part, sent, whole, torn, reader, reads, buf,
                    delivered, pll_hw_locked, gps_signal_ok, fix, result, status, told>>
    BY <1>8 DEF vars, device, source, host, sample
  <2>2. Ranges'
    BY <2>1 DEF IInv, Ranges, Lacking
  <2>3. TornLack' /\ WholeOnly' /\ Unbroken'
    BY <2>1, QuietStep DEF source
  <2>4. SampleTrue'
    BY <2>1 DEF IInv, SampleTrue
  <2> QED
    BY <2>2, <2>3, <2>4 DEF IInv
<1> QED
  BY <1>1, <1>2, <1>3, <1>4, <1>5, <1>6, <1>7, <1>8 DEF Next

LEMMA Inductive == Spec => []IInv
<1>1. Init => IInv
  BY InitIInv
<1>2. IInv /\ [Next]_vars => IInv'
  BY NextIInv
<1> QED
  BY <1>1, <1>2, PTL DEF Spec

-----------------------------------------------------------------------------

\* Whatever the messages and the frames in each, the buffer of
\* mini_consume_ubx never holds more than it has room for, and every variable
\* of the three loops keeps its range (model_mini.c:286-384).
THEOREM TypeCorrect == Spec => []TypeOK
<1>1. ASSUME buf \in Seq(Piece)
      PROVE  buf \in Seq([msg : Messages \cup {None}, part : Nat])
  <2> DEFINE Frame == [msg : Messages \cup {None}, part : Nat]
  <2>1. Piece \subseteq Frame
    BY DEF Piece
  <2>2. Len(buf) \in Nat /\ \A i \in 1..Len(buf) : buf[i] \in Piece
    BY <1>1
  <2> HIDE DEF Frame
  <2>3. buf = [i \in 1..Len(buf) |-> buf[i]]
    BY <1>1
  <2>4. buf \in [1..Len(buf) -> Frame]
    BY <2>1, <2>2, <2>3
  <2>5. buf \in Seq(Frame)
    BY <2>2, <2>4
  <2> QED
    BY <2>5 DEF Frame
<1>2. IInv => TypeOK
  BY <1>1 DEF IInv, Ranges, TypeOK
<1> QED
  BY <1>2, Inductive, PTL

\* mini_get_status reports a GPS lock only if the last frame read had the
\* signal bit, or if every frame of a solution with a fix was read in this
\* call (model_mini.c:157-166, 345-384), whatever was lost, torn or padded.
THEOREM FixBehindLock == Spec => []GpsLockSeen
<1>1. IInv => GpsLockSeen
  BY DEF IInv, SampleTrue, WholeOnly, GpsLockSeen
<1> QED
  BY <1>1, Inductive, PTL

\* The PLL lock of --status is what the status bits of the last frame said,
\* with data in it or without (model_mini.c:361-366).
THEOREM LastFrameTold == Spec => []PllLockSeen
<1>1. IInv => PllLockSeen
  <2> SUFFICES ASSUME IInv, result = "status", told # None
               PROVE  status.pll_locked <=> told = "locked"
    BY DEF PllLockSeen
  <2>1. reader = "status" /\ status.pll_locked = pll_hw_locked
        /\ (pll_hw_locked <=> told = "locked")
    BY DEF IInv, SampleTrue
  <2> QED
    BY <2>1
<1> QED
  BY <1>1, Inductive, PTL

\* Nothing passes the scan of ubx_next but a message of which this call read
\* every frame: the rest of a torn one never completes with what comes after
\* it, and none of an earlier call is delivered in this one.
THEOREM ReadBeforeDelivered == Spec => [](delivered \subseteq whole)
<1>1. IInv => delivered \subseteq whole
  BY DEF IInv, WholeOnly
<1> QED
  BY <1>1, Inductive, PTL

\* Where every message fits the buffer and the keepalive frames are skipped, as
\* mini_consume_ubx does and mini_gps_info does not, a message read whole is
\* delivered or waits whole in the buffer (model_mini.c:286-343).
THEOREM NothingReadIsLost ==
  ASSUME \A m \in Messages : Parts[m] <= Capacity
  PROVE  Spec => [](reader # "gps-info" => MessagesSurvive)
<1>1. ASSUME IInv, reader # "gps-info", NEW m \in whole, m \notin delivered
      PROVE  Held(m)
  <2>1. PICK a : RunAt(buf, a, m, Parts[m])
    BY <1>1 DEF IInv, Unbroken
  <2>2. m \in Messages /\ Parts[m] \in Nat /\ Len(buf) \in Nat /\ DOMAIN buf = 1..Len(buf)
    BY <1>1, Pieces DEF IInv, Ranges
  <2>3. a \in 1..Len(buf) /\ a + Parts[m] <= Len(buf) + 1
    BY <2>1 DEF RunAt
  <2>4. \A k \in 1..Parts[m] : a + k - 1 \in DOMAIN buf
    BY <2>2, <2>3
  <2> QED
    BY <2>1, <2>4 DEF RunAt, Held
<1>2. IInv => (reader # "gps-info" => MessagesSurvive)
  BY <1>1 DEF MessagesSurvive
<1> QED
  BY <1>2, Inductive, PTL
=============================================================================
