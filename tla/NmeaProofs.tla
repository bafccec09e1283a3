----------------------------- MODULE NmeaProofs -----------------------------
(***************************************************************************)
(* The NMEA accumulator for any talkers in any order, any skies, capacity  *)
(* and number of cycles: whatever sentences are lost, no satellite that    *)
(* stays in its sentence is listed twice; and while none was lost the view *)
(* holds lists of the present or the last cycle, whole or up to where the  *)
(* buffer was full.                                                        *)
(***************************************************************************)
EXTENDS Nmea, SequenceTheorems, WellFoundedInduction, TLAPS

-----------------------------------------------------------------------------
(* Recursive functions.                                                    *)

\* A set of naturals has a least element.
LEMMA MinExists ==
  ASSUME NEW S \in SUBSET Nat, S # {}
  PROVE  \E m \in S : \A n \in S : m <= n
<1> DEFINE R == {ss \in Nat \X Nat : ss[1] < ss[2]}
<1>1. IsWellFoundedOn(R, Nat)
  BY NatLessThanWellFounded, Zenon DEF OpToRel
<1>2. PICK m \in S : \A n \in S : ~ (<<n, m>> \in R)
  <2> HIDE DEF R
  <2> QED
    BY <1>1, WFMin, Zenon
<1>3. \A n \in S : ~ (n < m)
  BY <1>2
<1> QED
  BY <1>3

\* A set with 0 and the successor of each of its members holds every number up
\* to n: induction, in the form the provers can use.
LEMMA UpTo ==
  ASSUME NEW n \in Nat, NEW T, 0 \in T, \A i \in 1..n : i - 1 \in T => i \in T
  PROVE  \A i \in 0..n : i \in T
<1> DEFINE Bad == {i \in 0..n : i \notin T}
<1> SUFFICES ASSUME Bad # {}
             PROVE  FALSE
  OBVIOUS
<1>0. Bad \in SUBSET Nat
  OBVIOUS
<1>1. PICK m \in Bad : \A i \in Bad : m <= i
  <2> HIDE DEF Bad
  <2> QED
    BY <1>0, MinExists
<1>2. m \in 0..n /\ m \notin T /\ m # 0
  BY <1>1
<1>3. m - 1 \notin Bad
  BY <1>1, <1>2
<1> QED
  BY <1>2, <1>3

\* A function that is defined by its value at 0 and one step further exists.
RunsFrom(f, n, S, a, G) ==
  /\ f \in [0..n -> S] /\ f[0] = a
  /\ \A i \in 1..n : f[i] = G[<<i, f[i - 1]>>]

LEMMA Recursion ==
  ASSUME NEW n \in Nat, NEW S, NEW a \in S, NEW G \in [(1..n) \X S -> S]
  PROVE  \E f : RunsFrom(f, n, S, a, G)
<1> DEFINE Upto(m, f) == /\ f \in [0..n -> S] /\ f[0] = a
                         /\ \A i \in 1..m : f[i] = G[<<i, f[i - 1]>>]
           T == {m \in 0..n : \E f : Upto(m, f)}
<1>1. 0 \in T
  <2> DEFINE h == [i \in 0..n |-> a]
  <2>1. Upto(0, h)
    OBVIOUS
  <2> HIDE DEF h, Upto
  <2> QED
    BY <2>1
<1>2. ASSUME NEW m \in 1..n, m - 1 \in T
      PROVE  m \in T
  <2>1. PICK f : Upto(m - 1, f)
    BY <1>2
  <2> DEFINE h == [f EXCEPT ![m] = G[<<m, f[m - 1]>>]]
  <2>3. m \in 0..n /\ m - 1 \in 0..n /\ m \in 1..n /\ m # 0
    BY <1>2
  <2>4. f \in [0..n -> S] /\ f[0] = a /\ \A i \in 1..(m - 1) : f[i] = G[<<i, f[i - 1]>>]
    BY <2>1
  <2>5. G[<<m, f[m - 1]>>] \in S
    BY <2>3, <2>4
  <2>6. h \in [0..n -> S] /\ h[0] = a /\ h[m] = G[<<m, f[m - 1]>>]
    BY <2>3, <2>4, <2>5
  <2>7. \A i \in 0..n : i # m => h[i] = f[i]
    BY <2>4
  <2> HIDE DEF h
  <2>8. ASSUME NEW i \in 1..m
        PROVE  h[i] = G[<<i, h[i - 1]>>]
    <3>1. i - 1 \in 0..n /\ i - 1 # m /\ (i = m \/ (i \in 1..(m - 1) /\ i \in 0..n /\ i # m))
      BY <2>3
    <3>2. h[i - 1] = f[i - 1]
      BY <2>7, <3>1
    <3> QED
      BY <2>4, <2>6, <2>7, <3>1, <3>2
  <2>2. Upto(m, h)
    BY <2>6, <2>8
  <2> HIDE DEF h, Upto
  <2> QED
    BY <2>2
<1>3. n \in T
  <2> HIDE DEF T
  <2> QED
    BY <1>1, <1>2, UpTo
<1> QED
  BY <1>3 DEF RunsFrom

-----------------------------------------------------------------------------
(* purge_gnss keeps the entries of the other constellations in their order. *)

LEMMA PurgedKeeps ==
  ASSUME work \in Seq(Entry), NEW g
  PROVE  /\ Purged(g) \in Seq(Entry) /\ Len(Purged(g)) <= Len(work)
         /\ \E h \in [1..Len(Purged(g)) -> 1..Len(work)] :
              \A k \in 1..Len(Purged(g)) :
                 /\ Purged(g)[k] = work[h[k]] /\ work[h[k]].gnss # g
                 /\ \A j \in 1..(k - 1) : h[j] < h[k]
         /\ \A i \in 1..Len(work) : work[i].gnss # g =>
              \E k \in 1..Len(Purged(g)) : Purged(g)[k] = work[i]
<1> DEFINE n == Len(work)
           Step(i, q) == IF work[i].gnss # g THEN Append(q, work[i]) ELSE q
           Body(r, F) == IF r = 0 THEN <<>>
                         ELSE IF work[r].gnss # g THEN Append(F[r - 1], work[r])
                                                  ELSE F[r - 1]
           G == [c \in (1..n) \X Seq(Entry) |-> Step(c[1], c[2])]
           Out == CHOOSE out : out = [r \in 0..Len(work) |-> Body(r, out)]
<1>1. n \in Nat /\ \A i \in 1..n : work[i] \in Entry
  OBVIOUS
<1>2. \A i \in 1..n : \A q \in Seq(Entry) : Step(i, q) \in Seq(Entry)
  BY <1>1
<1>3. PICK f : RunsFrom(f, n, Seq(Entry), <<>>, G)
  <2>1. G \in [(1..n) \X Seq(Entry) -> Seq(Entry)]
    BY <1>2
  <2>2. <<>> \in Seq(Entry)
    OBVIOUS
  <2> HIDE DEF G, n
  <2> QED
    BY <1>1, <2>1, <2>2, Recursion
<1>4. ASSUME NEW r \in 0..n
      PROVE  f[r] = Body(r, f)
  <2>1. CASE r = 0
    BY <1>3, <2>1 DEF RunsFrom
  <2>2. CASE r \in 1..n
    <3>1. f[r - 1] \in Seq(Entry)
      BY <1>1, <1>3, <2>2 DEF RunsFrom
    <3>2. G[<<r, f[r - 1]>>] = Step(r, f[r - 1])
      BY <2>2, <3>1
    <3>3. f[r] = G[<<r, f[r - 1]>>]
      BY <1>3, <2>2 DEF RunsFrom
    <3> QED
      BY <2>2, <3>2, <3>3
  <2> QED
    BY <1>1, <2>1, <2>2
<1>5. f = [r \in 0..n |-> Body(r, f)]
  <2>1. f \in [0..n -> Seq(Entry)]
    BY <1>3 DEF RunsFrom
  <2> HIDE DEF Body, n
  <2> QED
    BY <1>4, <2>1
<1>6. Out = [r \in 0..n |-> Body(r, Out)]
  <2> HIDE DEF Body
  <2> QED
    BY <1>5
<1>7. Purged(g) = Out[n]
  BY DEF Purged
<1>8. Out[0] = <<>> /\ \A i \in 1..n : Out[i] = Step(i, Out[i - 1])
  <2>1. \A r \in 0..n : Out[r] = Body(r, Out)
    <3> HIDE DEF Body, Out
    <3> QED
      BY <1>6
  <2> HIDE DEF Out
  <2> QED
    BY <1>1, <2>1
<1> HIDE DEF Out
<1> DEFINE Picks(q, h) ==
             \A k \in 1..Len(q) : /\ q[k] = work[h[k]] /\ work[h[k]].gnss # g
                                  /\ \A j \in 1..(k - 1) : h[j] < h[k]
           Covers(i, q) == \A m \in 1..i : work[m].gnss # g =>
                              \E k \in 1..Len(q) : q[k] = work[m]
           Good(i) == /\ Out[i] \in Seq(Entry) /\ Len(Out[i]) <= i
                      /\ \E h \in [1..Len(Out[i]) -> 1..i] : Picks(Out[i], h)
                      /\ Covers(i, Out[i])
<1>9. Good(0)
  <2>1. Out[0] \in Seq(Entry) /\ Len(Out[0]) = 0
    BY <1>8
  <2> DEFINE h == [k \in 1..0 |-> 0]
  <2>2. h \in [1..Len(Out[0]) -> 1..0] /\ Picks(Out[0], h)
    BY <2>1
  <2>3. Covers(0, Out[0])
    OBVIOUS
  <2> HIDE DEF h, Picks
  <2> QED
    BY <2>1, <2>2, <2>3
<1>10. ASSUME NEW i \in 1..n, Good(i - 1)
       PROVE  Good(i)
  <2> DEFINE p == Out[i - 1]
             q == Out[i]
  <2>1. p \in Seq(Entry) /\ Len(p) <= i - 1 /\ Len(p) \in Nat /\ Covers(i - 1, p)
    <3>1. p \in Seq(Entry) /\ Len(p) <= i - 1 /\ Covers(i - 1, p)
      <4> HIDE DEF Picks, Covers
      <4> QED
        BY <1>10, Zenon
    <3> HIDE DEF Covers, p
    <3> QED
      BY <3>1
  <2>2. PICK h \in [1..Len(p) -> 1..(i - 1)] : Picks(p, h)
    <3> HIDE DEF Picks, Covers
    <3> QED
      BY <1>10, Zenon
  <2>3. CASE work[i].gnss = g
    <3>1. q = p
      BY <1>8, <2>3
    <3>2. h \in [1..Len(q) -> 1..i] /\ Picks(q, h)
      <4>1. h \in [1..Len(p) -> 1..i]
        BY <2>1, <2>2
      <4> HIDE DEF p, q, Picks
      <4> QED
        BY <2>2, <3>1, <4>1
    <3>3. Covers(i, q)
      <4> HIDE DEF p, q
      <4> QED
        BY <2>1, <2>3, <3>1
    <3> HIDE DEF Picks, Covers, q
    <3> QED
      BY <2>1, <3>1, <3>2, <3>3 DEF q
  <2>4. CASE work[i].gnss # g
    <3>1. q = Append(p, work[i])
      BY <1>8, <2>4
    <3>2. /\ q \in Seq(Entry) /\ Len(q) = Len(p) + 1
          /\ q[Len(p) + 1] = work[i] /\ \A k \in 1..Len(p) : q[k] = p[k]
      BY <1>1, <2>1, <3>1
    <3> DEFINE hh == [k \in 1..(Len(p) + 1) |-> IF k <= Len(p) THEN h[k] ELSE i]
    <3>3. hh \in [1..Len(q) -> 1..i]
      BY <2>1, <2>2, <3>2
    <3>4. Picks(q, hh)
      <4> HIDE DEF p, q
      <4> SUFFICES ASSUME NEW k \in 1..Len(q)
                   PROVE  /\ q[k] = work[hh[k]] /\ work[hh[k]].gnss # g
                          /\ \A j \in 1..(k - 1) : hh[j] < hh[k]
        OBVIOUS
      <4>1. CASE k <= Len(p)
        BY <2>1, <2>2, <3>2, <4>1
      <4>2. CASE k = Len(p) + 1
        <5>1. hh[k] = i /\ q[k] = work[i]
          BY <2>1, <3>2, <4>2
        <5>2. ASSUME NEW j \in 1..(k - 1)
              PROVE  hh[j] < hh[k]
          <6>1. j \in 1..Len(p) /\ hh[j] = h[j] /\ h[j] \in 1..(i - 1)
            <7>1. j \in 1..Len(p) /\ j <= Len(p)
              BY <2>1, <4>2
            <7> QED
              BY <2>2, <7>1
          <6> QED
            BY <5>1, <6>1
        <5> HIDE DEF hh
        <5> QED
          BY <2>4, <5>1, <5>2
      <4> HIDE DEF hh
      <4> QED
        BY <2>1, <3>2, <4>1, <4>2
    <3>5. Covers(i, q)
      <4> HIDE DEF p, q
      <4> SUFFICES ASSUME NEW m \in 1..i, work[m].gnss # g
                   PROVE  \E k \in 1..Len(q) : q[k] = work[m]
        OBVIOUS
      <4>1. CASE m = i
        BY <2>1, <3>2, <4>1
      <4>2. CASE m # i
        <5>1. PICK k \in 1..Len(p) : p[k] = work[m]
          BY <2>1, <4>2
        <5> QED
          BY <2>1, <3>2, <5>1
      <4> QED
        BY <4>1, <4>2
    <3> HIDE DEF Picks, Covers, q, hh
    <3> QED
      BY <2>1, <3>2, <3>3, <3>4, <3>5 DEF q
  <2> QED
    BY <2>3, <2>4
<1>11. Good(n)
  <2> DEFINE T == {i \in 0..n : Good(i)}
  <2> HIDE DEF Good
  <2>1. 0 \in T /\ \A i \in 1..n : i - 1 \in T => i \in T
    BY <1>1, <1>9, <1>10
  <2> HIDE DEF T
  <2>2. \A i \in 0..n : i \in T
    BY <1>1, <2>1, UpTo
  <2> QED
    BY <1>1, <2>2 DEF T
<1>12. PICK h \in [1..Len(Out[n]) -> 1..n] : Picks(Out[n], h)
  <2> HIDE DEF Picks, Covers
  <2> QED
    BY <1>11, Zenon
<1> QED
  BY <1>7, <1>11, <1>12

-----------------------------------------------------------------------------
(* The sentences of a cycle under the sky y.                               *)

TotalIn(y, t) == Len(y[t])
Gsv(y, t, n) == [type |-> "GSV", talker |-> t, num |-> n,
                 total |-> TotalIn(y, t), sats |-> y[t][n]]
GsvList(y, t) == [n \in 1..TotalIn(y, t) |-> Gsv(y, t, n)]
GsvLists(y) == [i \in DOMAIN TalkerOrder |-> GsvList(y, TalkerOrder[i])]
AllGsv(y) == { Gsv(y, t, n) : t \in Talkers, n \in Nat }

\* The sentence at p is one of a list, between its neighbours.
Placed(y, F, p, t, n) ==
  /\ n \in 1..TotalIn(y, t) /\ F[p] = Gsv(y, t, n)
  /\ n > 1 => p > 1 /\ F[p - 1] = Gsv(y, t, n - 1)
  /\ n < TotalIn(y, t) => p < Len(F) /\ F[p + 1] = Gsv(y, t, n + 1)

Listed(y, F, p) == \E t \in Talkers : \E n \in Nat : Placed(y, F, p, t, n)

\* The list of t is in F, up to its last sentence.
Ends(y, F, t) == \E p \in 1..Len(F) : F[p] = Gsv(y, t, TotalIn(y, t))

LEMMA Order ==
  /\ Len(TalkerOrder) \in Nat /\ DOMAIN TalkerOrder = 1..Len(TalkerOrder)
  /\ \A i \in 1..Len(TalkerOrder) : TalkerOrder[i] \in Talkers
  /\ \A t \in Talkers : \E i \in 1..Len(TalkerOrder) : TalkerOrder[i] = t
  /\ \A y \in Skies : \A t \in Talkers :
       /\ IsList(y[t]) /\ TotalIn(y, t) \in Nat \ {0}
       /\ DOMAIN y[t] = 1..TotalIn(y, t)
       /\ \A n \in DOMAIN y[t] : y[t][n] \in Seq(Nat)
<1>1. TalkerOrder \in Seq(Talkers)
  BY NmeaAssumption
<1>2. ASSUME NEW y \in Skies, NEW t \in Talkers
      PROVE  /\ IsList(y[t]) /\ TotalIn(y, t) \in Nat \ {0}
             /\ DOMAIN y[t] = 1..TotalIn(y, t)
             /\ \A n \in DOMAIN y[t] : y[t][n] \in Seq(Nat)
  <2>1. IsList(y[t])
    BY NmeaAssumption
  <2>2. y[t] \in Seq(Seq(Nat)) /\ Len(y[t]) > 0
    BY <2>1 DEF IsList
  <2> QED
    BY <2>1, <2>2 DEF TotalIn
<1>3. Len(TalkerOrder) \in Nat /\ DOMAIN TalkerOrder = 1..Len(TalkerOrder)
  BY <1>1
<1> QED
  BY <1>2, <1>3 DEF Talkers

LEMMA GsvListIs ==
  ASSUME NEW y \in Skies, NEW t \in Talkers
  PROVE  /\ GsvList(y, t) \in Seq(AllGsv(y)) /\ Len(GsvList(y, t)) = TotalIn(y, t)
         /\ \A n \in 1..TotalIn(y, t) : GsvList(y, t)[n] = Gsv(y, t, n)
<1>1. TotalIn(y, t) \in Nat
  BY Order
<1>2. \A n \in 1..TotalIn(y, t) : Gsv(y, t, n) \in AllGsv(y)
  BY <1>1 DEF AllGsv
<1> QED
  BY <1>1, <1>2 DEF GsvList

\* One more list at the end leaves the ones before it as they are.
LEMMA ListAppended ==
  ASSUME NEW y \in Skies, NEW t \in Talkers, NEW F \in Seq(AllGsv(y)),
         \A p \in 1..Len(F) : Listed(y, F, p)
  PROVE  LET H == F \o GsvList(y, t)
         IN  /\ H \in Seq(AllGsv(y))
             /\ \A p \in 1..Len(H) : Listed(y, H, p)
             /\ Ends(y, H, t)
             /\ \A u \in Talkers : Ends(y, F, u) => Ends(y, H, u)
<1> DEFINE L == GsvList(y, t)
           H == F \o L
           total == TotalIn(y, t)
<1>1. L \in Seq(AllGsv(y)) /\ Len(L) = total /\ \A n \in 1..total : L[n] = Gsv(y, t, n)
  BY GsvListIs
<1>2. Len(F) \in Nat /\ total \in Nat \ {0}
  BY Order
<1> HIDE DEF L, total
<1>3. /\ H \in Seq(AllGsv(y)) /\ Len(H) = Len(F) + total
      /\ \A p \in 1..Len(F) : H[p] = F[p]
      /\ \A n \in 1..total : H[Len(F) + n] = Gsv(y, t, n)
  BY <1>1, <1>2
<1> HIDE DEF H
<1>4. ASSUME NEW p \in 1..Len(F)
      PROVE  Listed(y, H, p)
  <2>1. PICK u \in Talkers, n \in Nat : Placed(y, F, p, u, n)
    BY DEF Listed
  <2>2. n > 1 => p - 1 \in 1..Len(F)
    BY <1>2, <2>1 DEF Placed
  <2>3. n < TotalIn(y, u) => p + 1 \in 1..Len(F)
    BY <1>2, <2>1 DEF Placed
  <2>4. n > 1 => p > 1 /\ H[p - 1] = Gsv(y, u, n - 1)
    BY <1>3, <2>1, <2>2 DEF Placed
  <2>5. n < TotalIn(y, u) => p < Len(H) /\ H[p + 1] = Gsv(y, u, n + 1)
    <3>1. p < Len(H)
      BY <1>2, <1>3
    <3> QED
      BY <1>3, <2>1, <2>3, <3>1 DEF Placed
  <2>6. Placed(y, H, p, u, n)
    BY <1>3, <2>1, <2>4, <2>5 DEF Placed
  <2> QED
    BY <2>6 DEF Listed
<1>5. ASSUME NEW n \in 1..total
      PROVE  Listed(y, H, Len(F) + n)
  <2>1. n > 1 => H[Len(F) + (n - 1)] = Gsv(y, t, n - 1)
    BY <1>2, <1>3
  <2>2. n < total => H[Len(F) + (n + 1)] = Gsv(y, t, n + 1)
    BY <1>2, <1>3
  <2>3. Placed(y, H, Len(F) + n, t, n)
    <3>1. Len(F) + (n - 1) = (Len(F) + n) - 1 /\ Len(F) + (n + 1) = (Len(F) + n) + 1
      BY <1>2
    <3> QED
      BY <1>2, <1>3, <2>1, <2>2, <3>1 DEF Placed, total
  <2> QED
    BY <1>2, <2>3 DEF Listed
<1>6. ASSUME NEW p \in 1..Len(H)
      PROVE  Listed(y, H, p)
  <2>1. CASE p \in 1..Len(F)
    BY <1>4, <2>1
  <2>2. CASE p > Len(F)
    <3>1. p - Len(F) \in 1..total /\ p = Len(F) + (p - Len(F))
      BY <1>2, <1>3, <2>2
    <3> QED
      BY <1>5, <3>1
  <2> QED
    BY <1>2, <1>3, <2>1, <2>2
<1>7. Ends(y, H, t)
  <2>1. Len(F) + total \in 1..Len(H) /\ H[Len(F) + total] = Gsv(y, t, total)
    BY <1>2, <1>3
  <2> QED
    BY <2>1 DEF Ends, total
<1>8. ASSUME NEW u \in Talkers, Ends(y, F, u)
      PROVE  Ends(y, H, u)
  <2>1. PICK p \in 1..Len(F) : F[p] = Gsv(y, u, TotalIn(y, u))
    BY <1>8 DEF Ends
  <2>2. p \in 1..Len(H) /\ H[p] = F[p]
    BY <1>2, <1>3
  <2> QED
    BY <2>1, <2>2 DEF Ends
<1> QED
  BY <1>3, <1>6, <1>7, <1>8 DEF H, L

LEMMA FlatIs ==
  ASSUME NEW y \in Skies
  PROVE  LET F == FlattenSeq(GsvLists(y))
         IN  /\ F \in Seq(AllGsv(y))
             /\ \A p \in 1..Len(F) : Listed(y, F, p)
             /\ \A t \in Talkers : Ends(y, F, t)
<1> DEFINE n == Len(TalkerOrder)
           Q == GsvLists(y)
           S == Seq(AllGsv(y))
           Body(i, F) == IF i = 1 THEN Q[i] ELSE F[i - 1] \o Q[i]
           Out == CHOOSE out : out = [i \in 1..Len(Q) |-> Body(i, out)]
           Good(i, F) == /\ F \in S /\ \A p \in 1..Len(F) : Listed(y, F, p)
                         /\ \A k \in 1..i : Ends(y, F, TalkerOrder[k])
<1>1. n \in Nat /\ Q \in Seq(S) /\ Len(Q) = n
      /\ \A i \in 1..n : TalkerOrder[i] \in Talkers /\ Q[i] = GsvList(y, TalkerOrder[i])
  <2>1. \A i \in 1..n : TalkerOrder[i] \in Talkers /\ GsvList(y, TalkerOrder[i]) \in S
    BY Order, GsvListIs
  <2>2. n \in Nat /\ DOMAIN TalkerOrder = 1..n
    BY Order
  <2> HIDE DEF S, n
  <2> QED
    BY <2>1, <2>2 DEF GsvLists
<1> HIDE DEF n, Q
<1>2. CASE n = 0
  <2>1. FlattenSeq(Q) = Q /\ Len(Q) = 0
    BY <1>1, <1>2 DEF FlattenSeq
  <2>2. Q \in Seq(AllGsv(y))
    BY <1>1, <2>1
  <2>3. Talkers = {}
    BY <1>2, Order DEF n
  <2> QED
    BY <2>1, <2>2, <2>3 DEF Q
<1>3. CASE n > 0
  <2> DEFINE G == [c \in (1..n) \X S |-> c[2] \o Q[c[1]]]
  <2>1. PICK f : RunsFrom(f, n, S, <<>>, G)
    <3>1. G \in [(1..n) \X S -> S]
      <4>1. \A i \in 1..n : \A q \in S : q \o Q[i] \in S
        BY <1>1
      <4> HIDE DEF S
      <4> QED
        BY <4>1
    <3>2. <<>> \in S
      OBVIOUS
    <3> HIDE DEF G, S
    <3> QED
      BY <1>1, <3>1, <3>2, Recursion
  <2>2. ASSUME NEW i \in 1..n
        PROVE  f[i] = Body(i, f)
    <3>1. f[i - 1] \in S /\ Q[i] \in S
      BY <1>1, <2>1 DEF RunsFrom
    <3>2. f[i] = f[i - 1] \o Q[i]
      <4>1. f[i] = G[<<i, f[i - 1]>>]
        BY <2>1 DEF RunsFrom
      <4> HIDE DEF S
      <4> QED
        BY <3>1, <4>1
    <3>3. i = 1 => f[i - 1] = <<>>
      BY <2>1 DEF RunsFrom
    <3>4. <<>> \o Q[i] = Q[i]
      BY <3>1
    <3> HIDE DEF S
    <3> QED
      BY <3>2, <3>3, <3>4
  <2> DEFINE h == [i \in 1..n |-> f[i]]
  <2>3. h = [i \in 1..Len(Q) |-> Body(i, h)]
    <3>1. \A i \in 1..n : h[i] = Body(i, h)
      <4> SUFFICES ASSUME NEW i \in 1..n
                   PROVE  h[i] = Body(i, h)
        OBVIOUS
      <4>1. h[i] = Body(i, f)
        BY <2>2
      <4>2. i # 1 => h[i - 1] = f[i - 1]
        BY <1>1
      <4> HIDE DEF h
      <4> QED
        BY <4>1, <4>2
    <3>2. h = [i \in 1..n |-> h[i]]
      OBVIOUS
    <3> HIDE DEF Body, h
    <3> QED
      BY <1>1, <3>1, <3>2
  <2>4. Out = [i \in 1..Len(Q) |-> Body(i, Out)]
    <3> HIDE DEF Body, h
    <3> QED
      BY <2>3
  <2>5. FlattenSeq(Q) = Out[n]
    BY <1>1, <1>3 DEF FlattenSeq
  <2> HIDE DEF Out
  <2>6. \A i \in 1..n : Out[i] = Body(i, Out)
    <3> HIDE DEF Body
    <3> QED
      BY <1>1, <2>4
  <2>7. Good(1, Out[1])
    <3> DEFINE F == <<>>
               t == TalkerOrder[1]
               L == GsvList(y, t)
    <3>1. F \in Seq(AllGsv(y)) /\ Len(F) = 0 /\ t \in Talkers
      BY <1>1, <1>3
    <3>2. Out[1] = L
      BY <1>1, <1>3, <2>6
    <3>3. F \o L = L
      BY <3>1, GsvListIs
    <3>4. /\ L \in Seq(AllGsv(y)) /\ \A p \in 1..Len(L) : Listed(y, L, p)
          /\ Ends(y, L, TalkerOrder[1])
      <4> HIDE DEF F, t
      <4>1. \A p \in 1..Len(F) : Listed(y, F, p)
        BY <3>1
      <4> DEFINE H == F \o GsvList(y, t)
      <4>2. /\ H \in Seq(AllGsv(y)) /\ \A p \in 1..Len(H) : Listed(y, H, p)
            /\ Ends(y, H, t)
        BY <3>1, <4>1, ListAppended
      <4>3. H = L
        BY <3>3
      <4> HIDE DEF H, L
      <4> QED
        BY <4>2, <4>3 DEF t
    <3> QED
      BY <3>2, <3>4
  <2>8. ASSUME NEW i \in 2..n, Good(i - 1, Out[i - 1])
        PROVE  Good(i, Out[i])
    <3> DEFINE F == Out[i - 1]
               t == TalkerOrder[i]
               H == F \o GsvList(y, t)
    <3>1. Out[i] = H /\ t \in Talkers
      <4>1. i \in 1..n /\ i # 1
        BY <1>1
      <4> QED
        BY <1>1, <2>6, <4>1
    <3>2. F \in Seq(AllGsv(y)) /\ \A p \in 1..Len(F) : Listed(y, F, p)
      BY <2>8
    <3>3. \A k \in 1..(i - 1) : Ends(y, F, TalkerOrder[k]) /\ TalkerOrder[k] \in Talkers
      BY <1>1, <2>8
    <3> HIDE DEF F
    <3>4. /\ H \in Seq(AllGsv(y)) /\ \A p \in 1..Len(H) : Listed(y, H, p)
          /\ Ends(y, H, t) /\ \A u \in Talkers : Ends(y, F, u) => Ends(y, H, u)
      <4> HIDE DEF t
      <4> QED
        BY <3>1, <3>2, ListAppended
    <3> HIDE DEF H
    <3>5. \A k \in 1..i : Ends(y, H, TalkerOrder[k])
      <4> SUFFICES ASSUME NEW k \in 1..i
                   PROVE  Ends(y, H, TalkerOrder[k])
        OBVIOUS
      <4>1. k = i \/ k \in 1..(i - 1)
        OBVIOUS
      <4> QED
        BY <3>3, <3>4, <4>1
    <3> QED
      BY <3>1, <3>4, <3>5
  <2>9. Good(n, Out[n])
    <3> DEFINE T == {i \in 0..n : i = 0 \/ Good(i, Out[i])}
    <3> HIDE DEF Good
    <3>1. 0 \in T /\ \A i \in 1..n : i - 1 \in T => i \in T
      BY <1>1, <2>7, <2>8
    <3> HIDE DEF T
    <3>2. \A i \in 0..n : i \in T
      BY <1>1, <3>1, UpTo
    <3> QED
      BY <1>1, <1>3, <3>2 DEF T
  <2>10. \A t \in Talkers : Ends(y, Out[n], t)
    BY <2>9, Order DEF n
  <2> QED
    BY <2>5, <2>9, <2>10 DEF Q
<1> QED
  BY <1>1, <1>2, <1>3

\* The whole cycle.
Cycle(y) ==
  <<[type |-> "RMC"], [type |-> "GGA"], [type |-> "GSA"]>> \o FlattenSeq(GsvLists(y))

LEMMA CycleIs ==
  ASSUME NEW y \in Skies
  PROVE  LET C == Cycle(y)
         IN  /\ Len(C) \in Nat /\ Len(C) >= 3
             /\ C[1] = [type |-> "RMC"] /\ C[2] = [type |-> "GGA"] /\ C[3] = [type |-> "GSA"]
             /\ \A p \in 4..Len(C) : Listed(y, C, p)
             /\ \A t \in Talkers : Ends(y, C, t)
<1> DEFINE F == FlattenSeq(GsvLists(y))
           Heads == {[type |-> "RMC"], [type |-> "GGA"], [type |-> "GSA"]}
           Three == <<[type |-> "RMC"], [type |-> "GGA"], [type |-> "GSA"]>>
           Member == Heads \cup AllGsv(y)
           C == Cycle(y)
<1>1. /\ F \in Seq(AllGsv(y)) /\ \A p \in 1..Len(F) : Listed(y, F, p)
      /\ \A t \in Talkers : Ends(y, F, t)
  BY FlatIs
<1>2. Three \in Seq(Member) /\ Len(Three) = 3
      /\ Three[1] = [type |-> "RMC"] /\ Three[2] = [type |-> "GGA"] /\ Three[3] = [type |-> "GSA"]
  OBVIOUS
<1>3. C = Three \o F
  BY DEF Cycle
<1> HIDE DEF F, Three, C, Heads
<1>4. F \in Seq(Member) /\ Len(F) \in Nat
  BY <1>1
<1> HIDE DEF Member
<1>5. /\ Len(C) = 3 + Len(F)
      /\ \A p \in 1..3 : C[p] = Three[p]
      /\ \A p \in 1..Len(F) : C[3 + p] = F[p]
  <2>1. /\ Len(C) = Len(Three) + Len(F)
        /\ \A p \in 1..(Len(Three) + Len(F)) :
             C[p] = IF p <= Len(Three) THEN Three[p] ELSE F[p - Len(Three)]
    BY <1>2, <1>3, <1>4, ConcatProperties
  <2> QED
    BY <1>2, <1>4, <2>1
<1>6. ASSUME NEW q \in 4..Len(C)
      PROVE  Listed(y, C, q)
  <2> DEFINE p == q - 3
  <2>1. p \in 1..Len(F) /\ q = 3 + p /\ p \in Nat
    BY <1>4, <1>5
  <2> HIDE DEF p
  <2>2. PICK t \in Talkers, n \in Nat : Placed(y, F, p, t, n)
    BY <1>1, <2>1 DEF Listed
  <2>3. C[q] = Gsv(y, t, n) /\ n \in 1..TotalIn(y, t)
    BY <1>5, <2>1, <2>2 DEF Placed
  <2>4. n > 1 => q > 1 /\ C[q - 1] = Gsv(y, t, n - 1)
    <3>1. ASSUME n > 1 PROVE p - 1 \in 1..Len(F) /\ q - 1 = 3 + (p - 1)
      BY <1>4, <2>1, <2>2, <3>1 DEF Placed
    <3> QED
      BY <1>5, <2>1, <2>2, <3>1 DEF Placed
  <2>5. n < TotalIn(y, t) => q < Len(C) /\ C[q + 1] = Gsv(y, t, n + 1)
    <3>1. ASSUME n < TotalIn(y, t) PROVE p + 1 \in 1..Len(F) /\ q + 1 = 3 + (p + 1)
      BY <1>4, <2>1, <2>2, <3>1 DEF Placed
    <3>2. ASSUME n < TotalIn(y, t) PROVE q < Len(C)
      BY <1>4, <1>5, <2>1, <3>1, <3>2
    <3> QED
      BY <1>5, <2>2, <3>1, <3>2 DEF Placed
  <2>6. Placed(y, C, q, t, n)
    BY <2>3, <2>4, <2>5 DEF Placed
  <2> QED
    BY <2>6 DEF Listed
<1>7. ASSUME NEW t \in Talkers
      PROVE  Ends(y, C, t)
  <2>1. PICK p \in 1..Len(F) : F[p] = Gsv(y, t, TotalIn(y, t))
    BY <1>1 DEF Ends
  <2>2. 3 + p \in 1..Len(C) /\ C[3 + p] = F[p]
    BY <1>4, <1>5
  <2> QED
    BY <2>1, <2>2 DEF Ends
<1> QED
  BY <1>2, <1>4, <1>5, <1>6, <1>7 DEF C

LEMMA SentencesAre == Sentences = Cycle(sky)
<1>1. \A t : GsvOf(t) = GsvList(sky, t)
  BY DEF GsvOf, GsvList, Gsv, TotalIn
<1>2. [i \in DOMAIN TalkerOrder |-> GsvOf(TalkerOrder[i])] = GsvLists(sky)
  BY <1>1 DEF GsvLists
<1> QED
  BY <1>2 DEF Sentences, Cycle

LEMMA SentencesArePrime == Sentences' = Cycle(sky')
<1>1. \A t : GsvOf(t)' = GsvList(sky', t)
  BY DEF GsvOf, GsvList, Gsv, TotalIn
<1>2. [i \in DOMAIN TalkerOrder |-> GsvOf(TalkerOrder[i])]' = GsvLists(sky')
  BY <1>1 DEF GsvLists
<1> QED
  BY <1>2 DEF Sentences, Cycle

-----------------------------------------------------------------------------
(* What feeding a sentence does.                                           *)

Of(W) == { W[i] : i \in DOMAIN W }

\* Every entry is of a place of its own, ...
Distinct(W) ==
  \A i, j \in DOMAIN W : i # j =>
    <<W[i].gnss, W[i].num, W[i].svid>> # <<W[j].gnss, W[j].num, W[j].svid>>

\* ... that a list gives it.
OfList(e) ==
  /\ IsList(e.list) /\ e.num \in DOMAIN e.list
  /\ \E k \in DOMAIN e.list[e.num] : e.svid = e.list[e.num][k]
Drawn(W) == \A i \in DOMAIN W : OfList(W[i])

NewEntry(t, n, i) ==
  [gnss |-> GnssId[t], svid |-> sky[t][n][i], used |-> FALSE,
   num |-> n, list |-> sky[t], cycle |-> cycle]
NewEntries(t, n) == [i \in DOMAIN sky[t][n] |-> NewEntry(t, n, i)]

\* What a sentence finds in the working buffer.
Kept(g, n) == IF n = 1 THEN Purged(g) ELSE work

Refused(t, n) ==
  /\ n # 1 /\ expect[GnssId[t]] # n
  /\ expect' = [expect EXCEPT ![GnssId[t]] = 0]
  /\ UNCHANGED <<work, sv, full>>

Accepted(t, n) ==
  /\ n = 1 \/ expect[GnssId[t]] = n
  /\ expect' = [expect EXCEPT ![GnssId[t]] = n + 1]
  /\ work' = Extended(Kept(GnssId[t], n), NewEntries(t, n))
  /\ full' = (full \/ work' # Kept(GnssId[t], n) \o NewEntries(t, n))
  /\ sv' = IF n = TotalIn(sky, t) THEN work' ELSE sv

LEMMA NewEntriesAre ==
  ASSUME TypeOK, NEW t \in Talkers, NEW n \in 1..TotalIn(sky, t)
  PROVE  /\ NewEntries(t, n) \in Seq(Entry)
         /\ DOMAIN NewEntries(t, n) = 1..Len(NewEntries(t, n))
         /\ DOMAIN NewEntries(t, n) = DOMAIN sky[t][n]
         /\ \A i \in DOMAIN sky[t][n] :
              NewEntries(t, n)[i] = NewEntry(t, n, i) /\ OfList(NewEntry(t, n, i))
<1>1. /\ IsList(sky[t]) /\ n \in DOMAIN sky[t] /\ sky[t][n] \in Seq(Nat)
      /\ n \in Nat \ {0}
  BY Order DEF TypeOK
<1>2. sky[t] \in Seq(Seq(Nat)) /\ GnssId[t] \in Ids /\ cycle \in 0..MaxCycle
  BY <1>1 DEF IsList, TypeOK, Ids
<1>3. /\ Len(sky[t][n]) \in Nat /\ DOMAIN sky[t][n] = 1..Len(sky[t][n])
      /\ \A i \in DOMAIN sky[t][n] : sky[t][n][i] \in Nat
  BY <1>1
<1>4. \A i \in DOMAIN sky[t][n] : NewEntry(t, n, i) \in Entry
  BY <1>1, <1>2, <1>3 DEF NewEntry, Entry
<1>5. \A i \in DOMAIN sky[t][n] : OfList(NewEntry(t, n, i))
  BY <1>1 DEF NewEntry, OfList
<1>6. NewEntries(t, n) = [i \in 1..Len(sky[t][n]) |-> NewEntry(t, n, i)]
  BY <1>3 DEF NewEntries
<1>7. NewEntries(t, n) \in Seq(Entry) /\ Len(NewEntries(t, n)) = Len(sky[t][n])
  <2> DEFINE N == NewEntries(t, n)
  <2>1. N \in [1..Len(sky[t][n]) -> Entry]
    BY <1>3, <1>4, <1>6
  <2> HIDE DEF N
  <2>2. N \in Seq(Entry) /\ Len(N) = Len(sky[t][n])
    BY <1>3, <2>1
  <2> QED
    BY <2>2 DEF N
<1> QED
  BY <1>3, <1>5, <1>6, <1>7

\* What fits is taken from the front.
LEMMA ExtendedIs ==
  ASSUME NEW K \in Seq(Entry), NEW N \in Seq(Entry), Len(K) <= MaxWork, MaxWork \in Nat
  PROVE  LET X == Extended(K, N)
         IN  /\ X \in Seq(Entry) /\ Len(X) \in Nat /\ Len(X) <= MaxWork
             /\ Len(K) \in Nat /\ Len(K) <= Len(X) /\ Len(X) <= Len(K) + Len(N)
             /\ \A i \in 1..Len(K) : X[i] = K[i]
             /\ \A i \in 1..Len(X) : i > Len(K) =>
                  i - Len(K) \in 1..Len(N) /\ X[i] = N[i - Len(K)]
             /\ X # K \o N => Len(X) = MaxWork
             /\ X = K \o N => Len(X) = Len(K) + Len(N)
<1> DEFINE C == K \o N
           X == Extended(K, N)
<1>1. Len(K) \in Nat /\ Len(N) \in Nat
  OBVIOUS
<1>2. /\ C \in Seq(Entry) /\ Len(C) = Len(K) + Len(N)
      /\ \A i \in 1..(Len(K) + Len(N)) : C[i] = IF i <= Len(K) THEN K[i] ELSE N[i - Len(K)]
  BY ConcatProperties
<1>3. ASSUME X \in Seq(Entry), Len(X) \in Nat, Len(X) <= MaxWork,
             Len(K) <= Len(X), Len(X) <= Len(K) + Len(N),
             \A i \in 1..Len(X) : X[i] = C[i]
      PROVE  /\ \A i \in 1..Len(K) : X[i] = K[i]
             /\ \A i \in 1..Len(X) : i > Len(K) =>
                  i - Len(K) \in 1..Len(N) /\ X[i] = N[i - Len(K)]
  <2> HIDE DEF X, C
  <2>1. ASSUME NEW i \in 1..Len(K)
        PROVE  X[i] = K[i]
    <3>1. i \in 1..Len(X) /\ i \in 1..(Len(K) + Len(N)) /\ i <= Len(K)
      BY <1>1, <1>3
    <3> QED
      BY <1>2, <1>3, <3>1
  <2>2. ASSUME NEW i \in 1..Len(X), i > Len(K)
        PROVE  i - Len(K) \in 1..Len(N) /\ X[i] = N[i - Len(K)]
    <3>1. i \in 1..(Len(K) + Len(N)) /\ ~ (i <= Len(K)) /\ i - Len(K) \in 1..Len(N)
      BY <1>1, <1>3, <2>2
    <3> QED
      BY <1>2, <1>3, <3>1
  <2> QED
    BY <2>1, <2>2
<1>4. CASE Len(C) <= MaxWork
  <2>1. X = C
    BY <1>4 DEF Extended
  <2> HIDE DEF X, C
  <2> QED
    BY <1>1, <1>2, <1>3, <1>4, <2>1 DEF C, X
<1>5. CASE Len(C) > MaxWork
  <2>1. X = SubSeq(C, 1, MaxWork)
    BY <1>1, <1>2, <1>5 DEF Extended
  <2>2. /\ X \in Seq(Entry) /\ Len(X) = MaxWork
        /\ \A i \in 1..MaxWork : X[i] = C[i]
    <3> HIDE DEF X, C
    <3> QED
      BY <1>1, <1>2, <1>5, <2>1
  <2>3. X # C
    BY <1>5, <2>2
  <2> HIDE DEF X, C
  <2> QED
    BY <1>1, <1>2, <1>3, <1>5, <2>2, <2>3 DEF C, X
<1> QED
  BY <1>1, <1>2, <1>4, <1>5

LEMMA KeptIs ==
  ASSUME work \in Seq(Entry), NEW g, NEW n
  PROVE  /\ Kept(g, n) \in Seq(Entry) /\ Len(Kept(g, n)) <= Len(work)
         /\ \A e : e \in Of(Kept(g, n)) <=> e \in Of(work) /\ (n = 1 => e.gnss # g)
         /\ Distinct(work) => Distinct(Kept(g, n))
<1>1. CASE n # 1
  BY <1>1 DEF Kept
<1>2. CASE n = 1
  <2> DEFINE P == Purged(g)
             Place(e) == <<e.gnss, e.num, e.svid>>
  <2>1. P \in Seq(Entry) /\ Len(P) <= Len(work) /\ Kept(g, n) = P
    BY <1>2, PurgedKeeps DEF Kept
  <2>2. PICK h \in [1..Len(P) -> 1..Len(work)] :
          \A k \in 1..Len(P) :
             /\ P[k] = work[h[k]] /\ work[h[k]].gnss # g
             /\ \A j \in 1..(k - 1) : h[j] < h[k]
    BY PurgedKeeps
  <2>3. \A i \in 1..Len(work) : work[i].gnss # g => \E k \in 1..Len(P) : P[k] = work[i]
    BY PurgedKeeps
  <2> HIDE DEF P
  <2>4. DOMAIN P = 1..Len(P) /\ DOMAIN work = 1..Len(work) /\ Len(P) \in Nat
    BY <2>1
  <2>5. \A e : e \in Of(P) <=> e \in Of(work) /\ e.gnss # g
    <3>1. ASSUME NEW e \in Of(P) PROVE e \in Of(work) /\ e.gnss # g
      BY <2>2, <2>4 DEF Of
    <3>2. ASSUME NEW e \in Of(work), e.gnss # g PROVE e \in Of(P)
      BY <2>3, <2>4, <3>2 DEF Of
    <3> QED
      BY <3>1, <3>2
  <2>6. ASSUME Distinct(work), NEW i \in DOMAIN P, NEW j \in DOMAIN P, i < j
        PROVE  Place(P[i]) # Place(P[j])
    <3>1. h[i] < h[j] /\ h[i] \in DOMAIN work /\ h[j] \in DOMAIN work
      BY <2>2, <2>4, <2>6
    <3>2. h[i] # h[j]
      BY <2>4, <3>1
    <3>3. P[i] = work[h[i]] /\ P[j] = work[h[j]]
      BY <2>2, <2>4
    <3> QED
      BY <2>6, <3>1, <3>2, <3>3 DEF Distinct
  <2>7. Distinct(work) => Distinct(P)
    <3> SUFFICES ASSUME Distinct(work), NEW i \in DOMAIN P, NEW j \in DOMAIN P, i # j
                 PROVE  Place(P[i]) # Place(P[j])
      BY DEF Distinct
    <3>1. i < j \/ j < i
      BY <2>4
    <3> QED
      BY <2>6, <3>1
  <2> QED
    BY <1>2, <2>1, <2>5, <2>7
<1> QED
  BY <1>1, <1>2

LEMMA GnssIs == \A t \in Talkers : GnssId[t] \in Ids
  BY NmeaAssumption DEF Ids

LEMMA GsvDone ==
  ASSUME TypeOK, NEW t \in Talkers, NEW n \in 1..TotalIn(sky, t),
         HandleGsv(Gsv(sky, t, n))
  PROVE  Refused(t, n) \/ Accepted(t, n)
<1> DEFINE s == Gsv(sky, t, n)
           g == GnssId[t]
           kept == Kept(g, n)
           filled == Extended(kept, NewEntries(t, n))
<1>1. /\ s.talker = t /\ s.num = n /\ s.total = TotalIn(sky, t) /\ s.sats = sky[t][n]
  BY DEF Gsv
<1>2. EntriesOf(s) = NewEntries(t, n)
  BY <1>1 DEF EntriesOf, NewEntries, NewEntry
<1>3. CASE n # 1 /\ expect[g] # n
  <2>1. n # (IF n = 1 THEN 1 ELSE expect[g])
    BY <1>3
  <2> QED
    BY <1>1, <1>3, <2>1 DEF HandleGsv, Refused
<1>4. CASE n = 1 \/ expect[g] = n
  <2>1. ~ (n # (IF n = 1 THEN 1 ELSE expect[g]))
    BY <1>4
  <2>2. /\ expect' = [expect EXCEPT ![g] = n + 1]
        /\ work' = filled
        /\ sv' = Committed(s, filled)
        /\ full' = (full \/ filled # kept \o NewEntries(t, n))
    <3>1. HandleGsv(s)
      OBVIOUS
    <3>2. (IF s.num = 1 THEN Purged(g) ELSE work) = kept
      BY <1>1 DEF Kept
    <3> HIDE DEF s
    <3>3. ~ (s.num # (IF s.num = 1 THEN 1 ELSE expect[GnssId[s.talker]]))
      BY <1>1, <1>4
    <3> HIDE DEF kept
    <3> QED
      BY <1>1, <1>2, <3>1, <3>2, <3>3 DEF HandleGsv
  <2>3. sv' = IF n = TotalIn(sky, t) THEN work' ELSE sv
    BY <1>1, <2>2 DEF Committed
  <2> QED
    BY <1>4, <2>2, <2>3 DEF Accepted
<1> QED
  BY <1>3, <1>4

\* A fed sentence is one of the four.
LEMMA FedIs ==
  ASSUME TypeOK, Feed
  PROVE  /\ at \in 1..Len(Sentences) /\ at' = at + 1
         /\ UNCHANGED <<cycle, sky, fix, used, lost>>
         /\ \/ HandleRmc /\ at = 1
            \/ HandleGga /\ at = 2
            \/ HandleGsa /\ at = 3
            \/ \E t \in Talkers : \E n \in Nat :
                 /\ at > 3 /\ Placed(sky, Sentences, at, t, n)
                 /\ (Refused(t, n) \/ Accepted(t, n)) /\ UNCHANGED <<pvt, gsa>>
<1> DEFINE C == Sentences
<1>1. C = Cycle(sky) /\ sky \in Skies
  BY SentencesAre DEF TypeOK
<1> HIDE DEF C
<1>2. /\ Len(C) \in Nat /\ Len(C) >= 3
      /\ C[1] = [type |-> "RMC"] /\ C[2] = [type |-> "GGA"] /\ C[3] = [type |-> "GSA"]
      /\ \A p \in 4..Len(C) : Listed(sky, C, p)
  BY <1>1, CycleIs
<1>3. at \in 1..Len(C) /\ at' = at + 1 /\ UNCHANGED <<cycle, sky, fix, used, lost>>
  BY <1>2 DEF TypeOK, Feed, receiver, C
<1>4. \/ C[at].type = "RMC" /\ HandleRmc
      \/ C[at].type = "GGA" /\ HandleGga
      \/ C[at].type = "GSA" /\ HandleGsa
      \/ C[at].type = "GSV" /\ HandleGsv(C[at])
  BY DEF Feed, C
<1>5. CASE at \in 1..3
  <2>1. at = 1 \/ at = 2 \/ at = 3
    BY <1>5
  <2> QED
    BY <1>2, <1>3, <1>4, <2>1 DEF C
<1>6. CASE at > 3
  <2>1. PICK t \in Talkers, n \in Nat : Placed(sky, C, at, t, n)
    BY <1>2, <1>3, <1>6 DEF Listed
  <2>2. C[at] = Gsv(sky, t, n) /\ n \in 1..TotalIn(sky, t)
    BY <2>1 DEF Placed
  <2>3. HandleGsv(Gsv(sky, t, n)) /\ UNCHANGED <<pvt, gsa>>
    <3>1. C[at].type = "GSV"
      BY <2>2 DEF Gsv
    <3>2. HandleGsv(C[at])
      BY <1>4, <3>1
    <3> QED
      BY <2>2, <3>2 DEF HandleGsv
  <2>4. Refused(t, n) \/ Accepted(t, n)
    BY <2>2, <2>3, GsvDone
  <2> QED
    BY <1>3, <1>6, <2>1, <2>3, <2>4 DEF C
<1> QED
  BY <1>3, <1>5, <1>6

-----------------------------------------------------------------------------
(* Types, and a satellite twice only if it moved: whatever is lost.        *)

\* The next sentence of a constellation is beyond those the buffer holds of it.
Beyond == \A i \in DOMAIN work :
            \/ expect[work[i].gnss] = 0
            \/ work[i].num < expect[work[i].gnss]

Single ==
  TypeOK /\ Distinct(work) /\ Distinct(sv) /\ Drawn(work) /\ Drawn(sv) /\ Beyond

LEMMA TypesIs ==
  ASSUME TypeOK
  PROVE  /\ Len(work) \in Nat /\ DOMAIN work = 1..Len(work)
         /\ \A i \in DOMAIN work : work[i] \in Entry
         /\ Len(sv) \in Nat /\ DOMAIN sv = 1..Len(sv)
         /\ \A i \in DOMAIN sv : sv[i] \in Entry
         /\ \A e \in Of(work) \cup Of(sv) : e \in Entry
         /\ MaxWork \in Nat /\ MaxCycle \in Nat
<1>1. work \in Seq(Entry) /\ sv \in Seq(Entry)
  BY DEF TypeOK
<1> QED
  BY <1>1, NmeaAssumption DEF Of

LEMMA InitSingle == Init => Single
<1> SUFFICES ASSUME Init
             PROVE  Single
  OBVIOUS
<1>1. sky \in Skies /\ MaxCycle \in Nat /\ MaxWork \in Nat
  BY NmeaAssumption DEF Init
<1>2. Len(Sentences) \in Nat
  BY <1>1, CycleIs, SentencesAre
<1>3. work \in Seq(Entry) /\ sv \in Seq(Entry) /\ Len(work) = 0 /\ Len(sv) = 0
  BY DEF Init
<1>4. TypeOK
  <2>1. at \in 1..(Len(Sentences) + 1)
    <3>1. at \in 1..Len(Sentences)
      BY DEF Init
    <3> QED
      BY <1>2, <3>1
  <2>2. expect \in [Ids -> Nat] /\ pvt \in [fix : BOOLEAN, time_valid : BOOLEAN]
    BY DEF Init
  <2>3. cycle \in 0..MaxCycle /\ gsa \subseteq Nat /\ used \subseteq Nat
    BY <1>1 DEF Init
  <2>5. sky \in Skies /\ fix \in BOOLEAN /\ lost \in BOOLEAN /\ full \in BOOLEAN
    BY DEF Init
  <2>4. Len(work) <= MaxWork /\ Len(sv) <= MaxWork
    BY <1>1, <1>3
  <2> QED
    BY <1>3, <2>1, <2>2, <2>3, <2>4, <2>5 DEF TypeOK
<1>5. DOMAIN work = {} /\ DOMAIN sv = {}
  BY <1>3
<1> QED
  BY <1>4, <1>5 DEF Single, Distinct, Drawn, Beyond

\* Where the next sentence stands is a matter of the sky only.
LEMMA AtTyped ==
  ASSUME TypeOK, UNCHANGED sky, at \in 1..Len(Sentences), at' = at + 1
  PROVE  at' \in 1..(Len(Sentences)' + 1)
<1>1. Sentences' = Sentences /\ Len(Sentences) \in Nat
  BY SentencesAre, SentencesArePrime, CycleIs DEF TypeOK
<1> QED
  BY <1>1

LEMMA AcceptedSingle ==
  ASSUME Single, NEW t \in Talkers, NEW n \in 1..TotalIn(sky, t), Accepted(t, n),
         UNCHANGED cycle
  PROVE  /\ work' \in Seq(Entry) /\ Len(work') <= MaxWork
         /\ sv' \in Seq(Entry) /\ Len(sv') <= MaxWork
         /\ expect' \in [Ids -> Nat]
         /\ Distinct(work') /\ Distinct(sv') /\ Drawn(work') /\ Drawn(sv') /\ Beyond'
<1> DEFINE g == GnssId[t]
           K == Kept(g, n)
           N == NewEntries(t, n)
           Place(e) == <<e.gnss, e.num, e.svid>>
<1>1. /\ g \in Ids /\ n \in Nat /\ TotalIn(sky, t) \in Nat /\ n >= 1
      /\ cycle \in 0..MaxCycle /\ expect \in [Ids -> Nat] /\ MaxWork \in Nat
  BY GnssIs, Order, NmeaAssumption DEF Single, TypeOK
<1>2. /\ N \in Seq(Entry) /\ DOMAIN N = 1..Len(N) /\ DOMAIN N = DOMAIN sky[t][n]
      /\ \A i \in DOMAIN N : N[i] = NewEntry(t, n, i) /\ OfList(N[i])
      /\ \A i \in DOMAIN N : N[i].gnss = g /\ N[i].num = n /\ N[i].svid = sky[t][n][i]
  <2>1. /\ N \in Seq(Entry) /\ DOMAIN N = 1..Len(N) /\ DOMAIN N = DOMAIN sky[t][n]
        /\ \A i \in DOMAIN N : N[i] = NewEntry(t, n, i) /\ OfList(NewEntry(t, n, i))
    BY NewEntriesAre DEF Single
  <2> HIDE DEF N
  <2>2. ASSUME NEW i \in DOMAIN N
        PROVE  N[i].gnss = g /\ N[i].num = n /\ N[i].svid = sky[t][n][i]
    <3>1. N[i] = NewEntry(t, n, i)
      BY <2>1
    <3> QED
      BY <3>1 DEF NewEntry
  <2>3. \A i \in DOMAIN N : N[i] = NewEntry(t, n, i) /\ OfList(N[i])
    <3> HIDE DEF g
    <3> QED
      BY <2>1
  <2> QED
    BY <2>1, <2>2, <2>3
<1>3. /\ K \in Seq(Entry) /\ Len(K) <= Len(work) /\ Len(work) <= MaxWork
      /\ \A e : e \in Of(K) <=> e \in Of(work) /\ (n = 1 => e.gnss # g)
      /\ Distinct(K)
  BY KeptIs DEF Single, TypeOK
<1>4. expect' = [expect EXCEPT ![g] = n + 1] /\ work' = Extended(K, N)
  BY DEF Accepted
<1>5. n = 1 \/ expect[g] = n
  BY DEF Accepted
<1>6. \A i, j \in DOMAIN N : i # j => N[i].svid # N[j].svid
  <2>1. IsList(sky[t]) /\ n \in DOMAIN sky[t]
    BY Order DEF Single, TypeOK
  <2> HIDE DEF N
  <2> SUFFICES ASSUME NEW i \in DOMAIN N, NEW j \in DOMAIN N, N[i].svid = N[j].svid
               PROVE  i = j
    OBVIOUS
  <2>2. i \in DOMAIN sky[t][n] /\ j \in DOMAIN sky[t][n] /\ sky[t][n][i] = sky[t][n][j]
    BY <1>2
  <2> QED
    BY <2>1, <2>2 DEF IsList
<1> HIDE DEF g, K, N
<1>7. /\ Len(K) \in Nat /\ DOMAIN K = 1..Len(K) /\ Len(K) <= MaxWork /\ Len(N) \in Nat
      /\ \A i \in DOMAIN K : K[i] \in Of(K)
  BY <1>1, <1>2, <1>3, TypesIs DEF Of, Single
\* What is kept of the constellation is of earlier sentences, the rest is as before.
<1>8. ASSUME NEW i \in DOMAIN K
      PROVE  /\ K[i] \in Entry /\ OfList(K[i])
             /\ K[i].gnss = g => K[i].num < n
             /\ K[i].gnss # g => expect[K[i].gnss] = 0 \/ K[i].num < expect[K[i].gnss]
  <2>1. K[i] \in Of(work) /\ (n = 1 => K[i].gnss # g)
    BY <1>3, <1>7
  <2>2. PICK j \in DOMAIN work : K[i] = work[j]
    BY <2>1 DEF Of
  <2>3. expect[work[j].gnss] = 0 \/ work[j].num < expect[work[j].gnss]
    BY DEF Single, Beyond
  <2>4. OfList(work[j])
    BY DEF Single, Drawn
  <2>5. K[i] \in Entry
    BY <1>3, <1>7
  <2> QED
    BY <1>1, <1>5, <2>1, <2>2, <2>3, <2>4, <2>5
<1>9. /\ work' \in Seq(Entry) /\ Len(work') <= MaxWork /\ DOMAIN work' = 1..Len(work')
      /\ \A i \in DOMAIN work' :
           \/ i \in DOMAIN K /\ work'[i] = K[i]
           \/ /\ i > Len(K) /\ i - Len(K) \in DOMAIN N
              /\ work'[i] = N[i - Len(K)]
  <2> DEFINE X == Extended(K, N)
  <2>1. /\ X \in Seq(Entry) /\ Len(X) \in Nat /\ Len(X) <= MaxWork
        /\ \A i \in 1..Len(K) : X[i] = K[i]
        /\ \A i \in 1..Len(X) : i > Len(K) =>
             i - Len(K) \in 1..Len(N) /\ X[i] = N[i - Len(K)]
    BY <1>1, <1>2, <1>3, <1>7, ExtendedIs
  <2> HIDE DEF X
  <2>2. DOMAIN X = 1..Len(X)
    BY <2>1
  <2> QED
    BY <1>2, <1>4, <1>7, <2>1, <2>2 DEF X
<1>10. ASSUME NEW i \in DOMAIN work', NEW j \in DOMAIN work', i < j
       PROVE  Place(work'[i]) # Place(work'[j])
  <2>0. i \in Nat /\ j \in Nat
    BY <1>9
  <2>1. CASE j \in DOMAIN K /\ work'[j] = K[j]
    <3>1. i \in DOMAIN K /\ work'[i] = K[i]
      BY <1>7, <1>9, <1>10, <2>0, <2>1
    <3> QED
      BY <1>3, <1>10, <2>0, <2>1, <3>1 DEF Distinct
  <2>2. CASE j > Len(K) /\ j - Len(K) \in DOMAIN N /\ work'[j] = N[j - Len(K)]
    <3>1. work'[j].gnss = g /\ work'[j].num = n
      BY <1>2, <2>2
    <3>2. CASE i \in DOMAIN K /\ work'[i] = K[i]
      <4>1. K[i].num \in Nat /\ (K[i].gnss = g => K[i].num < n)
        BY <1>8, <3>2 DEF Entry
      <4> QED
        BY <1>1, <3>1, <3>2, <4>1
    <3>3. CASE i > Len(K) /\ i - Len(K) \in DOMAIN N /\ work'[i] = N[i - Len(K)]
      <4>1. i - Len(K) # j - Len(K)
        BY <1>7, <1>10, <2>0
      <4>2. N[i - Len(K)].svid # N[j - Len(K)].svid
        BY <1>6, <2>2, <3>3, <4>1
      <4> QED
        BY <2>2, <3>3, <4>2
    <3> QED
      BY <1>9, <3>2, <3>3
  <2> QED
    BY <1>9, <2>1, <2>2
<1>11. Distinct(work')
  <2> SUFFICES ASSUME NEW i \in DOMAIN work', NEW j \in DOMAIN work', i # j
               PROVE  Place(work'[i]) # Place(work'[j])
    BY DEF Distinct
  <2>1. i < j \/ j < i
    BY <1>9
  <2> QED
    BY <1>10, <2>1
<1>12. Drawn(work')
  BY <1>2, <1>8, <1>9 DEF Drawn
<1>13. ASSUME NEW i \in DOMAIN work'
       PROVE  expect'[work'[i].gnss] = 0 \/ work'[i].num < expect'[work'[i].gnss]
  <2>1. CASE i \in DOMAIN K /\ work'[i] = K[i]
    <3>1. K[i].gnss \in Ids /\ K[i].num \in Nat
      BY <1>8, <2>1 DEF Entry
    <3> QED
      BY <1>1, <1>4, <1>8, <2>1, <3>1
  <2>2. CASE i - Len(K) \in DOMAIN N /\ work'[i] = N[i - Len(K)]
    BY <1>1, <1>2, <1>4, <2>2
  <2> QED
    BY <1>9, <2>1, <2>2
<1>14. sv' = work' \/ sv' = sv
  BY DEF Accepted
<1>15. sv' \in Seq(Entry) /\ Len(sv') <= MaxWork /\ Distinct(sv') /\ Drawn(sv')
  BY <1>9, <1>11, <1>12, <1>14 DEF Single, TypeOK
<1>16. expect' \in [Ids -> Nat]
  BY <1>1, <1>4
<1> QED
  BY <1>9, <1>11, <1>12, <1>13, <1>15, <1>16 DEF Beyond

\* A GSA changes nothing of an entry but its mark.
Remarked(e, f) ==
  /\ f.gnss = e.gnss /\ f.num = e.num /\ f.svid = e.svid
  /\ f.list = e.list /\ f.cycle = e.cycle

LEMMA GsaSingle ==
  ASSUME Single, HandleGsa
  PROVE  /\ sv' \in Seq(Entry) /\ Len(sv') = Len(sv) /\ Distinct(sv') /\ Drawn(sv')
         /\ \A i \in DOMAIN sv : Remarked(sv[i], sv'[i])
<1>1. /\ Len(sv) \in Nat /\ DOMAIN sv = 1..Len(sv) /\ \A i \in DOMAIN sv : sv[i] \in Entry
  BY TypesIs DEF Single
<1>2. /\ DOMAIN sv' = DOMAIN sv
      /\ \A i \in DOMAIN sv :
           sv'[i] = [sv[i] EXCEPT !.used = sv[i].gnss = GPS /\ sv[i].svid \in used]
  BY DEF HandleGsa
<1>3. ASSUME NEW i \in DOMAIN sv
      PROVE  sv'[i] \in Entry /\ Remarked(sv[i], sv'[i])
  <2> DEFINE mark == sv[i].gnss = GPS /\ sv[i].svid \in used
  <2>1. sv[i] \in Entry /\ sv'[i] = [sv[i] EXCEPT !.used = mark] /\ mark \in BOOLEAN
    BY <1>1, <1>2
  <2> HIDE DEF mark
  <2> QED
    BY <2>1 DEF Entry, Remarked
<1>4. sv' = [i \in 1..Len(sv) |-> sv'[i]]
  BY <1>1, <1>2 DEF HandleGsa
<1>5. sv' \in Seq(Entry) /\ Len(sv') = Len(sv)
  BY <1>1, <1>3, <1>4
<1>6. Distinct(sv') /\ Drawn(sv')
  BY <1>2, <1>3 DEF Single, Distinct, Drawn, OfList, Remarked
<1> QED
  BY <1>3, <1>5, <1>6

LEMMA NextSingle == Single /\ [Next]_vars => Single'
<1> SUFFICES ASSUME Single, [Next]_vars
             PROVE  Single'
  OBVIOUS
<1>0. TypeOK
  BY DEF Single
<1>1. CASE Feed
  <2>1. at \in 1..Len(Sentences) /\ at' = at + 1 /\ UNCHANGED <<cycle, sky, fix, used, lost>>
    BY <1>0, <1>1, FedIs
  <2>2. at' \in 1..(Len(Sentences)' + 1)
    BY <1>0, <2>1, AtTyped
  <2>3. CASE HandleRmc \/ HandleGga
    <3>1. UNCHANGED <<work, expect, sv, gsa, full>>
      BY <2>3 DEF HandleRmc, HandleGga
    <3>2. pvt' \in [fix : BOOLEAN, time_valid : BOOLEAN]
      BY <1>0, <2>3 DEF HandleRmc, HandleGga, TypeOK
    <3> QED
      BY <1>0, <2>1, <2>2, <3>1, <3>2 DEF Single, TypeOK, Beyond
  <2>4. CASE HandleGsa
    <3>1. UNCHANGED <<work, expect, pvt, full>> /\ gsa' = used
      BY <2>4 DEF HandleGsa
    <3>2. sv' \in Seq(Entry) /\ Len(sv') = Len(sv) /\ Distinct(sv') /\ Drawn(sv')
      BY <2>4, GsaSingle
    <3>3. used \subseteq Nat
      BY <1>0 DEF TypeOK
    <3> QED
      BY <1>0, <2>1, <2>2, <3>1, <3>2, <3>3 DEF Single, TypeOK, Beyond
  <2>5. ASSUME NEW t \in Talkers, NEW n \in Nat, Placed(sky, Sentences, at, t, n),
               Refused(t, n), UNCHANGED <<pvt, gsa>>
        PROVE  Single'
    <3>1. expect' \in [Ids -> Nat] /\ \A g \in Ids : expect'[g] = 0 \/ expect'[g] = expect[g]
      BY <1>0, <2>5, GnssIs DEF Refused, TypeOK
    <3>2. Beyond'
      <4>1. \A i \in DOMAIN work : work[i].gnss \in Ids
        BY <1>0, TypesIs DEF Entry
      <4> QED
        BY <2>5, <3>1, <4>1 DEF Refused, Single, Beyond
    <3> QED
      BY <1>0, <2>1, <2>2, <2>5, <3>1, <3>2 DEF Refused, Single, TypeOK
  <2>6. ASSUME NEW t \in Talkers, NEW n \in Nat, Placed(sky, Sentences, at, t, n),
               Accepted(t, n), UNCHANGED <<pvt, gsa>>
        PROVE  Single'
    <3>1. /\ work' \in Seq(Entry) /\ Len(work') <= MaxWork
          /\ sv' \in Seq(Entry) /\ Len(sv') <= MaxWork
          /\ expect' \in [Ids -> Nat]
          /\ Distinct(work') /\ Distinct(sv') /\ Drawn(work') /\ Drawn(sv') /\ Beyond'
      BY <2>1, <2>6, AcceptedSingle DEF Placed
    <3>2. full' \in BOOLEAN
      BY <1>0, <2>6 DEF Accepted, TypeOK
    <3> QED
      BY <1>0, <2>1, <2>2, <2>6, <3>1, <3>2 DEF Single, TypeOK
  <2> QED
    BY <1>0, <1>1, <2>3, <2>4, <2>5, <2>6, FedIs
<1>2. CASE Lose
  <2>1. at \in 1..Len(Sentences) /\ at' = at + 1 /\ UNCHANGED <<receiver, host>> /\ lost'
    <3>1. Len(Sentences) \in Nat
      BY <1>0, SentencesAre, CycleIs DEF TypeOK
    <3> QED
      BY <1>0, <1>2, <3>1 DEF Lose, TypeOK
  <2>2. at' \in 1..(Len(Sentences)' + 1)
    BY <1>0, <2>1, AtTyped DEF receiver
  <2>3. lost' \in BOOLEAN
    BY <1>2 DEF Lose
  <2> QED
    BY <1>0, <2>1, <2>2, <2>3 DEF Single, TypeOK, Beyond, receiver, host
<1>3. CASE NextCycle
  <2>1. sky' \in Skies /\ fix' \in BOOLEAN
    BY <1>3 DEF NextCycle, NewSky
  <2>4. used' \subseteq Nat
    <3>1. \A t \in Talkers : InView(sky', t) \subseteq Nat
      <4> SUFFICES ASSUME NEW t \in Talkers, NEW n \in DOMAIN sky'[t], NEW v \in Range(sky'[t][n])
                   PROVE  v \in Nat
        BY DEF InView
      <4>1. sky'[t][n] \in Seq(Nat)
        BY <2>1, Order
      <4> QED
        BY <4>1 DEF Range
    <3> QED
      BY <1>3, <3>1 DEF NextCycle, NewSky
  <2>2. Len(Sentences)' \in Nat
    BY <2>1, SentencesArePrime, CycleIs
  <2>3. at' \in 1..(Len(Sentences)' + 1)
    BY <1>3, <2>2 DEF NextCycle
  <2>5. cycle' \in 0..MaxCycle
    BY <1>0, <1>3, TypesIs DEF NextCycle, TypeOK
  <2> QED
    BY <1>0, <1>3, <2>1, <2>3, <2>4, <2>5 DEF NextCycle, Single, TypeOK, Beyond, host
<1>4. CASE UNCHANGED vars
  BY <1>0, <1>4 DEF vars, Single, TypeOK, Beyond, Sentences, GsvOf
<1> QED
  BY <1>1, <1>2, <1>3, <1>4 DEF Next

LEMMA AlwaysSingle == Spec => []Single
  BY InitSingle, NextSingle, PTL DEF Spec

\* The variables keep their types; the buffers never exceed their capacity.
THEOREM TypeCorrect == Spec => []TypeOK
<1>1. Single => TypeOK
  BY DEF Single
<1> QED
  BY <1>1, AlwaysSingle, PTL

\* Whatever sentences are lost, refused or do not fit, a satellite is listed twice
\* only if it stands in different sentences of different lists (handle_gsv,
\* purge_gnss).
THEOREM TwiceIfMoved == Spec => []TwiceOnlyIfMoved
<1>1. Single => TwiceOnlyIfMoved
  <2> SUFFICES ASSUME Single, NEW i \in DOMAIN sv, NEW j \in DOMAIN sv, i # j, SameSat(i, j)
               PROVE  sv[i].num # sv[j].num /\ sv[i].list # sv[j].list
    BY DEF TwiceOnlyIfMoved
  <2>1. sv[i].gnss = sv[j].gnss /\ sv[i].svid = sv[j].svid
    BY DEF SameSat
  <2>2. sv[i].num # sv[j].num
    BY <2>1 DEF Single, Distinct
  <2>3. OfList(sv[i]) /\ OfList(sv[j])
    BY DEF Single, Drawn
  <2>4. ASSUME sv[i].list = sv[j].list
        PROVE  FALSE
    <3> DEFINE l == sv[i].list
    <3>1. IsList(l) /\ sv[i].num \in DOMAIN l /\ sv[j].num \in DOMAIN l
      BY <2>3, <2>4 DEF OfList
    <3>2. PICK a \in DOMAIN l[sv[i].num] : sv[i].svid = l[sv[i].num][a]
      BY <2>3 DEF OfList
    <3>3. PICK b \in DOMAIN l[sv[j].num] : sv[j].svid = l[sv[j].num][b]
      BY <2>3, <2>4 DEF OfList
    <3>4. \A c, d \in DOMAIN l : \A k \in DOMAIN l[c], m \in DOMAIN l[d] :
            l[c][k] = l[d][m] => c = d
      <4> HIDE DEF l
      <4> QED
        BY <3>1 DEF IsList
    <3> HIDE DEF l
    <3>5. l[sv[i].num][a] = l[sv[j].num][b]
      BY <2>1, <3>2, <3>3
    <3> QED
      BY <2>2, <3>1, <3>2, <3>3, <3>4, <3>5
  <2> QED
    BY <2>2, <2>4
<1> QED
  BY <1>1, AlwaysSingle, PTL

-----------------------------------------------------------------------------
(* While no sentence is lost the host follows the receiver.                *)

\* The next sentence is in the middle of the list of t.
Amid(t, n) == n > 1 /\ at <= Len(Sentences) /\ Sentences[at] = Gsv(sky, t, n)

\* W has all of sentence m of the list l of constellation g, of cycle c.
In(W, g, l, m, c) ==
  \A i \in DOMAIN l[m] : \E f \in W :
    f.gnss = g /\ f.cycle = c /\ f.num = m /\ f.svid = l[m][i]

\* The buffer holds what came of that list, up to where it was full, ...
PartOf(t, n) ==
  /\ expect[GnssId[t]] = n
  /\ \A e \in Of(work) : e.gnss = GnssId[t] =>
       /\ e.cycle = cycle /\ e.num \in 1..(n - 1) /\ e.list = sky[t]
       /\ \A m \in 1..(e.num - 1) : In(Of(work), GnssId[t], sky[t], m, cycle)
  /\ \/ \A m \in 1..(n - 1) : In(Of(work), GnssId[t], sky[t], m, cycle)
     \/ full /\ Len(work) = MaxWork

\* ... or nothing of it, as the monitor was started after its begin.
Unheard(t) ==
  /\ cycle = 0 /\ expect[GnssId[t]] = 0
  /\ \A e \in Of(work) : e.gnss # GnssId[t]

InSync == \A t \in Talkers : \A n \in Nat : Amid(t, n) => PartOf(t, n) \/ Unheard(t)

\* What W has of g is of one cycle: a list up to some satellite, the whole of it
\* unless a sentence did not fit.
WholeIn(W, g, cut) ==
  \A e \in W : e.gnss = g =>
    /\ \A m \in 1..(e.num - 1) : In(W, g, e.list, m, e.cycle)
    /\ ~ cut => \A m \in DOMAIN e.list : In(W, g, e.list, m, e.cycle)
    /\ \A f \in W : f.gnss = g => f.cycle = e.cycle

Between(g) == \A t \in Talkers : \A n \in Nat : Amid(t, n) => GnssId[t] # g

WorkWhole == \A g \in Ids : Between(g) => WholeIn(Of(work), g, full)
ShownWhole == \A g \in Ids : WholeIn(Of(sv), g, full)

\* A sentence about g, or the last one of a list about g, came in this cycle.
Passed(g) ==
  \E p \in 1..(at - 1) : \E t \in Talkers : \E n \in Nat :
     Sentences[p] = Gsv(sky, t, n) /\ GnssId[t] = g
PassedEnd(g) ==
  \E p \in 1..(at - 1) : \E t \in Talkers :
     Sentences[p] = Gsv(sky, t, TotalIn(sky, t)) /\ GnssId[t] = g

Recent(e) == e.cycle = cycle \/ e.cycle = cycle - 1
FreshWork == \A e \in Of(work) : Recent(e) /\ (Passed(e.gnss) => e.cycle = cycle)
FreshShown == \A e \in Of(sv) : Recent(e) /\ (PassedEnd(e.gnss) => e.cycle = cycle)

Followed == InSync /\ WorkWhole /\ ShownWhole /\ FreshWork /\ FreshShown

IInv == Single /\ (~ lost => Followed)

LEMMA SameGsv ==
  ASSUME NEW y, NEW t, NEW u, NEW n, NEW m, Gsv(y, t, n) = Gsv(y, u, m)
  PROVE  t = u /\ n = m
  BY DEF Gsv

\* The cycle as a sequence, in the present state.
LEMMA Now ==
  ASSUME TypeOK
  PROVE  /\ Len(Sentences) \in Nat /\ Len(Sentences) >= 3 /\ at \in 1..(Len(Sentences) + 1)
         /\ \A p \in 4..Len(Sentences) : Listed(sky, Sentences, p)
         /\ \A p \in 1..3 : \A t, n : Sentences[p] # Gsv(sky, t, n)
         /\ \A t \in Talkers : Ends(sky, Sentences, t)
<1> DEFINE C == Sentences
<1>1. C = Cycle(sky) /\ sky \in Skies
  BY SentencesAre DEF TypeOK
<1> HIDE DEF C
<1>2. /\ Len(C) \in Nat /\ Len(C) >= 3
      /\ C[1] = [type |-> "RMC"] /\ C[2] = [type |-> "GGA"] /\ C[3] = [type |-> "GSA"]
      /\ \A p \in 4..Len(C) : Listed(sky, C, p)
      /\ \A t \in Talkers : Ends(sky, C, t)
  BY <1>1, CycleIs
<1>3. ASSUME NEW p \in 1..3, NEW t, NEW n
      PROVE  C[p] # Gsv(sky, t, n)
  <2>1. C[p].type \in {"RMC", "GGA", "GSA"}
    <3>1. p = 1 \/ p = 2 \/ p = 3
      OBVIOUS
    <3> QED
      BY <1>2, <3>1
  <2>2. Gsv(sky, t, n).type = "GSV"
    BY DEF Gsv
  <2> QED
    BY <2>1, <2>2
<1> QED
  BY <1>2, <1>3 DEF C, TypeOK

\* What stands before a sentence in the middle of a list is of the same list.
LEMMA BeforeAmid ==
  ASSUME TypeOK, NEW t \in Talkers, NEW n \in Nat, Amid(t, n)
  PROVE  /\ at > 4 /\ n <= TotalIn(sky, t)
         /\ Sentences[at - 1] = Gsv(sky, t, n - 1)
<1>1. /\ n > 1 /\ at \in 1..Len(Sentences) /\ Sentences[at] = Gsv(sky, t, n)
      /\ Len(Sentences) \in Nat
  BY Now DEF Amid
<1>2. at \in 4..Len(Sentences)
  BY <1>1, Now
<1>3. PICK u \in Talkers, m \in Nat : Placed(sky, Sentences, at, u, m)
  BY <1>2, Now DEF Listed
<1>4. u = t /\ m = n
  <2>1. Gsv(sky, u, m) = Gsv(sky, t, n)
    BY <1>1, <1>3 DEF Placed
  <2> QED
    BY <2>1, SameGsv
<1>5. n <= TotalIn(sky, t) /\ Sentences[at - 1] = Gsv(sky, t, n - 1)
  BY <1>1, <1>3, <1>4 DEF Placed
<1>6. at - 1 \notin 1..3
  BY <1>5, Now
<1> QED
  BY <1>2, <1>5, <1>6

\* Where the next sentence stands when one of a list was fed.
LEMMA AfterGsv ==
  ASSUME TypeOK, TypeOK', NEW t \in Talkers, NEW n \in Nat,
         Placed(sky, Sentences, at, t, n), UNCHANGED sky, at' = at + 1
  PROVE  /\ n < TotalIn(sky, t) => Amid(t, n + 1)'
         /\ \A u \in Talkers : \A m \in Nat :
              Amid(u, m)' => u = t /\ m = n + 1 /\ n < TotalIn(sky, t)
<1>1. Sentences' = Sentences /\ Len(Sentences) \in Nat /\ at \in Nat
  BY Now, SentencesAre, SentencesArePrime
<1>2. n \in 1..TotalIn(sky, t) /\ TotalIn(sky, t) \in Nat
  BY Order DEF Placed, TypeOK
<1>3. n < TotalIn(sky, t) => Amid(t, n + 1)'
  BY <1>1, <1>2 DEF Placed, Amid
<1>4. ASSUME NEW u \in Talkers, NEW m \in Nat, Amid(u, m)'
      PROVE  u = t /\ m = n + 1 /\ n < TotalIn(sky, t)
  <2>1. m <= TotalIn(sky, u) /\ Sentences[at] = Gsv(sky, u, m - 1)
    <3>1. /\ at + 1 \in 4..Len(Sentences) \/ at + 1 \in 1..3
          /\ at + 1 <= Len(Sentences) /\ Sentences[at + 1] = Gsv(sky, u, m) /\ m > 1
      BY <1>1, <1>4, Now DEF Amid
    <3>2. at + 1 \in 4..Len(Sentences)
      BY <3>1, Now
    <3>3. PICK v \in Talkers, k \in Nat : Placed(sky, Sentences, at + 1, v, k)
      BY <3>2, Now DEF Listed
    <3>4. v = u /\ k = m
      <4>1. Gsv(sky, v, k) = Gsv(sky, u, m)
        BY <3>1, <3>3 DEF Placed
      <4> QED
        BY <4>1, SameGsv
    <3>5. Sentences[(at + 1) - 1] = Gsv(sky, u, m - 1) /\ m <= TotalIn(sky, u)
      BY <3>1, <3>3, <3>4 DEF Placed
    <3> QED
      BY <1>1, <3>5
  <2>2. Sentences[at] = Gsv(sky, t, n)
    BY DEF Placed
  <2>3. u = t /\ m - 1 = n
    BY <2>1, <2>2, SameGsv
  <2> QED
    BY <1>2, <2>1, <2>3
<1> QED
  BY <1>3, <1>4

LEMMA AfterHead ==
  ASSUME TypeOK, TypeOK', at \in 1..3, UNCHANGED sky, at' = at + 1
  PROVE  \A u \in Talkers : \A m \in Nat : ~ Amid(u, m) /\ ~ Amid(u, m)'
<1>1. Sentences' = Sentences /\ Len(Sentences) \in Nat
  BY Now, SentencesAre, SentencesArePrime
<1> SUFFICES ASSUME NEW u \in Talkers, NEW m \in Nat
             PROVE  ~ Amid(u, m) /\ ~ Amid(u, m)'
  OBVIOUS
<1>2. ~ Amid(u, m)
  BY BeforeAmid
<1>3. ASSUME Amid(u, m)'
      PROVE  FALSE
  <2>1. m > 1 /\ at + 1 <= Len(Sentences) /\ Sentences[at + 1] = Gsv(sky, u, m)
    BY <1>1, <1>3 DEF Amid
  <2>2. at + 1 \notin 1..3
    BY <2>1, Now
  <2>3. at + 1 \in 4..Len(Sentences) /\ at = 3
    BY <1>1, <2>1, <2>2
  <2>4. PICK v \in Talkers, k \in Nat : Placed(sky, Sentences, at + 1, v, k)
    BY <2>3, Now DEF Listed
  <2>5. k = m
    <3>1. Gsv(sky, v, k) = Gsv(sky, u, m)
      BY <2>1, <2>4 DEF Placed
    <3> QED
      BY <3>1, SameGsv
  <2>6. Sentences[(at + 1) - 1] = Gsv(sky, v, k - 1)
    BY <2>1, <2>4, <2>5 DEF Placed
  <2> QED
    BY <2>3, <2>6, Now
<1> QED
  BY <1>2, <1>3

\* The buffer after an accepted sentence.
LEMMA WorkAfter ==
  ASSUME TypeOK, NEW t \in Talkers, NEW n \in 1..TotalIn(sky, t), Accepted(t, n)
  PROVE  /\ \A e \in Of(work)' :
              \/ e \in Of(work) /\ (n = 1 => e.gnss # GnssId[t])
              \/ e \in Of(NewEntries(t, n)) /\ (n = 1 \/ Len(work) # MaxWork)
         /\ \A e \in Of(work) : (n = 1 => e.gnss # GnssId[t]) => e \in Of(work)'
         /\ \/ \A e \in Of(NewEntries(t, n)) : e \in Of(work)'
            \/ full' /\ Len(work') = MaxWork
         /\ n # 1 /\ Len(work) = MaxWork => Len(work') = MaxWork
         /\ full => full'
<1> DEFINE g == GnssId[t]
           K == Kept(g, n)
           N == NewEntries(t, n)
           X == Extended(K, N)
<1>1. /\ K \in Seq(Entry) /\ Len(K) <= Len(work)
      /\ \A e : e \in Of(K) <=> e \in Of(work) /\ (n = 1 => e.gnss # g)
  BY KeptIs DEF TypeOK
<1>2. N \in Seq(Entry) /\ DOMAIN N = 1..Len(N) /\ Len(N) \in Nat
  <2>1. N \in Seq(Entry) /\ DOMAIN N = 1..Len(N)
    BY NewEntriesAre
  <2> HIDE DEF N
  <2> QED
    BY <2>1
<1>3. work' = X /\ full' = (full \/ X # K \o N)
  BY DEF Accepted
<1>4. n # 1 => K = work
  BY DEF Kept
<1> HIDE DEF g, K, N, X
<1>5. Len(work) \in Nat /\ Len(work) <= MaxWork /\ MaxWork \in Nat
      /\ Len(K) \in Nat /\ DOMAIN K = 1..Len(K) /\ Len(K) <= MaxWork
  BY <1>1, TypesIs DEF TypeOK
<1>6. /\ X \in Seq(Entry) /\ Len(X) \in Nat /\ Len(X) <= MaxWork
      /\ Len(K) <= Len(X)
      /\ \A i \in 1..Len(K) : X[i] = K[i]
      /\ \A i \in 1..Len(X) : i > Len(K) =>
           i - Len(K) \in 1..Len(N) /\ X[i] = N[i - Len(K)]
      /\ X # K \o N => Len(X) = MaxWork
      /\ X = K \o N => Len(X) = Len(K) + Len(N)
  BY <1>1, <1>2, <1>5, ExtendedIs DEF X
<1>7. DOMAIN X = 1..Len(X)
  BY <1>6
<1>8. ASSUME NEW e \in Of(X)
      PROVE  \/ e \in Of(work) /\ (n = 1 => e.gnss # g)
             \/ e \in Of(N) /\ (n = 1 \/ Len(work) # MaxWork)
  <2>1. PICK i \in 1..Len(X) : e = X[i]
    BY <1>7 DEF Of
  <2>2. CASE i <= Len(K)
    <3>1. i \in 1..Len(K) /\ e = K[i]
      BY <1>5, <1>6, <2>1, <2>2
    <3>2. e \in Of(K)
      BY <1>5, <3>1 DEF Of
    <3> QED
      BY <1>1, <3>2
  <2>3. CASE i > Len(K)
    <3>1. i - Len(K) \in DOMAIN N /\ e = N[i - Len(K)]
      BY <1>2, <1>6, <2>1, <2>3
    <3>2. e \in Of(N)
      BY <3>1 DEF Of
    <3>3. n # 1 => Len(work) < MaxWork
      BY <1>4, <1>5, <1>6, <2>1, <2>3
    <3> QED
      BY <1>5, <3>2, <3>3
  <2> QED
    BY <1>5, <2>1, <2>2, <2>3
<1>9. ASSUME NEW e \in Of(work), n = 1 => e.gnss # g
      PROVE  e \in Of(X)
  <2>1. e \in Of(K)
    BY <1>1, <1>9
  <2>2. PICK i \in 1..Len(K) : e = K[i]
    BY <1>5, <2>1 DEF Of
  <2>3. i \in DOMAIN X /\ e = X[i]
    <3>1. Len(K) <= Len(X) /\ Len(X) \in Nat /\ X[i] = K[i]
      BY <1>6, <2>2
    <3> QED
      BY <1>5, <1>7, <2>2, <3>1
  <2> QED
    BY <2>3 DEF Of
<1>10. ASSUME X = K \o N, NEW e \in Of(N)
       PROVE  e \in Of(X)
  <2>1. PICK i \in 1..Len(N) : e = N[i]
    BY <1>2 DEF Of
  <2> DEFINE j == Len(K) + i
  <2>2. j \in 1..Len(X) /\ j > Len(K) /\ j - Len(K) = i
    BY <1>2, <1>5, <1>6, <1>10, <2>1
  <2> HIDE DEF j
  <2>3. X[j] = N[i]
    BY <1>6, <2>2
  <2> QED
    BY <1>7, <2>1, <2>2, <2>3 DEF Of
<1>11. Of(work)' = Of(X)
  BY <1>3 DEF Of
<1>12. n # 1 /\ Len(work) = MaxWork => Len(X) = MaxWork
  BY <1>4, <1>5, <1>6
<1> QED
  BY <1>3, <1>6, <1>8, <1>9, <1>10, <1>11, <1>12 DEF g, N

\* The same by constellation: that of the sentence has what came of the list
\* so far and fitted, the others have what they had.
Filled(t, n) ==
  /\ \A e \in Of(work)' : e.gnss = GnssId[t] =>
       /\ e.cycle = cycle /\ e.num \in 1..n /\ e.list = sky[t]
       /\ \A m \in 1..(e.num - 1) : In(Of(work)', GnssId[t], sky[t], m, cycle)
  /\ \/ \A m \in 1..n : In(Of(work)', GnssId[t], sky[t], m, cycle)
     \/ full' /\ Len(work') = MaxWork
  /\ \A e : e.gnss # GnssId[t] => (e \in Of(work)' <=> e \in Of(work))
  /\ full => full'

LEMMA FilledIs ==
  ASSUME TypeOK, NEW t \in Talkers, NEW n \in Nat,
         Placed(sky, Sentences, at, t, n), at \in 1..Len(Sentences),
         Accepted(t, n), InSync
  PROVE  Filled(t, n)
<1> DEFINE g == GnssId[t]
           l == sky[t]
           V == Of(work)
           W == Of(work)'
           N == Of(NewEntries(t, n))
<1>1. n \in 1..TotalIn(sky, t) /\ TotalIn(sky, t) \in Nat
  BY Order DEF Placed, TypeOK
<1>2. /\ \A e \in W : \/ e \in V /\ (n = 1 => e.gnss # g)
                      \/ e \in N /\ (n = 1 \/ Len(work) # MaxWork)
      /\ \A e \in V : (n = 1 => e.gnss # g) => e \in W
      /\ (\A e \in N : e \in W) \/ (full' /\ Len(work') = MaxWork)
      /\ n # 1 /\ Len(work) = MaxWork => Len(work') = MaxWork
      /\ full => full'
  BY <1>1, WorkAfter
<1>3. n # 1 => PartOf(t, n)
  <2> SUFFICES ASSUME n # 1
               PROVE  PartOf(t, n)
    OBVIOUS
  <2>1. Len(Sentences) \in Nat
    BY Now
  <2>2. Amid(t, n)
    BY <1>1, <2>1 DEF Amid, Placed
  <2>3. expect[g] = n
    BY DEF Accepted
  <2>4. ~ Unheard(t)
    BY <1>1, <2>3 DEF Unheard
  <2> QED
    BY <2>2, <2>4 DEF InSync
<1>4. /\ \A e \in N : e.gnss = g /\ e.num = n /\ e.list = l /\ e.cycle = cycle
      /\ \A i \in DOMAIN l[n] : \E e \in N : e.svid = l[n][i]
  <2> DEFINE E == NewEntries(t, n)
  <2>1. DOMAIN E = DOMAIN l[n] /\ \A i \in DOMAIN l[n] : E[i] = NewEntry(t, n, i)
    BY <1>1, NewEntriesAre
  <2> HIDE DEF E
  <2>2. \A i \in DOMAIN E : /\ E[i].gnss = g /\ E[i].num = n /\ E[i].list = l
                            /\ E[i].cycle = cycle /\ E[i].svid = l[n][i]
    <3> TAKE i \in DOMAIN E
    <3>1. E[i] = NewEntry(t, n, i)
      BY <2>1
    <3> QED
      BY <3>1 DEF NewEntry
  <2>3. \A e \in Of(E) : e.gnss = g /\ e.num = n /\ e.list = l /\ e.cycle = cycle
    BY <2>2 DEF Of
  <2>4. \A i \in DOMAIN l[n] : \E e \in Of(E) : e.svid = l[n][i]
    BY <2>1, <2>2 DEF Of
  <2> QED
    BY <2>3, <2>4 DEF E
<1>5. (\A e \in N : e \in W) => In(W, g, l, n, cycle)
  <2> HIDE DEF N, W, l, g
  <2> QED
    BY <1>4 DEF In
\* What the buffer had of the list stays in it.
<1>6. ASSUME NEW m, n # 1, In(V, g, l, m, cycle)
      PROVE  In(W, g, l, m, cycle)
  <2> HIDE DEF V, W, l, g
  <2> QED
    BY <1>2, <1>6 DEF In
<1>7. ASSUME NEW e \in W, e.gnss = g
      PROVE  /\ e.cycle = cycle /\ e.num \in 1..n /\ e.list = l
             /\ \A m \in 1..(e.num - 1) : In(W, g, l, m, cycle)
  <2>1. CASE e \in N /\ (n = 1 \/ Len(work) # MaxWork)
    <3>1. e.cycle = cycle /\ e.num = n /\ e.list = l
      BY <1>4, <2>1
    <3>2. ASSUME NEW m \in 1..(n - 1)
          PROVE  In(W, g, l, m, cycle)
      <4>1. n # 1
        BY <1>1
      <4>2. In(V, g, l, m, cycle)
        BY <1>3, <2>1, <4>1 DEF PartOf
      <4> QED
        BY <1>6, <4>1, <4>2
    <3> HIDE DEF In
    <3> QED
      BY <1>1, <3>1, <3>2
  <2>2. CASE e \in V /\ n # 1
    <3>1. /\ e.cycle = cycle /\ e.num \in 1..(n - 1) /\ e.list = l
          /\ \A m \in 1..(e.num - 1) : In(V, g, l, m, cycle)
      BY <1>3, <1>7, <2>2 DEF PartOf
    <3>2. e.num \in 1..n
      BY <1>1, <3>1
    <3> QED
      BY <1>6, <2>2, <3>1, <3>2
  <2> QED
    BY <1>2, <1>7, <2>1, <2>2
<1>8. (\A m \in 1..n : In(W, g, l, m, cycle)) \/ (full' /\ Len(work') = MaxWork)
  <2> SUFFICES ASSUME ~ (full' /\ Len(work') = MaxWork), NEW m \in 1..n
               PROVE  In(W, g, l, m, cycle)
    OBVIOUS
  <2>1. CASE m = n
    BY <1>2, <1>5, <2>1
  <2>2. CASE m # n
    <3>1. n # 1 /\ m \in 1..(n - 1)
      BY <1>1, <2>2
    <3>2. In(V, g, l, m, cycle)
      BY <1>2, <1>3, <3>1 DEF PartOf
    <3> QED
      BY <1>6, <3>1, <3>2
  <2> QED
    BY <2>1, <2>2
<1>9. \A e : e.gnss # g => (e \in W <=> e \in V)
  BY <1>2, <1>4
<1> HIDE DEF W
<1>10. Filled(t, n) <=>
         /\ \A e \in W : e.gnss = g =>
              /\ e.cycle = cycle /\ e.num \in 1..n /\ e.list = l
              /\ \A m \in 1..(e.num - 1) : In(W, g, l, m, cycle)
         /\ (\A m \in 1..n : In(W, g, l, m, cycle)) \/ (full' /\ Len(work') = MaxWork)
         /\ \A e : e.gnss # g => (e \in W <=> e \in V)
         /\ full => full'
  BY DEF Filled, W
<1> QED
  BY <1>2, <1>7, <1>8, <1>9, <1>10

\* What passed when the next sentence was fed.
LEMMA PassedAfter ==
  ASSUME TypeOK, UNCHANGED sky, at \in 1..Len(Sentences), at' = at + 1, NEW g
  PROVE  /\ Passed(g)' => \/ Passed(g)
                          \/ \E t \in Talkers : \E n \in Nat :
                               Sentences[at] = Gsv(sky, t, n) /\ GnssId[t] = g
         /\ PassedEnd(g)' => \/ PassedEnd(g)
                             \/ \E t \in Talkers :
                                  /\ Sentences[at] = Gsv(sky, t, TotalIn(sky, t))
                                  /\ GnssId[t] = g
<1>1. Sentences' = Sentences /\ at \in Nat
  BY Now, SentencesAre, SentencesArePrime
<1>2. \A p : p \in 1..(at' - 1) <=> p \in 1..(at - 1) \/ p = at
  BY <1>1
<1> QED
  BY <1>1, <1>2 DEF Passed, PassedEnd

LEMMA EndPasses ==
  ASSUME TypeOK, NEW g, PassedEnd(g)
  PROVE  Passed(g)
  BY Order DEF Passed, PassedEnd, TypeOK

LEMMA SameWhole ==
  ASSUME NEW V, NEW W, NEW g, NEW b, NEW c, WholeIn(V, g, b), b => c,
         \A e : e.gnss = g => (e \in W <=> e \in V)
  PROVE  WholeIn(W, g, c)
<1>1. ASSUME NEW l, NEW m, NEW k, In(V, g, l, m, k)
      PROVE  In(W, g, l, m, k)
  BY <1>1 DEF In
<1> QED
  BY <1>1 DEF WholeIn

LEMMA AcceptedFollowed ==
  ASSUME TypeOK, TypeOK', NEW t \in Talkers, NEW n \in Nat,
         Placed(sky, Sentences, at, t, n), at \in 1..Len(Sentences), at' = at + 1,
         Accepted(t, n), Followed, UNCHANGED <<cycle, sky>>
  PROVE  Followed'
<1> DEFINE g == GnssId[t]
<1>1. /\ n \in 1..TotalIn(sky, t) /\ TotalIn(sky, t) \in Nat
      /\ Sentences[at] = Gsv(sky, t, n) /\ DOMAIN sky[t] = 1..TotalIn(sky, t)
  BY Order DEF Placed, TypeOK
<1>2. /\ \A e \in Of(work)' : e.gnss = g =>
           /\ e.cycle = cycle /\ e.num \in 1..n /\ e.list = sky[t]
           /\ \A m \in 1..(e.num - 1) : In(Of(work)', g, sky[t], m, cycle)
      /\ \/ \A m \in 1..n : In(Of(work)', g, sky[t], m, cycle)
         \/ full' /\ Len(work') = MaxWork
      /\ \A e : e.gnss # g => (e \in Of(work)' <=> e \in Of(work))
      /\ full => full'
  BY FilledIs DEF Filled, Followed
<1>3. /\ n < TotalIn(sky, t) => Amid(t, n + 1)'
      /\ \A u \in Talkers : \A m \in Nat :
           Amid(u, m)' => u = t /\ m = n + 1 /\ n < TotalIn(sky, t)
  BY AfterGsv
<1>5. InSync'
  <2> SUFFICES ASSUME NEW u \in Talkers, NEW m \in Nat, Amid(u, m)'
               PROVE  PartOf(u, m)'
    BY DEF InSync
  <2>1. u = t /\ m = n + 1 /\ m - 1 = n
    BY <1>3, <1>1
  <2>2. expect'[g] = m
    BY <2>1, GnssIs DEF Accepted, TypeOK
  <2>3. \A e \in Of(work)' : e.gnss = g =>
          /\ e.cycle = cycle' /\ e.num \in 1..(m - 1) /\ e.list = sky'[t]
          /\ \A k \in 1..(e.num - 1) : In(Of(work)', g, sky'[t], k, cycle')
    BY <1>2, <2>1
  <2>4. \/ \A k \in 1..(m - 1) : In(Of(work)', g, sky'[t], k, cycle')
        \/ full' /\ Len(work') = MaxWork
    BY <1>2, <2>1
  <2> QED
    BY <2>1, <2>2, <2>3, <2>4 DEF PartOf
<1>6. WorkWhole'
  <2> SUFFICES ASSUME NEW h \in Ids, Between(h)'
               PROVE  WholeIn(Of(work)', h, full')
    BY DEF WorkWhole
  <2>1. CASE h # g
    <3>1. ASSUME NEW u \in Talkers, NEW m \in Nat, Amid(u, m)
          PROVE  GnssId[u] # h
      <4>1. Gsv(sky, u, m) = Gsv(sky, t, n)
        BY <1>1, <3>1 DEF Amid
      <4>2. u = t
        BY <4>1, SameGsv
      <4> QED
        BY <2>1, <4>2
    <3>2. WholeIn(Of(work), h, full)
      BY <3>1 DEF Followed, WorkWhole, Between
    <3>3. \A e : e.gnss = h => (e \in Of(work)' <=> e \in Of(work))
      BY <1>2, <2>1
    <3> QED
      BY <1>2, <3>2, <3>3, SameWhole
  <2>2. CASE h = g
    <3>1. n = TotalIn(sky, t)
      <4>1. ~ Amid(t, n + 1)'
        BY <1>1, <2>2 DEF Between
      <4> QED
        BY <1>1, <1>3, <4>1
    <3>2. ~ full' => \A m \in DOMAIN sky[t] : In(Of(work)', g, sky[t], m, cycle)
      BY <1>1, <1>2, <3>1
    <3> DEFINE W == Of(work)'
    <3> HIDE DEF W
    <3>3. WholeIn(W, g, full')
      <4> SUFFICES ASSUME NEW e \in W, e.gnss = g
                   PROVE  /\ \A m \in 1..(e.num - 1) : In(W, g, e.list, m, e.cycle)
                          /\ ~ full' => \A m \in DOMAIN e.list : In(W, g, e.list, m, e.cycle)
                          /\ \A f \in W : f.gnss = g => f.cycle = e.cycle
        BY DEF WholeIn
      <4>1. /\ e.cycle = cycle /\ e.list = sky[t]
            /\ \A m \in 1..(e.num - 1) : In(W, g, sky[t], m, cycle)
        BY <1>2 DEF W
      <4>2. \A f \in W : f.gnss = g => f.cycle = cycle
        BY <1>2 DEF W
      <4>3. ~ full' => \A m \in DOMAIN sky[t] : In(W, g, sky[t], m, cycle)
        BY <3>2 DEF W
      <4> QED
        BY <4>1, <4>2, <4>3
    <3> QED
      BY <2>2, <3>3 DEF W
  <2> QED
    BY <2>1, <2>2
<1>7. FreshWork'
  <2> SUFFICES ASSUME NEW e \in Of(work)'
               PROVE  /\ e.cycle = cycle \/ e.cycle = cycle - 1
                      /\ Passed(e.gnss)' => e.cycle = cycle
    BY DEF FreshWork, Recent
  <2>1. CASE e.gnss = g
    BY <1>2, <2>1
  <2>2. CASE e.gnss # g
    <3>1. e \in Of(work)
      BY <1>2, <2>2
    <3>2. Recent(e) /\ (Passed(e.gnss) => e.cycle = cycle)
      BY <3>1 DEF Followed, FreshWork
    <3>3. ASSUME Passed(e.gnss)'
          PROVE  Passed(e.gnss)
      <4>1. Passed(e.gnss) \/ \E u \in Talkers : \E m \in Nat :
              Sentences[at] = Gsv(sky, u, m) /\ GnssId[u] = e.gnss
        BY <3>3, PassedAfter
      <4>2. \A u \in Talkers : \A m \in Nat : Sentences[at] = Gsv(sky, u, m) => u = t
        <5> TAKE u \in Talkers, m \in Nat
        <5> HAVE Sentences[at] = Gsv(sky, u, m)
        <5>1. Gsv(sky, u, m) = Gsv(sky, t, n)
          BY <1>1
        <5> QED
          BY <5>1, SameGsv
      <4> QED
        BY <2>2, <4>1, <4>2
    <3> QED
      BY <3>2, <3>3 DEF Recent
  <2> QED
    BY <2>1, <2>2
<1>8. CASE n = TotalIn(sky, t)
  <2>1. sv' = work'
    BY <1>8 DEF Accepted
  <2>2. Of(sv)' = Of(work)'
    BY <2>1 DEF Of
  <2>3. \A h : Between(h)'
    BY <1>1, <1>3, <1>8 DEF Between
  <2>4. ShownWhole'
    BY <1>6, <2>2, <2>3 DEF ShownWhole, WorkWhole
  <2>5. ASSUME NEW e \in Of(work)'
        PROVE  (Recent(e) /\ (PassedEnd(e.gnss) => e.cycle = cycle))'
    <3>1. (Recent(e) /\ (Passed(e.gnss) => e.cycle = cycle))'
      BY <1>7 DEF FreshWork
    <3>2. PassedEnd(e.gnss)' => Passed(e.gnss)'
      <4> SUFFICES ASSUME PassedEnd(e.gnss)'
                   PROVE  Passed(e.gnss)'
        OBVIOUS
      <4>1. PICK p \in 1..(at - 1)', u \in Talkers :
              (Sentences[p] = Gsv(sky, u, TotalIn(sky, u)) /\ GnssId[u] = e.gnss)'
        BY DEF PassedEnd
      <4>2. TotalIn(sky, u)' \in Nat
        BY Order DEF TypeOK
      <4> QED
        BY <4>1, <4>2 DEF Passed
    <3> QED
      BY <3>1, <3>2
  <2>6. FreshShown'
    BY <2>2, <2>5 DEF FreshShown
  <2> QED
    BY <1>5, <1>6, <1>7, <2>4, <2>6 DEF Followed
<1>9. CASE n # TotalIn(sky, t)
  <2>1. sv' = sv
    BY <1>9 DEF Accepted
  <2>2. Of(sv)' = Of(sv)
    BY <2>1 DEF Of
  <2>3. ShownWhole'
    <3> SUFFICES ASSUME NEW h \in Ids
                 PROVE  WholeIn(Of(sv), h, full')
      BY <2>2 DEF ShownWhole
    <3>1. WholeIn(Of(sv), h, full)
      BY DEF Followed, ShownWhole
    <3> QED
      BY <1>2, <3>1, SameWhole
  <2>4. ASSUME NEW e \in Of(sv)
        PROVE  (Recent(e) /\ (PassedEnd(e.gnss) => e.cycle = cycle))'
    <3>1. Recent(e) /\ (PassedEnd(e.gnss) => e.cycle = cycle)
      BY DEF Followed, FreshShown
    <3>2. ASSUME NEW u \in Talkers, Sentences[at] = Gsv(sky, u, TotalIn(sky, u))
          PROVE  FALSE
      <4>1. Gsv(sky, u, TotalIn(sky, u)) = Gsv(sky, t, n)
        BY <1>1, <3>2
      <4>2. u = t /\ TotalIn(sky, u) = n
        BY <4>1, SameGsv
      <4> QED
        BY <1>9, <4>2
    <3>3. PassedEnd(e.gnss)' => PassedEnd(e.gnss)
      BY <3>2, PassedAfter
    <3> QED
      BY <3>1, <3>3 DEF Recent
  <2>5. FreshShown'
    BY <2>2, <2>4 DEF FreshShown
  <2> QED
    BY <1>5, <1>6, <1>7, <2>3, <2>5 DEF Followed
<1> QED
  BY <1>8, <1>9

\* Only a monitor started in the middle of a list refuses a sentence.
LEMMA RefusedFollowed ==
  ASSUME TypeOK, TypeOK', NEW t \in Talkers, NEW n \in Nat,
         Placed(sky, Sentences, at, t, n), at \in 1..Len(Sentences), at' = at + 1,
         Refused(t, n), Followed, UNCHANGED <<cycle, sky>>
  PROVE  Followed'
<1> DEFINE g == GnssId[t]
<1>1. n \in 1..TotalIn(sky, t) /\ TotalIn(sky, t) \in Nat /\ Sentences[at] = Gsv(sky, t, n)
  BY Order DEF Placed, TypeOK
<1>2. Unheard(t)
  <2>1. Len(Sentences) \in Nat
    BY Now
  <2>2. Amid(t, n)
    BY <1>1, <2>1 DEF Amid, Refused
  <2>3. ~ PartOf(t, n)
    BY DEF PartOf, Refused
  <2> QED
    BY <2>2, <2>3 DEF Followed, InSync
<1>3. cycle = 0 /\ \A e \in Of(work) : e.gnss # g
  BY <1>2 DEF Unheard
<1>4. Of(work)' = Of(work) /\ Of(sv)' = Of(sv)
  BY DEF Of, Refused
<1>5. expect'[g] = 0
  BY GnssIs DEF Refused, TypeOK
<1>6. \A u \in Talkers : \A m \in Nat : Amid(u, m)' => u = t
  BY AfterGsv
<1>7. InSync'
  <2>1. Unheard(t)'
    BY <1>3, <1>4, <1>5 DEF Unheard
  <2> QED
    BY <1>6, <2>1 DEF InSync
<1>8. WorkWhole'
  <2> SUFFICES ASSUME NEW h \in Ids
               PROVE  WholeIn(Of(work)', h, full')
    BY DEF WorkWhole
  <2>1. CASE h # g
    <3>1. ASSUME NEW u \in Talkers, NEW m \in Nat, Amid(u, m)
          PROVE  GnssId[u] # h
      <4>1. Gsv(sky, u, m) = Gsv(sky, t, n)
        BY <1>1, <3>1 DEF Amid
      <4>2. u = t
        BY <4>1, SameGsv
      <4> QED
        BY <2>1, <4>2
    <3>2. WholeIn(Of(work), h, full)
      BY <3>1 DEF Followed, WorkWhole, Between
    <3> QED
      BY <1>4, <3>2 DEF Refused
  <2>2. CASE h = g
    BY <1>3, <1>4, <2>2 DEF WholeIn
  <2> QED
    BY <2>1, <2>2
<1>9. ShownWhole'
  BY <1>4 DEF Followed, ShownWhole, Refused
<1>10. ASSUME NEW e \in Of(work) \cup Of(sv)
       PROVE  e.cycle = cycle'
  <2>1. Recent(e)
    BY DEF Followed, FreshWork, FreshShown
  <2>2. e.cycle \in 0..MaxCycle /\ MaxCycle \in Nat
    BY TypesIs DEF Entry
  <2> QED
    BY <1>3, <2>1, <2>2 DEF Recent
<1>11. FreshWork' /\ FreshShown'
  BY <1>4, <1>10 DEF FreshWork, FreshShown, Recent
<1> QED
  BY <1>7, <1>8, <1>9, <1>11 DEF Followed

\* The other sentences concern no list; a GSA only sets marks.
LEMMA HeadFollowed ==
  ASSUME TypeOK, TypeOK', at \in 1..3, at' = at + 1, at \in 1..Len(Sentences),
         UNCHANGED <<cycle, sky, work, expect, full>>, Followed,
         DOMAIN sv' = DOMAIN sv,
         \A i \in DOMAIN sv : Remarked(sv[i], sv'[i])
  PROVE  Followed'
<1>1. \A u \in Talkers : \A m \in Nat : ~ Amid(u, m) /\ ~ Amid(u, m)'
  BY AfterHead
<1>2. Of(work)' = Of(work)
  BY DEF Of
<1>3. ASSUME NEW e \in Of(sv)'
      PROVE  \E f \in Of(sv) : Remarked(f, e)
  BY DEF Of
<1>4. ASSUME NEW f \in Of(sv)
      PROVE  \E e \in Of(sv)' : Remarked(f, e)
  BY DEF Of
<1>5. InSync'
  BY <1>1 DEF InSync
<1>6. WorkWhole'
  <2>1. \A g \in Ids : WholeIn(Of(work), g, full)
    BY <1>1 DEF Followed, WorkWhole, Between
  <2> QED
    BY <1>2, <2>1 DEF WorkWhole
<1>7. ShownWhole'
  <2> DEFINE V == Of(sv)
             W == Of(sv)'
  <2>1. \A e \in W : \E f \in V : Remarked(f, e)
    BY <1>3
  <2>2. \A f \in V : \E e \in W : Remarked(f, e)
    BY <1>4
  <2> HIDE DEF V, W
  <2> SUFFICES ASSUME NEW g \in Ids, NEW e \in W, e.gnss = g
               PROVE  /\ \A m \in 1..(e.num - 1) : In(W, g, e.list, m, e.cycle)
                      /\ ~ full => \A m \in DOMAIN e.list : In(W, g, e.list, m, e.cycle)
                      /\ \A f \in W : f.gnss = g => f.cycle = e.cycle
    BY DEF ShownWhole, WholeIn, W
  <2>3. PICK d \in V : Remarked(d, e)
    BY <2>1
  <2>4. WholeIn(V, g, full) /\ d.gnss = g
    BY <2>3 DEF Followed, ShownWhole, V, Remarked
  <2>5. /\ \A m \in 1..(d.num - 1) : In(V, g, d.list, m, d.cycle)
        /\ ~ full => \A m \in DOMAIN d.list : In(V, g, d.list, m, d.cycle)
        /\ \A f \in V : f.gnss = g => f.cycle = d.cycle
    BY <2>4 DEF WholeIn
  <2>6. e.num = d.num /\ e.list = d.list /\ e.cycle = d.cycle
    BY <2>3 DEF Remarked
  <2>7. ASSUME NEW m, In(V, g, d.list, m, d.cycle)
        PROVE  In(W, g, d.list, m, d.cycle)
    <3> SUFFICES ASSUME NEW i \in DOMAIN d.list[m]
                 PROVE  \E f \in W : /\ f.gnss = g /\ f.cycle = d.cycle
                                     /\ f.num = m /\ f.svid = d.list[m][i]
      BY DEF In
    <3>1. PICK c \in V : /\ c.gnss = g /\ c.cycle = d.cycle
                         /\ c.num = m /\ c.svid = d.list[m][i]
      BY <2>7 DEF In
    <3>2. PICK f \in W : Remarked(c, f)
      BY <2>2
    <3> QED
      BY <3>1, <3>2 DEF Remarked
  <2>8. ASSUME NEW f \in W, f.gnss = g
        PROVE  f.cycle = d.cycle
    <3>1. PICK c \in V : Remarked(c, f)
      BY <2>1
    <3> QED
      BY <2>5, <2>8, <3>1 DEF Remarked
  <2> QED
    BY <2>5, <2>6, <2>7, <2>8
<1>8. ASSUME NEW g
      PROVE  (Passed(g)' => Passed(g)) /\ (PassedEnd(g)' => PassedEnd(g))
  <2>1. \A t, n : Sentences[at] # Gsv(sky, t, n)
    BY Now
  <2> QED
    BY <2>1, PassedAfter
<1>9. FreshWork'
  BY <1>2, <1>8 DEF Followed, FreshWork, Recent
<1>10. FreshShown'
  <2> SUFFICES ASSUME NEW e \in Of(sv)'
               PROVE  (Recent(e) /\ (PassedEnd(e.gnss) => e.cycle = cycle))'
    BY DEF FreshShown
  <2>1. PICK d \in Of(sv) : e.gnss = d.gnss /\ e.cycle = d.cycle
    BY <1>3 DEF Remarked
  <2>2. Recent(d) /\ (PassedEnd(d.gnss) => d.cycle = cycle)
    BY DEF Followed, FreshShown
  <2> QED
    BY <1>8, <2>1, <2>2 DEF Recent
<1> QED
  BY <1>5, <1>6, <1>7, <1>9, <1>10 DEF Followed

\* At the end of a cycle every list has come, so that what is a cycle older
\* in the next one is no older than that.
LEMMA CycleFollowed ==
  ASSUME TypeOK, TypeOK', NextCycle, Followed
  PROVE  Followed'
<1>1. at > Len(Sentences) /\ at' = 1 /\ cycle' = cycle + 1 /\ cycle \in Nat
      /\ UNCHANGED <<work, expect, sv, full>>
  BY NmeaAssumption DEF NextCycle, host, TypeOK
<1>2. Len(Sentences) \in Nat /\ at \in Nat
  BY Now
<1>3. ASSUME NEW u \in Talkers, NEW m \in Nat
      PROVE  ~ Amid(u, m) /\ ~ Amid(u, m)'
  <2>1. ~ Amid(u, m)
    BY <1>1, <1>2 DEF Amid
  <2>2. Sentences'[1] = [type |-> "RMC"]
    <3>1. sky' \in Skies
      BY DEF TypeOK
    <3>2. Cycle(sky')[1] = [type |-> "RMC"]
      BY <3>1, CycleIs
    <3> QED
      BY <3>2, SentencesArePrime
  <2>3. Sentences'[1].type = "RMC" /\ Gsv(sky', u, m).type = "GSV"
    BY <2>2 DEF Gsv
  <2>4. ~ Amid(u, m)'
    BY <1>1, <2>3 DEF Amid
  <2> QED
    BY <2>1, <2>4
<1>4. ASSUME NEW g \in Ids
      PROVE  Passed(g) /\ PassedEnd(g)
  <2>1. PICK t \in Talkers : GnssId[t] = g
    BY DEF Ids
  <2>2. PICK p \in 1..Len(Sentences) : Sentences[p] = Gsv(sky, t, TotalIn(sky, t))
    BY Now DEF Ends
  <2>3. p \in 1..(at - 1)
    BY <1>1, <1>2
  <2>4. PassedEnd(g)
    BY <2>1, <2>2, <2>3 DEF PassedEnd
  <2> QED
    BY <2>4, EndPasses
<1>5. ASSUME NEW e \in Of(work) \cup Of(sv)
      PROVE  e.cycle = cycle
  <2>1. e.gnss \in Ids
    BY TypesIs DEF Entry
  <2> QED
    BY <1>4, <2>1 DEF Followed, FreshWork, FreshShown
<1>6. \A g : ~ Passed(g)' /\ ~ PassedEnd(g)'
  <2>1. 1..(at' - 1) = {}
    BY <1>1
  <2> QED
    BY <2>1 DEF Passed, PassedEnd
<1>7. Of(work)' = Of(work) /\ Of(sv)' = Of(sv)
  BY <1>1 DEF Of
<1>8. InSync'
  BY <1>3 DEF InSync
<1>9. WorkWhole'
  <2>1. \A g \in Ids : WholeIn(Of(work), g, full)
    BY <1>3 DEF Followed, WorkWhole, Between
  <2> QED
    BY <1>1, <1>7, <2>1 DEF WorkWhole
<1>10. ShownWhole'
  BY <1>1, <1>7 DEF Followed, ShownWhole
<1>11. FreshWork' /\ FreshShown'
  <2>1. cycle = cycle' - 1
    BY <1>1
  <2> QED
    BY <1>5, <1>6, <1>7, <2>1 DEF FreshWork, FreshShown, Recent
<1> QED
  BY <1>8, <1>9, <1>10, <1>11 DEF Followed

LEMMA InitIInv == Init => IInv
<1> SUFFICES ASSUME Init
             PROVE  Followed
  BY InitSingle DEF IInv
<1>1. TypeOK
  BY InitSingle DEF Single
<1>2. Of(work) = {} /\ Of(sv) = {}
  BY DEF Init, Of
<1>3. \A t \in Talkers : Unheard(t)
  BY <1>2, GnssIs DEF Init, Unheard
<1> QED
  BY <1>2, <1>3 DEF Followed, InSync, WorkWhole, ShownWhole, WholeIn, FreshWork, FreshShown

LEMMA NextIInv == IInv /\ [Next]_vars => IInv'
<1> SUFFICES ASSUME IInv, [Next]_vars, ~ lost'
             PROVE  Followed'
  BY NextSingle DEF IInv
<1>1. Single /\ Single' /\ TypeOK /\ TypeOK'
  BY NextSingle DEF IInv, Single
<1>2. CASE Feed
  <2>1. at \in 1..Len(Sentences) /\ at' = at + 1 /\ UNCHANGED <<cycle, sky, fix, used, lost>>
    BY <1>1, <1>2, FedIs
  <2>2. CASE (HandleRmc \/ HandleGga) /\ at \in 1..3
    <3>1. UNCHANGED <<work, expect, sv, full>>
      BY <2>2 DEF HandleRmc, HandleGga
    <3>2. Followed
      BY <2>1 DEF IInv
    <3>3. DOMAIN sv' = DOMAIN sv /\ \A i \in DOMAIN sv : Remarked(sv[i], sv'[i])
      BY <3>1 DEF Remarked
    <3> QED
      BY <1>1, <2>1, <2>2, <3>1, <3>2, <3>3, HeadFollowed
  <2>3. CASE HandleGsa /\ at \in 1..3
    <3>1. UNCHANGED <<work, expect, full>> /\ DOMAIN sv' = DOMAIN sv
      BY <2>3 DEF HandleGsa
    <3>2. Followed
      BY <2>1 DEF IInv
    <3>3. \A i \in DOMAIN sv : Remarked(sv[i], sv'[i])
      BY <1>1, <2>3, GsaSingle
    <3> QED
      BY <1>1, <2>1, <2>3, <3>1, <3>2, <3>3, HeadFollowed
  <2>4. ASSUME NEW t \in Talkers, NEW n \in Nat, Placed(sky, Sentences, at, t, n),
               Refused(t, n)
        PROVE  Followed'
    <3>1. Followed
      BY <2>1 DEF IInv
    <3> QED
      BY <1>1, <2>1, <2>4, <3>1, RefusedFollowed
  <2>5. ASSUME NEW t \in Talkers, NEW n \in Nat, Placed(sky, Sentences, at, t, n),
               Accepted(t, n)
        PROVE  Followed'
    <3>1. Followed
      BY <2>1 DEF IInv
    <3> QED
      BY <1>1, <2>1, <2>5, <3>1, AcceptedFollowed
  <2> QED
    BY <1>1, <1>2, <2>2, <2>3, <2>4, <2>5, FedIs
<1>3. CASE Lose
  BY <1>3 DEF Lose
<1>4. CASE NextCycle
  <2>1. Followed
    BY <1>4 DEF NextCycle, IInv
  <2> QED
    BY <1>1, <1>4, <2>1, CycleFollowed
<1>5. CASE UNCHANGED vars
  <2>1. Followed /\ UNCHANGED <<cycle, sky, at, work, expect, sv, full>>
    BY <1>5 DEF vars, IInv
  <2>2. /\ Of(work)' = Of(work) /\ Of(sv)' = Of(sv) /\ Sentences' = Sentences
        /\ \A t \in Talkers : \A n \in Nat : Amid(t, n)' <=> Amid(t, n)
        /\ \A g : Passed(g)' <=> Passed(g)
        /\ \A g : PassedEnd(g)' <=> PassedEnd(g)
    BY <2>1 DEF Of, Sentences, GsvOf, Amid, Passed, PassedEnd
  <2>3. InSync'
    BY <2>1, <2>2 DEF Followed, InSync, PartOf, Unheard
  <2>4. WorkWhole' /\ ShownWhole'
    BY <2>1, <2>2 DEF Followed, WorkWhole, ShownWhole, Between
  <2>5. FreshWork' /\ FreshShown'
    BY <2>1, <2>2 DEF Followed, FreshWork, FreshShown, Recent
  <2> QED
    BY <2>3, <2>4, <2>5 DEF Followed
<1> QED
  BY <1>2, <1>3, <1>4, <1>5 DEF Next

LEMMA AlwaysIInv == Spec => []IInv
  BY InitIInv, NextIInv, PTL DEF Spec

LEMMA ShownIs == Shown = Of(sv)
  BY DEF Shown, Of

LEMMA ShownInIs ==
  ASSUME NEW e, NEW n
  PROVE  SentenceShown(e, n) <=> In(Of(sv), e.gnss, e.list, n, e.cycle)
  BY ShownIs DEF SentenceShown, In

LEMMA ShownWholeIs ==
  ASSUME IInv, ~ lost, NEW e \in Shown
  PROVE  /\ \A n \in 1..(e.num - 1) : SentenceShown(e, n)
         /\ ~ full => \A n \in DOMAIN e.list : SentenceShown(e, n)
         /\ \A f \in Shown : f.gnss = e.gnss => f.cycle = e.cycle
<1>1. e \in Of(sv)
  BY ShownIs
<1>2. e.gnss \in Ids
  BY <1>1, TypesIs DEF IInv, Single, Entry
<1>3. WholeIn(Of(sv), e.gnss, full)
  BY <1>2 DEF IInv, Followed, ShownWhole
<1> QED
  BY <1>1, <1>3, ShownIs, ShownInIs DEF WholeIn

\* While no sentence is lost every constellation shown is the list of one cycle,
\* although all talkers publish through one buffer (handle_gsv), whole or, where
\* the buffer was full, up to some satellite; however long the lists are and
\* however small the buffer (nmea.c:182).
THEOREM ListsWhole == Spec => []ViewWhole
<1>1. IInv => ViewWhole
  BY ShownWholeIs DEF ViewWhole
<1> QED
  BY <1>1, AlwaysIInv, PTL

\* While no sentence is lost nothing shown is older than the previous cycle
\* (handle_gsv, purge_gnss), also where the buffer was full.
THEOREM ListsFresh == Spec => []ViewFresh
<1>1. IInv => ViewFresh
  <2> SUFFICES ASSUME IInv, ~ lost, NEW e \in Of(sv)
               PROVE  e.cycle >= cycle - 1
    BY ShownIs DEF ViewFresh
  <2>1. cycle \in Nat
    BY NmeaAssumption DEF IInv, Single, TypeOK
  <2>2. Recent(e)
    BY DEF IInv, Followed, FreshShown
  <2> QED
    BY <2>1, <2>2 DEF Recent
<1> QED
  BY <1>1, AlwaysIInv, PTL
=============================================================================
