-------------------------- MODULE DeviceCliProofs --------------------------
(***************************************************************************)
(* The command line for any models attached, any arguments and any number  *)
(* of options: each option sets what it names and nothing else, what is    *)
(* sent is within the rating, and what is reported is what the device has. *)
(* Before it the solver of the Mini, for any input frequency, limits and   *)
(* number of multiples tried: the chain it returns keeps the constraints,  *)
(* and the frequency read back from it is the one asked for.               *)
(***************************************************************************)
EXTENDS DeviceCli, WellFoundedInduction, TLAPS

-----------------------------------------------------------------------------
(* The chain the solver of the Mini returns.                               *)

\* A set of naturals has a least element.
LEMMA MinExists ==
  ASSUME NEW S \in SUBSET Nat, S # {}
  PROVE  \E m \in S : \A n \in S : m <= n
<1> DEFINE R == {ss \in Nat \X Nat : ss[1] < ss[2]}
<1>1. IsWellFoundedOn(R, Nat)
  BY NatLessThanWellFounded, Zenon DEF OpToRel
<1>2. PICK m \in S : \A n \in S : ~ (<<n, m>> \in R)
  <2> HIDE DEF R
  <2> QED
    BY <1>1, WFMin, Zenon
<1>3. \A n \in S : ~ (n < m)
  BY <1>2
<1> QED
  BY <1>3

\* Products of a divisor and what the division gives.
LEMMA DivTimes ==
  ASSUME NEW n \in Nat, NEW d \in Nat \ {0}, n % d = 0
  PROVE  n \div d \in Nat /\ d * (n \div d) = n
  OBVIOUS

LEMMA GcdDivides ==
  ASSUME NEW f \in Nat
  PROVE  /\ Gcd(f) \in Nat \ {0} /\ P(f) \in Nat /\ Q(f) \in Nat
         /\ f = Gcd(f) * P(f) /\ Fin = Gcd(f) * Q(f)
         /\ \A e \in CommonDivisors(f) : e <= Gcd(f)
<1>1. Fin \in Nat \ {0}
  BY PllAssumption
<1> DEFINE C == CommonDivisors(f)
           Rest == {Fin - d : d \in C}
<1>2. C \subseteq 1..Fin
  BY DEF CommonDivisors
<1>3. 1 \in C
  BY <1>1 DEF CommonDivisors, Divides
<1>4. \E d \in C : \A e \in C : e <= d
  <2>1. Rest \in SUBSET Nat /\ Rest # {}
    BY <1>1, <1>2, <1>3
  <2>2. PICK r \in Rest : \A t \in Rest : r <= t
    BY <2>1, MinExists
  <2>3. PICK d \in C : r = Fin - d
    BY <2>2
  <2>4. ASSUME NEW e \in C PROVE e <= d
    <3>1. Fin - d <= Fin - e
      BY <2>2, <2>3
    <3>2. d \in Nat /\ e \in Nat
      BY <1>2, <2>3
    <3> QED
      BY <1>1, <3>1, <3>2
  <2> QED
    BY <2>4
<1>5. Gcd(f) \in C /\ \A e \in C : e <= Gcd(f)
  BY <1>4 DEF Gcd
<1>6. Gcd(f) \in Nat \ {0} /\ f % Gcd(f) = 0 /\ Fin % Gcd(f) = 0
  BY <1>2, <1>5 DEF CommonDivisors, Divides
<1> QED
  BY <1>1, <1>5, <1>6, DivTimes DEF P, Q

\* The chain of an iteration that fits.
LEMMA ChainExact ==
  ASSUME NEW f \in Nat, NEW c \in Iterations(f), Fits(f, c)
  PROVE  LET ch == ChainOf(f, c)
         IN  /\ ch \in ChainsWith(f, {1})
             /\ ch.n2hs * ch.n2ls = c.k * P(f)
<1> DEFINE ls == (c.k * P(f)) \div c.nh
           n1 == (c.k * Q(f)) \div c.nh1
           g == Gcd(f)
<1>1. /\ c.k \in Nat /\ c.nh \in HS /\ c.nh1 \in HS
      /\ c.nh \in Nat \ {0} /\ c.nh1 \in Nat \ {0}
  BY DEF Iterations, Multiples, HS
<1>2. g \in Nat \ {0} /\ P(f) \in Nat /\ Q(f) \in Nat /\ f = g * P(f) /\ Fin = g * Q(f)
  BY GcdDivides
<1>3. c.k * P(f) \in Nat /\ c.k * Q(f) \in Nat
  BY <1>1, <1>2
<1>4. /\ (c.k * P(f)) % c.nh = 0 /\ N2LS(ls)
      /\ (c.k * Q(f)) % c.nh1 = 0 /\ NC1(n1)
  BY DEF Fits, Divides
<1>5. ls \in Nat /\ c.nh * ls = c.k * P(f)
  BY <1>1, <1>3, <1>4, DivTimes, Zenon
<1>6. n1 \in Nat /\ c.nh1 * n1 = c.k * Q(f)
  BY <1>1, <1>3, <1>4, DivTimes, Zenon
<1>7. ls \in {n \in 2..LSMax : n % 2 = 0}
  BY <1>4 DEF N2LS
<1>8. LSMax \in Nat
  BY PllAssumption
<1> HIDE DEF ls, n1, g
<1>9. n1 \in {n \in 1..LSMax : NC1(n)}
  BY <1>4, <1>6, <1>7, <1>8 DEF NC1
<1>10. Fin * c.nh * ls = f * c.nh1 * n1
  <2>1. Fin * c.nh * ls = Fin * (c.nh * ls)
    BY <1>1, <1>5, PllAssumption
  <2>2. f * c.nh1 * n1 = f * (c.nh1 * n1)
    BY <1>1, <1>6
  <2>3. Fin * (c.k * P(f)) = f * (c.k * Q(f))
    <3> DEFINE p == P(f)
               q == Q(f)
               k == c.k
    <3>1. p \in Nat /\ q \in Nat /\ k \in Nat /\ g \in Nat /\ f = g * p /\ Fin = g * q
      BY <1>1, <1>2
    <3> HIDE DEF p, q, k
    <3>2. (g * q) * (k * p) = (g * p) * (k * q)
      BY <3>1
    <3>3. Fin * (k * p) = f * (k * q)
      BY <3>1, <3>2, Zenon
    <3> QED
      BY <3>3 DEF p, q, k
  <2> QED
    BY <1>5, <1>6, <2>1, <2>2, <2>3
<1>11. ChainOf(f, c) = [n2hs |-> c.nh, n2ls |-> ls, n3 |-> 1, n1hs |-> c.nh1, nc1 |-> n1]
  BY DEF ChainOf, ls, n1
<1>12. Fin * c.nh * ls = f * 1 * c.nh1 * n1
  BY <1>1, <1>6, <1>10
<1>13. ChainOf(f, c) \in ChainsWith(f, {1})
  BY <1>1, <1>7, <1>9, <1>11, <1>12 DEF ChainsWith
<1> QED
  BY <1>5, <1>11, <1>13

\* The first of the iterations that fit is one of them.
LEMMA FirstIsOne ==
  ASSUME NEW f \in Nat, NEW S \in SUBSET Iterations(f), S # {}
  PROVE  First(S) \in S
<1>1. \A c \in S : Turn(c) \in Nat
  BY DEF Turn, Iterations, Multiples, HS
<1>2. \E c \in S : \A d \in S : Turn(c) <= Turn(d)
  <2> DEFINE T == {Turn(c) : c \in S}
  <2>1. T \in SUBSET Nat /\ T # {}
    BY <1>1
  <2>2. PICK t \in T : \A u \in T : t <= u
    BY <2>1, MinExists
  <2> QED
    BY <2>2
<1> QED
  BY <1>2 DEF First

\* What the solver returns, if anything, keeps the constraints of the comment
\* (model_mini.c:33-37).
THEOREM SolvedIsLegal ==
  ASSUME NEW f \in Nat, Solve(f) # NoChain
  PROVE  Solve(f) \in ChainsWith(f, {1})
<1> DEFINE S == {c \in Iterations(f) : Fits(f, c)}
<1>1. S # {} /\ Solve(f) = ChainOf(f, First(Preferred(f, S)))
  BY DEF Solve
<1>2. Preferred(f, S) \in SUBSET S /\ Preferred(f, S) # {}
  BY <1>1 DEF Preferred
<1>3. First(Preferred(f, S)) \in S
  BY <1>2, FirstIsOne
<1> QED
  BY <1>1, <1>3, ChainExact

\* The converse: no chain with an n3 of 1 is missed.

LEMMA TimesDiv ==
  ASSUME NEW d \in Nat \ {0}, NEW x \in Nat
  PROVE  (d * x) % d = 0 /\ (d * x) \div d = x
  OBVIOUS

\* Every way to write f / Fin is a multiple of P(f) / Q(f).
LEMMA LowestTerms ==
  ASSUME NEW f \in Nat \ {0}, NEW D \in Nat, NEW M \in Nat, f * D = Fin * M
  PROVE  \E k \in Nat : M = k * P(f) /\ D = k * Q(f)
<1> DEFINE S == {d \in Nat \ {0} : \E m \in Nat : f * d = Fin * m}
           g == Gcd(f)
           p == P(f)
           q == Q(f)
<1>1. Fin \in Nat \ {0}
  BY PllAssumption
<1>2. Fin \in S
  <2>1. f * Fin = Fin * f
    BY <1>1
  <2> QED
    BY <1>1, <2>1
<1>3. PICK d \in S : \A n \in S : d <= n
  <2>1. S \in SUBSET Nat /\ S # {}
    BY <1>2
  <2> HIDE DEF S
  <2> QED
    BY <2>1, MinExists
<1>4. PICK m \in Nat : f * d = Fin * m
  BY <1>3
<1>5. d \in Nat \ {0}
  BY <1>3
<1>6. ASSUME NEW E \in Nat, NEW N \in Nat, f * E = Fin * N
      PROVE  \E k \in Nat : N = k * m /\ E = k * d
  <2> DEFINE k == E \div d
             r == E % d
             x == N - k * m
  <2>1. k \in Nat /\ r \in Nat /\ r < d /\ E = k * d + r
    BY <1>5
  <2> HIDE DEF k, r, S
  <2>2. x \in Int /\ k * m \in Nat /\ N = k * m + x
    BY <2>1
  <2>3. f * r = Fin * x
    <3>1. f * E = f * (k * d) + f * r
      BY <1>5, <2>1
    <3>2. f * (k * d) = k * (f * d)
      BY <1>5, <2>1
    <3>3. k * (Fin * m) = Fin * (k * m)
      BY <1>1, <2>1
    <3>4. Fin * x = Fin * N - Fin * (k * m)
      BY <1>1, <2>2
    <3> QED
      BY <1>1, <1>4, <1>5, <1>6, <2>1, <2>2, <3>1, <3>2, <3>3, <3>4
  <2> HIDE DEF x
  <2>4. r = 0
    <3> SUFFICES ASSUME r # 0
                 PROVE  FALSE
      OBVIOUS
    <3>1. r \in Nat \ {0} /\ ~ (d <= r)
      BY <1>5, <2>1
    <3>2. x \in Nat
      BY <1>1, <2>1, <2>2, <2>3
    <3>3. r \in S
      BY <2>3, <3>1, <3>2 DEF S
    <3> QED
      BY <1>3, <3>1, <3>3
  <2>5. x = 0
    <3>1. Fin * x = 0
      BY <2>3, <2>4
    <3> QED
      BY <1>1, <2>2, <3>1
  <2>6. N = k * m /\ E = k * d
    <3>1. k * d \in Nat
      BY <1>5, <2>1
    <3> QED
      BY <2>1, <2>2, <2>4, <2>5, <3>1
  <2> QED
    BY <2>1, <2>6
<1> HIDE DEF S
<1>7. /\ g \in Nat \ {0} /\ p \in Nat /\ q \in Nat /\ f = g * p /\ Fin = g * q
      /\ \A e \in CommonDivisors(f) : e <= g
  BY GcdDivides
\* What divides f and Fin here is a common divisor,
<1>8. PICK h \in Nat : f = h * m /\ Fin = h * d
  <2>1. f * Fin = Fin * f
    BY <1>1
  <2> QED
    BY <1>1, <1>6, <2>1
<1>9. h # 0 /\ h <= g
  <2>1. h # 0
    BY <1>1, <1>5, <1>8
  <2>2. h <= Fin
    BY <1>5, <1>8, <2>1
  <2>3. f % h = 0 /\ Fin % h = 0
    BY <1>4, <1>5, <1>8, <2>1, TimesDiv
  <2>4. h \in CommonDivisors(f)
    BY <1>1, <2>1, <2>2, <2>3 DEF CommonDivisors, Divides
  <2> QED
    BY <1>7, <2>1, <2>4
\* and P(f) / Q(f) is a multiple of m / d: the same.
<1> HIDE DEF g, p, q
<1>10. PICK c \in Nat : p = c * m /\ q = c * d
  <2>1. (g * p) * q = (g * q) * p
    BY <1>7
  <2>2. f * q = Fin * p
    BY <1>7, <2>1, Zenon
  <2> QED
    BY <1>6, <1>7, <2>2
<1>11. c = 1
  <2>1. g * (c * d) = h * d
    BY <1>7, <1>8, <1>10
  <2>2. g * (c * d) = (g * c) * d
    BY <1>5, <1>7
  <2>3. g * c = h
    <3> DEFINE gc == g * c
    <3>1. gc \in Nat /\ gc * d = h * d
      BY <1>7, <2>1, <2>2
    <3> HIDE DEF gc
    <3>2. gc = h
      BY <1>5, <3>1
    <3> QED
      BY <3>2 DEF gc
  <2>4. c # 0
    BY <1>7, <1>9, <2>3
  <2>5. ~ (c >= 2)
    <3> SUFFICES ASSUME c >= 2
                 PROVE  FALSE
      OBVIOUS
    <3>1. g * c >= 2 * g
      BY <1>7
    <3> QED
      BY <1>7, <1>9, <2>3, <3>1
  <2> QED
    BY <2>4, <2>5
<1>12. p = m /\ q = d
  BY <1>5, <1>10, <1>11
<1>13. PICK k \in Nat : M = k * m /\ D = k * d
  BY <1>6
<1> QED
  BY <1>12, <1>13 DEF p, q

\* What an iteration has to meet.
LEMMA FitsIf ==
  ASSUME NEW f \in Nat \ {0}, NEW k \in 1..KMax, NEW nh \in HS, NEW nh1 \in HS,
         NEW ls \in Nat, NEW n1 \in Nat, N2LS(ls), NC1(n1),
         k * P(f) = nh * ls, k * Q(f) = nh1 * n1
  PROVE  LET c == [k |-> k, nh |-> nh, nh1 |-> nh1]
         IN c \in Iterations(f) /\ Fits(f, c)
<1> DEFINE c == [k |-> k, nh |-> nh, nh1 |-> nh1]
<1>1. nh \in Nat \ {0} /\ nh <= 11 /\ nh1 \in Nat \ {0} /\ LSMax \in Nat
  BY PllAssumption DEF HS
<1>2. (nh * ls) % nh = 0 /\ (nh * ls) \div nh = ls
      /\ (nh1 * n1) % nh1 = 0 /\ (nh1 * n1) \div nh1 = n1
  BY <1>1, TimesDiv
<1>3. nh * ls <= 11 * LSMax
  <2>1. ls <= LSMax
    BY <1>1 DEF N2LS
  <2>2. nh * ls <= 11 * ls
    BY <1>1
  <2> QED
    BY <1>1, <2>1, <2>2
<1>4. c \in Iterations(f)
  BY <1>3 DEF Iterations, Multiples
<1>5. Fits(f, c)
  BY <1>2 DEF Fits, Divides
<1> QED
  BY <1>4, <1>5

\* A chain is the k-th multiple of f / Fin, for some k.
LEMMA ChainIsMultiple ==
  ASSUME NEW f \in Nat \ {0}, NEW ch \in ChainsWith(f, {1})
  PROVE  /\ ch.n2hs \in HS /\ ch.n1hs \in HS /\ ch.n2ls \in Nat /\ ch.nc1 \in Nat
         /\ N2LS(ch.n2ls) /\ NC1(ch.nc1)
         /\ P(f) \in Nat \ {0} /\ Q(f) \in Nat \ {0}
         /\ \E k \in Nat \ {0} : /\ k * P(f) = ch.n2hs * ch.n2ls
                                 /\ k * Q(f) = ch.n1hs * ch.nc1
<1> DEFINE nh == ch.n2hs
           ls == ch.n2ls
           nh1 == ch.n1hs
           n1 == ch.nc1
<1>1. /\ nh \in HS /\ nh1 \in HS /\ ls \in 2..LSMax /\ ls % 2 = 0 /\ NC1(n1)
      /\ n1 \in 1..LSMax /\ Fin * nh * ls = f * 1 * nh1 * n1
  BY DEF ChainsWith
<1>2. nh \in Nat \ {0} /\ nh1 \in Nat \ {0} /\ ls \in Nat \ {0} /\ n1 \in Nat \ {0}
      /\ Fin \in Nat \ {0} /\ LSMax \in Nat
  BY <1>1, PllAssumption DEF HS
<1> HIDE DEF nh, ls, nh1, n1
<1>3. nh * ls \in Nat \ {0} /\ nh1 * n1 \in Nat
  BY <1>2
<1>4. f * (nh1 * n1) = Fin * (nh * ls)
  <2>1. f * (nh1 * n1) = f * 1 * nh1 * n1 /\ Fin * (nh * ls) = Fin * nh * ls
    BY <1>2
  <2> QED
    BY <1>1, <2>1
<1>5. PICK k \in Nat : nh * ls = k * P(f) /\ nh1 * n1 = k * Q(f)
  BY <1>3, <1>4, LowestTerms
<1>6. /\ P(f) \in Nat /\ Q(f) \in Nat /\ Gcd(f) \in Nat
      /\ f = Gcd(f) * P(f) /\ Fin = Gcd(f) * Q(f)
  BY GcdDivides
<1>7. P(f) # 0 /\ Q(f) # 0
  BY <1>2, <1>6
<1>8. k # 0
  BY <1>3, <1>5, <1>6
<1>9. N2LS(ls)
  BY <1>1 DEF N2LS
<1> QED
  BY <1>1, <1>2, <1>5, <1>6, <1>7, <1>8, <1>9 DEF nh, ls, nh1, n1

\* The chain of a multiple beyond 4 * nh * nh1 has one of that multiple below it.
LEMMA SomeIteration ==
  ASSUME NEW f \in Nat \ {0}, NEW ch \in ChainsWith(f, {1}), KMax >= 4 * 11 * 11
  PROVE  \E c \in Iterations(f) : Fits(f, c)
<1> DEFINE nh == ch.n2hs
           ls == ch.n2ls
           nh1 == ch.n1hs
           n1 == ch.nc1
           p == P(f)
           q == Q(f)
           j == 4 * nh * nh1
<1>1. /\ nh \in HS /\ nh1 \in HS /\ ls \in Nat /\ n1 \in Nat /\ N2LS(ls) /\ NC1(n1)
      /\ p \in Nat \ {0} /\ q \in Nat \ {0}
  BY ChainIsMultiple
<1>2. PICK k \in Nat \ {0} : k * p = nh * ls /\ k * q = nh1 * n1
  BY ChainIsMultiple
<1>3. nh \in Nat \ {0} /\ nh1 \in Nat \ {0} /\ nh <= 11 /\ nh1 <= 11 /\ KMax \in Nat
      /\ LSMax \in Nat
  BY <1>1, PllAssumption DEF HS
<1> HIDE DEF nh, ls, nh1, n1, p, q
<1>4. j \in 1..KMax
  <2>1. nh * nh1 <= 11 * 11 /\ nh * nh1 >= 1 /\ nh * nh1 \in Nat
    <3>1. nh * nh1 <= 11 * nh1 /\ nh * nh1 >= nh1
      BY <1>3
    <3> QED
      BY <1>3, <3>1
  <2>2. j = 4 * (nh * nh1)
    BY <1>3
  <2> QED
    BY <1>3, <2>1, <2>2
<1>5. CASE k <= j
  <2>1. k \in 1..KMax
    BY <1>3, <1>4, <1>5
  <2> QED
    BY <1>1, <1>2, <2>1, FitsIf DEF p, q
<1>6. CASE k > j
  <2> DEFINE ls2 == 4 * (nh1 * p)
             n2 == 4 * (nh * q)
  <2>1. j * p = nh * ls2 /\ j * q = nh1 * n2
    BY <1>1, <1>3
  <2>2. ls2 \in Nat /\ ls2 >= 2 /\ ls2 % 2 = 0
    <3>1. nh1 * p \in Nat \ {0}
      BY <1>1, <1>3
    <3> QED
      BY <3>1
  <2>3. n2 \in Nat /\ n2 >= 2 /\ n2 % 2 = 0
    <3>1. nh * q \in Nat \ {0}
      BY <1>1, <1>3
    <3> QED
      BY <3>1
  <2>4. j * p <= k * p /\ j * q <= k * q
    BY <1>1, <1>4, <1>6
  <2> HIDE DEF ls2, n2, j
  <2>5. ls2 <= ls
    BY <1>1, <1>2, <1>3, <2>1, <2>2, <2>4
  <2>6. n2 <= n1
    BY <1>1, <1>2, <1>3, <2>1, <2>3, <2>4
  <2>7. N2LS(ls2)
    BY <1>1, <1>3, <2>2, <2>5 DEF N2LS
  <2>8. NC1(n2)
    <3>1. n1 # 1
      BY <1>1, <2>3, <2>6
    <3>2. n1 <= LSMax
      BY <1>1, <1>3, <3>1 DEF NC1
    <3> QED
      BY <1>1, <1>3, <2>3, <2>6, <3>2 DEF NC1
  <2> QED
    BY <1>1, <1>4, <2>1, <2>2, <2>3, <2>7, <2>8, FitsIf DEF p, q
<1> QED
  BY <1>2, <1>3, <1>4, <1>5, <1>6

\* The search is complete: if any dividers within the limits make the frequency
\* its loops find some (model_mini.c:51-85), where they try 484 multiples (they
\* try 4096).
THEOREM NoneMissed ==
  ASSUME NEW f \in Nat \ {0}, KMax >= 4 * 11 * 11, ChainsWith(f, {1}) # {}
  PROVE  Solve(f) \in ChainsWith(f, {1})
<1> DEFINE S == {c \in Iterations(f) : Fits(f, c)}
<1>1. S # {}
  BY SomeIteration
<1>2. Solve(f) = ChainOf(f, First(Preferred(f, S)))
  BY <1>1 DEF Solve
<1>3. Preferred(f, S) \in SUBSET S /\ Preferred(f, S) # {}
  BY <1>1 DEF Preferred
<1>4. First(Preferred(f, S)) \in S
  BY <1>3, FirstIsOne
<1> QED
  BY <1>2, <1>4, ChainExact

\* The two passes do what they are for: the oscillator runs in its native band
\* if it does in any chain, where the multiples reach the band (model_mini.c:48-58).
THEOREM BandPreferred ==
  ASSUME NEW f \in Nat \ {0}, KMax * P(f) >= NativeHigh,
         NEW ch \in ChainsWith(f, {1}), InBand(ch)
  PROVE  InBand(Solve(f)) /\ Solve(f) \in ChainsWith(f, {1})
<1> DEFINE S == {c \in Iterations(f) : Fits(f, c)}
           native == {c \in S : Native(f, c)}
           nh == ch.n2hs
           ls == ch.n2ls
           nh1 == ch.n1hs
           n1 == ch.nc1
<1>1. /\ nh \in HS /\ nh1 \in HS /\ ls \in Nat /\ n1 \in Nat /\ N2LS(ls) /\ NC1(n1)
      /\ P(f) \in Nat \ {0}
  BY ChainIsMultiple
<1>2. PICK k \in Nat \ {0} : k * P(f) = nh * ls /\ k * Q(f) = nh1 * n1
  BY ChainIsMultiple
<1>3. nh * ls \in NativeLow..NativeHigh
  BY DEF InBand
<1> DEFINE c == [k |-> k, nh |-> nh, nh1 |-> nh1]
<1> HIDE DEF nh, ls, nh1, n1
<1>4. k \in 1..KMax
  <2>1. k * P(f) <= KMax * P(f) /\ KMax \in Nat
    <3>1. nh * ls <= NativeHigh /\ nh * ls \in Int
      BY <1>3
    <3>2. KMax * P(f) \in Int /\ KMax \in Nat /\ NativeHigh \in Nat
      BY <1>1, PllAssumption
    <3> QED
      BY <1>2, <3>1, <3>2
  <2>2. k <= KMax
    <3> DEFINE p == P(f)
    <3>1. p \in Nat \ {0} /\ k * p <= KMax * p
      BY <1>1, <2>1
    <3> HIDE DEF p
    <3> QED
      BY <2>1, <3>1
  <2> QED
    BY <2>1, <2>2
<1>5. c \in S
  BY <1>1, <1>2, <1>4, FitsIf
<1>6. c \in native
  BY <1>2, <1>3, <1>5 DEF Native
<1>7. native \in SUBSET Iterations(f) /\ native # {}
  BY <1>6
<1>8. First(native) \in native
  BY <1>7, FirstIsOne
<1>9. Solve(f) = ChainOf(f, First(native))
  BY <1>5, <1>6 DEF Solve, Preferred
<1>10. First(native) \in S /\ First(native).k * P(f) \in NativeLow..NativeHigh
  BY <1>8 DEF Native
<1> QED
  BY <1>9, <1>10, ChainExact DEF InBand

\* The frequency mini_get_status reads back from a chain is the one it is for.
THEOREM ReadBackExact ==
  ASSUME NEW f \in Nat, NEW N \in SUBSET (Nat \ {0}), NEW ch \in ChainsWith(f, N)
  PROVE  Output(ch) = f
<1>1. /\ ch.n3 \in Nat \ {0} /\ ch.n1hs \in Nat \ {0} /\ ch.nc1 \in Nat \ {0}
      /\ Fin * ch.n2hs * ch.n2ls = f * ch.n3 * ch.n1hs * ch.nc1
  <2>1. /\ ch.n3 \in N /\ ch.n1hs \in HS /\ ch.nc1 \in 1..LSMax
        /\ Fin * ch.n2hs * ch.n2ls = f * ch.n3 * ch.n1hs * ch.nc1
    BY DEF ChainsWith
  <2>2. ch.n3 \in Nat \ {0}
    BY <2>1
  <2>3. ch.n1hs \in Nat \ {0}
    BY <2>1 DEF HS
  <2>4. ch.nc1 \in Nat \ {0}
    BY <2>1, PllAssumption
  <2> QED
    BY <2>1, <2>2, <2>3, <2>4
<1> DEFINE e == ch.n3 * ch.n1hs
           d == e * ch.nc1
<1>2. e \in Nat \ {0} /\ d \in Nat \ {0}
  <2>1. e \in Nat \ {0}
    BY <1>1
  <2> QED
    BY <1>1, <2>1
<1>3. f * ch.n3 * ch.n1hs * ch.nc1 = f * d
  <2>1. f * ch.n3 * ch.n1hs = f * e
    BY <1>1
  <2>2. f * e * ch.nc1 = f * (e * ch.nc1)
    BY <1>1, <1>2
  <2> QED
    BY <2>1, <2>2
<1> HIDE DEF d, e
<1>4. (f * d) \div d = f
  BY <1>2
<1> QED
  BY <1>1, <1>3, <1>4 DEF Output, d, e

-----------------------------------------------------------------------------
(* The command line.                                                       *)

\* The tables: an option sends the command of its own setting on every model
\* that supports it.
LEMMA Codes1421 ==
  /\ DOMAIN Ops_1421 = Sets \cup {"blink"}
  /\ Ops_1421["blink"] = 2
  /\ \A o \in Sets : <<o, Ops_1421[o]>> \in
       {<<"f1", 6>>, <<"f1t", 5>>, <<"f2", 10>>, <<"f2t", 9>>, <<"out", 1>>,
        <<"pll", 11>>, <<"pps", 12>>, <<"pwr1", 13>>, <<"pwr2", 14>>,
        <<"drive", 0>>, <<"gnss", 0>>, <<"dynmodel", 0>>, <<"nmea", 0>>}
<1>1. DOMAIN Ops_1421 = Sets \cup {"blink"} /\ Ops_1421["blink"] = 2
  BY DEF Sets, Frequency, Flags, Ops_1421
<1>2. \A o \in Sets : <<o, Ops_1421[o]>> \in
       {<<"f1", 6>>, <<"f1t", 5>>, <<"f2", 10>>, <<"f2t", 9>>, <<"out", 1>>,
        <<"pll", 11>>, <<"pps", 12>>, <<"pwr1", 13>>, <<"pwr2", 14>>,
        <<"drive", 0>>, <<"gnss", 0>>, <<"dynmodel", 0>>, <<"nmea", 0>>}
  BY DEF Sets, Frequency, Flags, Null, Ops_1421
<1> QED
  BY <1>1, <1>2

LEMMA DualEffects ==
  /\ Dual[1] = {"out"} /\ Dual[5] = {"out1"} /\ Dual[6] = {"out1", "flash1"}
  /\ Dual[9] = {"out2"} /\ Dual[10] = {"out2", "flash2"}
  /\ Dual[2] = {"led"} /\ Dual[11] = {"pll"} /\ Dual[12] = {"pps"} /\ Dual[13] = {"pwr1"} /\ Dual[14] = {"pwr2"}
<1>1. /\ Common[1] = {"out"} /\ Common[2] = {"led"} /\ Common[5] = {"out1"} /\ Common[6] = {"out1", "flash1"}
      /\ Common[11] = {"pll"} /\ Common[13] = {"pwr1"}
  BY DEF Common
<1>2. DOMAIN Common = 1..15
  BY DEF Common
<1> QED
  BY <1>1, <1>2 DEF Dual

LEMMA Row1421 ==
  ASSUME NEW o \in Sets, Ops_1421[o] # Null
  PROVE  Ops_1421[o] \in 1..15 /\ Dual[Ops_1421[o]] \subseteq Asked[o]
  BY Codes1421, DualEffects DEF Null, Asked

LEMMA Row1420 ==
  ASSUME NEW o \in Sets, Ops_1420[o] # Null
  PROVE  Ops_1420[o] \in 1..15 /\ Effects("1420")[Ops_1420[o]] \subseteq Asked[o]
<1>1. <<o, Ops_1420[o]>> \in
           {<<"f1", 6>>, <<"f1t", 5>>, <<"out", 1>>, <<"pll", 11>>, <<"pwr1", 13>>,
            <<"gnss", 7>>, <<"dynmodel", 9>>}
  <2>1. Ops_1420[o] = (CASE o \in {"f2", "f2t", "pps", "pwr2"} -> Null
                         [] o = "gnss" -> 7 [] o = "dynmodel" -> 9
                         [] OTHER -> Ops_1421[o])
    BY Codes1421 DEF Ops_1420
  <2> QED
    BY <2>1, Codes1421 DEF Null
<1>2. Effects("1420") = [Common EXCEPT ![7] = {"gnss"}, ![8] = {"stream"},
                                        ![9] = {"dynmodel"}]
  BY DEF Effects
<1>3. /\ Common[1] = {"out"} /\ Common[5] = {"out1"} /\ Common[6] = {"out1", "flash1"}
      /\ Common[11] = {"pll"} /\ Common[13] = {"pwr1"} /\ DOMAIN Common = 1..15
  BY DEF Common
<1> QED
  BY <1>1, <1>2, <1>3 DEF Asked

LEMMA Row1425 ==
  ASSUME NEW o \in Sets, Ops_1425[o] # Null
  PROVE  Ops_1425[o] \in 1..15 /\ Effects("1425")[Ops_1425[o]] \subseteq Asked[o]
<1>1. <<o, Ops_1425[o]>> \in
           {<<"f1", 6>>, <<"f1t", 5>>, <<"f2", 10>>, <<"f2t", 9>>, <<"out", 1>>,
            <<"pll", 11>>, <<"pps", 12>>, <<"pwr1", 13>>, <<"pwr2", 14>>,
            <<"gnss", 3>>, <<"dynmodel", 4>>, <<"nmea", 15>>}
  <2>1. Ops_1425[o] = (CASE o = "gnss" -> 3 [] o = "dynmodel" -> 4 [] o = "nmea" -> 15
                         [] OTHER -> Ops_1421[o])
    BY Codes1421 DEF Ops_1425
  <2> QED
    BY <2>1, Codes1421 DEF Null
<1>2. Effects("1425") = [Dual EXCEPT ![3] = {"gnss"}, ![4] = {"dynmodel"},
                                      ![8] = {"stream"}, ![15] = {"nmea"}]
  BY DEF Effects
<1>3. DOMAIN Dual = 1..15
  BY DEF Dual, Common
<1> QED
  BY <1>1, <1>2, <1>3, DualEffects DEF Asked

LEMMA RowMini ==
  ASSUME NEW o \in Sets, Ops_mini[o] # Null
  PROVE  Ops_mini[o] \in 1..15 /\ Effects("Mini")[Ops_mini[o]] \subseteq Asked[o]
<1>1. <<o, Ops_mini[o]>> \in {<<"f1", 4>>, <<"out", 1>>, <<"pwr1", 3>>, <<"drive", 3>>}
  BY DEF Sets, Frequency, Flags, Null, Ops_1421, Ops_mini
<1>2. /\ Effects("Mini")[1] = {"out"} /\ Effects("Mini")[3] = {"pwr1"}
      /\ Effects("Mini")[4] = {"out1", "flash1"}
  BY DEF Effects
<1> QED
  BY <1>1, <1>2 DEF Asked

LEMMA Table ==
  ASSUME NEW m \in Models, NEW o \in Sets, Ops(m)[o] # Null
  PROVE  Ops(m)[o] \in 1..15 /\ Effects(m)[Ops(m)[o]] \subseteq Asked[o]
<1>1. m \in {"1420", "1421", "1423", "1425", "Mini"}
  BY CliAssumption
<1>2. CASE m \in {"1421", "1423"}
  <2>1. Ops(m) = Ops_1421 /\ Effects(m) = Dual
    BY <1>2 DEF Ops, Ops_1423, Effects
  <2> QED
    BY <2>1, Row1421
<1>3. CASE m = "1420"
  BY <1>3, Row1420 DEF Ops
<1>4. CASE m = "1425"
  BY <1>4, Row1425 DEF Ops
<1>5. CASE m = "Mini"
  BY <1>5, RowMini DEF Ops
<1> QED
  BY <1>1, <1>2, <1>3, <1>4, <1>5

LEMMA BlinkRow ==
  ASSUME NEW m \in Models
  PROVE  Ops(m)["blink"] = 2 /\ Effects(m)[2] = {"led"}
<1>1. m \in {"1420", "1421", "1423", "1425", "Mini"}
  BY CliAssumption
<1>2. Ops(m)["blink"] = 2
  <2>1. Ops_1420["blink"] = 2 /\ Ops_1425["blink"] = 2
    BY Codes1421 DEF Ops_1420, Ops_1425
  <2>2. Ops_mini["blink"] = 2
    BY Codes1421 DEF Ops_mini
  <2> QED
    BY <1>1, <2>1, <2>2, Codes1421 DEF Ops, Ops_1423
<1>3. Common[2] = {"led"} /\ DOMAIN Common = 1..15 /\ DOMAIN Dual = 1..15
  <2>1. Common[2] = {"led"} /\ DOMAIN Common = 1..15
    BY DEF Common
  <2> QED
    BY <2>1 DEF Dual
<1>4. Effects("Mini")[2] = {"led"}
  BY DEF Effects
<1>5. Effects("1420")[2] = {"led"}
  BY <1>3 DEF Effects
<1>6. Effects("1425")[2] = {"led"}
  BY <1>3, DualEffects DEF Effects
<1>7. m \in {"1421", "1423"} => Effects(m)[2] = {"led"}
  BY DualEffects DEF Effects
<1> QED
  BY <1>1, <1>2, <1>4, <1>5, <1>6, <1>7

-----------------------------------------------------------------------------
(* What an option that is accepted sends.                                  *)

LEMMA RatedMax ==
  ASSUME NEW m \in Models
  PROVE  MaxFreq(m, 1) = Rated[m][1] /\ MaxFreq(m, 2) = Rated[m][2]
<1>1. m \in {"1420", "1421", "1423", "1425", "Mini"}
  BY CliAssumption
<1> QED
  BY <1>1 DEF MaxFreq, Rated

LEMMA NoBeidouWithGps ==
  ASSUME NEW v \in Nat, v <= 255, ~ (Bit(v, 8) /\ (Bit(v, 1) \/ Bit(v, 2) \/ Bit(v, 4)))
  PROVE  ~ (Bit(v, 8) /\ v % 8 # 0)
  BY DEF Bit

\* The Mini is asked only for frequencies that have a chain, and reads them back.
LEMMA MiniReadsBack ==
  ASSUME NEW v \in Values["f1"], Values["f1"] \subseteq Nat,
         InRange("Mini", "f1", v), Chain[v] # NoChain
  PROVE  Output(Chain[v]) = v
<1>1. Chain[v] = Solve(v) /\ v \in Nat
  BY DEF Chain
<1>2. Solve(v) \in ChainsWith(v, {1})
  BY <1>1, SolvedIsLegal
<1> QED
  BY <1>1, <1>2, ReadBackExact

LEMMA SentValue ==
  ASSUME model \in Models, NEW o \in Sets, NEW v \in Values[o], Accepted(o, v)
  PROVE  /\ Ops(model)[o] \in 1..15 /\ Effects(model)[Ops(model)[o]] \subseteq Asked[o]
         /\ Encoded(o, v) = Reported(o, v)
         /\ o \in {"f1", "f1t"} => Encoded(o, v) \in 1..Rated[model][1]
         /\ o \in {"f2", "f2t"} => Encoded(o, v) \in 1..Rated[model][2]
         /\ o = "gnss" /\ model = "1425"
              => ~ (Bit(Encoded(o, v), 8) /\ Encoded(o, v) % 8 # 0)
<1>1. Ops(model)[o] # Null
  BY DEF Accepted
<1>2. v \in Nat
  BY CliAssumption
<1>3. o \in Frequency => v \in 1..MaxFreq(model, IF o \in {"f1", "f1t"} THEN 1 ELSE 2)
  <2> SUFFICES ASSUME o \in Frequency
               PROVE  v \in 1..MaxFreq(model, IF o \in {"f1", "f1t"} THEN 1 ELSE 2)
    OBVIOUS
  <2>1. NewFreq(v) \in 1..MaxFreq(model, IF o \in {"f1", "f1t"} THEN 1 ELSE 2)
    BY DEF Accepted, InRange
  <2>2. NewFreq(v) = 0 \/ NewFreq(v) = v
    BY DEF NewFreq
  <2> QED
    BY <2>1, <2>2
<1>4. CASE o = "f1" /\ model = "Mini"
  <2>1. InRange("Mini", "f1", v) /\ Chain[v] # NoChain /\ v \in Values["f1"]
    BY <1>4 DEF Accepted, Frequency
  <2>2. Values["f1"] \subseteq Nat
    BY CliAssumption DEF Sets, Frequency
  <2>3. Output(Chain[v]) = v
    BY <2>1, <2>2, MiniReadsBack
  <2>4. Encoded(o, v) = v /\ Reported(o, v) = v
    BY <1>4, <2>3 DEF Encoded, Reported, Frequency
  <2> QED
    BY <1>1, <1>3, <1>4, <2>4, Table, RatedMax DEF Frequency
<1>5. CASE o \in Frequency /\ ~ (o = "f1" /\ model = "Mini")
  <2>1. Encoded(o, v) = v /\ Reported(o, v) = v
    BY <1>5 DEF Encoded, Reported, Frequency
  <2> QED
    BY <1>1, <1>3, <1>5, <2>1, Table, RatedMax DEF Frequency
<1>6. CASE o \notin Frequency
  <2>1. Encoded(o, v) = Reported(o, v)
    BY <1>6 DEF Reported
  <2>2. ASSUME o = "gnss", model = "1425"
        PROVE  ~ (Bit(Encoded(o, v), 8) /\ Encoded(o, v) % 8 # 0)
    <3>1. Encoded(o, v) = v
      BY <2>2 DEF Encoded
    <3>2. GnssAllowed("1425", v)
      BY <2>2 DEF Accepted
    <3>3. v <= 255 /\ ~ (Bit(v, 8) /\ (Bit(v, 1) \/ Bit(v, 2) \/ Bit(v, 4)))
      BY <3>2 DEF GnssAllowed
    <3> QED
      BY <1>2, <3>1, <3>3, NoBeidouWithGps
  <2> QED
    BY <1>1, <1>6, <2>1, <2>2, Table DEF Frequency
<1> QED
  BY <1>4, <1>5, <1>6

\* What a request does to a setting, whether it succeeds or fails.
LEMMA Request ==
  ASSUME NEW c, NEW a, Sent(c, a) \/ Failed(c, a),
         device = [s \in Settings |-> device[s]]
  PROVE  /\ device' = [s \in Settings |-> device'[s]]
         /\ \A s \in Settings : \/ device'[s] = device[s]
                                \/ s \in Effects(model)[c] /\ device'[s] = a
         /\ Sent(c, a) => \A s \in Effects(model)[c] \cap Settings : device'[s] = a
<1>1. device' = device \/ device' = Written(c, a)
  BY DEF Sent, Failed
<1>2. CASE device' = device
  BY <1>2 DEF Sent, Written
<1>3. CASE device' = Written(c, a)
  BY <1>3 DEF Written
<1> QED
  BY <1>1, <1>2, <1>3

-----------------------------------------------------------------------------
(* The inductive invariant: no option is in the middle of its handler when *)
(* main() has returned; what differs from the device as it was opened is   *)
(* counted, was left unsure, or is in the hands of the option being        *)
(* handled; and the LED and the stream are nobody's claim.                 *)

Shape ==
  /\ model \in Models
  /\ device = [s \in Settings |-> device[s]]
  /\ claimed = [s \in Settings |-> claimed[s]]
  /\ option \in {"open", "none", "blink", "probe"}
  /\ option = "blink" => step = "off"
  /\ option = "open" => device = Factory
  /\ ended => option = "none"

Counted ==
  ~ changed /\ option # "open" =>
    \A s \in Settings : device[s] # AsOpened[s] =>
      \/ s \in unsure
      \/ s \in probed /\ (unseen \/ (option = "probe" /\ step = "after"))
      \/ s = "led" /\ option = "blink"

Unclaimable == \A s \in {"led", "stream"} : claimed[s] = Unclaimed

IInv ==
  /\ Shape /\ Counted /\ ClaimsHold /\ Unclaimable
  /\ WithinRating /\ BlinkStops

\* The settings the invariant singles out.
LEMMA Named ==
  /\ {"led", "stream", "out1", "flash1", "out2", "flash2", "gnss"} \subseteq Settings
  /\ \A o \in Sets :
       /\ Asked[o] \subseteq Settings \ {"led", "stream"}
       /\ {"out1", "flash1"} \cap Asked[o] # {} => o \in {"f1", "f1t"}
       /\ {"out2", "flash2"} \cap Asked[o] # {} => o \in {"f2", "f2t"}
       /\ "gnss" \in Asked[o] => o = "gnss"
  BY DEF Settings, Sets, Frequency, Flags, Asked

\* The two requests that concern the stream set nothing else.
LEMMA StreamRow ==
  /\ Effects("Mini")[10] = {"stream"}
  /\ \A m \in {"1420", "1425", "Mini"} : Effects(m)[8] = {"stream"}
<1>1. Effects("Mini")[10] = {"stream"} /\ Effects("Mini")[8] = {"stream"}
  BY DEF Effects
<1>2. DOMAIN Common = 1..15 /\ DOMAIN Dual = 1..15
  BY DEF Dual, Common
<1>3. Effects("1420")[8] = {"stream"} /\ Effects("1425")[8] = {"stream"}
  BY <1>2 DEF Effects
<1> QED
  BY <1>1, <1>3

LEMMA InitIInv == Init => IInv
<1> SUFFICES ASSUME Init PROVE IInv
  OBVIOUS
<1>1. Shape /\ Counted
  BY DEF Init, Shape, Counted, Factory
<1>2. ClaimsHold /\ Unclaimable
  BY Named DEF Init, ClaimsHold, Unclaimable
<1>3. BlinkStops
  BY Named DEF Init, BlinkStops, Factory
<1>4. WithinRating
  <2>1. \A s \in {"out1", "flash1", "out2", "flash2"} : device[s] = 1
    BY Named DEF Init, Factory
  <2>2. model \in {"1420", "1421", "1423", "1425", "Mini"}
    BY CliAssumption DEF Init
  <2>3. 1 \in 1..Rated[model][1] /\ 1 \in 1..Rated[model][2]
    BY <2>2 DEF Rated
  <2>4. device.gnss = 0
    BY Named DEF Init, Factory
  <2>5. ~ (Bit(0, 8) /\ 0 % 8 # 0)
    BY NoBeidouWithGps DEF Bit
  <2> QED
    BY <2>1, <2>3, <2>4, <2>5 DEF WithinRating
<1> QED
  BY <1>1, <1>2, <1>3, <1>4 DEF IInv

\* Requests that leave frequencies and constellations alone, but for raw ones,
\* keep the rating.
LEMMA RatingKept ==
  ASSUME WithinRating, UNCHANGED model, probed \subseteq probed',
         \A s \in {"out1", "flash1", "out2", "flash2", "gnss"} \ probed' :
           device'[s] = device[s]
  PROVE  WithinRating'
<1>1. ASSUME NEW s \in {"out1", "flash1"} \ probed' PROVE device'[s] \in 1..Rated[model][1]
  BY DEF WithinRating
<1>2. ASSUME NEW s \in {"out2", "flash2"} \ probed' PROVE device'[s] \in 1..Rated[model][2]
  BY DEF WithinRating
<1>3. ASSUME model = "1425", "gnss" \notin probed'
      PROVE  ~ (Bit(device'["gnss"], 8) /\ device'["gnss"] % 8 # 0)
  <2>1. device'["gnss"] = device["gnss"] /\ "gnss" \notin probed
    BY <1>3
  <2> QED
    BY <1>3, <2>1 DEF WithinRating
<1> QED
  BY <1>1, <1>2, <1>3 DEF WithinRating, Bit, Rated

\* Opening the device touches the stream only, and its failure leaves a trace.
LEMMA OpenStep ==
  ASSUME IInv, Open
  PROVE  IInv'
<1>1. /\ UNCHANGED <<model, step, used, changed, ended, claimed, probed, unseen>>
      /\ option = "open" /\ option' = "none" /\ ~ ended /\ device = Factory
      /\ device = [s \in Settings |-> device[s]]
  BY DEF Open, IInv, Shape
<1>2. CASE model # "Mini"
  <2>1. UNCHANGED <<device, unsure>>
    BY <1>2 DEF Open
  <2>2. \A s \in Settings : device[s] = AsOpened[s]
    BY <1>1, <1>2 DEF AsOpened, Factory
  <2>3. Shape' /\ Counted'
    BY <1>1, <2>1, <2>2 DEF IInv, Shape, Counted, AsOpened
  <2>4. ClaimsHold' /\ Unclaimable' /\ WithinRating' /\ BlinkStops'
    BY <1>1, <2>1, RatingKept DEF IInv, ClaimsHold, Unclaimable, BlinkStops
  <2> QED
    BY <2>3, <2>4 DEF IInv
<1>3. CASE model = "Mini"
  <2>1. Sent(10, 1) \/ Failed(10, 1)
    BY <1>3 DEF Open
  <2>2. Effects(model)[10] = {"stream"}
    BY <1>3, StreamRow
  <2>3. /\ device' = [s \in Settings |-> device'[s]]
        /\ \A s \in Settings : s # "stream" => device'[s] = device[s]
        /\ Sent(10, 1) => device'["stream"] = 1
    BY <1>1, <2>1, <2>2, Request, Named
  <2>4. Failed(10, 1) => "stream" \in unsure'
    BY <2>2 DEF Failed
  <2>5. \A s \in Settings : s # "stream" => device'[s] = AsOpened[s]
    BY <1>1, <2>3 DEF AsOpened, Factory
  <2>6. AsOpened["stream"] = 1
    BY <1>3, Named DEF AsOpened, Factory
  <2>7. Shape'
    BY <1>1, <2>3 DEF IInv, Shape
  <2>8. AsOpened' = AsOpened
    BY <1>1 DEF AsOpened
  <2>9. Counted'
    BY <1>1, <2>1, <2>3, <2>4, <2>5, <2>6, <2>8 DEF Counted
  <2>10. ClaimsHold' /\ Unclaimable' /\ WithinRating' /\ BlinkStops'
    <3>1. ClaimsHold' /\ Unclaimable'
      BY <1>1, <2>3 DEF IInv, ClaimsHold, Unclaimable
    <3>2. WithinRating'
      BY <1>1, <2>3, Named, RatingKept DEF IInv
    <3>3. device'["led"] = 0
      BY <1>1, <2>3, Named DEF Factory
    <3> QED
      BY <3>1, <3>2, <3>3 DEF BlinkStops
  <2> QED
    BY <2>7, <2>9, <2>10 DEF IInv
<1> QED
  BY <1>2, <1>3

LEMMA SetOptionStep ==
  ASSUME IInv, NEW o \in Sets, NEW v \in Values[o], SetOption(o, v)
  PROVE  /\ IInv'
         /\ \A s \in Settings : device'[s] # device[s] => s \in Asked[o]
<1> DEFINE c == Ops(model)[o]
           a == Encoded(o, v)
<1>1. Accepted(o, v) /\ model \in Models /\ option = "none" /\ ~ ended
  BY DEF SetOption, MoreOptions, IInv, Shape
<1>2. /\ c \in 1..15 /\ Effects(model)[c] \subseteq Asked[o]
      /\ a = Reported(o, v)
      /\ o \in {"f1", "f1t"} => a \in 1..Rated[model][1]
      /\ o \in {"f2", "f2t"} => a \in 1..Rated[model][2]
      /\ o = "gnss" /\ model = "1425" => ~ (Bit(a, 8) /\ a % 8 # 0)
  BY <1>1, SentValue
<1>3. /\ \/ Sent(c, a) /\ changed' = TRUE /\ claimed' = Claim(c, Reported(o, v))
         \/ Failed(c, a) /\ UNCHANGED changed /\ claimed' = Claim(c, Unclaimed)
      /\ UNCHANGED <<model, ended, option, step, probed, unseen>>
  BY DEF SetOption, Quiet
<1> HIDE DEF c, a
<1>4. /\ device' = [s \in Settings |-> device'[s]]
      /\ \A s \in Settings : device'[s] = device[s] \/ (s \in Effects(model)[c] /\ device'[s] = a)
      /\ Sent(c, a) => \A s \in Effects(model)[c] \cap Settings : device'[s] = a
  BY <1>3, Request DEF IInv, Shape
<1>5. /\ claimed' = [s \in Settings |-> claimed'[s]]
      /\ \A s \in Settings \ Effects(model)[c] : claimed'[s] = claimed[s]
  BY <1>3 DEF Claim
<1>6. Shape'
  BY <1>1, <1>3, <1>4, <1>5 DEF IInv, Shape
<1>7. Counted'
  <2> SUFFICES ASSUME Failed(c, a), ~ changed,
                      NEW s \in Settings, device'[s] # AsOpened[s], s \notin unsure'
               PROVE  s \in probed /\ unseen
    BY <1>1, <1>3 DEF Counted, AsOpened
  <2>1. s \notin Effects(model)[c] /\ s \notin unsure
    BY DEF Failed
  <2>2. device[s] # AsOpened[s]
    BY <1>4, <2>1
  <2> QED
    BY <1>1, <2>1, <2>2 DEF IInv, Counted
<1>8. ClaimsHold'
  <2> SUFFICES ASSUME NEW s \in Settings, claimed'[s] # Unclaimed
               PROVE  device'[s] = claimed'[s]
    BY DEF ClaimsHold
  <2>1. CASE s \in Effects(model)[c]
    <3>1. Sent(c, a) /\ claimed'[s] = Reported(o, v)
      BY <1>3, <2>1 DEF Claim
    <3> QED
      BY <1>2, <1>4, <2>1, <3>1
  <2>2. CASE s \notin Effects(model)[c]
    BY <1>4, <1>5, <2>2 DEF IInv, ClaimsHold
  <2> QED
    BY <2>1, <2>2
<1>9. Unclaimable' /\ device'["led"] = device["led"]
  <2>1. "led" \in Settings \ Effects(model)[c] /\ "stream" \in Settings \ Effects(model)[c]
    BY <1>2, Named
  <2> QED
    BY <1>4, <1>5, <2>1 DEF IInv, Unclaimable
<1>10. BlinkStops'
  <2>1. unsure \subseteq unsure'
    BY <1>3 DEF Sent, Failed
  <2> QED
    BY <1>3, <1>9, <2>1 DEF IInv, BlinkStops
<1>11. WithinRating'
  <2>1. \A s \in {"out1", "flash1"} :
          device'[s] = device[s] \/ (o \in {"f1", "f1t"} /\ device'[s] = a)
    BY <1>2, <1>4, Named
  <2>2. \A s \in {"out2", "flash2"} :
          device'[s] = device[s] \/ (o \in {"f2", "f2t"} /\ device'[s] = a)
    BY <1>2, <1>4, Named
  <2>3. device'["gnss"] = device["gnss"] \/ (o = "gnss" /\ device'["gnss"] = a)
    BY <1>2, <1>4, Named
  <2>4. \A s \in {"out1", "flash1"} \ probed : device'[s] \in 1..Rated[model][1]
    BY <1>2, <2>1 DEF IInv, WithinRating
  <2>5. \A s \in {"out2", "flash2"} \ probed : device'[s] \in 1..Rated[model][2]
    BY <1>2, <2>2 DEF IInv, WithinRating
  <2>6. model = "1425" /\ "gnss" \notin probed
          => ~ (Bit(device'["gnss"], 8) /\ device'["gnss"] % 8 # 0)
    BY <1>2, <2>3 DEF IInv, WithinRating
  <2> QED
    BY <1>3, <2>4, <2>5, <2>6 DEF WithinRating, Rated, Bit
<1>12. \A s \in Settings : device'[s] # device[s] => s \in Asked[o]
  BY <1>2, <1>4
<1> QED
  BY <1>6, <1>7, <1>8, <1>9, <1>10, <1>11, <1>12 DEF IInv

\* A request for the LED changes nothing but the LED.
LEMMA LedRequest ==
  ASSUME IInv, NEW a, Sent(Ops(model)["blink"], a) \/ Failed(Ops(model)["blink"], a)
  PROVE  /\ device' = [s \in Settings |-> device'[s]]
         /\ \A s \in Settings : s # "led" => device'[s] = device[s]
         /\ unsure \subseteq unsure'
         /\ Sent(Ops(model)["blink"], a) => device'["led"] = a
         /\ Failed(Ops(model)["blink"], a) => "led" \in unsure'
<1> DEFINE c == Ops(model)["blink"]
<1>1. Effects(model)[c] = {"led"}
  BY BlinkRow DEF IInv, Shape
<1>2. device = [s \in Settings |-> device[s]]
  BY DEF IInv, Shape
<1> HIDE DEF c
<1>3. Sent(c, a) \/ Failed(c, a)
  BY DEF c
<1>4. /\ device' = [s \in Settings |-> device'[s]]
      /\ \A s \in Settings : device'[s] = device[s] \/ (s \in Effects(model)[c] /\ device'[s] = a)
      /\ Sent(c, a) => \A s \in Effects(model)[c] \cap Settings : device'[s] = a
  BY <1>2, <1>3, Request
<1>5. /\ \A s \in Settings : s # "led" => device'[s] = device[s]
      /\ Sent(c, a) => device'["led"] = a
  BY <1>1, <1>4, Named
<1>6. unsure \subseteq unsure' /\ (Failed(c, a) => "led" \in unsure')
  BY <1>1, <1>3 DEF Sent, Failed
<1> QED
  BY <1>4, <1>5, <1>6 DEF c

\* What the LED's options have in common: claims and the rating stay, and so
\* does what may differ from the device as it was opened, but for the LED.
LEMMA LedKeeps ==
  ASSUME IInv, UNCHANGED <<model, claimed, probed, unseen, ended>>,
         unsure \subseteq unsure',
         option \in {"none", "blink"}, option' \in {"none", "blink"},
         ~ ended, option' = "blink" => step' = "off",
         device' = [s \in Settings |-> device'[s]],
         \A s \in Settings : s # "led" => device'[s] = device[s],
         changed' = TRUE \/ (changed' = changed
                               /\ (option' = "blink" \/ "led" \in unsure'))
  PROVE  Shape' /\ Counted' /\ ClaimsHold' /\ Unclaimable' /\ WithinRating'
<1>1. ClaimsHold' /\ Unclaimable'
  BY DEF IInv, ClaimsHold, Unclaimable
<1>2. WithinRating'
  BY Named, RatingKept DEF IInv
<1>3. Shape'
  BY DEF IInv, Shape
<1>4. Counted'
  <2> SUFFICES ASSUME ~ changed', NEW s \in Settings, device'[s] # AsOpened[s],
                      s \notin unsure', ~ (s = "led" /\ option' = "blink")
               PROVE  s \in probed /\ unseen
    BY DEF Counted, AsOpened
  <2>1. s # "led" /\ device[s] # AsOpened[s] /\ s \notin unsure /\ ~ changed
    OBVIOUS
  <2> QED
    BY <2>1 DEF IInv, Counted
<1> QED
  BY <1>1, <1>2, <1>3, <1>4

LEMMA BlinkStep ==
  ASSUME IInv, Blink \/ BlinkOff
  PROVE  IInv'
<1> DEFINE c == Ops(model)["blink"]
<1>1. /\ UNCHANGED <<model, claimed, probed, unseen, ended>>
      /\ \E a \in {LedOn, 0} : Sent(c, a) \/ Failed(c, a)
  BY DEF Blink, BlinkOff, Quiet
<1>2. /\ device' = [s \in Settings |-> device'[s]]
      /\ \A s \in Settings : s # "led" => device'[s] = device[s]
      /\ unsure \subseteq unsure'
  BY <1>1, LedRequest
<1>3. CASE Blink
  <2>1. ~ ended /\ option = "none"
    BY <1>3 DEF Blink, MoreOptions
  <2>2. CASE Sent(c, LedOn) /\ model = "Mini" /\ option' = "blink" /\ step' = "off"
             /\ UNCHANGED changed
    <3>1. Shape' /\ Counted' /\ ClaimsHold' /\ Unclaimable' /\ WithinRating'
      BY <1>1, <1>2, <2>1, <2>2, LedKeeps
    <3> QED
      BY <2>2, <3>1 DEF IInv, BlinkStops
  <2>3. CASE Sent(c, LedOn) /\ model # "Mini" /\ changed' = TRUE /\ option' = option
    <3>1. device'["led"] = 0
      BY <2>3, LedRequest DEF LedOn
    <3>2. Shape' /\ Counted' /\ ClaimsHold' /\ Unclaimable' /\ WithinRating'
      BY <1>1, <1>2, <2>1, <2>3, LedKeeps
    <3> QED
      BY <3>1, <3>2 DEF IInv, BlinkStops
  <2>4. CASE Failed(c, LedOn) /\ option' = option /\ UNCHANGED changed
    <3>1. "led" \in unsure'
      BY <2>4, LedRequest
    <3>2. Shape' /\ Counted' /\ ClaimsHold' /\ Unclaimable' /\ WithinRating'
      BY <1>1, <1>2, <2>1, <2>4, <3>1, LedKeeps
    <3> QED
      BY <3>1, <3>2 DEF IInv, BlinkStops
  <2> QED
    BY <1>3, <2>2, <2>3, <2>4 DEF Blink
<1>4. CASE BlinkOff
  <2>1. option = "blink" /\ option' = "none" /\ ~ ended
    BY <1>4 DEF BlinkOff, IInv, Shape
  <2>2. CASE Sent(c, 0) /\ changed' = TRUE
    <3>1. device'["led"] = 0
      BY <2>2, LedRequest
    <3>2. Shape' /\ Counted' /\ ClaimsHold' /\ Unclaimable' /\ WithinRating'
      BY <1>1, <1>2, <2>1, <2>2, LedKeeps
    <3> QED
      BY <3>1, <3>2 DEF IInv, BlinkStops
  <2>3. CASE Failed(c, 0) /\ UNCHANGED changed
    <3>1. "led" \in unsure'
      BY <2>3, LedRequest
    <3>2. Shape' /\ Counted' /\ ClaimsHold' /\ Unclaimable' /\ WithinRating'
      BY <1>1, <1>2, <2>1, <2>3, <3>1, LedKeeps
    <3> QED
      BY <3>1, <3>2 DEF IInv, BlinkStops
  <2> QED
    BY <1>4, <2>2, <2>3 DEF BlinkOff
<1> QED
  BY <1>3, <1>4

LEMMA ProbeStep ==
  ASSUME IInv, NEW n \in 1..15, ProbeBefore \/ ProbeSend(n, 0) \/ ProbeAfter
  PROVE  IInv'
<1>1. CASE ProbeBefore \/ ProbeAfter
  <2>1. /\ UNCHANGED <<model, device, claimed, probed, unsure, ended>>
        /\ ~ ended /\ option \in {"none", "probe"} /\ option' \in {"none", "probe"}
        /\ changed' = TRUE \/ UNCHANGED changed
        /\ ~ changed' /\ option = "probe" /\ step = "after" => unseen'
        /\ unseen => unseen'
    BY <1>1 DEF ProbeBefore, ProbeAfter, GiveUp, Quiet, MoreOptions, IInv, Shape
  <2>2. Shape'
    BY <2>1 DEF IInv, Shape
  <2>3. Counted'
    <3> SUFFICES ASSUME ~ changed', NEW s \in Settings, device[s] # AsOpened[s],
                        s \notin unsure
                 PROVE  s \in probed /\ unseen'
      BY <2>1 DEF Counted, AsOpened
    <3>1. ~ changed
      BY <2>1
    <3> QED
      BY <2>1, <3>1 DEF IInv, Counted
  <2>4. ClaimsHold' /\ Unclaimable' /\ WithinRating'
    BY <2>1, RatingKept DEF IInv, ClaimsHold, Unclaimable
  <2>5. BlinkStops'
    BY <2>1 DEF IInv, BlinkStops
  <2> QED
    BY <2>2, <2>3, <2>4, <2>5 DEF IInv
<1>2. CASE ProbeSend(n, 0)
  <2>1. /\ UNCHANGED <<model, ended, unseen, changed>> /\ ~ ended
        /\ probed' = probed \cup Effects(model)[n]
        /\ option = "probe" /\ step = "send"
        /\ claimed' = Claim(n, Unclaimed)
        /\ \/ Sent(n, 0) /\ option' = "probe" /\ step' = "after"
           \/ Failed(n, 0) /\ option' = "none"
    BY <1>2 DEF ProbeSend, GiveUp, Quiet, IInv, Shape
  <2>2. /\ device' = [s \in Settings |-> device'[s]]
        /\ \A s \in Settings : device'[s] = device[s] \/ (s \in Effects(model)[n] /\ device'[s] = 0)
        /\ unsure \subseteq unsure'
        /\ Failed(n, 0) => unsure' = unsure \cup Effects(model)[n]
    <3>1. Sent(n, 0) \/ Failed(n, 0)
      BY <2>1
    <3> QED
      BY <3>1, Request DEF IInv, Shape, Sent, Failed
  <2>3. /\ claimed' = [s \in Settings |-> claimed'[s]]
        /\ \A s \in Settings : claimed'[s] = IF s \in Effects(model)[n] THEN Unclaimed
                                                                        ELSE claimed[s]
    BY <2>1 DEF Claim
  <2>4. Shape'
    BY <2>1, <2>2, <2>3 DEF IInv, Shape
  <2>5. Counted'
    <3> SUFFICES ASSUME ~ changed, NEW s \in Settings, device'[s] # AsOpened[s],
                        s \notin unsure'
                 PROVE  s \in probed' /\ (unseen \/ (option' = "probe" /\ step' = "after"))
      BY <2>1 DEF Counted, AsOpened
    <3>1. CASE s \in Effects(model)[n]
      BY <2>1, <2>2, <3>1
    <3>2. CASE s \notin Effects(model)[n]
      <4>1. device[s] # AsOpened[s] /\ s \notin unsure
        BY <2>2, <3>2
      <4>2. s \in probed /\ unseen
        BY <2>1, <4>1 DEF IInv, Counted
      <4> QED
        BY <2>1, <4>2
    <3> QED
      BY <3>1, <3>2
  <2>6. BlinkStops'
    <3>1. option # "blink"
      BY <2>1
    <3> QED
      BY <2>1, <2>2, <3>1, Named DEF IInv, BlinkStops
  <2>7. WithinRating'
    <3>1. \A s \in Settings \ probed' : device'[s] = device[s]
      BY <2>1, <2>2
    <3> QED
      BY <2>1, <3>1, Named, RatingKept DEF IInv
  <2>8. ClaimsHold'
    BY <2>2, <2>3 DEF IInv, ClaimsHold
  <2>9. Unclaimable'
    BY <2>3, Named DEF IInv, Unclaimable
  <2> QED
    BY <2>4, <2>5, <2>6, <2>7, <2>8, <2>9 DEF IInv
<1> QED
  BY <1>1, <1>2

\* --monitor and its kin count as a change, and ask for nothing but messages.
LEMMA StreamStep ==
  ASSUME IInv, Stream
  PROVE  IInv'
<1>1. /\ UNCHANGED <<model, ended, unseen, option, step, claimed, probed, unsure>>
      /\ changed' = TRUE /\ option = "none"
      /\ device' = device \/ (model \in {"1420", "1425", "Mini"} /\ device' = Written(8, 1))
  BY DEF Stream, Quiet, MoreOptions
<1>2. /\ device' = [s \in Settings |-> device'[s]]
      /\ \A s \in Settings : s # "stream" => device'[s] = device[s]
  <2>1. CASE device' = device
    BY <2>1 DEF IInv, Shape
  <2>2. CASE model \in {"1420", "1425", "Mini"} /\ device' = Written(8, 1)
    <3>1. Effects(model)[8] = {"stream"}
      BY <2>2, StreamRow
    <3> QED
      BY <2>2, <3>1 DEF Written
  <2> QED
    BY <1>1, <2>1, <2>2
<1>3. Shape' /\ Counted'
  BY <1>1, <1>2 DEF IInv, Shape, Counted
<1>4. ClaimsHold' /\ Unclaimable'
  BY <1>1, <1>2 DEF IInv, ClaimsHold, Unclaimable
<1>5. WithinRating' /\ BlinkStops'
  <2>1. device'["led"] = device["led"]
    BY <1>2, Named
  <2>2. WithinRating'
    BY <1>1, <1>2, Named, RatingKept DEF IInv
  <2> QED
    BY <1>1, <2>1, <2>2 DEF IInv, BlinkStops
<1> QED
  BY <1>3, <1>4, <1>5 DEF IInv

LEMMA OtherStep ==
  ASSUME IInv,
         \/ \E o \in Sets : \E v \in Values[o] : RejectOption(o, v)
         \/ Status \/ End \/ UNCHANGED vars
  PROVE  IInv'
<1>1. /\ UNCHANGED <<model, device, option, step, changed, claimed, probed, unsure, unseen>>
      /\ ended' = ended \/ (ended' = TRUE /\ option = "none")
  BY DEF RejectOption, Status, End, Quiet, vars
<1>2. Shape' /\ Counted'
  BY <1>1 DEF IInv, Shape, Counted, AsOpened
<1>3. ClaimsHold' /\ Unclaimable' /\ WithinRating' /\ BlinkStops'
  BY <1>1, RatingKept DEF IInv, ClaimsHold, Unclaimable, BlinkStops
<1> QED
  BY <1>2, <1>3 DEF IInv

LEMMA NextIInv == IInv /\ [Next]_vars => IInv'
<1> SUFFICES ASSUME IInv, [Next]_vars PROVE IInv'
  OBVIOUS
<1>1. CASE \E o \in Sets : \E v \in Values[o] : SetOption(o, v)
  BY <1>1, SetOptionStep
<1>2. CASE Blink \/ BlinkOff
  BY <1>2, BlinkStep
<1>3. CASE ProbeBefore \/ (\E n \in 1..15 : ProbeSend(n, 0)) \/ ProbeAfter
  <2>1. 1 \in 1..15
    OBVIOUS
  <2> QED
    BY <1>3, <2>1, ProbeStep
<1>4. CASE Open
  BY <1>4, OpenStep
<1>5. CASE Stream
  BY <1>5, StreamStep
<1>6. CASE \/ \E o \in Sets : \E v \in Values[o] : RejectOption(o, v)
           \/ Status \/ End \/ UNCHANGED vars
  BY <1>6, OtherStep
<1> QED
  BY <1>1, <1>2, <1>3, <1>4, <1>5, <1>6 DEF Next

LEMMA Inductive == Spec => []IInv
  BY InitIInv, NextIInv, PTL DEF Spec

-----------------------------------------------------------------------------
(* The theorems.                                                           *)

\* Whatever main() reported as set is what the device has, whichever requests
\* failed, were carried out all the same, or were repeated.
THEOREM ClaimsTrue == Spec => []ClaimsHold
<1>1. IInv => ClaimsHold
  BY DEF IInv
<1> QED
  BY <1>1, Inductive, PTL

\* No sequence of options, whatever their arguments, tells an output or the
\* receiver to do what the model cannot; --probe-op alone can.
THEOREM WithinLimits == Spec => []WithinRating
<1>1. IInv => WithinRating
  BY DEF IInv
<1> QED
  BY <1>1, Inductive, PTL

\* Whichever options ran and whichever requests failed, when "No changes made"
\* is printed each setting is what opening the device made it, but where a
\* request failed, and where a raw opcode wrote what was not read back.
THEOREM NoChangesTrue == Spec => []NoChangesTruthful
<1>1. IInv => NoChangesTruthful
  <2> SUFFICES ASSUME IInv, ended, ~ changed,
                      NEW s \in Settings, device[s] # AsOpened[s]
               PROVE  s \in unsure \/ (unseen /\ s \in probed)
    BY DEF NoChangesTruthful, NoChangesPrinted
  <2>1. option = "none"
    BY DEF IInv, Shape
  <2> QED
    BY <2>1 DEF IInv, Counted
<1> QED
  BY <1>1, Inductive, PTL

\* An LED that was made to blink is not blinking when its option is done.
THEOREM BlinkEnds == Spec => []BlinkStops
<1>1. IInv => BlinkStops
  BY DEF IInv
<1> QED
  BY <1>1, Inductive, PTL

\* An option sets what it names and nothing else on each of the five models.
THEOREM OnlyWhatIsAsked == Spec => OnlyAsked
<1> DEFINE Only == \A o \in Sets : \A v \in Values[o] :
                     SetOption(o, v) =>
                       \A s \in Settings : device'[s] # device[s] => s \in Asked[o]
<1>1. IInv => Only
  BY SetOptionStep
<1>2. IInv /\ [Next]_vars => [Only]_vars
  BY <1>1
<1> HIDE DEF Only
<1>3. Spec => [][Only]_vars
  BY <1>2, Inductive, PTL DEF Spec
<1> QED
  BY <1>3 DEF Only, OnlyAsked

\* --f1 on a Mini refuses no frequency that some dividers within the limits make
\* with an n3 of 1, and takes a chain in the native band where there is one
\* (model_mini.c:41-87), for any input frequency and any limit of the dividers;
\* the number of multiples tried must be 484 at least, and is 4096.
THEOREM MiniSearchComplete ==
  ASSUME KMax >= 4 * 11 * 11
  PROVE  Spec => MiniSolves
<1> DEFINE Solved == \A v \in InRangeOnMini : model = "Mini" =>
                       /\ SetOption("f1", v) => ChainGood(v)
                       /\ RejectOption("f1", v) => Legal[v] = {}
<1>1. ASSUME NEW v \in InRangeOnMini
      PROVE  /\ v \in Nat \ {0} /\ v \in Values["f1"] /\ InRange("Mini", "f1", v)
             /\ Chain[v] = Solve(v) /\ Legal[v] = ChainsWith(v, {1})
  <2>1. v \in Values["f1"] /\ InRange("Mini", "f1", v)
    BY DEF InRangeOnMini
  <2>2. v \in Nat
    BY <2>1, CliAssumption DEF Sets, Frequency
  <2>3. NewFreq(v) \in 1..81
    BY <2>1 DEF InRange, MaxFreq
  <2>4. v # 0
    BY <2>2, <2>3 DEF NewFreq, MaxUint32
  <2> QED
    BY <2>1, <2>2, <2>4 DEF Chain, Legal
<1>2. ASSUME NEW v \in InRangeOnMini, model = "Mini", SetOption("f1", v)
      PROVE  ChainGood(v)
  <2>1. Chain[v] # NoChain
    BY <1>2 DEF SetOption, Accepted
  <2>2. Chain[v] \in Legal[v]
    BY <1>1, <2>1, SolvedIsLegal
  <2>3. KMax * P(v) >= NativeHigh /\ (\E ch \in Legal[v] : InBand(ch)) => InBand(Chain[v])
    BY <1>1, BandPreferred
  <2> QED
    BY <2>2, <2>3 DEF ChainGood
<1>3. ASSUME NEW v \in InRangeOnMini, model = "Mini", RejectOption("f1", v), Legal[v] # {}
      PROVE  FALSE
  <2>1. Chain[v] \in ChainsWith(v, {1})
    BY <1>1, <1>3, NoneMissed
  <2>2. Chain[v] # NoChain
    <3>1. \A ch \in ChainsWith(v, {1}) : ch.n2hs # 0
      BY DEF ChainsWith, HS
    <3>2. NoChain.n2hs = 0
      BY DEF NoChain
    <3> QED
      BY <2>1, <3>1, <3>2
  <2>3. Ops("Mini")["f1"] # Null
    BY DEF Ops, Ops_mini, Ops_1421, Null
  <2>4. Accepted("f1", v)
    BY <1>1, <1>3, <2>2, <2>3 DEF Accepted, Frequency, Flags
  <2> QED
    BY <1>3, <2>4 DEF RejectOption
<1>4. [Next]_vars => [Solved]_vars
  BY <1>2, <1>3
<1> HIDE DEF Solved
<1>5. Spec => [][Solved]_vars
  BY <1>4, PTL DEF Spec
<1> QED
  BY <1>5 DEF Solved, MiniSolves

\* The search is not as complete as the comment says: with the input frequency
\* and the limits of the code (2^20 and 2^19) it gives up on 369101568 Hz, which is less than
\* 810 MHz and 97600 * 11 * 524292 / (305 * 5 * 1): a valid divider set with an
\* n3 of 305 (model_mini.c:35-39, 76).
THEOREM RefusedAlthoughValid ==
  ASSUME Fin = 97600, 524292 <= LSMax, LSMax <= 1048576, N3Max >= 305
  PROVE  /\ Solve(369101568) = NoChain
         /\ ChainsWith(369101568, 1..N3Max) # {}
<1> DEFINE f == 369101568
<1>1. ChainsWith(f, 1..N3Max) # {}
  <2> DEFINE ch == [n2hs |-> 11, n2ls |-> 524292, n3 |-> 305, n1hs |-> 5, nc1 |-> 1]
  <2>1. 11 \in HS /\ 5 \in HS
    BY DEF HS
  <2>2. 524292 \in {n \in 2..LSMax : n % 2 = 0} /\ 1 \in {n \in 1..LSMax : NC1(n)}
    <3>1. \A h \in Nat \ {0} : 2 * h <= LSMax => 2 * h \in {n \in 2..LSMax : n % 2 = 0}
      BY PllAssumption
    <3>2. 1 \in {n \in 1..LSMax : NC1(n)}
      BY PllAssumption DEF NC1
    <3>3. 262146 \in Nat \ {0} /\ 2 * 262146 = 524292
      OBVIOUS
    <3> QED
      BY <3>1, <3>2, <3>3
  <2>3. 305 \in 1..N3Max /\ Fin * 11 * 524292 = f * 305 * 5 * 1
    OBVIOUS
  <2>4. ch \in ChainsWith(f, 1..N3Max)
    BY <2>1, <2>2, <2>3 DEF ChainsWith
  <2> QED
    BY <2>4
<1>2. ASSUME NEW ch \in ChainsWith(f, {1})
      PROVE  FALSE
  <2> DEFINE M == ch.n2hs * ch.n2ls
             D == ch.n1hs * ch.nc1
  <2>1. /\ ch.n2hs \in 4..11 /\ ch.n2ls \in 2..LSMax /\ ch.n3 = 1
        /\ ch.n1hs \in 4..11 /\ ch.nc1 \in 1..LSMax /\ NC1(ch.nc1)
        /\ 97600 * ch.n2hs * ch.n2ls = f * ch.n3 * ch.n1hs * ch.nc1
    BY DEF ChainsWith, HS
  <2>2. M \in Nat /\ D \in Nat \ {0} /\ M <= 11 * LSMax
    <3>1. ch.n2hs * ch.n2ls <= 11 * ch.n2ls
      BY <2>1, PllAssumption
    <3>2. ch.n1hs * ch.nc1 >= ch.nc1
      BY <2>1, PllAssumption
    <3> QED
      BY <2>1, <3>1, <3>2, PllAssumption
  <2>3. 97600 * M = f * D
    <3>1. 97600 * ch.n2hs * ch.n2ls = 97600 * M
      BY <2>1
    <3>2. f * ch.n3 * ch.n1hs * ch.nc1 = f * D
      BY <2>1
    <3> QED
      BY <2>1, <3>1, <3>2
  <2> HIDE DEF M, D
  \* In lowest terms the multiple is the first: the second is out of reach.
  <2>4. 1525 * M = 5767212 * D
    BY <2>2, <2>3
  <2>5. D < 2 * 1525
    BY <2>2, <2>4, PllAssumption
  <2>6. D = 1525
    <3> DEFINE t == 573 * M - 2166959 * D
    <3>1. t \in Int /\ D = 1525 * t
      BY <2>2, <2>4
    <3> HIDE DEF t
    <3> QED
      BY <2>2, <2>5, <3>1
  \* Of the numbers from 4 to 11 only 5 divides 1525, and 305 is odd.
  <2>7. ch.n1hs * ch.nc1 = 1525
    BY <2>6 DEF D
  <2>8. ch.nc1 = 305
    BY <2>1, <2>7
  <2> QED
    BY <2>1, <2>8 DEF NC1
<1>3. Solve(f) = NoChain
  BY <1>2, SolvedIsLegal
<1> QED
  BY <1>1, <1>3
=============================================================================
