------------------------------ MODULE MiniPll ------------------------------
(***************************************************************************)
(* The divider chain of the Mini: mini_solve_pll(), and the frequency that *)
(* mini_get_status() reads back from the dividers.                         *)
(*                                                                         *)
(*    f = Fin * n2hs * n2ls / (n3 * n1hs * nc1)                            *)
(*                                                                         *)
(* The code's loops try the multiples of f / Fin in lowest terms, and the  *)
(* two small dividers from 11 down to 4; the first chain they meet is      *)
(* taken, and n3 is 1 in all of them.  Fin * n2hs * n2ls is the frequency  *)
(* of the oscillator.                                                      *)
(***************************************************************************)
EXTENDS Integers

CONSTANTS
  Fin,         \* 97600: f_in, in Hz
  LSMax,       \* 2^20: the greatest n2ls and nc1
  N3Max,       \* 2^19: the greatest n3 there is
  KMax,        \* 4096: multiples tried
  NativeLow,   \* 51230: what 5 GHz
  NativeHigh   \* 66598: and 6.5 GHz are of Fin

ASSUME PllAssumption ==
  /\ Fin \in Nat \ {0} /\ LSMax \in Nat /\ N3Max \in Nat /\ KMax \in Nat
  /\ NativeLow \in Nat /\ NativeHigh \in Nat

HS == 4..11
N2LS(n) == n \in 2..LSMax /\ n % 2 = 0

NC1(n) == n = 1 \/ (n \in 2..LSMax /\ n % 2 = 0)

\* Euclid's loop, by what it computes.
Divides(d, n) == n % d = 0
CommonDivisors(f) == {d \in 1..Fin : Divides(d, f) /\ Divides(d, Fin)}
Gcd(f) == CHOOSE d \in CommonDivisors(f) : \A e \in CommonDivisors(f) : e <= d

\* f / Fin is P(f) / Q(f) in lowest terms.
P(f) == f \div Gcd(f)
Q(f) == Fin \div Gcd(f)

\* Mutant: the factor of the small divider is forgotten.
MultiplesShort(f) == {k \in 1..KMax : k * P(f) <= LSMax}

\* The loop breaks at the first multiple whose n2ls would be too great.
Multiples(f) == {k \in 1..KMax : k * P(f) <= 11 * LSMax}

\* What an iteration of the innermost loop takes.
Fits(f, c) ==
  LET M == c.k * P(f)
      D == c.k * Q(f)
  IN /\ Divides(c.nh, M) /\ N2LS(M \div c.nh)
     /\ Divides(c.nh1, D) /\ NC1(D \div c.nh1)

Iterations(f) == [k : Multiples(f), nh : HS, nh1 : HS]

\* The position of an iteration in the loops of a pass.
Turn(c) == 64 * c.k + 8 * (11 - c.nh) + (11 - c.nh1)
First(S) == CHOOSE c \in S : \A d \in S : Turn(c) <= Turn(d)

\* Mutant: a single pass.
PreferredAny(f, S) == S

\* The first pass takes only iterations of the native band.
Native(f, c) == c.k * P(f) \in NativeLow..NativeHigh
Preferred(f, S) ==
  LET native == {c \in S : Native(f, c)} IN IF native = {} THEN S ELSE native

NoChain == [n2hs |-> 0, n2ls |-> 0, n3 |-> 0, n1hs |-> 0, nc1 |-> 0]

ChainOf(f, c) == [n2hs |-> c.nh, n2ls |-> (c.k * P(f)) \div c.nh, n3 |-> 1,
                  n1hs |-> c.nh1, nc1 |-> (c.k * Q(f)) \div c.nh1]

Solve(f) ==
  LET S == {c \in Iterations(f) : Fits(f, c)}
  IN IF S = {} THEN NoChain ELSE ChainOf(f, First(Preferred(f, S)))

\* The frequency mini_get_status computes from the report.
Output(ch) == (Fin * ch.n2hs * ch.n2ls) \div (ch.n3 * ch.n1hs * ch.nc1)

-----------------------------------------------------------------------------

\* The chains there are for f with an n3 of N, by the constraints that the
\* comment of the function gives (model_mini.c:33-37).  The comment allows n3
\* up to N3Max; the code's loops look for the chains of N = {1}.
ChainsWith(f, N) ==
  {ch \in [n2hs : HS, n2ls : {n \in 2..LSMax : n % 2 = 0}, n3 : N,
           n1hs : HS, nc1 : {n \in 1..LSMax : NC1(n)}] :
     Fin * ch.n2hs * ch.n2ls = f * ch.n3 * ch.n1hs * ch.nc1}

InBand(ch) == ch.n2hs * ch.n2ls \in NativeLow..NativeHigh
=============================================================================
