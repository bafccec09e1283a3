------------------------- MODULE MonitorLoopProofs -------------------------
(***************************************************************************)
(* The pulse tracker for every period, pulse width, phase, time-out and    *)
(* ring, and for histories of any length: no pulse is ever counted twice;  *)
(* and as long as the polls succeed and a round of the loop is no longer   *)
(* than a pulse or the pause after it (Watched), none is missed and what   *)
(* is shown is true to within a round.  And the line reader for every      *)
(* stream of lines and every way it is cut: a line that fits rx is         *)
(* returned once and whole.                                                *)
(***************************************************************************)
EXTENDS MonitorLoop, FiniteSetTheorems, WellFoundedInduction, TLAPS

-----------------------------------------------------------------------------
(* Times that are a pulse's.                                               *)

LEMMA DivMod ==
  ASSUME NEW n \in Int, NEW d \in Nat \ {0}
  PROVE  /\ n % d \in 0..(d - 1) /\ n \div d \in Int
         /\ n = d * (n \div d) + (n % d)
  OBVIOUS

LEMMA ModUnique ==
  ASSUME NEW k \in Int, NEW r \in Nat, NEW d \in Nat \ {0}, r < d
  PROVE  (d * k + r) % d = r
  OBVIOUS

LEMMA MultiplesApart ==
  ASSUME NEW a \in Int, NEW b \in Int, NEW d \in Nat \ {0},
         a % d = 0, b % d = 0, a < b
  PROVE  a + d <= b
<1> DEFINE k == a \div d
           j == b \div d
<1>1. a = d * k /\ b = d * j /\ k \in Int /\ j \in Int
  BY DivMod
<1> HIDE DEF k, j
<1>2. k + 1 <= j
  BY <1>1
<1>3. d * (k + 1) <= d * j
  BY <1>1, <1>2
<1> QED
  BY <1>1, <1>3

LEMMA MultiplePlus ==
  ASSUME NEW a \in Int, NEW d \in Nat \ {0}, a % d = 0
  PROVE  (a + d) % d = 0
<1> DEFINE k == a \div d
<1>1. a = d * k /\ k \in Int
  BY DivMod
<1> HIDE DEF k
<1>2. a + d = d * (k + 1) + 0 /\ k + 1 \in Int /\ 0 \in Nat /\ 0 < d
  BY <1>1
<1>3. (d * (k + 1) + 0) % d = 0
  BY <1>2, ModUnique
<1> QED
  BY <1>2, <1>3

\* A multiple and a remainder.
LEMMA Remainder ==
  ASSUME NEW a \in Int, NEW r \in Nat, NEW d \in Nat \ {0}, a % d = 0, r < d
  PROVE  (a + r) % d = r
<1> DEFINE k == a \div d
<1>1. a = d * k /\ k \in Int
  BY DivMod
<1> HIDE DEF k
<1> QED
  BY <1>1, ModUnique

LEMMA Numbers ==
  /\ Second \in Nat \ {0} /\ High \in Nat \ {0} /\ High < Second
  /\ READ_TIMEOUT \in Nat /\ ReadBlock \in Nat /\ DrawTime \in Nat
  /\ MaxTime \in Nat
  /\ PPS_HISTORY \in Nat \ {0} /\ Phases \subseteq Int
  /\ Round \in Nat /\ Round = READ_TIMEOUT + ReadBlock + DrawTime
  BY LoopAssumption DEF Round

\* Pulses are a second apart, and there is one in every second.
LEMMA PulseTimes ==
  ASSUME phase \in Int
  PROVE  /\ Pulses \subseteq Int
         /\ \A p \in Pulses : \A q \in Pulses : p < q => p + Second <= q
         /\ \A p \in Pulses : p + Second <= MaxTime => p + Second \in Pulses
         /\ \A p \in Pulses : (p - phase) % Second = 0
<1>1. Pulses \subseteq Int /\ \A p \in Pulses : (p - phase) % Second = 0
  BY Numbers DEF Pulses
<1>2. \A p \in Pulses : \A q \in Pulses : p < q => p + Second <= q
  <2> SUFFICES ASSUME NEW p \in Pulses, NEW q \in Pulses, p < q
               PROVE  p + Second <= q
    OBVIOUS
  <2> DEFINE a == p - phase
             b == q - phase
  <2>1. a \in Int /\ b \in Int /\ a % Second = 0 /\ b % Second = 0 /\ a < b
    BY <1>1
  <2> HIDE DEF a, b
  <2>2. a + Second <= b
    BY <2>1, Numbers, MultiplesApart
  <2> QED
    BY <1>1, <2>2, Numbers DEF a, b
<1>3. \A p \in Pulses : p + Second <= MaxTime => p + Second \in Pulses
  <2> SUFFICES ASSUME NEW p \in Pulses, p + Second <= MaxTime
               PROVE  p + Second \in Pulses
    OBVIOUS
  <2>1. p \in phase..MaxTime /\ p \in Int /\ p - phase \in Int
    BY <1>1 DEF Pulses
  <2>2. ((p - phase) + Second) % Second = 0
    BY <1>1, <2>1, Numbers, MultiplePlus
  <2>3. (p - phase) + Second = (p + Second) - phase
    BY <2>1, Numbers
  <2>4. p + Second \in phase..MaxTime
    BY <2>1, Numbers
  <2> QED
    BY <2>2, <2>3, <2>4 DEF Pulses
<1> QED
  BY <1>1, <1>2, <1>3

\* The line is high for the length of the pulse.
LEMMA DcdIsPulse ==
  ASSUME NEW t
  PROVE  /\ Dcd(t) \in {0, 1}
         /\ Dcd(t) = 1 <=> \E p \in Pulses : p <= t /\ t < p + High
  BY DEF Dcd

\* What two looks at the line say of the pulses between them.
LEMMA BetweenPolls ==
  ASSUME KeepsUp, phase \in Int, NEW s \in Int, NEW t \in Int, s <= t,
         t - s <= Round
  PROVE  IF Dcd(s) = 0 /\ Dcd(t) = 1
           THEN \E p \in Pulses :
                  /\ s < p /\ p <= t
                  /\ \A q \in Pulses : s < q /\ q <= t => q = p
           ELSE \A p \in Pulses : ~ (s < p /\ p <= t)
<1>1. Round <= High /\ Round <= Second - High
  BY DEF KeepsUp
<1>2. Pulses \subseteq Int /\ \A p \in Pulses : \A q \in Pulses : p < q => p + Second <= q
  BY PulseTimes
<1>3. CASE Dcd(s) = 0 /\ Dcd(t) = 1
  <2>1. PICK p \in Pulses : p <= t /\ t < p + High
    BY <1>3, DcdIsPulse
  <2>2. ~ (p <= s /\ s < p + High)
    BY <1>3, DcdIsPulse
  <2>3. p \in Int /\ s < p
    BY <1>2, <2>1, <2>2, Numbers
  <2>4. ASSUME NEW q \in Pulses, s < q, q <= t
        PROVE  q = p
    <3>1. q \in Int /\ (q < p => q + Second <= p) /\ (p < q => p + Second <= q)
      BY <1>2
    <3> QED
      BY <1>1, <2>1, <2>3, <2>4, <3>1, Numbers
  <2> QED
    BY <1>3, <2>1, <2>3, <2>4
<1>4. CASE Dcd(s) = 1
  <2>1. PICK p \in Pulses : p <= s /\ s < p + High
    BY <1>4, DcdIsPulse
  <2>2. ASSUME NEW q \in Pulses, s < q, q <= t
        PROVE  FALSE
    <3>1. q \in Int /\ p \in Int /\ (p < q => p + Second <= q)
      BY <1>2
    <3> QED
      BY <1>1, <2>1, <2>2, <3>1, Numbers
  <2> QED
    BY <1>4, <2>2
<1>5. CASE Dcd(t) = 0
  <2>1. ASSUME NEW q \in Pulses, s < q, q <= t
        PROVE  FALSE
    <3>1. ~ (t < q + High) /\ q \in Int
      BY <1>2, <1>5, <2>1, DcdIsPulse
    <3> QED
      BY <1>1, <2>1, <3>1, Numbers
  <2> QED
    BY <1>5, <2>1
<1> QED
  BY <1>3, <1>4, <1>5, DcdIsPulse

-----------------------------------------------------------------------------
(* The inductive invariant.                                                *)

Clock ==
  /\ phase \in Int /\ now \in Int /\ polled \in Int /\ 0 <= polled
  /\ polled <= now /\ now <= MaxTime
  /\ pc \in {"poll", "read", "draw", "ended"}
  /\ fails \in Nat /\ left \in Int /\ - ReadBlock <= left

\* As long as no poll has failed, the next is never late.
Punctual ==
  fails = 0 =>
    /\ now - polled <= Round
    /\ pc = "read" => now - polled <= READ_TIMEOUT - left
    /\ pc = "draw" => now - polled <= READ_TIMEOUT + ReadBlock

Counters ==
  /\ edges \in Nat /\ edge_ms \in Int /\ edge_ms <= polled
  /\ hist_n = IF edges = 0 THEN 0 ELSE edges - 1
  /\ DOMAIN hist = 0..(PPS_HISTORY - 1)
  /\ dcd_prev = Dcd(polled) \/ (dcd_prev = Unknown /\ fails > 0)

Seen == {p \in Pulses : 0 < p /\ p <= polled}
NoneTwice == edges <= Cardinality(Seen)

Steady == Clock /\ Punctual /\ Counters /\ NoneTwice

AllSeen == edges = Cardinality(Seen)

\* The last edge came within a round of the last pulse.
LastEdge ==
  edges > 0 => \E p \in Pulses :
    /\ p <= edge_ms /\ edge_ms < p + Round
    /\ \A q \in Pulses : q <= polled => q <= p

AboutASecond(d) == d \in Int /\ Second - Round < d /\ d < Second + Round
Ring == \A i \in DOMAIN hist : i < hist_n => AboutASecond(hist[i])

\* What needs punctual polls.
Exact == AllSeen /\ LastEdge /\ Ring

IInv == Steady /\ (Watched => Exact)

LEMMA InitIInv == Init => IInv
<1> SUFFICES ASSUME Init PROVE IInv
  OBVIOUS
<1>1. Clock /\ Punctual
  BY Numbers DEF Init, Clock, Punctual
<1>2. Counters
  BY Numbers DEF Init, Counters, DcdAtStart
<1>3. AllSeen /\ NoneTwice
  <2>1. Seen = {}
    BY PulseTimes, <1>1 DEF Init, Seen, Clock
  <2> QED
    BY <2>1, FS_EmptySet DEF Init, AllSeen, NoneTwice
<1>4. LastEdge /\ Ring
  BY Numbers DEF Init, LastEdge, Ring
<1> QED
  BY <1>1, <1>2, <1>3, <1>4 DEF IInv, Steady, Exact

LEMMA SeenFinite ==
  ASSUME phase \in Int, polled \in Int
  PROVE  IsFiniteSet(Seen) /\ Cardinality(Seen) \in Nat
<1>1. Pulses \subseteq Int
  BY PulseTimes
<1>2. 0..polled \in SUBSET Int /\ IsFiniteSet(0..polled)
  BY FS_Interval
<1>3. Seen \subseteq 0..polled
  <2> SUFFICES ASSUME NEW q \in Seen PROVE q \in 0..polled
    OBVIOUS
  <2>1. q \in Pulses /\ 0 < q /\ q <= polled
    BY DEF Seen
  <2> QED
    BY <1>1, <2>1
<1>4. IsFiniteSet(Seen)
  BY <1>2, <1>3, FS_Subset
<1> QED
  BY <1>4, FS_CardinalityType

LEMMA SeenFinitePrime ==
  ASSUME phase' \in Int, polled' \in Int
  PROVE  IsFiniteSet(Seen)' /\ Cardinality(Seen)' \in Nat
<1>1. 0..polled' \in SUBSET Int /\ IsFiniteSet(0..polled')
  BY FS_Interval
<1>2. \A q \in Pulses' : q \in Int
  BY Numbers DEF Pulses
<1>3. \A q \in Seen' : q \in 0..polled'
  BY <1>2 DEF Seen
<1>4. IsFiniteSet(Seen')
  BY <1>1, <1>3, FS_Subset
<1> QED
  BY <1>4, FS_CardinalityType

\* A poll at which the line has risen counts the one pulse since the last poll.
LEMMA EdgeExact ==
  ASSUME Steady, Watched, Exact, PollDcd, dcd_prev = 0, Dcd(now) = 1
  PROVE  Exact'
<1>1. /\ phase \in Int /\ now \in Int /\ polled \in Int /\ 0 <= polled /\ polled <= now
      /\ now <= MaxTime /\ now - polled <= Round /\ Dcd(polled) = 0 /\ KeepsUp
  BY Numbers DEF Steady, Clock, Punctual, Counters, Watched, Unknown
<1>2. /\ OnEdge /\ phase' = phase /\ polled' = now
  BY DEF PollDcd
<1>3. PICK p \in Pulses : /\ polled < p /\ p <= now
                          /\ \A q \in Pulses : polled < q /\ q <= now => q = p
  BY <1>1, BetweenPolls
<1>4. Pulses' = Pulses /\ Pulses \subseteq Int /\ p \in Int
  BY <1>1, <1>2, PulseTimes DEF Pulses
<1>5. AllSeen'
  <2>1. Seen' = Seen \cup {p}
    <3>1. \A q \in Pulses : 0 < q /\ q <= now <=> (0 < q /\ q <= polled) \/ q = p
      BY <1>1, <1>3, <1>4
    <3>2. Seen' = {q \in Pulses : 0 < q /\ q <= now}
      BY <1>2, <1>4 DEF Seen
    <3>3. Seen' \subseteq Seen \cup {p}
      BY <3>1, <3>2 DEF Seen
    <3>4. Seen \cup {p} \subseteq Seen'
      BY <3>1, <3>2 DEF Seen
    <3> QED
      BY <3>3, <3>4
  <2>2. p \notin Seen
    BY <1>1, <1>3, <1>4 DEF Seen
  <2>3. Cardinality(Seen \cup {p}) = Cardinality(Seen) + 1
    BY <1>1, <2>2, SeenFinite, FS_AddElement
  <2> QED
    BY <1>2, <2>1, <2>3 DEF AllSeen, Exact, OnEdge
<1>6. LastEdge'
  <2>1. p <= edge_ms' /\ edge_ms' < p + Round
    BY <1>1, <1>2, <1>3, <1>4, Numbers DEF OnEdge
  <2>2. \A q \in Pulses : q <= now => q <= p
    BY <1>1, <1>3, <1>4
  <2> QED
    BY <1>2, <1>4, <2>1, <2>2 DEF LastEdge
<1>7. Ring'
  <2>1. CASE edges = 0
    BY <1>2, <2>1, Numbers DEF OnEdge, Steady, Counters, Ring
  <2>2. CASE edges > 0
    <3>1. PICK o \in Pulses : /\ o <= edge_ms /\ edge_ms < o + Round
                              /\ \A q \in Pulses : q <= polled => q <= o
      BY <2>2 DEF Exact, LastEdge
    <3>2. o \in Int /\ edge_ms \in Int /\ edge_ms <= polled
      BY <1>4, <3>1 DEF Steady, Counters
    <3>3. o < p
      BY <1>1, <1>3, <1>4, <3>1, <3>2
    <3>4. o + Second <= p
      BY <1>1, <3>3, PulseTimes
    <3>5. o + Second \in Pulses
      <4>1. o + Second <= MaxTime
        BY <1>1, <1>3, <1>4, <3>2, <3>4, Numbers
      <4> QED
        BY <1>1, <4>1, PulseTimes
    <3>6. polled < o + Second
      BY <1>1, <3>1, <3>2, <3>5, Numbers
    <3>7. p = o + Second
      BY <1>1, <1>3, <1>4, <3>2, <3>4, <3>5, <3>6, Numbers
    <3>8. AboutASecond(now - edge_ms)
      BY <1>1, <1>3, <1>4, <3>1, <3>2, <3>7, Numbers DEF AboutASecond
    <3>9. /\ hist' = [hist EXCEPT ![hist_n % PPS_HISTORY] = now - edge_ms]
          /\ hist_n' = hist_n + 1
      BY <1>2, <2>2 DEF OnEdge
    <3>10. hist_n \in Nat /\ DOMAIN hist = 0..(PPS_HISTORY - 1)
      BY DEF Steady, Counters
    <3>11. hist_n < PPS_HISTORY => hist_n % PPS_HISTORY = hist_n
      <4>1. ASSUME hist_n < PPS_HISTORY PROVE (PPS_HISTORY * 0 + hist_n) % PPS_HISTORY = hist_n
        BY <3>10, <4>1, Numbers, ModUnique
      <4> QED
        BY <3>10, <4>1, Numbers
    <3>12. ASSUME NEW i \in DOMAIN hist', i < hist_n'
           PROVE  AboutASecond(hist'[i])
      <4>1. i \in 0..(PPS_HISTORY - 1) /\ i \in DOMAIN hist
        BY <3>9, <3>10, <3>12
      <4>2. CASE i = hist_n % PPS_HISTORY
        <5>1. hist'[i] = now - edge_ms
          BY <3>9, <4>1, <4>2
        <5> QED
          BY <3>8, <5>1
      <4>3. CASE i # hist_n % PPS_HISTORY
        <5>1. hist'[i] = hist[i]
          BY <3>9, <4>1, <4>3
        <5>2. i < hist_n
          BY <3>9, <3>10, <3>11, <3>12, <4>1, <4>3, Numbers
        <5> QED
          BY <4>1, <5>1, <5>2 DEF Exact, Ring
      <4> QED
        BY <4>2, <4>3
    <3> QED
      BY <3>12 DEF Ring
  <2> QED
    BY <2>1, <2>2 DEF Steady, Counters
<1> QED
  BY <1>5, <1>6, <1>7 DEF Exact

\* A poll at which it has not sees none, as none came.
LEMMA NoEdgeExact ==
  ASSUME Steady, Watched, Exact, PollDcd, ~ (dcd_prev = 0 /\ Dcd(now) = 1)
  PROVE  Exact'
<1>1. /\ phase \in Int /\ now \in Int /\ polled \in Int /\ 0 <= polled /\ polled <= now
      /\ now - polled <= Round /\ dcd_prev = Dcd(polled) /\ KeepsUp
  BY Numbers DEF Steady, Clock, Punctual, Counters, Watched
<1>2. /\ UNCHANGED <<edges, edge_ms, hist, hist_n>> /\ phase' = phase /\ polled' = now
  BY DEF PollDcd, pps
<1>3. \A q \in Pulses : ~ (polled < q /\ q <= now)
  BY <1>1, BetweenPolls
<1>4. Pulses' = Pulses /\ Pulses \subseteq Int
  BY <1>1, <1>2, PulseTimes DEF Pulses
<1>5. \A q \in Pulses : q <= now <=> q <= polled
  BY <1>1, <1>3, <1>4
<1>6. Seen' = Seen
  BY <1>2, <1>4, <1>5 DEF Seen
<1>7. LastEdge'
  BY <1>2, <1>4, <1>5 DEF Exact, LastEdge
<1> QED
  BY <1>2, <1>6, <1>7 DEF Exact, AllSeen, Ring

\* Each edge is of a pulse that came since the last poll, whenever that was.
LEMMA PollCounts ==
  ASSUME Steady, PollDcd
  PROVE  NoneTwice'
<1>1. /\ phase \in Int /\ now \in Int /\ polled \in Int /\ 0 <= polled /\ polled <= now
      /\ phase' = phase /\ polled' = now /\ now' = now
      /\ edges \in Nat /\ edges <= Cardinality(Seen)
  BY DEF Steady, Clock, Counters, NoneTwice, PollDcd
<1>2. Pulses' = Pulses /\ Pulses \subseteq Int
  BY <1>1, PulseTimes DEF Pulses
<1>3. Seen \subseteq Seen' /\ (\A q \in Pulses : polled < q /\ q <= now => q \in Seen' /\ q \notin Seen)
  <2>1. Seen' = {q \in Pulses : 0 < q /\ q <= now}
    BY <1>1, <1>2 DEF Seen
  <2>2. \A q \in Pulses : q <= polled => q <= now
    BY <1>1, <1>2
  <2>3. \A q \in Pulses : polled < q => 0 < q /\ ~ (q <= polled)
    BY <1>1, <1>2
  <2> QED
    BY <2>1, <2>2, <2>3 DEF Seen
<1>4. /\ IsFiniteSet(Seen) /\ Cardinality(Seen) \in Nat
      /\ IsFiniteSet(Seen)' /\ Cardinality(Seen)' \in Nat
  <2>1. phase' \in Int /\ polled' \in Int
    BY <1>1
  <2> QED
    BY <1>1, <2>1, SeenFinite, SeenFinitePrime
<1>5. CASE edges' = edges
  BY <1>1, <1>3, <1>4, <1>5, FS_Subset DEF NoneTwice
<1>6. CASE dcd_prev = 0 /\ Dcd(now) = 1 /\ OnEdge
  <2>1. PICK p \in Pulses : p <= now /\ now < p + High
    BY <1>6, DcdIsPulse
  <2>2. Dcd(polled) = 0
    BY <1>6 DEF Steady, Counters, Unknown
  <2>3. ~ (p <= polled /\ polled < p + High)
    BY <2>2, DcdIsPulse
  <2>4. polled < p
    BY <1>1, <1>2, <2>1, <2>3, Numbers
  <2>5. Seen \cup {p} \subseteq Seen' /\ p \notin Seen
    BY <1>3, <2>1, <2>4
  <2>6. Cardinality(Seen \cup {p}) = Cardinality(Seen) + 1
    BY <1>4, <2>5, FS_AddElement
  <2>7. Cardinality(Seen \cup {p}) <= Cardinality(Seen)'
    BY <1>4, <2>5, FS_Subset
  <2>8. edges' = edges + 1
    BY <1>6 DEF OnEdge
  <2> QED
    BY <1>1, <1>4, <2>6, <2>7, <2>8 DEF NoneTwice
<1> QED
  BY <1>5, <1>6 DEF PollDcd, pps

LEMMA PollStep ==
  ASSUME IInv, PollDcd
  PROVE  IInv'
<1>1. Clock' /\ Punctual'
  BY Numbers DEF IInv, Steady, Clock, Punctual, PollDcd
<1>2. Counters'
  <2>1. dcd_prev' = Dcd(now) /\ polled' = now /\ phase' = phase
    BY DEF PollDcd
  <2>2. Dcd(polled)' = Dcd(now)
    BY <2>1 DEF Dcd, Pulses
  <2>3. CASE OnEdge
    BY <2>1, <2>2, <2>3, Numbers DEF OnEdge, IInv, Steady, Counters, Clock
  <2>4. CASE UNCHANGED pps
    BY <2>1, <2>2, <2>4, Numbers DEF pps, IInv, Steady, Counters, Clock
  <2> QED
    BY <2>3, <2>4 DEF PollDcd
<1>3. NoneTwice'
  BY PollCounts DEF IInv
<1>4. Watched' => Watched
  BY DEF PollDcd, Watched, KeepsUp
<1>5. Watched' => Exact'
  BY <1>4, EdgeExact, NoEdgeExact DEF IInv
<1> QED
  BY <1>1, <1>2, <1>3, <1>5 DEF IInv, Steady

\* Between two polls that succeed only time passes.
LEMMA BetweenStep ==
  ASSUME IInv,
         PollFails \/ LineRead \/ BytesRead \/ Wait \/ TimedOut \/ ReadFails \/ Redraw
           \/ NoRedraw \/ UNCHANGED vars
  PROVE  IInv'
<1>1. UNCHANGED <<phase, dcd_prev, edges, edge_ms, hist, hist_n, polled>>
  BY DEF PollFails, LineRead, BytesRead, Wait, TimedOut, ReadFails, Redraw, NoRedraw, vars, pps
<1>2. Clock' /\ Punctual' /\ (fails' = fails \/ fails' = fails + 1)
  <2>1. CASE LineRead \/ TimedOut
    BY <2>1, Numbers DEF LineRead, TimedOut, IInv, Steady, Clock, Punctual
  <2>2. CASE BytesRead \/ ReadFails \/ UNCHANGED vars
    BY <2>2, Numbers DEF BytesRead, ReadFails, vars, IInv, Steady, Clock, Punctual
  <2>3. CASE Wait
    BY <2>3, Numbers DEF Wait, IInv, Steady, Clock, Punctual
  <2>4. CASE Redraw
    <3>1. PICK d \in 0..DrawTime : now + d <= MaxTime /\ now' = now + d
      BY <2>4 DEF Redraw
    <3>2. pc = "draw" /\ pc' = "poll" /\ left' = left /\ fails' = fails
      BY <2>4 DEF Redraw
    <3> QED
      BY <1>1, <3>1, <3>2, Numbers DEF IInv, Steady, Clock, Punctual
  <2>5. CASE NoRedraw
    BY <2>5, Numbers DEF NoRedraw, IInv, Steady, Clock, Punctual
  <2>6. CASE PollFails
    BY <2>6, Numbers DEF PollFails, IInv, Steady, Clock, Punctual
  <2> QED
    BY <2>1, <2>2, <2>3, <2>4, <2>5, <2>6
<1>3. Pulses' = Pulses /\ Dcd(polled)' = Dcd(polled) /\ Seen' = Seen
  BY <1>1 DEF Pulses, Dcd, Seen
<1>4. Counters' /\ NoneTwice'
  <2>1. fails \in Nat
    BY DEF IInv, Steady, Clock
  <2> QED
    BY <1>1, <1>2, <1>3, <2>1 DEF IInv, Steady, Counters, NoneTwice
<1>5. Exact => Exact'
  BY <1>1, <1>3 DEF Exact, AllSeen, LastEdge, Ring
<1>6. Watched' => Watched
  BY <1>2 DEF Watched, KeepsUp, IInv, Steady, Clock
<1> QED
  BY <1>2, <1>4, <1>5, <1>6 DEF IInv, Steady

LEMMA NextIInv == IInv /\ [Next]_vars => IInv'
  BY PollStep, BetweenStep DEF Next

LEMMA Inductive == Spec => []IInv
  BY InitIInv, NextIInv, PTL DEF Spec

-----------------------------------------------------------------------------
(* The theorems.                                                           *)

\* No pulse is missed, wherever in a round it comes, and none is counted twice,
\* however slow the loop and whichever polls failed (pps_on_edge,
\* lbe_shared_monitor).
THEOREM EveryPulse == Spec => []PulsesCounted
<1>1. IInv => PulsesCounted
  BY DEF IInv, Steady, NoneTwice, Exact, AllSeen, Seen, PulsesCounted
<1> QED
  BY <1>1, Inductive, PTL

LEMMA OfTwo ==
  ASSUME NEW a \in Int, NEW b \in Int
  PROVE  /\ Max({a, b}) = IF a >= b THEN a ELSE b
         /\ Min({a, b}) = IF a <= b THEN a ELSE b
  BY DEF Max, Min

\* The jitter line is made of intervals that are true to within a round, and of
\* as many as there are (pps_stats).
THEOREM JitterTrue == Spec => []JitterWithinRound
<1>1. IInv => JitterWithinRound
  <2> SUFFICES ASSUME IInv
               PROVE  JitterWithinRound
    OBVIOUS
  <2>1. /\ edges \in Nat /\ DOMAIN hist = 0..(PPS_HISTORY - 1)
        /\ hist_n = IF edges = 0 THEN 0 ELSE edges - 1
    BY DEF IInv, Steady, Counters
  <2>2. Max({edges - 1, 0}) = hist_n
    BY <2>1, OfTwo
  <2>3. Samples = Min({hist_n, PPS_HISTORY})
    <3>1. hist_n \in Int /\ PPS_HISTORY \in Int
      BY <2>1, Numbers
    <3>2. Min({hist_n, PPS_HISTORY}) = IF hist_n <= PPS_HISTORY THEN hist_n ELSE PPS_HISTORY
      BY <3>1, OfTwo
    <3> QED
      BY <3>1, <3>2 DEF Samples
  <2>4. ASSUME Watched, NEW d \in Intervals
        PROVE  Second - Round < d /\ d < Second + Round
    <3>1. PICK i \in 0..(Samples - 1) : d = hist[i]
      BY DEF Intervals
    <3>2. i \in DOMAIN hist /\ i < hist_n
      BY <2>1, <3>1, Numbers DEF Samples
    <3> QED
      BY <2>4, <3>1, <3>2 DEF IInv, Exact, Ring, AboutASecond
  <2> QED
    BY <2>2, <2>3, <2>4 DEF JitterWithinRound
<1> QED
  BY <1>1, Inductive, PTL

\* What a redraw shows is a fraction of a second, and behind the true one by
\* less than a round.  The second that passes unseen while the loop reads is
\* what the cap of the fraction is for.
LEMMA ShownTrue ==
  ASSUME IInv, DrawTime > 0, pc = "draw", edges > 0
  PROVE  Fraction < Second /\ (Watched => (now - phase - Fraction) % Second < Round)
<1>1. /\ phase \in Int /\ now \in Int /\ polled \in Int /\ polled <= now
      /\ now <= MaxTime /\ edge_ms \in Int /\ edge_ms <= polled
  BY DEF IInv, Steady, Clock, Counters
<1>0. Fraction < Second
  BY <1>1, Numbers DEF Fraction
<1> SUFFICES ASSUME Watched
             PROVE  (now - phase - Fraction) % Second < Round
  BY <1>0
<1>7. now - polled <= READ_TIMEOUT + ReadBlock
  BY DEF IInv, Steady, Punctual, Watched
<1>2. PICK p \in Pulses : /\ p <= edge_ms /\ edge_ms < p + Round
                          /\ \A q \in Pulses : q <= polled => q <= p
  BY DEF IInv, Exact, LastEdge
<1>3. p \in Int /\ (p - phase) % Second = 0 /\ p - phase \in Int
  BY <1>1, PulseTimes
<1>4. Round < Second
  BY Numbers DEF KeepsUp, Watched
<1>5. CASE now - edge_ms <= Second - 1
  <2> DEFINE r == edge_ms - p
  <2>1. r \in Nat /\ r < Round /\ r < Second
    BY <1>1, <1>2, <1>3, <1>4, Numbers
  <2>2. ((p - phase) + r) % Second = r
    BY <1>3, <2>1, Numbers, Remainder
  <2>3. Fraction = now - edge_ms
    BY <1>1, <1>5, Numbers DEF Fraction
  <2>4. now - phase - Fraction = (p - phase) + r
    BY <1>1, <1>3, <2>3
  <2> QED
    BY <1>1, <1>5, <2>1, <2>2, <2>3, <2>4, Numbers
<1>6. CASE now - edge_ms > Second - 1
  <2> DEFINE n == p + Second
             r == now - n + 1
  <2>1. n \in Pulses
    <3>1. p + Second <= MaxTime
      BY <1>1, <1>2, <1>3, <1>6, Numbers
    <3> QED
      BY <1>1, <3>1, PulseTimes
  <2>2. polled < n
    BY <1>1, <1>2, <1>3, <2>1, Numbers
  <2>3. r \in Nat /\ r <= READ_TIMEOUT + ReadBlock /\ r < Round
    BY <1>1, <1>7, <1>2, <1>3, <1>6, <2>2, Numbers
  <2>4. r < Second
    BY <1>4, <2>3, Numbers
  <2>5. ((p - phase) + r) % Second = r
    BY <1>3, <2>3, <2>4, Numbers, Remainder
  <2>6. Fraction = Second - 1
    BY <1>6 DEF Fraction
  <2>7. now - phase - Fraction = (p - phase) + r
    BY <1>1, <1>3, <2>6, Numbers
  <2> QED
    BY <2>3, <2>5, <2>6, <2>7, Numbers
<1> QED
  BY <1>1, <1>5, <1>6, Numbers

Drawn == IInv /\ FractionTrue

\* The screen is never ahead of the pulses and never behind by a round, if a
\* redraw takes time at all.
THEOREM FractionShown ==
  ASSUME DrawTime > 0
  PROVE  Spec => []FractionTrue
<1>1. Init => Drawn
  BY InitIInv DEF Drawn, Init, FractionTrue
<1>2. ASSUME Drawn, [Next]_vars
      PROVE  Drawn'
  <2>1. IInv'
    BY <1>2, NextIInv DEF Drawn
  <2>2. Watched' => Watched
    BY <1>2 DEF Drawn, IInv, Steady, Clock, Watched, KeepsUp, Next, PollDcd, PollFails,
                LineRead, BytesRead, Wait, TimedOut, ReadFails, Redraw, NoRedraw, vars
  <2>3. CASE Redraw
    <3>1. /\ last_redraw' = now /\ phase' = phase /\ pc = "draw"
          /\ frac_ms' = IF edges > 0 THEN Fraction ELSE -1
      BY <2>3 DEF Redraw
    <3>2. edges > 0 => /\ Fraction < Second
                       /\ Watched => (now - phase - Fraction) % Second < Round
      BY <1>2, <3>1, ShownTrue DEF Drawn
    <3>3. FractionTrue'
      BY <2>2, <3>1, <3>2 DEF FractionTrue, Round
    <3> QED
      BY <2>1, <3>3 DEF Drawn
  <2>4. CASE ~ Redraw
    <3>1. UNCHANGED <<last_redraw, frac_ms, phase>>
      BY <1>2, <2>4 DEF Next, PollDcd, PollFails, LineRead, BytesRead, Wait, TimedOut,
                        ReadFails, NoRedraw, vars, screen
    <3> QED
      BY <1>2, <2>1, <2>2, <3>1 DEF Drawn, FractionTrue, Round
  <2> QED
    BY <2>3, <2>4
<1>3. Drawn => FractionTrue
  BY DEF Drawn
<1> QED
  BY <1>1, <1>2, <1>3, PTL DEF Spec

-----------------------------------------------------------------------------
(* The positions at which the lines end.                                   *)

\* A set of naturals has a least element.
LEMMA LeastExists ==
  ASSUME NEW S \in SUBSET Nat, S # {}
  PROVE  \E m \in S : \A n \in S : m <= n
<1> DEFINE R == {ss \in Nat \X Nat : ss[1] < ss[2]}
<1>1. IsWellFoundedOn(R, Nat)
  BY NatLessThanWellFounded, Zenon DEF OpToRel
<1>2. PICK m \in S : \A n \in S : ~ (<<n, m>> \in R)
  <2> HIDE DEF R
  <2> QED
    BY <1>1, WFMin, Zenon
<1>3. \A n \in S : ~ (n < m)
  BY <1>2
<1> QED
  BY <1>3

\* Induction up to n, over the members of a set.
LEMMA AllUpTo ==
  ASSUME NEW n \in Nat, NEW T, 0 \in T, \A i \in 1..n : i - 1 \in T => i \in T
  PROVE  \A i \in 0..n : i \in T
<1> DEFINE Bad == {i \in 0..n : i \notin T}
<1> SUFFICES ASSUME Bad # {}
             PROVE  FALSE
  OBVIOUS
<1>0. Bad \in SUBSET Nat
  OBVIOUS
<1>1. PICK m \in Bad : \A i \in Bad : m <= i
  <2> HIDE DEF Bad
  <2> QED
    BY <1>0, LeastExists
<1>2. m \in 0..n /\ m \notin T /\ m # 0
  BY <1>1
<1>3. m - 1 \notin Bad
  BY <1>1, <1>2
<1> QED
  BY <1>2, <1>3

LEMMA SumsExist ==
  ASSUME NEW s \in Seq(Nat)
  PROVE  \E f \in [0..Len(s) -> Nat] :
           f[0] = 0 /\ \A i \in 1..Len(s) : f[i] = f[i - 1] + s[i]
<1> DEFINE n == Len(s)
           Sums(m, f) == /\ f \in [0..n -> Nat] /\ f[0] = 0
                         /\ \A i \in 1..m : f[i] = f[i - 1] + s[i]
           T == {m \in 0..n : \E f : Sums(m, f)}
<1>0. n \in Nat /\ \A i \in 1..n : s[i] \in Nat
  OBVIOUS
<1>1. 0 \in T
  <2> DEFINE h == [i \in 0..n |-> 0]
  <2>1. Sums(0, h)
    OBVIOUS
  <2> HIDE DEF h, Sums
  <2> QED
    BY <1>0, <2>1
<1>2. ASSUME NEW m \in 1..n, m - 1 \in T
      PROVE  m \in T
  <2>1. PICK f : Sums(m - 1, f)
    BY <1>2
  <2> DEFINE h == [f EXCEPT ![m] = f[m - 1] + s[m]]
  <2>2. Sums(m, h)
    <3>1. h \in [0..n -> Nat]
      <4>1. m - 1 \in 0..n
        BY <1>0
      <4>2. f[m - 1] + s[m] \in Nat
        <5>1. f[m - 1] \in Nat
          BY <2>1, <4>1
        <5>2. s[m] \in Nat
          BY <1>0
        <5> QED
          BY <5>1, <5>2
      <4> QED
        BY <2>1, <4>2
    <3>2. /\ h[m] = f[m - 1] + s[m]
          /\ \A i \in 0..n : i # m => h[i] = f[i]
      <4>1. DOMAIN f = 0..n /\ m \in 0..n
        BY <1>0, <2>1
      <4> QED
        BY <4>1
    <3>3. h[0] = 0 /\ h[m - 1] = f[m - 1]
          /\ \A i \in 1..(m - 1) : h[i] = f[i] /\ h[i - 1] = f[i - 1]
      <4>1. 0 \in 0..n /\ 0 # m /\ m - 1 \in 0..n /\ m - 1 # m
        BY <1>0
      <4>2. \A i \in 1..(m - 1) : i \in 0..n /\ i # m /\ i - 1 \in 0..n /\ i - 1 # m
        BY <1>0
      <4> HIDE DEF h
      <4> QED
        BY <2>1, <3>2, <4>1, <4>2
    <3>4. \A i \in 1..m : i = m \/ i \in 1..(m - 1)
      BY <1>0
    <3> HIDE DEF h
    <3> QED
      BY <2>1, <3>1, <3>2, <3>3, <3>4
  <2> HIDE DEF h, Sums
  <2> QED
    BY <2>2
<1>3. n \in T
  <2> HIDE DEF T
  <2>1. \A i \in 0..n : i \in T
    BY <1>0, <1>1, <1>2, AllUpTo
  <2> QED
    BY <1>0, <2>1
<1> QED
  BY <1>3

\* EndOf sums the lengths, and so it grows.
LEMMA EndsAre ==
  ASSUME script \in Scripts
  PROVE  /\ Len(script) \in Nat /\ DOMAIN script = 1..Len(script)
         /\ \A i \in 1..Len(script) : script[i] \in Nat \ {0}
         /\ EndOf \in [0..Len(script) -> Nat] /\ EndOf[0] = 0
         /\ \A i \in 1..Len(script) : EndOf[i] = EndOf[i - 1] + script[i]
<1> DEFINE n == Len(script)
           Body(i, F) == IF i = 0 THEN 0 ELSE F[i - 1] + script[i]
           Out == CHOOSE f : f = [i \in 0..Len(script) |-> Body(i, f)]
<1>1. /\ script \in Seq(Nat \ {0}) /\ script \in Seq(Nat)
      /\ n \in Nat /\ DOMAIN script = 1..n /\ \A i \in 1..n : script[i] \in Nat \ {0}
  BY LineAssumption
<1>2. PICK f \in [0..n -> Nat] : f[0] = 0 /\ \A i \in 1..n : f[i] = f[i - 1] + script[i]
  BY <1>1, SumsExist
<1>3. \A i \in 0..n : f[i] = Body(i, f)
  <2>1. \A i \in 0..n : i = 0 \/ i \in 1..n
    BY <1>1
  <2> QED
    BY <1>1, <1>2, <2>1
<1>4. f = [i \in 0..n |-> Body(i, f)]
  <2> HIDE DEF Body, n
  <2> QED
    BY <1>2, <1>3
<1>5. Out = [i \in 0..n |-> Body(i, Out)]
  <2> HIDE DEF Body
  <2> QED
    BY <1>4
<1>6. EndOf = Out
  BY DEF EndOf
<1> HIDE DEF Out
<1>7. DOMAIN EndOf = 0..n /\ \A i \in 0..n : EndOf[i] = Body(i, EndOf)
  <2> HIDE DEF Body, n
  <2> QED
    BY <1>5, <1>6
<1>8. EndOf[0] = 0 /\ \A i \in 1..n : EndOf[i] = EndOf[i - 1] + script[i]
  <2>1. \A i \in 1..n : i \in 0..n /\ i # 0
    BY <1>1
  <2> QED
    BY <1>1, <1>7, <2>1
<1>9. \A i \in 0..n : EndOf[i] \in Nat
  <2> DEFINE T == {i \in 0..n : EndOf[i] \in Nat}
  <2>1. 0 \in T /\ \A i \in 1..n : i - 1 \in T => i \in T
    BY <1>1, <1>8
  <2> HIDE DEF T
  <2>2. \A i \in 0..n : i \in T
    BY <1>1, <2>1, AllUpTo
  <2> QED
    BY <2>2 DEF T
<1>10. EndOf \in [0..n -> Nat]
  <2>1. EndOf = [i \in 0..n |-> EndOf[i]]
    <3> HIDE DEF Body, n
    <3> QED
      BY <1>5, <1>6
  <2> QED
    BY <1>9, <2>1
<1> QED
  BY <1>1, <1>8, <1>10

LEMMA EndsGrow ==
  ASSUME script \in Scripts, NEW i \in 0..Len(script), NEW k \in 0..Len(script), i < k
  PROVE  EndOf[i] < EndOf[k]
<1> DEFINE n == Len(script)
           T == {m \in 0..n : i < m => EndOf[i] < EndOf[m]}
<1>1. /\ n \in Nat /\ \A m \in 1..n : EndOf[m] = EndOf[m - 1] + script[m]
      /\ \A m \in 0..n : EndOf[m] \in Nat
      /\ \A m \in 1..n : script[m] \in Nat \ {0}
  BY EndsAre
<1>2. 0 \in T
  BY <1>1
<1>3. ASSUME NEW m \in 1..n, m - 1 \in T
      PROVE  m \in T
  <2>1. m \in 0..n /\ m - 1 \in 0..n /\ i \in 0..n /\ i \in Nat /\ m \in Nat
    BY <1>1
  <2>2. /\ EndOf[m - 1] < EndOf[m]
        /\ EndOf[m - 1] \in Nat /\ EndOf[m] \in Nat /\ EndOf[i] \in Nat
    <3>1. EndOf[m - 1] \in Nat /\ EndOf[m] \in Nat /\ EndOf[i] \in Nat
      BY <1>1, <2>1
    <3>2. EndOf[m] = EndOf[m - 1] + script[m] /\ script[m] \in Nat \ {0}
      BY <1>1
    <3> QED
      BY <3>1, <3>2
  <2>3. i < m => i = m - 1 \/ i < m - 1
    BY <2>1
  <2>4. i < m - 1 => EndOf[i] < EndOf[m - 1]
    BY <1>3
  <2>5. i < m => EndOf[i] < EndOf[m]
    BY <2>2, <2>3, <2>4
  <2> QED
    BY <2>1, <2>5
<1> HIDE DEF T
<1>4. \A m \in 0..n : m \in T
  BY <1>1, <1>2, <1>3, AllUpTo
<1> QED
  BY <1>4 DEF T

-----------------------------------------------------------------------------
(* The line reader.                                                        *)

Line == [from : Nat, to : Nat, copied : Nat]

Taken(i) == \E j \in DOMAIN lines : lines[j].from = EndOf[i - 1] /\ lines[j].to = EndOf[i]

\* The lines returned lie before rx, one after another; and rx begins in the
\* middle of a line only when that is too long for it.
InOrder ==
  /\ \A j \in DOMAIN lines : /\ lines[j].from < lines[j].to /\ lines[j].to <= base
                             /\ lines[j].copied <= BufSize - 1
  /\ \A j, k \in DOMAIN lines : j < k => lines[j].to <= lines[k].from
Resumed ==
  \A i \in 1..Len(script) :
    EndOf[i - 1] < base /\ base < EndOf[i] => script[i] > RxCap - 1
ShortTaken ==
  \A i \in 1..Len(script) : script[i] <= RxCap - 1 /\ EndOf[i] <= base => Taken(i)

Positions ==
  /\ script \in Scripts /\ lines \in Seq(Line)
  /\ base \in Nat /\ rd \in Nat /\ base <= rd /\ rd <= EndOf[Len(script)]
  /\ rd - base <= RxCap

ReaderInv == Positions /\ InOrder /\ Resumed /\ ShortTaken

LEMMA InitReader == ReaderInit => ReaderInv
<1> SUFFICES ASSUME ReaderInit
             PROVE  ReaderInv
  OBVIOUS
<1>1. script \in Scripts /\ rd = 0 /\ base = 0 /\ lines = <<>>
  BY DEF ReaderInit
<1>2. /\ Len(script) \in Nat /\ EndOf[0] = 0
      /\ \A i \in 1..Len(script) : /\ EndOf[i] = EndOf[i - 1] + script[i]
                                   /\ script[i] \in Nat \ {0}
      /\ \A i \in 0..Len(script) : EndOf[i] \in Nat
  BY <1>1, EndsAre
<1>3. Positions
  BY <1>1, <1>2, LineAssumption DEF Positions
<1>4. InOrder
  BY <1>1 DEF InOrder
<1>5. ASSUME NEW i \in 1..Len(script)
      PROVE  EndOf[i - 1] >= 0 /\ EndOf[i] > 0
  <2>1. i - 1 \in 0..Len(script)
    BY <1>2
  <2>2. EndOf[i - 1] \in Nat
    BY <1>2, <2>1
  <2> QED
    BY <1>2, <2>2
<1>6. ASSUME NEW i \in 1..Len(script)
      PROVE  EndOf[i - 1] \in Nat /\ EndOf[i] \in Nat
  <2>1. i \in 0..Len(script) /\ i - 1 \in 0..Len(script)
    BY <1>2
  <2> QED
    BY <1>2, <2>1
<1>7. Resumed /\ ShortTaken
  BY <1>1, <1>5, <1>6 DEF Resumed, ShortTaken
<1> QED
  BY <1>3, <1>4, <1>7 DEF ReaderInv

\* The line that is taken ends at the first newline after base.
LEMMA FirstNewline ==
  ASSUME Positions, Complete # {}
  PROVE  \E i \in 1..Len(script) :
           /\ NextLine = EndOf[i] /\ base < EndOf[i] /\ EndOf[i] <= rd
           /\ EndOf[i - 1] <= base
<1>1. Newlines \subseteq Nat /\ Complete \subseteq Newlines
  <2>1. \A i \in DOMAIN script : EndOf[i] \in Nat
    <3>1. \A i \in DOMAIN script : i \in 0..Len(script)
      BY EndsAre DEF Positions
    <3> QED
      BY <3>1, EndsAre DEF Positions
  <2> QED
    BY <2>1 DEF Newlines, Complete
<1>2. PICK m \in Complete : \A e \in Complete : m <= e
  <2>1. Complete \in SUBSET Nat
    BY <1>1
  <2> QED
    BY <2>1, LeastExists
<1>3. NextLine = m
  <2>1. NextLine \in Complete /\ \A e \in Complete : NextLine <= e
    BY <1>2 DEF NextLine, Min
  <2>2. NextLine <= m /\ m <= NextLine /\ NextLine \in Nat /\ m \in Nat
    BY <1>1, <1>2, <2>1
  <2> QED
    BY <2>2
<1>4. base < m /\ m <= rd /\ m \in Newlines
  BY <1>2 DEF Complete
<1>5. PICK i \in DOMAIN script : m = EndOf[i]
  BY <1>4 DEF Newlines
<1>6. i \in 1..Len(script) /\ i - 1 \in 0..Len(script) /\ Len(script) \in Nat
  BY EndsAre DEF Positions
<1>7. EndOf[i - 1] \in Nat /\ EndOf[i] \in Nat /\ base \in Nat /\ rd \in Nat
  BY <1>1, <1>5, <1>6, EndsAre DEF Positions, Newlines
<1>8. EndOf[i - 1] < EndOf[i]
  BY <1>6, EndsGrow DEF Positions
<1>9. EndOf[i - 1] <= base
  <2>1. CASE i = 1
    BY <1>7, <2>1, EndsAre DEF Positions
  <2>2. CASE i # 1
    <3>1. i - 1 \in DOMAIN script
      BY <1>6, <2>2, EndsAre DEF Positions
    <3>2. EndOf[i - 1] \in Newlines /\ EndOf[i - 1] \notin Complete
      BY <1>2, <1>5, <1>7, <1>8, <3>1 DEF Newlines
    <3>3. ~ (base < EndOf[i - 1]) \/ ~ (EndOf[i - 1] <= rd)
      BY <3>2 DEF Complete
    <3> QED
      BY <1>4, <1>5, <1>7, <1>8, <3>3
  <2> QED
    BY <2>1, <2>2
<1> QED
  BY <1>3, <1>4, <1>5, <1>6, <1>9

LEMMA TakeReader ==
  ASSUME ReaderInv, TakeLine
  PROVE  ReaderInv'
<1> DEFINE new == [from |-> base, to |-> NextLine, copied |-> Copied(NextLine - 1 - base)]
           n == Len(script)
<1>1. /\ Complete # {} /\ lines' = Append(lines, new) /\ base' = NextLine
      /\ script' = script /\ rd' = rd
  BY DEF TakeLine
<1>2. PICK i \in 1..n : /\ NextLine = EndOf[i] /\ base < EndOf[i] /\ EndOf[i] <= rd
                        /\ EndOf[i - 1] <= base
  BY <1>1, FirstNewline DEF ReaderInv
<1>3. /\ n \in Nat /\ base \in Nat /\ rd \in Nat /\ base <= rd /\ rd <= EndOf[n]
      /\ rd - base <= RxCap /\ script \in Scripts /\ lines \in Seq(Line)
  BY EndsAre DEF ReaderInv, Positions
<1>4. \A m \in 0..n : EndOf[m] \in Nat
  BY <1>3, EndsAre
<1>5. i \in 0..n /\ i - 1 \in 0..n /\ EndOf[i] \in Nat /\ EndOf[i - 1] \in Nat
  BY <1>3, <1>4
<1>6. EndOf' = EndOf
  BY <1>1 DEF EndOf
<1>7. new \in Line /\ new.copied <= BufSize - 1
  <2>1. NextLine - 1 - base \in Nat
    BY <1>2, <1>3, <1>5
  <2>2. Copied(NextLine - 1 - base) \in Nat /\ Copied(NextLine - 1 - base) <= BufSize - 1
    <3> DEFINE length == NextLine - 1 - base
    <3>1. length \in Nat
      BY <2>1
    <3> HIDE DEF length
    <3>2. Copied(length) \in Nat /\ Copied(length) <= BufSize - 1
      BY <3>1, LineAssumption DEF Copied
    <3> QED
      BY <3>2 DEF length
  <2>3. base \in Nat /\ NextLine \in Nat
    BY <1>2, <1>3, <1>5
  <2> DEFINE copied == Copied(NextLine - 1 - base)
  <2> HIDE DEF copied
  <2>4. [from |-> base, to |-> NextLine, copied |-> copied]
          \in [from : Nat, to : Nat, copied : Nat]
    BY <2>2, <2>3 DEF copied
  <2> QED
    BY <2>2, <2>4 DEF Line, copied
<1> HIDE DEF new
<1>8. /\ lines' \in Seq(Line) /\ Len(lines) \in Nat
      /\ DOMAIN lines = 1..Len(lines) /\ DOMAIN lines' = 1..(Len(lines) + 1)
      /\ \A j \in 1..Len(lines) : lines'[j] = lines[j] /\ lines[j] \in Line
      /\ lines'[Len(lines) + 1] = new
  BY <1>1, <1>3, <1>7
<1>9. Positions'
  <2>1. rd - EndOf[i] <= RxCap
    BY <1>2, <1>3, <1>5, LineAssumption
  <2> QED
    BY <1>1, <1>2, <1>3, <1>5, <1>6, <1>8, <2>1 DEF Positions
<1>10. InOrder'
  <2>1. \A j \in 1..Len(lines) : /\ lines[j].from < lines[j].to /\ lines[j].to <= base
                                 /\ lines[j].copied <= BufSize - 1 /\ lines[j].to \in Nat
    BY <1>8 DEF ReaderInv, InOrder, Line
  <2>2. new.from = base /\ new.to = base'
    BY <1>1 DEF new
  <2>3. base < base' /\ base' \in Nat
    BY <1>1, <1>2, <1>5
  <2>4. \A j \in 1..(Len(lines) + 1) :
          /\ lines'[j].from < lines'[j].to /\ lines'[j].to <= base'
          /\ lines'[j].copied <= BufSize - 1
    <3>1. \A j \in 1..(Len(lines) + 1) : j \in 1..Len(lines) \/ j = Len(lines) + 1
      BY <1>8
    <3>2. \A j \in 1..Len(lines) :
            /\ lines'[j].from < lines'[j].to /\ lines'[j].to <= base'
            /\ lines'[j].copied <= BufSize - 1
      BY <1>3, <1>8, <2>1, <2>3
    <3> QED
      BY <1>3, <1>7, <1>8, <2>2, <2>3, <3>1, <3>2
  <2>5. ASSUME NEW j \in 1..(Len(lines) + 1), NEW k \in 1..(Len(lines) + 1), j < k
        PROVE  lines'[j].to <= lines'[k].from
    <3>1. j \in 1..Len(lines)
      BY <1>8, <2>5
    <3>2. CASE k \in 1..Len(lines)
      BY <1>8, <2>5, <3>1, <3>2 DEF ReaderInv, InOrder
    <3>3. CASE k = Len(lines) + 1
      BY <1>8, <2>1, <2>2, <3>1, <3>3
    <3> QED
      BY <1>8, <3>2, <3>3
  <2> QED
    BY <1>8, <2>4, <2>5 DEF InOrder
<1>11. Resumed'
  <2> SUFFICES ASSUME NEW k \in 1..n, EndOf[k - 1] < EndOf[i], EndOf[i] < EndOf[k]
               PROVE  FALSE
    BY <1>1, <1>2, <1>6 DEF Resumed
  <2>1. k \in 0..n /\ k - 1 \in 0..n /\ k \in Nat /\ i \in Nat
    BY <1>3
  <2>2. i < k
    <3>1. CASE k < i
      BY <1>3, <1>4, <1>5, <2>1, <3>1, EndsGrow
    <3>2. CASE k = i
      BY <1>5, <3>2
    <3> QED
      BY <2>1, <3>1, <3>2
  <2>3. k - 1 = i \/ i < k - 1
    BY <2>1, <2>2
  <2>4. EndOf[k - 1] \in Nat
    BY <1>4, <2>1
  <2>5. i < k - 1 => EndOf[i] < EndOf[k - 1]
    BY <1>3, <1>5, <2>1, EndsGrow
  <2> QED
    BY <1>5, <2>3, <2>4, <2>5
<1>12. ASSUME NEW k \in 1..n, script[k] <= RxCap - 1, EndOf[k] <= EndOf[i]
       PROVE  \E j \in DOMAIN lines' : lines'[j].from = EndOf[k - 1] /\ lines'[j].to = EndOf[k]
  <2>1. k \in 0..n /\ k - 1 \in 0..n /\ k \in Nat /\ i \in Nat
        /\ EndOf[k] \in Nat /\ EndOf[k - 1] \in Nat
    BY <1>3, <1>4
  <2>2. CASE k < i
    <3>1. k <= i - 1
      BY <2>1, <2>2
    <3>2. EndOf[k] <= EndOf[i - 1]
      <4>1. k = i - 1 \/ k < i - 1
        BY <2>1, <3>1
      <4>2. k < i - 1 => EndOf[k] < EndOf[i - 1]
        BY <1>3, <1>5, <2>1, EndsGrow
      <4> QED
        BY <1>5, <2>1, <4>1, <4>2
    <3>3. EndOf[k] <= base
      BY <1>2, <1>3, <1>5, <2>1, <3>2
    <3>4. Taken(k)
      BY <1>12, <3>3 DEF ReaderInv, ShortTaken
    <3>5. PICK j \in DOMAIN lines : lines[j].from = EndOf[k - 1] /\ lines[j].to = EndOf[k]
      BY <3>4 DEF Taken
    <3>6. j \in DOMAIN lines' /\ lines'[j] = lines[j]
      BY <1>8
    <3> QED
      BY <3>5, <3>6
  <2>3. CASE k = i
    <3>1. EndOf[i - 1] = base
      <4>1. ~ (EndOf[i - 1] < base /\ base < EndOf[i])
        <5>1. script[i] \in Nat /\ ~ (script[i] > RxCap - 1)
          BY <1>3, <1>12, <2>3, LineAssumption, EndsAre
        <5> QED
          BY <5>1 DEF ReaderInv, Resumed
      <4> QED
        BY <1>2, <1>3, <1>5, <4>1
    <3>2. new.from = EndOf[k - 1] /\ new.to = EndOf[k]
      BY <1>2, <2>3, <3>1 DEF new
    <3>3. Len(lines) + 1 \in DOMAIN lines'
      BY <1>8
    <3> QED
      BY <1>8, <3>2, <3>3
  <2>4. CASE i < k
    BY <1>3, <1>5, <1>12, <2>1, <2>4, EndsGrow
  <2> QED
    BY <2>1, <2>2, <2>3, <2>4
<1>13. ShortTaken'
  BY <1>1, <1>2, <1>6, <1>12 DEF ShortTaken, Taken
<1> QED
  BY <1>9, <1>10, <1>11, <1>13 DEF ReaderInv

\* What a full rx throws away has no newline, so it is the begin of a line that
\* does not fit.
LEMMA ReadReader ==
  ASSUME ReaderInv, NEW k \in 1..RxCap, ReadBytes(k)
  PROVE  ReaderInv'
<1> DEFINE n == Len(script)
<1>1. /\ Complete = {} /\ base' = IF rd - base >= RxCap - 1 THEN rd ELSE base
      /\ k <= RxCap - (rd - base') /\ rd + k <= EndOf[n] /\ rd' = rd + k
      /\ script' = script /\ lines' = lines
  BY DEF ReadBytes, RxFull, rx_len
<1>2. /\ n \in Nat /\ base \in Nat /\ rd \in Nat /\ base <= rd /\ rd <= EndOf[n]
      /\ rd - base <= RxCap /\ script \in Scripts /\ lines \in Seq(Line)
      /\ RxCap \in Nat /\ k \in Nat /\ k >= 1 /\ DOMAIN script = 1..n
  BY EndsAre, LineAssumption DEF ReaderInv, Positions
<1>3. EndOf' = EndOf
  BY <1>1 DEF EndOf
<1>4. base' \in Nat /\ base <= base' /\ base' <= rd
  BY <1>1, <1>2
<1>5. ASSUME NEW i \in 1..n
      PROVE  /\ i \in 0..n /\ i - 1 \in 0..n /\ EndOf[i] \in Nat /\ EndOf[i - 1] \in Nat
             /\ EndOf[i] <= rd => EndOf[i] <= base
             /\ EndOf[i - 1] <= rd => EndOf[i - 1] <= base
             /\ EndOf[i] = EndOf[i - 1] + script[i] /\ script[i] \in Nat
  <2>1. i \in 0..n /\ i - 1 \in 0..n /\ (i = 1 \/ i - 1 \in 1..n)
    BY <1>2
  <2>2. EndOf[i] \in Nat /\ EndOf[i - 1] \in Nat /\ EndOf[0] = 0
    BY <1>2, <2>1, EndsAre
  <2>3. \A m \in 1..n : ~ (base < EndOf[m] /\ EndOf[m] <= rd)
    BY <1>1, <1>2 DEF Complete, Newlines
  <2>4. EndOf[i] = EndOf[i - 1] + script[i] /\ script[i] \in Nat
    BY <1>2, EndsAre
  <2>5. EndOf[i] <= rd => EndOf[i] <= base
    BY <1>2, <2>2, <2>3
  <2>6. EndOf[i - 1] <= rd => EndOf[i - 1] <= base
    <3>1. CASE i = 1
      BY <1>2, <2>2, <3>1
    <3>2. CASE i - 1 \in 1..n
      BY <1>2, <2>2, <2>3, <3>2
    <3> QED
      BY <2>1, <3>1, <3>2
  <2> QED
    BY <2>1, <2>2, <2>4, <2>5, <2>6
<1>6. Positions'
  <2>1. rd + k - base' <= RxCap
    BY <1>1, <1>2, <1>4
  <2>2. rd + k \in Nat /\ base' <= rd + k
    BY <1>2, <1>4
  <2> QED
    BY <1>1, <1>2, <1>3, <1>4, <2>1, <2>2 DEF Positions
<1>7. InOrder'
  <2>1. \A j \in DOMAIN lines : lines[j].to \in Nat
    <3>1. \A j \in DOMAIN lines : lines[j] \in Line
      BY <1>2
    <3> QED
      BY <3>1 DEF Line
  <2> QED
    BY <1>1, <1>2, <1>4, <2>1 DEF ReaderInv, InOrder
<1>8. Resumed'
  <2> SUFFICES ASSUME NEW i \in 1..n, EndOf[i - 1] < base', base' < EndOf[i]
               PROVE  script[i] > RxCap - 1
    BY <1>1, <1>3 DEF Resumed
  <2>1. CASE base' = base
    BY <2>1 DEF ReaderInv, Resumed
  <2>2. CASE base' = rd /\ rd - base >= RxCap - 1
    <3>1. EndOf[i - 1] <= base
      BY <1>2, <1>5, <2>2
    <3> QED
      BY <1>2, <1>5, <2>2, <3>1
  <2> QED
    BY <1>1, <2>1, <2>2
<1>9. ShortTaken'
  <2> SUFFICES ASSUME NEW i \in 1..n, script[i] <= RxCap - 1, EndOf[i] <= base'
               PROVE  Taken(i)'
    BY <1>1, <1>3 DEF ShortTaken
  <2>1. EndOf[i] <= base
    BY <1>2, <1>4, <1>5
  <2> QED
    BY <1>1, <1>3, <2>1 DEF ReaderInv, ShortTaken, Taken
<1> QED
  BY <1>6, <1>7, <1>8, <1>9 DEF ReaderInv

LEMMA SameReader ==
  ASSUME ReaderInv, UNCHANGED reader
  PROVE  ReaderInv'
<1>1. EndOf' = EndOf /\ UNCHANGED <<script, rd, base, lines>>
  BY DEF EndOf, reader
<1> QED
  BY <1>1 DEF ReaderInv, Positions, InOrder, Resumed, ShortTaken, Taken

\* The lines of the buffer are returned or being read; no step of the loop but
\* readline touches them.
LEMMA NextReader == ReaderInv /\ [Next]_vars => ReaderInv'
<1> SUFFICES ASSUME ReaderInv, [Next]_vars
             PROVE  ReaderInv'
  OBVIOUS
<1>1. CASE LineRead
  BY <1>1, TakeReader DEF LineRead
<1>2. CASE BytesRead
  BY <1>2, ReadReader DEF BytesRead
<1>3. CASE UNCHANGED reader
  BY <1>3, SameReader
<1>4. CASE ~ LineRead /\ ~ BytesRead
  <2>1. UNCHANGED reader
    BY <1>4 DEF Next, PollDcd, PollFails, Wait, TimedOut, ReadFails, Redraw, NoRedraw, vars
  <2> QED
    BY <1>3, <2>1
<1> QED
  BY <1>1, <1>2, <1>4

LEMMA AlwaysReader == Spec => []ReaderInv
<1>1. Init => ReaderInv
  BY InitReader DEF Init
<1> QED
  BY <1>1, NextReader, PTL DEF Spec

\* Whatever the reads cut the stream into and however long the lines before it
\* are, a line that fits rx is returned once and whole (lbe_serial_readline).
THEOREM LinesReturned == Spec => []ShortLinesSurvive
<1>1. ReaderInv => ShortLinesSurvive
  <2> SUFFICES ASSUME ReaderInv, NEW i \in DOMAIN script,
                      script[i] <= RxCap - 1, EndOf[i] <= base
               PROVE  Cardinality({ j \in DOMAIN lines :
                        lines[j].from = EndOf[i - 1] /\ lines[j].to = EndOf[i] }) = 1
    BY DEF ShortLinesSurvive
  <2> DEFINE S == { j \in DOMAIN lines :
                      lines[j].from = EndOf[i - 1] /\ lines[j].to = EndOf[i] }
  <2>1. i \in 1..Len(script)
    BY EndsAre DEF ReaderInv, Positions
  <2>2. PICK j \in DOMAIN lines : lines[j].from = EndOf[i - 1] /\ lines[j].to = EndOf[i]
    BY <2>1 DEF ReaderInv, ShortTaken, Taken
  <2>3. DOMAIN lines = 1..Len(lines) /\ Len(lines) \in Nat
        /\ \A k \in DOMAIN lines : lines[k].from \in Nat /\ lines[k].to \in Nat
    <3>1. lines \in Seq(Line)
      BY DEF ReaderInv, Positions
    <3>2. \A k \in DOMAIN lines : lines[k] \in Line
      BY <3>1
    <3> QED
      BY <3>1, <3>2 DEF Line
  <2>4. ASSUME NEW k \in S
        PROVE  k = j
    <3>1. k \in DOMAIN lines /\ lines[k].from = lines[j].from /\ lines[k].to = lines[j].to
      BY <2>2
    <3>2. lines[j].from < lines[j].to
      BY DEF ReaderInv, InOrder
    <3>3. ~ (k < j)
      <4>1. k < j => lines[k].to <= lines[j].from
        BY <3>1 DEF ReaderInv, InOrder
      <4> QED
        BY <2>3, <3>1, <3>2, <4>1
    <3>4. ~ (j < k)
      <4>1. j < k => lines[j].to <= lines[k].from
        BY <3>1 DEF ReaderInv, InOrder
      <4> QED
        BY <2>3, <3>1, <3>2, <4>1
    <3> QED
      BY <2>3, <3>1, <3>3, <3>4
  <2>5. S = {j}
    BY <2>2, <2>4
  <2>6. Cardinality({j}) = 1
    BY FS_Singleton
  <2> QED
    BY <2>5, <2>6
<1> QED
  BY <1>1, AlwaysReader, PTL

-----------------------------------------------------------------------------
(* Types.                                                                  *)

\* What the loop and the tracker keep; with the reader's part this is TypeOK.
Ranges ==
  /\ now \in Nat /\ now <= MaxTime /\ pc \in {"poll", "read", "draw", "ended"}
  /\ left \in Int /\ - ReadBlock <= left /\ left <= READ_TIMEOUT
  /\ dcd_prev \in {0, 1, Unknown} /\ fails \in Nat
  /\ edges \in Nat /\ hist_n = (IF edges = 0 THEN 0 ELSE edges - 1)
  /\ edge_ms \in Nat /\ edge_ms <= now /\ polled \in Nat /\ polled <= now
  /\ last_redraw \in Nat /\ last_redraw <= now
  /\ last_nmea_ms \in Nat /\ last_nmea_ms <= now
  /\ nmea_to_edge_ms \in Nat /\ nmea_to_edge_ms <= now
  /\ hist \in [0..(PPS_HISTORY - 1) -> Nat]

LEMMA InitRanges == Init => Ranges
<1> SUFFICES ASSUME Init
             PROVE  Ranges
  OBVIOUS
<1>1. dcd_prev \in {0, 1, Unknown}
  BY DcdIsPulse DEF Init, DcdAtStart
<1>2. fails \in Nat
  BY DEF Init
<1>3. hist \in [0..(PPS_HISTORY - 1) -> Nat]
  BY DEF Init
<1> QED
  BY <1>1, <1>2, <1>3, Numbers DEF Init, Ranges

LEMMA EdgeRanges ==
  ASSUME Ranges, OnEdge, now' = now
  PROVE  /\ edges' \in Nat /\ hist_n' = (IF edges' = 0 THEN 0 ELSE edges' - 1)
         /\ edge_ms' \in Nat /\ edge_ms' <= now
         /\ nmea_to_edge_ms' \in Nat /\ nmea_to_edge_ms' <= now
         /\ hist' \in [0..(PPS_HISTORY - 1) -> Nat]
<1>1. /\ edges \in Nat /\ now \in Nat /\ edge_ms \in Nat /\ edge_ms <= now
      /\ hist_n = (IF edges = 0 THEN 0 ELSE edges - 1)
      /\ hist \in [0..(PPS_HISTORY - 1) -> Nat]
      /\ last_nmea_ms \in Nat /\ last_nmea_ms <= now
      /\ nmea_to_edge_ms \in Nat /\ nmea_to_edge_ms <= now
  BY DEF Ranges
<1>2. /\ edge_ms' = now /\ edges' = edges + 1
      /\ nmea_to_edge_ms' = IF last_nmea_ms # 0 THEN now - last_nmea_ms ELSE nmea_to_edge_ms
  BY DEF OnEdge
<1>3. CASE edges > 0
  <2>1. /\ hist' = [hist EXCEPT ![hist_n % PPS_HISTORY] = now - edge_ms]
        /\ hist_n' = hist_n + 1
    BY <1>3 DEF OnEdge
  <2>2. now - edge_ms \in Nat
    BY <1>1
  <2>3. hist' \in [0..(PPS_HISTORY - 1) -> Nat]
    BY <1>1, <2>1, <2>2
  <2>4. nmea_to_edge_ms' \in Nat /\ nmea_to_edge_ms' <= now
    BY <1>1, <1>2
  <2>5. edges' \in Nat /\ hist_n' = (IF edges' = 0 THEN 0 ELSE edges' - 1)
    BY <1>1, <1>2, <1>3, <2>1
  <2> QED
    BY <1>1, <1>2, <2>3, <2>4, <2>5
<1>4. CASE edges = 0
  <2>1. UNCHANGED <<hist, hist_n>>
    BY <1>4 DEF OnEdge
  <2> QED
    BY <1>1, <1>2, <1>4, <2>1
<1> QED
  BY <1>1, <1>3, <1>4

LEMMA NextRanges == Ranges /\ [Next]_vars => Ranges'
<1> SUFFICES ASSUME Ranges, [Next]_vars
             PROVE  Ranges'
  OBVIOUS
<1>1. CASE PollDcd
  <2>1. dcd_prev' \in {0, 1, Unknown} /\ now' = now /\ left' = READ_TIMEOUT /\ polled' = now
        /\ pc' = "read" /\ UNCHANGED <<last_nmea_ms, last_redraw, fails>>
    BY <1>1, DcdIsPulse DEF PollDcd, screen
  <2>2. CASE OnEdge
    <3>1. /\ edges' \in Nat /\ hist_n' = (IF edges' = 0 THEN 0 ELSE edges' - 1)
          /\ edge_ms' \in Nat /\ edge_ms' <= now
          /\ nmea_to_edge_ms' \in Nat /\ nmea_to_edge_ms' <= now
          /\ hist' \in [0..(PPS_HISTORY - 1) -> Nat]
      BY <2>1, <2>2, EdgeRanges
    <3> QED
      BY <2>1, <3>1, Numbers DEF Ranges
  <2>3. CASE UNCHANGED pps
    BY <2>1, <2>3, Numbers DEF Ranges, pps
  <2> QED
    BY <1>1, <2>2, <2>3 DEF PollDcd
<1>2. CASE PollFails
  BY <1>2, Numbers DEF PollFails, Ranges, pps, screen
<1>3. CASE LineRead
  <2>1. pc' = "draw" /\ (last_nmea_ms' = now \/ last_nmea_ms' = last_nmea_ms)
        /\ UNCHANGED <<now, left, dcd_prev, pps, last_redraw, polled, fails>>
    BY <1>3 DEF LineRead, screen
  <2> QED
    BY <2>1 DEF Ranges, pps
<1>4. CASE BytesRead
  BY <1>4 DEF BytesRead, Ranges, pps, screen
<1>5. CASE Wait
  BY <1>5, Numbers DEF Wait, Ranges, pps, screen
<1>6. CASE TimedOut
  BY <1>6 DEF TimedOut, Ranges, pps, screen
<1>7. CASE ReadFails
  BY <1>7 DEF ReadFails, Ranges, pps, screen
<1>8. CASE Redraw
  <2>1. PICK d \in 0..DrawTime : now + d <= MaxTime /\ now' = now + d
    BY <1>8 DEF Redraw
  <2>2. /\ pc' = "poll" /\ last_redraw' = now
        /\ UNCHANGED <<left, dcd_prev, pps, last_nmea_ms, polled, fails>>
    BY <1>8 DEF Redraw
  <2>3. now' \in Nat /\ now <= now' /\ now' <= MaxTime /\ now \in Nat
    BY <2>1, Numbers DEF Ranges
  <2> QED
    BY <2>2, <2>3 DEF Ranges, pps
<1>9. CASE NoRedraw
  BY <1>9 DEF NoRedraw, Ranges, pps, screen
<1>10. CASE UNCHANGED vars
  BY <1>10 DEF vars, Ranges, pps, screen
<1> QED
  BY <1>1, <1>2, <1>3, <1>4, <1>5, <1>6, <1>7, <1>8, <1>9, <1>10 DEF Next

\* The reader and the tracker keep their types: rx holds no more than its
\* capacity, no line returned fills the caller's buffer to the last byte, and
\* every time kept lies in the past.
THEOREM TypeCorrect == Spec => []TypeOK
<1>1. ReaderInv => ReaderTypeOK
  <2> SUFFICES ASSUME ReaderInv
               PROVE  ReaderTypeOK
    OBVIOUS
  <2>1. /\ script \in Scripts /\ lines \in Seq(Line)
        /\ base \in Nat /\ rd \in Nat /\ base <= rd /\ rd <= EndOf[Len(script)]
        /\ rd - base <= RxCap
    BY DEF ReaderInv, Positions
  <2>2. EndOf[Len(script)] \in Nat
    BY <2>1, EndsAre
  <2>3. \A i \in DOMAIN lines : lines[i].copied \in 0..(BufSize - 1)
    <3>1. \A i \in DOMAIN lines : lines[i] \in Line
      BY <2>1
    <3>2. \A i \in DOMAIN lines : lines[i].copied \in Nat /\ lines[i].copied <= BufSize - 1
      BY <3>1 DEF Line, ReaderInv, InOrder
    <3> QED
      BY <3>2, LineAssumption
  <2> QED
    BY <2>1, <2>2, <2>3 DEF ReaderTypeOK, rx_len
<1>2. Ranges /\ ReaderInv => TypeOK
  <2> SUFFICES ASSUME Ranges, ReaderTypeOK
               PROVE  TypeOK
    BY <1>1
  <2>1. hist_n = Max({edges - 1, 0})
    <3>1. edges \in Nat /\ hist_n = (IF edges = 0 THEN 0 ELSE edges - 1)
      BY DEF Ranges
    <3>2. Max({edges - 1, 0}) = IF edges - 1 >= 0 THEN edges - 1 ELSE 0
      BY <3>1, OfTwo
    <3> QED
      BY <3>1, <3>2
  <2> QED
    BY <2>1, Numbers DEF Ranges, TypeOK
<1>3. Spec => []Ranges
  BY InitRanges, NextRanges, PTL DEF Spec
<1> QED
  BY <1>2, <1>3, AlwaysReader, PTL
=============================================================================
