-------------------------- MODULE ClocklogProofs --------------------------
(***************************************************************************)
(* What holds of the clock log for every receiver: any starts, any         *)
(* corrections, any losses.  Rows of two seconds are told apart by their   *)
(* time of week, so what is said of the order of seconds has the premise   *)
(* that a log is shorter than a week; the trust gate needs none.           *)
(***************************************************************************)
EXTENDS Clocklog, TLAPS

\* The fix kept is this second's once its NAV-PVT has come.
FixCurrent ==
  /\ \A e \in pvt_heard : e <= epoch
  /\ epoch \in pvt_heard => fix_type = sol.fix

\* Rows carry times of week.
RowsInWeek == \A i \in 1..Len(rows) : rows[i].itow < WeekMs

Gated == TypeOK /\ FixCurrent /\ RowsInWeek /\ FreshMeansExact

\* Time of week b is d seconds after a, perhaps beyond the end of the week.
Apart(a, b, d) == b = a + d * Second \/ b + WeekMs = a + d * Second

\* last_itow is the last row's.
LastKept ==
  /\ have_itow <=> rows # <<>>
  /\ rows # <<>> => last_itow = rows[Len(rows)].itow

\* Until a correction, a row's distance in seconds shows in its iTOW.
Timeline ==
  ~ corrected =>
    \A i \in 1..Len(rows) :
      rows[i].epoch <= epoch /\ Apart(rows[i].itow, tow, epoch - rows[i].epoch)

\* Until any disturbance it does so without a wrap, and every NAV-PVT came.
Undisturbed ==
  ~ disturbed =>
    /\ ~ corrected
    /\ \A i \in 1..Len(rows) :
         tow = rows[i].itow + (epoch - rows[i].epoch) * Second
    /\ phase # "pvt" => epoch \in pvt_heard

Timed == LastKept /\ Timeline /\ Undisturbed /\ HeardIsLogged /\ MissedMeansGap

\* The premise on a log.
ShortLog == MaxEpoch * Second < WeekMs

-----------------------------------------------------------------------------
(* The week is a number, and is not looked into any further.               *)

LEMMA Week == WeekMs \in Nat /\ Second \in Nat /\ Second < WeekMs
  BY SMT DEF WeekMs, Second

\* A row added is of the present second.
LEMMA NewRow ==
  ASSUME TypeOK, NEW g \in BOOLEAN
  PROVE  Row(g) \in RowType
<1>1. tow \in Nat /\ fix_type \in Nat /\ epoch \in Nat
  BY ClocklogAssumption, Week DEF TypeOK
<1>2. sol.tacc \in BOOLEAN /\ sol.facc \in BOOLEAN
  BY DEF TypeOK, Solution
<1>3. RowValid \in BOOLEAN /\ Trusted(sol) \in BOOLEAN
  BY Zenon DEF RowValid, Trusted
<1>4. (epoch \in pvt_heard) \in BOOLEAN
  OBVIOUS
<1> QED
  BY <1>1, <1>2, <1>3, <1>4, Zenon DEF Row, RowType

\* Appending leaves the rows before alone.
LEMMA Appended ==
  ASSUME TypeOK, NEW r \in RowType, rows' = Append(rows, r)
  PROVE  /\ rows' \in Seq(RowType) /\ rows' # <<>>
         /\ Len(rows) \in Nat /\ Len(rows') = Len(rows) + 1
         /\ rows'[Len(rows')] = r
         /\ \A i \in 1..Len(rows) : rows'[i] = rows[i] /\ rows[i] \in RowType
         /\ rows # <<>> <=> Len(rows) > 0
  BY DEF TypeOK

-----------------------------------------------------------------------------
(* The state and the trust gate.                                           *)

LEMMA InitGated == Init => Gated
<1> SUFFICES ASSUME Init PROVE Gated
  OBVIOUS
<1>1. TypeOK
  <2>1. <<>> \in Seq(RowType)
    OBVIOUS
  <2>2. 0 \in 0..(WeekMs - 1) /\ 0 \in 0..MaxEpoch
    BY ClocklogAssumption, Week DEF TypeOK
  <2> QED
    BY <2>1, <2>2, ClocklogAssumption DEF Init, TypeOK
<1>2. FixCurrent /\ RowsInWeek /\ FreshMeansExact
  BY DEF Init, FixCurrent, RowsInWeek, FreshMeansExact
<1> QED
  BY <1>1, <1>2 DEF Gated

LEMMA FeedPvtGated ==
  ASSUME Gated, FeedPvt, phase' \in {"clock", "sent"},
         UNCHANGED <<epoch, tow, sol, corrected, disturbed>>
  PROVE  Gated'
<1>1. TypeOK'
  BY DEF Gated, TypeOK, FeedPvt, Solution
<1>2. FixCurrent' /\ RowsInWeek' /\ FreshMeansExact'
  BY ClocklogAssumption DEF Gated, TypeOK, FeedPvt, FixCurrent,
                              RowsInWeek, FreshMeansExact
<1> QED
  BY <1>1, <1>2 DEF Gated

LEMMA FeedClockGated ==
  ASSUME Gated, FeedClock, phase' = "sent",
         UNCHANGED <<epoch, tow, sol, corrected, disturbed>>
  PROVE  Gated'
<1>1. Gap \in BOOLEAN
  BY Zenon DEF Gap
<1>2. FixCurrent'
  BY DEF Gated, FeedClock, FixCurrent, host
<1>3. CASE Stale
  <2>1. TypeOK'
    BY <1>3 DEF Gated, TypeOK, FeedClock, host
  <2> QED
    BY <1>2, <1>3, <2>1 DEF Gated, FeedClock, RowsInWeek, FreshMeansExact, host
<1>4. CASE ~ Stale
  <2> DEFINE r == Row(Gap)
  <2>1. r \in RowType
    BY <1>1, NewRow DEF Gated
  <2>2. rows' = Append(rows, r) /\ last_itow' = tow /\ have_itow' = TRUE
    BY <1>4 DEF FeedClock
  <2>3. r.fresh => r.valid = r.trusted
    <3>1. epoch \in pvt_heard => RowValid = Trusted(sol)
      BY Zenon DEF Gated, FixCurrent, RowValid, Trusted
    <3> QED
      BY <3>1, Zenon DEF Row
  <2> HIDE DEF r
  <2>4. TypeOK'
    <3>1. rows' \in Seq(RowType)
      BY <2>1, <2>2, Appended DEF Gated
    <3>2. tow \in 0..(WeekMs - 1) /\ heard' \subseteq 0..MaxEpoch
      BY DEF Gated, TypeOK, FeedClock
    <3> QED
      BY <1>4, <2>2, <3>1, <3>2 DEF Gated, TypeOK, FeedClock
  <2>5. FreshMeansExact'
    <3> SUFFICES ASSUME NEW i \in 1..Len(rows'), rows'[i].fresh
                 PROVE  rows'[i].valid = rows'[i].trusted
      BY DEF FreshMeansExact
    <3>1. i \in 1..Len(rows) \/ i = Len(rows')
      BY <2>1, <2>2, Appended DEF Gated
    <3>2. CASE i \in 1..Len(rows)
      BY <2>1, <2>2, <3>2, Appended, Zenon DEF Gated, FreshMeansExact
    <3>3. CASE i = Len(rows')
      BY <2>1, <2>2, <2>3, <3>3, Appended, Zenon DEF Gated
    <3> QED
      BY <3>1, <3>2, <3>3
  <2>6. RowsInWeek'
    <3>1. r.itow < WeekMs
      BY Week DEF r, Row, Gated, TypeOK
    <3>2. \A i \in 1..Len(rows') : i \in 1..Len(rows) \/ i = Len(rows')
      BY <2>1, <2>2, Appended DEF Gated
    <3> QED
      BY <2>1, <2>2, <3>1, <3>2, Appended DEF Gated, RowsInWeek
  <2> QED
    BY <1>2, <2>4, <2>5, <2>6 DEF Gated
<1> QED
  BY <1>3, <1>4

LEMMA NextSecondGated ==
  ASSUME Gated, NEW t \in 0..(WeekMs - 1), NextSecond(t),
         corrected' \in BOOLEAN, disturbed' \in BOOLEAN
  PROVE  Gated'
<1>1. TypeOK'
  BY ClocklogAssumption DEF Gated, TypeOK, NextSecond, host
<1>2. FixCurrent' /\ RowsInWeek' /\ FreshMeansExact'
  BY DEF Gated, TypeOK, NextSecond, host, FixCurrent, RowsInWeek, FreshMeansExact
<1> QED
  BY <1>1, <1>2 DEF Gated

\* The time of week of the next second, or of a correction, is in the week.
LEMMA TicksInWeek ==
  ASSUME TypeOK
  PROVE  /\ (IF tow + Second < WeekMs THEN tow + Second
                                      ELSE tow + Second - WeekMs) \in 0..(WeekMs - 1)
         /\ \A t \in ResetTows : t \in 0..(WeekMs - 1)
  BY ClocklogAssumption, Week, SMT DEF TypeOK

LEMMA NextGated == Gated /\ [Next]_vars => Gated'
<1> SUFFICES ASSUME Gated, [Next]_vars PROVE Gated'
  OBVIOUS
<1>1. CASE PvtArrives \/ PolledPvt
  BY <1>1, FeedPvtGated DEF PvtArrives, PolledPvt, receiver
<1>2. CASE PvtLost \/ ClockLost
  BY <1>2 DEF PvtLost, ClockLost, host, Gated, TypeOK, FixCurrent, RowsInWeek, FreshMeansExact
<1>3. CASE ClockArrives \/ PolledClock
  BY <1>3, FeedClockGated DEF ClockArrives, PolledClock, receiver
<1>4. CASE Tick
  <2>1. disturbed' \in BOOLEAN /\ corrected' \in BOOLEAN
    BY <1>4, Zenon DEF Tick, Gated, TypeOK
  <2> QED
    BY <1>4, <2>1, NextSecondGated, TicksInWeek DEF Tick, Gated
<1>5. CASE TimeReset
  BY <1>5, NextSecondGated, TicksInWeek DEF TimeReset, Gated
<1>6. CASE UNCHANGED vars
  BY <1>6 DEF vars, Gated, TypeOK, FixCurrent, RowsInWeek, FreshMeansExact
<1> QED
  BY <1>1, <1>2, <1>3, <1>4, <1>5, <1>6 DEF Next

\* The state of the host and of the receiver keeps its shape.
THEOREM TypeCorrect == Spec => []TypeOK
<1>1. Gated => TypeOK
  BY DEF Gated
<1> QED
  BY <1>1, InitGated, NextGated, PTL DEF Spec

\* A row's valid flag is exactly what the receiver's solution of that second
\* deserves whenever its NAV-PVT came before its NAV-CLOCK, whatever was lost,
\* repeated or corrected, and however long the log (clocklog_row).
THEOREM GateExact == Spec => []FreshMeansExact
<1>1. Gated => FreshMeansExact
  BY DEF Gated
<1> QED
  BY <1>1, InitGated, NextGated, PTL DEF Spec

-----------------------------------------------------------------------------
(* The order of seconds, in a log shorter than a week.                     *)

IInv == Gated /\ Timed

LEMMA InitTimed == Init => Timed
  BY DEF Init, Timed, LastKept, Timeline, Undisturbed, HeardIsLogged, MissedMeansGap

LEMMA FeedPvtTimed ==
  ASSUME IInv, FeedPvt, phase' \in {"clock", "sent"},
         UNCHANGED <<epoch, tow, sol, corrected, disturbed>>
  PROVE  Timed'
<1>1. LastKept' /\ HeardIsLogged' /\ MissedMeansGap'
  BY DEF IInv, Timed, FeedPvt, LastKept, HeardIsLogged, MissedMeansGap
<1>2. Timeline'
  BY DEF IInv, Timed, FeedPvt, Timeline, Apart
<1>3. Undisturbed'
  BY DEF IInv, Timed, FeedPvt, Undisturbed
<1> QED
  BY <1>1, <1>2, <1>3 DEF Timed

\* Two seconds of a short log that are d apart.
LEMMA StepsTellApart ==
  ASSUME NEW a \in Nat, NEW b \in Nat, NEW d \in Nat, NEW m \in Nat,
         d <= m, m * Second < WeekMs, Apart(a, b, d)
  PROVE  /\ b = a => d = 0
         /\ b = a + Second => d = 1
<1>1. WeekMs \in Nat
  BY Week
<1>2. d * Second < WeekMs /\ (d + 1) * Second = d * Second + Second
  BY <1>1 DEF Second
<1>3. CASE b = a + d * Second
  BY <1>3 DEF Second
<1>4. CASE b + WeekMs = a + d * Second
  BY <1>1, <1>2, <1>4 DEF Second
<1> QED
  BY <1>3, <1>4 DEF Apart

LEMMA ApartOneMore ==
  ASSUME NEW a \in Nat, NEW b \in Nat, NEW c \in Nat, NEW d \in Nat, NEW m \in Nat,
         d < m, m * Second < WeekMs, a < WeekMs, Apart(a, b, d),
         c = b + Second \/ c = b + Second - WeekMs
  PROVE  Apart(a, c, d + 1)
<1>1. WeekMs \in Nat
  BY Week
<1>2. (d + 1) * Second = d * Second + Second /\ (d + 1) * Second < WeekMs
  BY <1>1 DEF Second
<1>3. d * Second \in Nat /\ Second \in Nat
  BY DEF Second
<1>4. CASE b = a + d * Second
  BY <1>1, <1>2, <1>3, <1>4 DEF Apart
<1>5. CASE b + WeekMs = a + d * Second
  BY <1>1, <1>2, <1>3, <1>5 DEF Apart
<1> QED
  BY <1>4, <1>5 DEF Apart

LEMMA LaterBySecond ==
  ASSUME NEW a \in Nat, NEW n \in Nat, NEW e \in Nat
  PROVE  a + ((n + 1) - e) * Second = a + (n - e) * Second + Second
<1>1. \A d \in Int : (d + 1) * Second = d * Second + Second /\ d * Second \in Int
  BY DEF Second
<1>2. (n + 1) - e = (n - e) + 1 /\ n - e \in Int /\ Second \in Int
  BY DEF Second
<1> DEFINE d == n - e
<1>3. a + (d + 1) * Second = a + d * Second + Second
  <2>1. (d + 1) * Second = d * Second + Second /\ d * Second \in Int
    BY <1>1, <1>2
  <2> QED
    BY <1>2, <2>1
<1> QED
  BY <1>2, <1>3

\* What the last row's iTOW says of the distance of its second from this one.
LEMMA LastRow ==
  ASSUME IInv, ShortLog, ~ corrected, rows # <<>>
  PROVE  LET last == rows[Len(rows)]
         IN  /\ last_itow = last.itow /\ last.epoch \in Nat
             /\ last.epoch <= epoch
             /\ tow = last_itow => last.epoch = epoch
             /\ tow = last_itow + Second => epoch = last.epoch + 1
<1> DEFINE n == Len(rows)
<1>1. n \in 1..Len(rows)
  BY DEF IInv, Gated, TypeOK
<1>2. rows[n] \in RowType
  BY <1>1 DEF IInv, Gated, TypeOK
<1>3. rows[n].itow \in Nat /\ rows[n].epoch \in Nat
  BY <1>2 DEF RowType
<1>4. last_itow = rows[n].itow
  BY DEF IInv, Timed, LastKept
<1>5. rows[n].epoch <= epoch /\ Apart(rows[n].itow, tow, epoch - rows[n].epoch)
  BY <1>1 DEF IInv, Timed, Timeline
<1>6. epoch \in Nat /\ epoch <= MaxEpoch /\ MaxEpoch \in Nat /\ tow \in Nat
  BY ClocklogAssumption, Week DEF IInv, Gated, TypeOK
<1> HIDE DEF n
<1> DEFINE d == epoch - rows[n].epoch
<1>7. d \in Nat /\ d <= MaxEpoch
  BY <1>3, <1>5, <1>6
<1>8. /\ tow = last_itow => d = 0
      /\ tow = last_itow + Second => d = 1
  BY <1>3, <1>4, <1>5, <1>6, <1>7, StepsTellApart DEF ShortLog
<1>9. /\ tow = last_itow => rows[n].epoch = epoch
      /\ tow = last_itow + Second => epoch = rows[n].epoch + 1
  BY <1>3, <1>6, <1>8
<1> QED
  BY <1>3, <1>4, <1>5, <1>9, Zenon DEF n

LEMMA FeedClockTimed ==
  ASSUME IInv, ShortLog, FeedClock, phase \in {"clock", "sent"}, phase' = "sent",
         UNCHANGED <<epoch, tow, sol, corrected, disturbed>>
  PROVE  Timed'
<1>1. CASE Stale
  <2>1. have_itow /\ tow = last_itow /\ rows # <<>>
    BY <1>1 DEF Stale, IInv, Timed, LastKept
  <2>2. UNCHANGED <<rows, last_itow, have_itow, fix_type, pvt_heard>>
    BY <1>1 DEF FeedClock, host
  <2>3. LastKept' /\ MissedMeansGap'
    BY <2>2 DEF IInv, Timed, LastKept, MissedMeansGap
  <2>4. Timeline' /\ Undisturbed'
    BY <2>2 DEF IInv, Timed, Timeline, Undisturbed, Apart
  <2>5. HeardIsLogged'
    <3> SUFFICES ASSUME ~ corrected, NEW e \in heard'
                 PROVE  \E i \in 1..Len(rows) : rows[i].epoch = e
      BY <2>2 DEF HeardIsLogged
    <3>1. e \in heard \/ e = epoch
      BY DEF FeedClock
    <3>2. CASE e \in heard
      BY <3>2 DEF IInv, Timed, HeardIsLogged
    <3>3. CASE e = epoch
      <4>1. rows[Len(rows)].epoch = epoch
        BY <2>1, LastRow, Zenon
      <4>2. Len(rows) \in 1..Len(rows)
        BY <2>1 DEF IInv, Gated, TypeOK
      <4> QED
        BY <3>3, <4>1, <4>2
    <3> QED
      BY <3>1, <3>2, <3>3
  <2> QED
    BY <2>3, <2>4, <2>5 DEF Timed
<1>2. CASE ~ Stale
  <2> DEFINE r == Row(Gap)
  <2>1. r \in RowType
    <3>1. Gap \in BOOLEAN
      BY Zenon DEF Gap
    <3> QED
      BY <3>1, NewRow DEF IInv, Gated
  <2>2. r.itow = tow /\ r.epoch = epoch /\ r.gap = Gap
    BY DEF Row
  <2> HIDE DEF r
  <2>3. rows' = Append(rows, r) /\ last_itow' = tow /\ have_itow' = TRUE
    BY <1>2 DEF FeedClock, r
  <2>4. /\ rows' # <<>> /\ Len(rows) \in Nat /\ Len(rows') = Len(rows) + 1
        /\ rows'[Len(rows')] = r
        /\ \A i \in 1..Len(rows) : rows'[i] = rows[i] /\ rows[i] \in RowType
        /\ rows # <<>> <=> Len(rows) > 0
    BY <2>1, <2>3, Appended, Zenon DEF IInv, Gated
  <2>5. \A i \in 1..Len(rows') : i \in 1..Len(rows) \/ i = Len(rows')
    BY <2>4
  <2>6. epoch \in Nat /\ tow \in Nat
    BY ClocklogAssumption, Week DEF IInv, Gated, TypeOK
  <2>7. LastKept'
    BY <2>2, <2>3, <2>4, Zenon DEF LastKept
  <2>8. Timeline'
    <3> SUFFICES ASSUME ~ corrected, NEW i \in 1..Len(rows')
                 PROVE  /\ rows'[i].epoch <= epoch
                        /\ Apart(rows'[i].itow, tow, epoch - rows'[i].epoch)
      BY DEF Timeline, Apart
    <3>1. CASE i \in 1..Len(rows)
      BY <2>4, <3>1 DEF IInv, Timed, Timeline
    <3>2. CASE i = Len(rows')
      BY <2>2, <2>4, <2>6, <3>2 DEF Apart, Second
    <3> QED
      BY <2>5, <3>1, <3>2
  <2>9. Undisturbed'
    <3> SUFFICES ASSUME ~ disturbed
                 PROVE  /\ ~ corrected /\ epoch \in pvt_heard'
                        /\ \A i \in 1..Len(rows') :
                             tow = rows'[i].itow + (epoch - rows'[i].epoch) * Second
      BY DEF Undisturbed
    <3>1. ~ corrected /\ epoch \in pvt_heard'
      BY DEF IInv, Timed, Undisturbed, FeedClock
    <3>2. ASSUME NEW i \in 1..Len(rows')
          PROVE  tow = rows'[i].itow + (epoch - rows'[i].epoch) * Second
      <4>1. CASE i \in 1..Len(rows)
        BY <2>4, <4>1 DEF IInv, Timed, Undisturbed
      <4>2. CASE i = Len(rows')
        BY <2>2, <2>4, <2>6, <4>2 DEF Second
      <4> QED
        BY <2>5, <4>1, <4>2
    <3> QED
      BY <3>1, <3>2
  <2>10. HeardIsLogged'
    <3> SUFFICES ASSUME ~ corrected, NEW e \in heard'
                 PROVE  \E i \in 1..Len(rows') : rows'[i].epoch = e
      BY DEF HeardIsLogged
    <3>1. CASE e \in heard
      <4>1. PICK i \in 1..Len(rows) : rows[i].epoch = e
        BY <3>1 DEF IInv, Timed, HeardIsLogged
      <4>2. i \in 1..Len(rows')
        BY <2>4
      <4> QED
        BY <2>4, <4>1, <4>2
    <3>2. CASE e = epoch
      <4>1. Len(rows') \in 1..Len(rows')
        BY <2>4
      <4> QED
        BY <2>2, <2>4, <3>2, <4>1
    <3> QED
      BY <3>1, <3>2 DEF FeedClock
  <2>11. MissedMeansGap'
    <3> SUFFICES ASSUME ~ corrected, NEW i \in 2..Len(rows'), ~ rows'[i].gap
                 PROVE  rows'[i].epoch = rows'[i - 1].epoch + 1
      BY DEF MissedMeansGap
    <3>1. i \in 2..Len(rows) \/ i = Len(rows')
      BY <2>4
    <3>2. CASE i \in 2..Len(rows)
      <4>1. i \in 1..Len(rows) /\ i - 1 \in 1..Len(rows)
        BY <3>2
      <4> QED
        BY <2>4, <3>2, <4>1 DEF IInv, Timed, MissedMeansGap
    <3>3. CASE i = Len(rows')
      <4>1. rows # <<>> /\ i - 1 = Len(rows) /\ Len(rows) \in 1..Len(rows)
        BY <2>4, <3>3
      <4>2. ~ Gap /\ have_itow
        BY <2>2, <2>4, <3>3, <4>1 DEF IInv, Timed, LastKept
      <4>3. tow = last_itow + Second
        BY <4>2 DEF Gap
      <4>4. epoch = rows[Len(rows)].epoch + 1
        BY <4>1, <4>3, LastRow, Zenon
      <4> QED
        BY <2>2, <2>4, <3>3, <4>1, <4>4
    <3> QED
      BY <3>1, <3>2, <3>3
  <2> QED
    BY <2>7, <2>8, <2>9, <2>10, <2>11 DEF Timed
<1> QED
  BY <1>1, <1>2

LEMMA TickTimed ==
  ASSUME IInv, ShortLog, Tick
  PROVE  Timed'
<1>1. UNCHANGED <<rows, heard, pvt_heard, last_itow, have_itow, corrected>>
      /\ phase' = "pvt" /\ epoch' = epoch + 1 /\ epoch < MaxEpoch
  BY DEF Tick, NextSecond, host
<1>2. \/ tow' = tow + Second /\ tow + Second < WeekMs
      \/ tow' = tow + Second - WeekMs /\ ~ tow + Second < WeekMs
  BY DEF Tick, NextSecond
<1>3. /\ epoch \in Nat /\ MaxEpoch \in Nat /\ tow \in Nat
      /\ \A i \in 1..Len(rows) : rows[i] \in RowType
  BY ClocklogAssumption, Week DEF IInv, Gated, TypeOK
<1>4. \A i \in 1..Len(rows) : rows[i].itow \in Nat /\ rows[i].epoch \in Nat
  BY <1>3 DEF RowType
<1>0. WeekMs \in Nat
  BY Week
<1>5. LastKept' /\ HeardIsLogged' /\ MissedMeansGap'
  BY <1>1 DEF IInv, Timed, LastKept, HeardIsLogged, MissedMeansGap
<1>6. Timeline'
  <2> SUFFICES ASSUME ~ corrected, NEW i \in 1..Len(rows)
               PROVE  /\ rows[i].epoch <= epoch'
                      /\ Apart(rows[i].itow, tow', epoch' - rows[i].epoch)
    BY <1>1 DEF Timeline, Apart
  <2>1. rows[i].epoch <= epoch /\ Apart(rows[i].itow, tow, epoch - rows[i].epoch)
    BY DEF IInv, Timed, Timeline
  <2>2. rows[i].epoch <= epoch'
    BY <1>1, <1>3, <1>4, <2>1
  <2>3. rows[i].itow < WeekMs
    BY DEF IInv, Gated, RowsInWeek
  <2>4. Apart(rows[i].itow, tow', epoch' - rows[i].epoch)
    <3> DEFINE d == epoch - rows[i].epoch
    <3>1. d \in Nat /\ d < MaxEpoch /\ epoch' - rows[i].epoch = d + 1
      BY <1>1, <1>3, <1>4, <2>1
    <3>2. tow' \in Nat /\ (tow' = tow + Second \/ tow' = tow + Second - WeekMs)
      BY <1>0, <1>2, <1>3 DEF Second
    <3>3. Apart(rows[i].itow, tow', d + 1)
      BY <1>3, <1>4, <2>1, <2>3, <3>1, <3>2, ApartOneMore DEF ShortLog
    <3> QED
      BY <3>1, <3>3
  <2> QED
    BY <2>2, <2>4
<1>7. Undisturbed'
  <2> SUFFICES ASSUME ~ disturbed'
               PROVE  /\ ~ corrected
                      /\ \A i \in 1..Len(rows) :
                           tow' = rows[i].itow + (epoch' - rows[i].epoch) * Second
    BY <1>1 DEF Undisturbed
  <2>1. ~ disturbed /\ ~ tow + Second >= WeekMs
    BY DEF Tick
  <2>2. tow' = tow + Second
    BY <1>2, <1>3, <2>1, Week
  <2>3. ASSUME NEW i \in 1..Len(rows)
        PROVE  tow' = rows[i].itow + (epoch' - rows[i].epoch) * Second
    <3>1. tow = rows[i].itow + (epoch - rows[i].epoch) * Second
      BY <2>1 DEF IInv, Timed, Undisturbed
    <3> DEFINE e == rows[i].epoch
               t == rows[i].itow
    <3>2. e \in Nat /\ t \in Nat
      BY <1>4
    <3> HIDE DEF e, t
    <3>3. tow = t + (epoch - e) * Second
      BY <3>1 DEF e, t
    <3>4. t + ((epoch + 1) - e) * Second = t + (epoch - e) * Second + Second
      BY <1>3, <3>2, LaterBySecond
    <3>5. tow' = t + (epoch' - e) * Second
      BY <1>1, <2>2, <3>3, <3>4
    <3> QED
      BY <3>5 DEF e, t
  <2> QED
    BY <2>1, <2>3 DEF IInv, Timed, Undisturbed
<1> QED
  BY <1>5, <1>6, <1>7 DEF Timed

LEMMA NextTimed == IInv /\ ShortLog /\ [Next]_vars => Timed'
<1> SUFFICES ASSUME IInv, ShortLog, [Next]_vars PROVE Timed'
  OBVIOUS
<1>1. CASE PvtArrives \/ PolledPvt
  BY <1>1, FeedPvtTimed DEF PvtArrives, PolledPvt, receiver
<1>2. CASE PvtLost
  <2>1. disturbed' /\ UNCHANGED <<rows, heard, last_itow, have_itow, corrected, epoch, tow>>
    BY <1>2 DEF PvtLost, host
  <2> QED
    BY <2>1 DEF IInv, Timed, LastKept, Timeline, Apart, Undisturbed,
                HeardIsLogged, MissedMeansGap
<1>3. CASE ClockLost
  <2>1. UNCHANGED <<rows, heard, pvt_heard, last_itow, have_itow, corrected,
                    disturbed, epoch, tow>> /\ phase # "pvt"
    BY <1>3 DEF ClockLost, host
  <2>2. LastKept' /\ HeardIsLogged' /\ MissedMeansGap'
    BY <2>1 DEF IInv, Timed, LastKept, HeardIsLogged, MissedMeansGap
  <2>3. Timeline' /\ Undisturbed'
    BY <2>1 DEF IInv, Timed, Timeline, Undisturbed, Apart
  <2> QED
    BY <2>2, <2>3 DEF Timed
<1>4. CASE ClockArrives \/ PolledClock
  BY <1>4, FeedClockTimed DEF ClockArrives, PolledClock, receiver
<1>5. CASE Tick
  BY <1>5, TickTimed
<1>6. CASE TimeReset
  <2>1. corrected' /\ disturbed' /\ UNCHANGED <<rows, last_itow, have_itow>>
    BY <1>6 DEF TimeReset, NextSecond, host
  <2> QED
    BY <2>1 DEF IInv, Timed, LastKept, Timeline, Undisturbed,
                HeardIsLogged, MissedMeansGap
<1>7. CASE UNCHANGED vars
  BY <1>7 DEF vars, IInv, Timed, LastKept, Timeline, Apart, Undisturbed,
              HeardIsLogged, MissedMeansGap
<1> QED
  BY <1>1, <1>2, <1>3, <1>4, <1>5, <1>6, <1>7 DEF Next

LEMMA InitIInv == Init => IInv
  BY InitGated, InitTimed DEF IInv

LEMMA NextIInv == ShortLog /\ IInv /\ [Next]_vars => IInv'
  BY NextGated, NextTimed DEF IInv

\* Each second of which a NAV-CLOCK was heard has its row, for every log shorter
\* than a week up to a correction of the receiver's time (clocklog_feed's
\* duplicate filter).
THEOREM NothingHidden ==
  ASSUME ShortLog
  PROVE  Spec => []HeardIsLogged
<1>1. IInv => HeardIsLogged
  BY DEF IInv, Timed
<1>2. IInv /\ [Next]_vars => IInv'
  BY NextIInv
<1> QED
  BY <1>1, <1>2, InitIInv, PTL DEF Spec

\* No second is missing unmarked from such a log (clocklog_feed's gap flag).
THEOREM GapsMarked ==
  ASSUME ShortLog
  PROVE  Spec => []MissedMeansGap
<1>1. IInv => MissedMeansGap
  BY DEF IInv, Timed
<1>2. IInv /\ [Next]_vars => IInv'
  BY NextIInv
<1> QED
  BY <1>1, <1>2, InitIInv, PTL DEF Spec

-----------------------------------------------------------------------------
(* The honest table.                                                       *)

\* A row that is added in undisturbed time is the honest one.
LEMMA RowIsHonest ==
  ASSUME IInv, ShortLog, FeedClock, ~ Stale, ~ disturbed,
         phase \in {"clock", "sent"}, UNCHANGED epoch
  PROVE  Series!Record
<1> DEFINE r == Row(Gap)
<1>1. r \in RowType /\ Gap \in BOOLEAN
  <2>1. Gap \in BOOLEAN
    BY Zenon DEF Gap
  <2> QED
    BY <2>1, NewRow DEF IInv, Gated
<1>2. r.itow = tow /\ r.epoch = epoch /\ r.gap = Gap
  BY DEF Row
<1>3. r.valid = r.trusted
  <2>1. epoch \in pvt_heard
    BY DEF IInv, Timed, Undisturbed
  <2>2. fix_type = sol.fix
    BY <2>1 DEF IInv, Gated, FixCurrent
  <2>3. RowValid = Trusted(sol)
    BY <2>2, Zenon DEF RowValid, Trusted
  <2> QED
    BY <2>3, Zenon DEF Row
<1> HIDE DEF r
<1>4. rows' = Append(rows, r)
  BY DEF FeedClock, r
<1>5. /\ rows' # <<>> /\ Len(rows) \in Nat /\ Len(rows') = Len(rows) + 1
      /\ rows'[Len(rows')] = r
      /\ \A i \in 1..Len(rows) : rows'[i] = rows[i] /\ rows[i] \in RowType
      /\ rows # <<>> <=> Len(rows) > 0
  BY <1>1, <1>4, Appended, Zenon DEF IInv, Gated
<1>6. CASE rows = <<>>
  <2>1. ~ r.gap
    BY <1>2, <1>6 DEF Gap, IInv, Timed, LastKept
  <2> QED
    BY <1>2, <1>3, <1>5, <1>6, <2>1 DEF Series!Record
<1>7. CASE rows # <<>>
  <2> DEFINE last == rows[Len(rows)]
  <2>1. ~ corrected
    BY DEF IInv, Timed, Undisturbed
  <2>2. /\ last_itow = last.itow /\ last.epoch \in Nat /\ last.epoch <= epoch
        /\ tow = last_itow => last.epoch = epoch
        /\ tow = last_itow + Second => epoch = last.epoch + 1
    BY <1>7, <2>1, LastRow, Zenon
  <2>3. Len(rows) \in 1..Len(rows) /\ have_itow
    BY <1>5, <1>7 DEF IInv, Timed, LastKept
  <2>4. tow = last.itow + (epoch - last.epoch) * Second
    BY <2>3 DEF IInv, Timed, Undisturbed
  <2>5. last.itow \in Nat /\ epoch \in Nat /\ tow \in Nat
    <3>1. last \in RowType
      BY <1>5, <2>3
    <3> QED
      BY <3>1, ClocklogAssumption, Week DEF RowType, IInv, Gated, TypeOK
  <2> HIDE DEF last
  <2>6. last.epoch < epoch
    <3>1. tow # last.itow
      BY <2>2, <2>3 DEF Stale
    <3>2. last.epoch = epoch => tow = last.itow
      BY <2>4, <2>5 DEF Second
    <3> QED
      BY <2>2, <2>5, <3>1, <3>2
  <2>7. Gap <=> last.epoch + 1 < epoch
    <3>1. last.epoch + 1 = epoch => tow = last.itow + Second
      <4> SUFFICES ASSUME last.epoch + 1 = epoch PROVE tow = last.itow + Second
        OBVIOUS
      <4>1. epoch - last.epoch = 1
        BY <2>2, <2>5
      <4>2. (epoch - last.epoch) * Second = Second
        BY <4>1 DEF Second
      <4> QED
        BY <2>4, <4>2
    <3>2. Gap <=> tow # last.itow + Second
      BY <2>2, <2>3 DEF Gap
    <3> QED
      BY <2>2, <2>5, <2>6, <3>1, <3>2
  <2>8. (last.epoch + 1 < epoch) \in BOOLEAN
    OBVIOUS
  <2>9. r.gap = (last.epoch + 1 < epoch)
    BY <1>1, <1>2, <2>7, <2>8, Zenon
  <2>10. last.epoch < epoch /\ r.gap = (last.epoch + 1 < epoch) /\ r.epoch = epoch
    BY <1>2, <2>6, <2>9
  <2> QED
    BY <1>3, <1>5, <1>7, <2>10, Zenon DEF Series!Record, last
<1> QED
  BY <1>6, <1>7

LEMMA StepIsHonest ==
  ASSUME IInv, ShortLog, [Next]_vars, ~ disturbed'
  PROVE  Series!Next \/ UNCHANGED <<epoch, rows>>
<1>1. CASE PvtArrives \/ PolledPvt
  BY <1>1 DEF PvtArrives, PolledPvt, FeedPvt, receiver
<1>2. CASE PvtLost \/ ClockLost
  BY <1>2 DEF PvtLost, ClockLost, host
<1>3. CASE ClockArrives \/ PolledClock
  <2>1. FeedClock /\ UNCHANGED <<epoch, disturbed>> /\ phase \in {"clock", "sent"}
    BY <1>3 DEF ClockArrives, PolledClock, receiver
  <2>2. CASE Stale
    BY <2>1, <2>2 DEF FeedClock, host
  <2>3. CASE ~ Stale
    BY <2>1, <2>3, RowIsHonest DEF Series!Next
  <2> QED
    BY <2>2, <2>3
<1>4. CASE Tick
  BY <1>4 DEF Tick, NextSecond, host, Series!Next, Series!Advance
<1>5. CASE TimeReset
  BY <1>5 DEF TimeReset
<1>6. CASE UNCHANGED vars
  BY <1>6 DEF vars
<1> QED
  BY <1>1, <1>2, <1>3, <1>4, <1>5, <1>6 DEF Next

\* The table is the honest one of the README as long as the receiver's time
\* has neither wrapped nor been corrected and its NAV-PVT messages came,
\* however NAV-CLOCK messages were lost or repeated: each step of the log is
\* one of ClockSeries.
THEOREM TableHonest ==
  ASSUME ShortLog
  PROVE  Spec => HonestSeries
<1>1. Init => Series!Init
  BY DEF Init, Series!Init
<1>2. IInv /\ [Next]_vars => [~ disturbed' => Series!Next]_<<epoch, rows>>
  BY StepIsHonest
<1>3. IInv /\ [Next]_vars => IInv'
  BY NextIInv
<1> QED
  BY <1>1, <1>2, <1>3, InitIInv, PTL DEF Spec, HonestSeries
=============================================================================
