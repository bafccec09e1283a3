------------------------------ MODULE Clocklog ------------------------------
(***************************************************************************)
(* The NAV-CLOCK time series of --clocklog: clocklog_feed() on the message *)
(* stream that UbxChannel describes (intact messages, in order, some lost).*)
(*                                                                         *)
(* The receiver sends a NAV-PVT and then a NAV-CLOCK in every second.  The *)
(* host repeats its poll about once a second (m1425_diag_poll), and the    *)
(* answers duplicate messages of the second they arrive in.                *)
(***************************************************************************)
EXTENDS Integers, Sequences

CONSTANTS
  Starts,      \* time-of-week values (ms) the receiver may start at
  ResetTows,   \* values it may jump to when it corrects its time
  FixTypes,    \* the NAV-PVT fixType codes considered
  MaxEpoch     \* bound: seconds simulated

Second == 1000          \* clocklog_feed's step, in ms of iTOW
WeekMs == 604800000     \* iTOW counts modulo one week

ASSUME ClocklogAssumption ==
  /\ Starts \subseteq 0..(WeekMs - 1) /\ ResetTows \subseteq 0..(WeekMs - 1)
  /\ FixTypes \subseteq Nat
  /\ MaxEpoch \in Nat

\* The receiver's solution in a second: fix type, and whether it knows its
\* accuracies (an unknown one is sent as the sentinel 0xFFFFFFFF).
Solution == [fix : FixTypes, tacc : BOOLEAN, facc : BOOLEAN]
Trusted(s) == s.fix >= 2 /\ s.tacc /\ s.facc

VARIABLES
  epoch,      \* the receiver: seconds since the start
  tow,        \*   its time of week in ms
  sol,        \*   its solution of this second
  phase,      \*   next regular message: "pvt", "clock", or "sent"
  corrected,  \*   whether it has corrected its time of week (once)
  disturbed,  \* whether it has, or the week ended, or a NAV-PVT was lost
  heard,      \* the seconds of which a NAV-CLOCK reached the host
  pvt_heard,  \*   and of which a NAV-PVT did (for the properties)
  fix_type,   \* the host: clocklog_state.pvt.fix_type
  have_itow,  \*   clocklog_state.have_itow
  last_itow,  \*   clocklog_state.last_itow
  rows        \*   rows emitted; epoch, trusted and fresh are for
              \*   the properties

receiver == <<epoch, tow, sol, phase, corrected>>
host == <<fix_type, have_itow, last_itow, rows>>
vars == <<epoch, tow, sol, phase, corrected, disturbed, heard, pvt_heard,
          fix_type, have_itow, last_itow, rows>>

Init ==
  /\ epoch = 0
  /\ tow \in Starts
  /\ sol \in Solution
  /\ phase = "pvt" /\ corrected = FALSE /\ disturbed = FALSE
  /\ heard = {} /\ pvt_heard = {}
  /\ fix_type = 0 /\ have_itow = FALSE /\ last_itow = 0
  /\ rows = <<>>

\* ubx_parse_pvt into clocklog_state.pvt.
FeedPvt ==
  /\ fix_type' = sol.fix
  /\ pvt_heard' = pvt_heard \cup {epoch}
  /\ UNCHANGED <<heard, have_itow, last_itow, rows>>

\* Mutant: a sentinel accuracy is trusted.
RowValidLax == fix_type >= 2 /\ (sol.tacc \/ sol.facc)

\* clocklog_row: the trust gate.
RowValid == fix_type >= 2 /\ sol.tacc /\ sol.facc

Row(gap) == [itow |-> tow, fix |-> fix_type, tacc |-> sol.tacc,
             facc |-> sol.facc, valid |-> RowValid, gap |-> gap,
             epoch |-> epoch, trusted |-> Trusted(sol),
             fresh |-> epoch \in pvt_heard]

\* Mutants: no duplicate filter, and one that wants an increasing iTOW; a gap
\* only after a step forward.
StaleNever == FALSE
StaleOrdered == have_itow /\ tow <= last_itow
GapForward == have_itow /\ tow > last_itow + Second

Stale == have_itow /\ tow = last_itow
Gap == have_itow /\ tow # last_itow + Second

\* The loop body of clocklog_feed on a NAV-CLOCK.
FeedClock ==
  /\ heard' = heard \cup {epoch}
  /\ UNCHANGED pvt_heard
  /\ IF Stale
       THEN UNCHANGED host
       ELSE /\ rows' = Append(rows, Row(Gap))
            /\ last_itow' = tow
            /\ have_itow' = TRUE
            /\ UNCHANGED fix_type

PvtArrives ==
  /\ phase = "pvt" /\ phase' = "clock"
  /\ FeedPvt
  /\ UNCHANGED <<epoch, tow, sol, corrected, disturbed>>

PvtLost ==
  /\ phase = "pvt" /\ phase' = "clock"
  /\ disturbed' = TRUE
  /\ UNCHANGED <<epoch, tow, sol, corrected, heard, pvt_heard, host>>

ClockArrives ==
  /\ phase = "clock" /\ phase' = "sent"
  /\ FeedClock
  /\ UNCHANGED <<epoch, tow, sol, corrected, disturbed>>

ClockLost ==
  /\ phase = "clock" /\ phase' = "sent"
  /\ UNCHANGED <<epoch, tow, sol, corrected, disturbed, heard, pvt_heard, host>>

\* Answers to the poll: this second's messages once more.
PolledPvt ==
  /\ phase = "sent"
  /\ FeedPvt
  /\ UNCHANGED <<receiver, disturbed>>

PolledClock ==
  /\ phase = "sent"
  /\ FeedClock
  /\ UNCHANGED <<receiver, disturbed>>

\* The next second begins; time of week wraps at the end of the week, or is
\* corrected when the receiver learns the time.
NextSecond(t) ==
  /\ phase = "sent" /\ phase' = "pvt"
  /\ epoch < MaxEpoch
  /\ epoch' = epoch + 1
  /\ tow' = t
  /\ sol' \in Solution
  /\ UNCHANGED <<heard, pvt_heard, host>>

Tick ==
  /\ NextSecond(IF tow + Second < WeekMs THEN tow + Second
                                         ELSE tow + Second - WeekMs)
  /\ disturbed' = (disturbed \/ tow + Second >= WeekMs)
  /\ UNCHANGED corrected

TimeReset ==
  /\ ~ corrected /\ corrected' = TRUE /\ disturbed' = TRUE
  /\ \E t \in ResetTows : NextSecond(t)

Next == \/ PvtArrives \/ PvtLost \/ ClockArrives \/ ClockLost
        \/ PolledPvt \/ PolledClock \/ Tick \/ TimeReset

Spec == Init /\ [][Next]_vars

-----------------------------------------------------------------------------

RowType == [itow : Nat, fix : Nat, tacc : BOOLEAN, facc : BOOLEAN,
            valid : BOOLEAN, gap : BOOLEAN, epoch : Nat, trusted : BOOLEAN,
            fresh : BOOLEAN]

TypeOK ==
  /\ epoch \in 0..MaxEpoch
  /\ tow \in 0..(WeekMs - 1)
  /\ sol \in Solution
  /\ phase \in {"pvt", "clock", "sent"}
  /\ corrected \in BOOLEAN /\ disturbed \in BOOLEAN
  /\ heard \subseteq 0..MaxEpoch /\ pvt_heard \subseteq 0..MaxEpoch
  /\ fix_type \in FixTypes \cup {0}
  /\ have_itow \in BOOLEAN
  /\ last_itow \in 0..(WeekMs - 1)
  /\ rows \in Seq(RowType)

\* The table is the honest one of the README (README.md:328-337; see
\* ClockSeries) as long as the receiver has neither wrapped nor corrected its
\* time of week and its NAV-PVT messages all arrived; NAV-CLOCK messages may be
\* lost or repeated.
Series == INSTANCE ClockSeries WITH epoch <- epoch, rows <- rows
HonestSeries == Series!Init /\ [][~ disturbed' => Series!Next]_<<epoch, rows>>

\* Every second of which a NAV-CLOCK was received has its row: a healthy
\* stream never loses one to the duplicate filter (ubx.h:87-95, clocklog_feed).
\* A correction may make two seconds of one iTOW.
HeardIsLogged == ~ corrected => \A e \in heard : \E i \in 1..Len(rows) : rows[i].epoch = e

\* A row without the gap flag directly follows the row before it: no second is
\* ever missing unmarked, over losses and the end of the week, unless a
\* correction of the receiver's time happens to make up for it (ubx.c:209).
MissedMeansGap == ~ corrected =>
  \A i \in 2..Len(rows) :
    ~ rows[i].gap => rows[i].epoch = rows[i - 1].epoch + 1

\* The trust gate is exact whenever the second's NAV-PVT came before its
\* NAV-CLOCK, whatever was lost earlier (clocklog_row, ubx.c:162).
FreshMeansExact ==
  \A i \in 1..Len(rows) : rows[i].fresh => rows[i].valid = rows[i].trusted

\* "gap: 1 if a NAV-CLOCK second was missed just before this row"
\* (README.md:326).
GapMeansMissed ==
  \A i \in 2..Len(rows) :
    rows[i].gap => rows[i].epoch # rows[i - 1].epoch + 1
=============================================================================
