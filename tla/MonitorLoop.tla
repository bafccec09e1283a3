---------------------------- MODULE MonitorLoop ----------------------------
(***************************************************************************)
(* lbe_shared_monitor(): one loop polls the DCD line, which carries the    *)
(* 1PPS, reads a line of NMEA with a short timeout, and redraws.  Time is  *)
(* lbe_millis in coarser units.  The pulses are seen only where the loop   *)
(* looks, so what it counts, measures and shows depends on how long each   *)
(* round takes, and on whether the line could be read.  A port that was    *)
(* hung up looks like a silent one.                                        *)
(***************************************************************************)
EXTENDS SerialLine

CONSTANTS
  Second,         \* the pulse period, and
  High,           \*   how long the pulse is asserted
  Phases,         \* times of the first pulse considered
  READ_TIMEOUT,   \* 20 ms
  ReadBlock,      \* how long a read may go on when it is over: on Windows 100 ms
  REDRAW_PERIOD,  \* 50 ms
  DrawTime,       \* the longest a redraw takes
  PPS_HISTORY,    \* 30
  MaxTime,        \* bound: length of a history
  MaxFails        \* bound: times the line could not be read

ASSUME LoopAssumption ==
  /\ Second \in Nat /\ High \in 1..(Second - 1)
  /\ Phases \subseteq Int
  /\ READ_TIMEOUT \in Nat /\ ReadBlock \in Nat
  /\ REDRAW_PERIOD \in Nat /\ DrawTime \in Nat
  /\ PPS_HISTORY \in Nat \ {0} /\ MaxTime \in Nat /\ MaxFails \in Nat

VARIABLES
  phase,      \* time of the first pulse
  now,        \* lbe_millis
  pc,         \* "poll", "read", "draw", or "ended"
  left,       \* time left of this readline, negative when it is late
  dcd_prev, edge_ms, edges, hist, hist_n, last_nmea_ms, nmea_to_edge_ms,
              \* pps_tracker
  last_redraw, frac_ms,   \* when the screen was drawn, with which fraction
  polled,     \* time of the last poll that succeeded, and
  fails       \*   how many failed (for the properties)

pps == <<edge_ms, edges, hist, hist_n, nmea_to_edge_ms>>
screen == <<last_redraw, frac_ms>>
vars == <<reader, phase, now, pc, left, dcd_prev, pps, last_nmea_ms, screen,
          polled, fails>>

Pulses == { t \in phase..MaxTime : (t - phase) % Second = 0 }
Dcd(t) == IF \E p \in Pulses : p <= t /\ t < p + High THEN 1 ELSE 0

Unknown == -1    \* the ioctl failed

\* Mutant: the line is taken to be low at the start.
DcdAtStartLow == {0}

DcdAtStart == {Dcd(now), Unknown}

Init ==
  /\ ReaderInit
  /\ phase \in Phases
  /\ now = 0 /\ pc = "poll" /\ left = 0
  /\ dcd_prev \in DcdAtStart
  /\ edge_ms = 0 /\ edges = 0
  /\ hist = [i \in 0..(PPS_HISTORY - 1) |-> 0] /\ hist_n = 0
  /\ last_nmea_ms = 0 /\ nmea_to_edge_ms = 0
  /\ last_redraw = 0 /\ frac_ms = -1
  /\ polled = 0 /\ fails = IF dcd_prev = Unknown THEN 1 ELSE 0

\* pps_on_edge.
OnEdge ==
  /\ IF edges > 0
       THEN /\ hist' = [hist EXCEPT ![hist_n % PPS_HISTORY] = now - edge_ms]
            /\ hist_n' = hist_n + 1
       ELSE UNCHANGED <<hist, hist_n>>
  /\ nmea_to_edge_ms' = IF last_nmea_ms # 0 THEN now - last_nmea_ms
                                            ELSE nmea_to_edge_ms
  /\ edge_ms' = now
  /\ edges' = edges + 1

PollDcd ==
  /\ pc = "poll" /\ pc' = "read"
  /\ IF dcd_prev = 0 /\ Dcd(now) = 1 THEN OnEdge ELSE UNCHANGED pps
  /\ dcd_prev' = Dcd(now)
  /\ left' = READ_TIMEOUT
  /\ polled' = now
  /\ UNCHANGED <<reader, phase, now, last_nmea_ms, screen, fails>>

\* Mutant: a line that cannot be read counts as low.
PollFailsLow ==
  /\ pc = "poll" /\ pc' = "read"
  /\ dcd_prev' = 0
  /\ left' = READ_TIMEOUT
  /\ fails < MaxFails /\ fails' = fails + 1
  /\ UNCHANGED <<reader, phase, now, pps, last_nmea_ms, screen, polled>>

PollFails ==
  /\ pc = "poll" /\ pc' = "read"
  /\ left' = READ_TIMEOUT
  /\ fails < MaxFails /\ fails' = fails + 1
  /\ UNCHANGED <<reader, phase, now, dcd_prev, pps, last_nmea_ms, screen, polled>>

\* The loop of readline: a line is returned, or bytes are read, or the select
\* (on Windows the ReadFile, which does not know the deadline) waits; when the
\* time is up it returns 0.  An empty line returns 0 too.
LineRead ==
  /\ pc = "read" /\ pc' = "draw"
  /\ TakeLine
  /\ last_nmea_ms' = IF lines'[Len(lines')].copied > 0 THEN now ELSE last_nmea_ms
  /\ UNCHANGED <<phase, now, left, dcd_prev, pps, screen, polled, fails>>

BytesRead ==
  /\ pc = "read" /\ left > - ReadBlock
  /\ \E k \in 1..RxCap : ReadBytes(k)
  /\ UNCHANGED <<phase, now, pc, left, dcd_prev, pps, last_nmea_ms, screen, polled,
                 fails>>

Wait ==
  /\ pc = "read" /\ Complete = {} /\ left > - ReadBlock
  /\ now < MaxTime
  /\ now' = now + 1 /\ left' = left - 1
  /\ UNCHANGED <<reader, phase, pc, dcd_prev, pps, last_nmea_ms, screen, polled,
                 fails>>

TimedOut ==
  /\ pc = "read" /\ Complete = {} /\ left <= 0
  /\ pc' = "draw"
  /\ UNCHANGED <<reader, phase, now, left, dcd_prev, pps, last_nmea_ms, screen,
                 polled, fails>>

ReadFails ==
  /\ pc = "read" /\ Complete = {} /\ left > - ReadBlock
  /\ pc' = "ended"
  /\ UNCHANGED <<reader, phase, now, left, dcd_prev, pps, last_nmea_ms, screen,
                 polled, fails>>

\* Mutant: no cap on the fraction.
FractionUncapped == now - edge_ms

\* The sub-second part that is shown.
Fraction == IF now - edge_ms > Second - 1 THEN Second - 1 ELSE now - edge_ms

Redraw ==
  /\ pc = "draw" /\ pc' = "poll"
  /\ now - last_redraw >= REDRAW_PERIOD
  /\ last_redraw' = now
  /\ frac_ms' = IF edges > 0 THEN Fraction ELSE -1
  /\ \E d \in 0..DrawTime : now + d <= MaxTime /\ now' = now + d
  /\ UNCHANGED <<reader, phase, left, dcd_prev, pps, last_nmea_ms, polled, fails>>

NoRedraw ==
  /\ pc = "draw" /\ pc' = "poll"
  /\ now - last_redraw < REDRAW_PERIOD
  /\ UNCHANGED <<reader, phase, now, left, dcd_prev, pps, last_nmea_ms, screen,
                 polled, fails>>

Next == \/ PollDcd \/ PollFails \/ LineRead \/ BytesRead \/ Wait \/ TimedOut \/ ReadFails
        \/ Redraw \/ NoRedraw

Spec == Init /\ [][Next]_vars

\* Mutant: the slots not yet used are counted.
SamplesAll == PPS_HISTORY

\* pps_stats, over the intervals the ring holds.
Samples == IF hist_n < PPS_HISTORY THEN hist_n ELSE PPS_HISTORY
Intervals == { hist[i] : i \in 0..(Samples - 1) }

-----------------------------------------------------------------------------

TypeOK ==
  /\ ReaderTypeOK
  /\ now \in 0..MaxTime /\ pc \in {"poll", "read", "draw", "ended"}
  /\ left \in (- ReadBlock)..READ_TIMEOUT
  /\ dcd_prev \in {0, 1, Unknown} /\ fails \in Nat
  /\ edges \in Nat /\ hist_n = Max({edges - 1, 0})
  /\ edge_ms \in 0..now /\ polled \in 0..now /\ last_redraw \in 0..now
  /\ last_nmea_ms \in 0..now /\ nmea_to_edge_ms \in 0..now
  /\ hist \in [0..(PPS_HISTORY - 1) -> Nat]

\* The longest round, poll to poll.  On Linux the code's 20 ms and a redraw stay
\* far below the 100 ms a pulse lasts; the properties below are about loops that
\* do, and whose polls all succeeded.
Round == READ_TIMEOUT + ReadBlock + DrawTime
KeepsUp == Round <= High /\ Round <= Second - High
Watched == KeepsUp /\ fails = 0

\* Every pulse since the start is counted once, wherever in a round it comes:
\* none is missed, and one that is asserted when the monitor starts is not
\* counted.  However slow the loop, and whichever polls failed, none is counted
\* twice (model_1421.c:241-245).
PulsesCounted ==
  LET seen == Cardinality({ p \in Pulses : 0 < p /\ p <= polled })
  IN  edges <= seen /\ (Watched => edges = seen)

\* The intervals of the jitter line differ from a second by less than a round,
\* and their number is that of the edges less one until the ring is full
\* (pps_stats, README.md:269).
JitterWithinRound ==
  /\ Watched => \A d \in Intervals : Second - Round < d /\ d < Second + Round
  /\ Samples = Min({Max({edges - 1, 0}), PPS_HISTORY})

\* The fraction drawn is one of a second, and behind the true one by less than
\* a round ("sub-second UTC is interpolated from the 1PPS signal",
\* README.md:268).
FractionTrue ==
  frac_ms # -1 =>
    /\ frac_ms < Second
    /\ Watched => (last_redraw - phase - frac_ms) % Second < Round
=============================================================================
