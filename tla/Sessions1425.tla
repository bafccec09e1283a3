--------------------------- MODULE Sessions1425 ---------------------------
(***************************************************************************)
(* The stream sessions of the LBE-1425 over the transport: --diag          *)
(* (lbe_shared_diag), --clocklog (lbe_shared_clocklog), --gps-info         *)
(* (lbe_shared_gps_info) and the --rawdump of any model (lbe_rawdump), in  *)
(* one process after another.  Requests fail or are carried out although   *)
(* they fail, reads fail, the device is unplugged and the user interrupts  *)
(* between any two steps; the 32-bit clock of lbe_millis() wraps.          *)
(***************************************************************************)
EXTENDS Transport

CONSTANTS
  Wrap,         \* 2^32: where lbe_millis wraps
  Second,       \* 1000: re-poll period and unit of the log's length, in ms
  ReadTimeout,  \* 500: the longest a read waits
  PollTime,     \* the longest the three poll requests take
  Durations,    \* arguments of --clocklog considered; 0: without end
  ClockStarts,  \* readings of lbe_millis a log may start at
  Replies,      \* what --gps-info waits for: ver, ant, gnss, tp5
  InfoReads,    \* 120: its reads
  DumpReads,    \* the reads of a --rawdump
  MaxTime       \* bound: how long a log is followed

ASSUME SessionsAssumption ==
  /\ Wrap \in Nat /\ Second \in Nat /\ ReadTimeout \in Nat /\ PollTime \in Nat
  /\ Durations \subseteq Nat /\ ClockStarts \subseteq 0..(Wrap - 1)
  /\ InfoReads \in Nat /\ DumpReads \in Nat /\ MaxTime \in Nat
  /\ Second + PollTime + ReadTimeout < Wrap

Logs == {"diag", "clocklog"}
Mon == {"hw", "rf"}    \* MON-HW and MON-RF

VARIABLES
  session,     \* "none", "diag", "clocklog", "gps_info", "rawdump"
  step,        \* where in it
  streams,     \* the receiver: the messages of Mon it sends by itself
  clock,       \* lbe_millis
  last_poll, start, now,   \* the locals of the log loops
  asked,       \* seconds
  time,        \* time since the loop began, and its values when `now` was
  sampled,     \*   read and when it went into last_poll
  polled,      \*   (these three for the properties)
  iter,        \* reads of --gps-info and --rawdump
  got,         \* the replies --gps-info has shown
  left,        \* MON streams it has still to switch, in order
  owed         \* MON streams that a request or the user kept it from
               \*   switching off (for the properties)

loop == <<clock, last_poll, start, now, asked, time, sampled, polled>>
info == <<iter, got, left>>
svars == <<session, step, streams, loop, info, owed>>
vars == <<tvars, svars>>

\* uint32_t arithmetic.
Plus32(a, d) == IF a + d < Wrap THEN a + d ELSE a + d - Wrap
Minus32(a, b) == IF a >= b THEN a - b ELSE a - b + Wrap

NoSession ==
  /\ session = "none" /\ step = "none"
  /\ clock = 0 /\ last_poll = 0 /\ start = 0 /\ now = 0 /\ asked = 0
  /\ time = 0 /\ sampled = 0 /\ polled = 0
  /\ iter = 0 /\ got = {} /\ left = <<>>

\* A function that returns leaves nothing but what it changed in the device.
Return ==
  /\ session' = "none" /\ step' = "none"
  /\ clock' = 0 /\ last_poll' = 0 /\ start' = 0 /\ now' = 0 /\ asked' = 0
  /\ time' = 0 /\ sampled' = 0 /\ polled' = 0
  /\ iter' = 0 /\ got' = {} /\ left' = <<>>

Init ==
  /\ TransportInit
  /\ streams = {} /\ owed = {}
  /\ NoSession

Quiet == UNCHANGED <<platform, preferred, pc, scan, handles, list, ref, unit,
                     rival>>

CanStart(s) ==
  /\ pc = "up" /\ session = "none"
  /\ s # "rawdump" => unit.pid = "1425"
  /\ session' = s
  /\ Claim(unit)
  /\ Quiet

\* --diag, --clocklog: the first poll (its results are ignored, and what it makes the
\* receiver send is Clocklog's matter), and the clock read after it.
StartLog(s) ==
  /\ CanStart(s) /\ step' = "read"
  /\ asked' \in (IF s = "clocklog" THEN Durations ELSE {0})
  /\ clock' \in ClockStarts
  /\ last_poll' = clock' /\ start' = clock' /\ now' = clock'
  /\ time' = 0 /\ sampled' = 0 /\ polled' = 0
  /\ UNCHANGED <<streams, info, owed>>

\* Reading needs the device and, under Windows, the interface.
Readable == unit.present /\ (platform = "windows" => held)

\* A read brings a report or times out.
LogRead ==
  /\ session \in Logs /\ step = "read" /\ Readable
  /\ \E d \in 0..ReadTimeout :
       /\ time + d <= MaxTime
       /\ time' = time + d /\ clock' = Plus32(clock, d)
  /\ now' = clock' /\ sampled' = time' /\ step' = "poll"
  /\ UNCHANGED <<tvars, session, streams, last_poll, start, asked, polled, info,
                 owed>>

\* got < 0.
LogReadFails ==
  /\ session \in Logs /\ step = "read"
  /\ Return /\ Release /\ Quiet
  /\ UNCHANGED <<streams, owed>>

\* Mutant: times are compared, not their difference.
PollDueWrapping == now > Plus32(last_poll, Second)

PollDue == Minus32(now, last_poll) > Second

\* last_poll becomes the time before the poll, which takes a while itself.
LogPoll ==
  /\ session \in Logs /\ step = "poll" /\ PollDue
  /\ last_poll' = now /\ polled' = sampled
  /\ \E d \in 0..PollTime :
       /\ time + d <= MaxTime
       /\ time' = time + d /\ clock' = Plus32(clock, d)
  /\ step' = "test"
  /\ UNCHANGED <<tvars, session, streams, start, now, asked, sampled, info, owed>>

NoPoll ==
  /\ session \in Logs /\ step = "poll" /\ ~ PollDue
  /\ step' = "test"
  /\ UNCHANGED <<tvars, session, streams, loop, info, owed>>

\* Mutant: times are compared, not their difference.
TimeUpWrapping ==
  session = "clocklog" /\ asked > 0 /\ now >= Plus32(start, (asked * Second) % Wrap)

\* seconds > 0 && now - start >= (uint32_t)seconds * 1000u
TimeUp ==
  /\ session = "clocklog" /\ asked > 0
  /\ Minus32(now, start) >= (asked * Second) % Wrap

\* The report of the last round is dropped; any other goes to clocklog_feed or
\* ubx_consume (see Clocklog, UbxReassembly).
LogEnds ==
  /\ session \in Logs /\ step = "test" /\ TimeUp
  /\ Return /\ Release /\ Quiet
  /\ UNCHANGED <<streams, owed>>

LogGoesOn ==
  /\ session \in Logs /\ step = "test" /\ ~ TimeUp
  /\ step' = "read"
  /\ UNCHANGED <<tvars, session, streams, loop, info, owed>>

-----------------------------------------------------------------------------

\* --gps-info: the three one-time polls, then MON-HW and MON-RF are switched on,
\* results ignored.
StartInfo ==
  /\ CanStart("gps_info") /\ step' = "enable"
  /\ iter' = 0 /\ got' = {} /\ left' = <<"hw", "rf">>
  /\ UNCHANGED <<streams, loop, owed>>

Enable ==
  /\ step = "enable" /\ left # <<>>
  /\ IF unit.present THEN streams' \in {streams, streams \cup {Head(left)}}
                     ELSE UNCHANGED streams
  /\ left' = Tail(left)
  /\ UNCHANGED <<tvars, session, step, loop, iter, got, owed>>

Enabled == 
  /\ step = "enable" /\ left = <<>>
  /\ step' = "info"
  /\ UNCHANGED <<tvars, session, streams, loop, info, owed>>

InfoOver == iter = InfoReads \/ got = Replies

\* A read: nothing, an error, or a report that completes some replies.
InfoRead ==
  /\ step = "info" /\ ~ InfoOver
  /\ iter' = iter + 1
  /\ IF Readable THEN \E new \in SUBSET Replies : got' = got \cup new
                 ELSE UNCHANGED got
  /\ UNCHANGED <<tvars, session, step, streams, loop, left, owed>>

\* Mutant: an error leaves the loop and the function.
InfoEndsOnError ==
  /\ step = "info"
  /\ IF InfoOver
       THEN /\ step' = "disable" /\ left' = <<"hw", "rf">>
            /\ UNCHANGED <<tvars, session, loop, iter, got>>
       ELSE Return /\ Release /\ Quiet
  /\ UNCHANGED <<streams, owed>>

InfoEnds ==
  /\ step = "info" /\ InfoOver
  /\ step' = "disable" /\ left' = <<"hw", "rf">>
  /\ UNCHANGED <<tvars, session, streams, loop, iter, got, owed>>

\* The streams are switched off again, results ignored.
Disable ==
  /\ step = "disable" /\ left # <<>>
  /\ \/ /\ unit.present
        /\ streams' = streams \ {Head(left)} /\ owed' = owed \ {Head(left)}
     \/ /\ streams' \in {streams, IF unit.present THEN streams \ {Head(left)}
                                                  ELSE streams}
        /\ owed' = owed \cup {Head(left)}
  /\ left' = Tail(left)
  /\ UNCHANGED <<tvars, session, step, loop, iter, got>>

InfoDone ==
  /\ step = "disable" /\ left = <<>>
  /\ Return /\ Release /\ Quiet
  /\ UNCHANGED <<streams, owed>>

\* --rawdump: elapsed grows by 200 ms for every read, however short; the
\* interface stays claimed.
StartDump ==
  /\ CanStart("rawdump") /\ step' = "dump"
  /\ iter' = 0
  /\ UNCHANGED <<streams, loop, got, left, owed>>

\* Mutant: only a read that brings something counts.
DumpReadBytes ==
  /\ step = "dump" /\ iter < DumpReads
  /\ iter' = IF Readable THEN iter + 1 ELSE iter
  /\ UNCHANGED <<tvars, session, step, streams, loop, got, left, owed>>

DumpRead ==
  /\ step = "dump" /\ iter < DumpReads
  /\ iter' = iter + 1
  /\ UNCHANGED <<tvars, session, step, streams, loop, got, left, owed>>

DumpEnds ==
  /\ step = "dump" /\ iter = DumpReads
  /\ Return
  /\ UNCHANGED <<tvars, streams, owed>>

-----------------------------------------------------------------------------

\* Ctrl-C, the only way out of --diag and an endless log.
Interrupt ==
  /\ session # "none"
  /\ Killed /\ Return
  /\ owed' = IF session = "gps_info" THEN owed \cup Mon ELSE owed
  /\ UNCHANGED streams

\* Unplugged, the receiver forgets what it was to send.
Unplug ==
  /\ UnitGone
  /\ streams' = {} /\ owed' = {}
  /\ UNCHANGED <<session, step, loop, info>>

Sessions ==
  \/ LogRead \/ LogReadFails \/ LogPoll \/ NoPoll \/ LogEnds \/ LogGoesOn
  \/ Enable \/ Enabled \/ InfoRead \/ InfoEnds \/ Disable \/ InfoDone
  \/ DumpRead \/ DumpEnds

Lifecycle ==
  /\ session = "none"
  /\ Opening \/ CloseDevice \/ Restart \/ NodeGone
  /\ UNCHANGED svars

Next == \/ Lifecycle \/ Sessions \/ Interrupt \/ Unplug
        \/ StartInfo \/ StartDump \/ \E s \in Logs : StartLog(s)

\* Reads and requests return, and a log's reads do not all return at once.
Spec ==
  /\ Init /\ [][Next]_vars
  /\ WF_vars(Sessions)
  /\ SF_vars(LogRead /\ time' > time)

-----------------------------------------------------------------------------

\* --clocklog SECONDS logs for as long as it was asked, and stops within a read
\* and two polls of that, wherever the clock stands when it starts, as long as
\* the length in milliseconds fits its 32 bits (model_1421.c:433).
FitsClock == asked * Second + 2 * PollTime + ReadTimeout < Wrap

LogLength ==
  [][/\ LogEnds /\ FitsClock => sampled >= asked * Second
     /\ (session = "clocklog" /\ asked > 0 /\ FitsClock
          => time <= asked * Second + 2 * PollTime + ReadTimeout)']_vars

\* While a log waits for the device, its last poll is no older than a second or
\* the time the poll itself took: a device that streams only when polled keeps
\* streaming, across the wrap of the clock too (model_1421.c:348-350).
PolledOften ==
  session \in Logs /\ step = "read" =>
    time - polled <= (IF PollTime < Second THEN Second ELSE PollTime)

\* "then turn them back off" (model_1421.c:452): whatever failed before, no MON
\* stream is left on after --gps-info but one whose request to stop failed or
\* that a user's interrupt left on.
MonStreamsRestored ==
  session # "gps_info" => streams \cap Mon \subseteq owed

\* --gps-info, --rawdump and a log of a given length end by themselves; an
\* unplugged device ends every session.
SessionsEnd ==
  (\/ session \in {"gps_info", "rawdump"}
   \/ session = "clocklog" /\ asked > 0
   \/ session # "none" /\ ~ unit.present)
  ~> session = "none"
=============================================================================
