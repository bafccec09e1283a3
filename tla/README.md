# Verification of lbe-142x

TLA+ models, TLC runs and TLAPS proofs for `lbe-142x`, the command line tool that
configures and watches the Leo Bodnar LBE-1420, 1421, 1423, 1425 and LBE-Mini GPS-locked
clocks. File references are relative to the repository.

## The system and its parts

One process opens one HID device, over hidraw (Linux) or libusb (Windows), and handles the
options of its command line in order. There are no threads; what makes the program hard is at its edges: a byte stream that
arrives in pieces, damaged and incomplete; requests that fail after the device has carried
them out; a receiver whose messages of one second arrive separately, twice or not at all;
operation tables of five models in which the same opcode means different things.

| part | state | operations | talks to |
|---|---|---|---|
| UBX reassembly (`ubx.c`) | buffer, its length | `ubx_consume`, `ubx_next` | stream loops above it, decoders below |
| UBX decoders (`ubx.c`) | none | `ubx_parse_pvt`, `_sat`, `_clock` | called per message |
| clocklog rows (`ubx.c`) | last iTOW, last fix | `clocklog_feed`, `clocklog_row` | reassembly; writes CSV |
| stream sessions (`model_1421.c`, `lbe_device.c`) | poll and start times, replies seen; the receiver's MON streams | `--diag`, `--clocklog`, `--gps-info`, `--rawdump` | transport, reassembly |
| NMEA accumulator (`nmea.c`) | working list, expected sentence per constellation | `nmea_feed` | the monitor; writes the sky view |
| monitor loop, PPS tracker (`model_1421.c`) | edge times, ring of 30 intervals | `lbe_shared_monitor` | serial line, NMEA |
| serial line reader (`lbe_serial_*.c`) | line buffer | `lbe_serial_readline`, port search | CDC device |
| control transport (`lbe_transport_*.c`) | descriptor or handle, libusb reference, claim | feature SET and GET with retries, input reads, claim, release | kernel, device |
| device enumeration (`lbe_transport_*.c`, `lbe_device.c`) | up to 8 candidates, libusb's list | `lbe_transport_open`, `lbe_open_device`, closing | kernel |
| status and `--statlog` (`model_142x.c`, `main.c`) | last status | read, re-read of zeros, poll loop | control transport |
| command line and operation tables (`main.c`, `lbe_device.c`, `model_*.c`) | `changed`, position in `argv` | every option | device, through the table of its model |
| Mini stream (`model_mini.c`) | buffer, sampled status bits | monitor, status sampling, `--gps-info` | interrupt-IN frames |
| Mini PLL solver (`model_mini.c`) | none | `mini_solve_pll` | pure search |
| views, platform wrappers, Python tools | none | formatting, OS calls, off-line analysis | |

What makes each part correct:

* **Reassembly**: only intact messages are delivered, each once, in order; resynchronising
  after damage skips none; what is complete is delivered when the call returns, unless a
  header claims bytes still to come; the scan ends; the buffer is never overrun.
* **Clocklog**: the table does not lie: no second is missing unmarked, none is logged twice,
  `valid` only with a fix.
* **NMEA**: a constellation is shown whole, of one cycle; what a full buffer leaves out is the end of a
  list; no satellite is shown twice, unless it moved to another sentence of its list.
* **Control**: a reported success was carried out; short glitches do not surface; waiting is
  bounded; an unplugged device ends the log.
* **Sessions**: the device used is the one asked for, or the only one; whatever fails, nothing
  stays open, claimed or referenced; a log lasts as long as asked and polls in time, across the
  wrap of the clock; `--gps-info` leaves the receiver as it was; an unplugged device ends all.
* **Command line**: an option changes what it names and nothing else, within the limits of
  the model; what is reported as set is set.
* **Mini PLL**: a frequency is refused only if no divider chain with N3 = 1 makes it (the comment promises
  any N3, which the code does not keep), and reads back as asked.
* **Monitor**: no line that fits the buffers is lost; no pulse counts twice, and none is missed by
  a loop that keeps up; the time shown is true to within a round of the loop.
* **Mini stream**: messages survive losses and keepalives around them; status claims are
  backed by what was received.

## Modules

| module | models | actions and the code they stand for |
|---|---|---|
| `UbxChannel` | what reassembly promises: a lossy channel that keeps order | |
| `UbxReassembly` | `ubx_next`, `ubx_consume` | `Feed` (append, overflow), `SkipByte`, `SkipBadLength`, `SkipBadChecksum`, `Deliver` (the branches of `ubx_next`), `Return` (compaction) |
| `ClockSeries` | the table the README of lbe-142x promises | |
| `Clocklog` | `clocklog_feed`, `clocklog_row`, and a receiver | `FeedPvt`, `FeedClock` inside arrivals, losses and poll answers; `Tick` and `TimeReset` of the receiver |
| `Nmea` | `nmea_feed` and its handlers, and a receiver | `Feed` (`HandleRmc`, `HandleGga`, `HandleGsa`, `HandleGsv`), `Lose`, `NextCycle` |
| `ControlRequest` | what a control request promises | |
| `ControlPipe` | `ioctl_retry`, `ctrl_transfer_retry`, the re-read of a zero status, `--statlog` | `SetDone`, `StatusDone`, `StatusZero`, `IoctlTransient`, `IoctlFatal` (how a try ends), `Retry`, `Reread`, `RereadTired` and `Poll` (sleeps); `DeviceChanges` |
| `Transport` | opening, choosing, claiming, releasing and closing a device, on both platforms | `OpenDir`, `InitUsb`, `ListUsb`, `Search`, `SearchEnds`, `Refuse`, `Choose`, `ChooseFails`, `OpenFails`, `OpenDevice`, `Close`; `Claim` and `Release` inside the sessions; `NodeGone`, `UnitGone` (unplugging), `Killed`, `Restart` |
| `Sessions1425` | the sessions of a process over `Transport`, in time | `StartLog`, `LogRead`, `LogReadFails`, `LogPoll`, `NoPoll`, `LogEnds`, `LogGoesOn` (`lbe_shared_diag`, `_clocklog`), `StartInfo`, `Enable`, `Enabled`, `InfoRead`, `InfoEnds`, `Disable`, `InfoDone` (`_gps_info`), `StartDump`, `DumpRead`, `DumpEnds` (`lbe_rawdump`); `Interrupt`, `Unplug` |
| `MiniPll` | `mini_solve_pll`, and the frequency `mini_get_status` reads back | functions: what the loops take (`Fits`), in which order (`Turn`), from which pass (`Preferred`) |
| `DeviceCli` | `main`, `lbe_device.c`, the five operation tables, the device; `--f1` of the Mini over `MiniPll` | `Open` (`lbe_open_device` calling `mini_init`, which writes to every Mini); then one action per option, split where a request lies between two steps (`Blink`, `BlinkOff`; `ProbeBefore`, `ProbeSend`, `ProbeAfter`) |
| `SerialLine` | `lbe_serial_readline` and the bytes of the tty | `ReadBytes`, `TakeLine`; a full buffer is cleared within the next `ReadBytes` |
| `MonitorLoop` | `lbe_shared_monitor` and the PPS tracker over `SerialLine`, in time | `PollDcd`, `PollFails`, the ways a `readline` goes on or ends (`BytesRead`, `Wait`, `LineRead`, `TimedOut`, `ReadFails`), `Redraw`, `NoRedraw` |
| `MiniFrames` | `mini_consume_ubx`, `mini_sample_nav`, `mini_monitor`, `mini_gps_info`, and the stream | `DataFrame`, `Keepalive`, `Timeout` (what a read may bring), `DataLost`, `Finish`, `Again` |
| `UbxReassemblyProofs`, `ClocklogProofs`, `ControlPipeProofs`, `SessionsProofs`, `DeviceCliProofs`, `NmeaProofs`, `MonitorLoopProofs`, `MiniFramesProofs` | the theorems and the lemmas they rest on (`SessionsProofs` those of `Transport` too, `DeviceCliProofs` those of `MiniPll`, `MonitorLoopProofs` those of `SerialLine`) | |
| `MC...` | small instances | |

How they fit together: `UbxReassembly` shows that the decoders sit on a lossy ordered
channel; `Clocklog` starts from that channel and takes whole messages. `ControlPipe` shows
that a request behaves as `ControlRequest` says (ended; success means carried out; failure
means perhaps), and the requests of `DeviceCli` and `Sessions1425` behave just so.
`Sessions1425` extends `Transport`: one process after another opens a device, runs sessions
on it and closes it, and any step may be an unplugging. `DeviceCli` extends `MiniPll`, whose
chains it sends and reads back. `MonitorLoop` extends `SerialLine`. `MiniFrames` repeats the
reassembly for the Mini's framing at the granularity of frames, where keepalives matter.

Abstractions: a byte of the UBX stream is what the scanner finds there (sync, claimed length,
checksum). The bytes of the NMEA port are counted, not named. A talker's list is a sequence of GSV
sentences, each a sequence of satellites; the entries of the host carry, for the properties only,
the list, sentence and cycle they come from. The four requests of `mini_init` ask the receiver for
messages, and are one write of the setting `stream` that succeeds or fails. Frequencies are units of
10 MHz, those of the Mini units of its own small crystal. Opcodes without a documented effect on a
model set `other`. A Mini message starts at the beginning of a frame, as short messages are padded.
A node of the bus is its product id, whether it may be opened, and whether it is still there;
foreign vendors are one kind of node. What the bytes of a 1425 stream say matters to `Sessions1425`
only in `--gps-info`, where a read brings some set of the replies awaited. Errors of a request are
those that are retried, those that are not, and unplugging; the sets differ by platform.

Mutated definitions stand before those they mutate, marked `Mutant`. They record which
plausible change of the code each property detects; no specification uses them.

## Runs

| run | instance | shows |
|---|---|---|
| `ubx_tight` | all streams of three segments out of ten (padding, garbage, messages of three sizes, one containing another, bad checksums, claims too long), 3-byte reports, 5-byte buffer | delivery is intact, ordered, complete but for overflows, prompt; streams whose headers fit never overflow; the scan ends; the reassembler implements `UbxChannel` |
| `clocklog_series` | three seconds, starting in mid-week or two seconds before its end; corrections to two times; fix and accuracies known or not | the table is the honest series until the time of week wraps or is corrected or a NAV-PVT is lost; nothing heard goes unlogged and no miss unmarked until a correction; a row is exact when its second's NAV-PVT came first |
| `clocklog_rollover` | start two seconds before the week's end | **found**: the week's end is marked as a gap |
| `nmea_cycles` | GPS and GLONASS, five skies of 1 to 3 sentences each, of none to two satellites, which move between the sentences; 3 cycles, room for 4 | bounds hold; a satellite is listed twice only if it moved to another sentence; until a sentence is lost, constellations are of one cycle, at most one cycle old, and whole but for the end of a list in a full buffer |
| `nmea_twice` | same | **found**: after a lost first sentence the next one goes on with an earlier cycle, and a satellite is listed twice |
| `nmea_used` | same | **found**: publishing a sequence wipes the used marks |
| `pipe_requests` | the code's own 3 tries and 2 reads, both platforms | failures only after a full set of stalls or zeros or an error that is not retried; at most 5 sleeps; implements `ControlRequest`; unplugging ends `--statlog` |
| `sessions` | up to 3 nodes of 2 models, a stranger or another vendor, 2 matches kept, any `--pid`; ticks of half a second, a clock that wraps at 16, logs of 0 (endless), 1, 2 and 8 seconds started just before the wrap | the right device is used; nothing leaks; logs last as long as asked and poll in time; MON streams are switched off again; sessions end |
| `cli_options` | five models, two options, arguments on both sides of every limit; a Mini with a crystal of 12, dividers up to 24, a native band of 100 to 130 | options change what they name only; limits and constellation rules hold; reported settings are set; the Mini accepts a frequency just when it has a chain with N3 = 1, in the native band if one is; when "No changes made" is printed, settings are as opening made them, but for failed requests and raw opcodes not read back; an LED blinks on only after a failed or raw request |
| `monitor_serial` | a second of 6 units, pulses of 3, rounds of up to 3, two starting phases, a ring of 2, one failing poll; buffers of 4 and 2 bytes, lines of 1, 3 and 5 | a line that fits survives the lines around it; no pulse is counted twice, none missed; jitter and sub-second time are true to within a round |
| `mini_frames` | messages of 1, 2 and 3 frames, room for 4, 6 reads | messages read whole survive losses and keepalives; a GPS lock is backed by a frame or a whole solution; the PLL lock is that of the last frame |
| `mini_gpsinfo` | same, `--gps-info` | **found**: a keepalive inside a message destroys it there |

Why the bounds are enough. In the reassembler a stream of three segments holds a damaged header, a
message behind it and what follows; the buffer, messages and reports keep the order of the code's
sizes (a longest message that does not fit the buffer with a report), and the proofs cover every
other size. Clocklog state is one second deep, so three seconds show a row, a miss and a row after
it. In the NMEA view a stale entry lives for one cycle and needs two talkers; an interrupted
sequence is gone on with in the next one, or in the one after. The pipe runs with its real counters.
In `Sessions1425` three nodes hold two matches and one that no longer fits; a log of 8 seconds is
one whose length does not fit the clock, the others run across its wrap. In `DeviceCli` a property
relates at most a setting and a later attempt on it or another option, which two options show (any
number is proved); the Mini's instance has frequencies with a chain in the band, with one out of it
only, and with none. In `MiniFrames` six frames hold a torn message, a whole one behind it and a
keepalive. The monitor sees up to three pulses, which fill a ring of two (that the ring wraps well
is proved); its lines are empty, exactly fill the line buffer, and exceed it.

The properties of pulses, but for `edges <= seen`, are about loops whose longest round (read
time-out and redraw) is shorter than both the pulse and the pause after it (`KeepsUp`), and
whose polls succeeded. The code's own time-out is 20 ms; how long a redraw takes is up to the
terminal, and a terminal that blocks for most of a second makes the monitor miss pulses. On
Windows a read may last 100 ms more (`ReadBlock`; `lbe_serial_windows.c:58-60`), so a pulse of
100 ms can be missed there.

`CHECK_DEADLOCK FALSE` stands where the finite stream, the simulated receiver, a history or
`main` ends.

### Fairness

`UbxReassembly` assumes that the scan goes on (`WF` of its steps): it is a loop without a
wait. `ControlPipe` assumes `WF_vars(Host)`: ioctls return and sleeps end; nothing is assumed of
the device, which may stall for ever, or of the user. `Sessions1425` assumes `WF_vars(Sessions)`,
as every read has a time-out and every request returns, and `SF_vars(LogRead /\ time' > time)`: a
log's reads do not all return at once, or its clock would stand still. Nothing is assumed of
interrupts and unplugging. All other specifications are safety only.

## What is proved

Each theorem is about every value of the constants under the named assumptions of its module
(`...Assumption`), and its premises where it has any. The inductive invariants were checked
with TLC before they were proved.

**`UbxReassemblyProofs`**, for every set of streams, buffer, message and report size with
`MinTotal <= MaxTotal`, `MaxChunk <= Cap`, and headers that claim at least `MinTotal`:
`TypeCorrect`, `InOrder` (`DeliveredInOrder`), `NoneSkipped` (`NothingSkipped`), `Prompt`
(`PromptDelivery`), `NeverOverflows` (`NoOverflowWhenFits`), `Refinement` (`ImplementsChannel`).
`DeliveredInOrder` is not inductive: that the next message starts after the last one delivered
follows only from the scan position. The inductive invariant is

    TypeOK /\ HeadersPlausible /\ Behind /\ Ordered /\ NothingSkipped /\ RemainderIncomplete

`Behind` (all that was delivered ends before the scan position) gives order and, with the
guard of `Deliver`, disjointness. `NothingSkipped` is inductive with it: stepping over one
byte passes at most one message start, and the guards of the three skips say it is not that
of a good message. `RemainderIncomplete` is what a return leaves: it needs `HeadersPlausible`
(a claimed length is never below the minimum). `PromptDelivery` follows from the last two
between calls; `NoOverflowWhenFits` from `RemainderIncomplete` when the next report comes.
The refinement maps `Feed` to an arrival, `Deliver` to a delivery and every other step to a
stutter. The constants of the code do **not** satisfy the premise of `NoOverflowWhenFits`:
1032 - 1 + 62 > 1024.

**`ClocklogProofs`**: `TypeCorrect` and `GateExact` (`FreshMeansExact`) for any log;
`NothingHidden` (`HeardIsLogged`), `GapsMarked` (`MissedMeansGap`) and `TableHonest` (`HonestSeries`)
for logs shorter than a week (`ShortLog`). In a longer log an iTOW comes back, and the duplicate
filter would be right only by luck. `Gated` carries the fix: `FixCurrent` says that between a
NAV-PVT and its NAV-CLOCK the last fix is this second's. `Timed` carries the times:
`LastKept` (the filter's iTOW is the last row's), `Timeline` (until a correction a row and the
present are as far apart as their seconds, modulo one week) and `Undisturbed` (without the week,
and every NAV-PVT came, as long as nothing disturbed). From these an equal iTOW is the same second
and a step of 1000 ms the next one.

**`ControlPipeProofs`**, for any number of tries and reads: `TypeCorrect`,
`ShortGlitchesAbsorbed` (`GlitchesAbsorbed`), `SleepsBounded` (`SleepBounded`), and
`RefinesRequest`, the safety part of `ControlRequest`. The invariant counts: `stalls` is the
attempt number, `zeros` the read number, and the sleeps so far are at most
`read * LBE_CTRL_RETRY_MAX + attempt`, which is why the nesting does not multiply.

**`SessionsProofs`**, for any bus, bound on matches, time-outs, clock width
and lengths: `NoLeak` (`NothingLeaks`), `RightChoice` (`RightDevice`), `StreamsRestored`
(`MonStreamsRestored`), `PollsInTime` (`PolledOften`), `LengthKept` (`LogLength`). The invariant is

    HoldOK /\ SearchOK /\ StepOK /\ StreamsOK /\ LogOK

`HoldOK` says what is held at each stage of opening, on each platform, and that the claim
recorded is the claim held. `SearchOK` is the invariant of the search: the matches are matches
in order, and every node passed that could have been opened is among them or there was no
room. `StreamsOK`: a MON stream that is on is owed, or still on the list to be switched.
`LogOK` relates the clock's readings to time: as long as a distance in time is below the width of
the clock, the 32-bit difference is that distance (`Lag`); with the age of the last poll and
the length so far at each step of the loop. The assumption `Second + PollTime + ReadTimeout <
Wrap` makes the poll's difference one of these.

**`DeviceCliProofs`** begins with the divider search, for any crystal and any bounds. `SolvedIsLegal`: what
it returns keeps the constraints of its comment. `ReadBackExact`: the truncating division of the
read-back is exact for a legal chain. `NoneMissed`: a chain is found for every frequency that has one,
if `KMax >= 484`. The code tries 4096 multiples. The argument has two parts. By `LowestTerms` the
products of any chain are a multiple k of `P(f)` and `Q(f)`: the least pair with the ratio f to `Fin`
divides every other (division with remainder), so it is the pair in lowest terms. And a chain of a
multiple beyond 4 * N2_HS * N1_HS has one of exactly that multiple below it, whose other dividers are
even and smaller (`SomeIteration`); both first dividers are at most 11. `BandPreferred`: the two passes
find a chain in the native band if there is one. The instance of the run has other bounds
(`KMax = 24`, where 484 is not needed for dividers up to 24). Together they prove
`MiniSearchComplete` (`MiniSolves`). These are about the chains with N3 = 1, the only ones the code can
send. The comment of the function allows N3 up to 2^19, and `RefusedAlthoughValid` shows that the search
is not complete for those: with the crystal and the limits of the code it gives up on 369101568 Hz, which
97600 * 11 * 524292 / (305 * 5 * 1) makes. `ReadBackExact` holds for any N3.

For the command line, with any models, arguments and number of options, it proves `OnlyWhatIsAsked`
(`OnlyAsked`), `ClaimsTrue` (`ClaimsHold`), `WithinLimits` (`WithinRating`), `NoChangesTrue`
(`NoChangesTruthful`), `BlinkEnds` (`BlinkStops`). One lemma per operation table says that the
opcode of an option has, on that model, the effect the option names; `SentValue`, what the guards
leave of the argument (for the Mini by `SolvedIsLegal` and `ReadBackExact`); `Request`, what success and failure
do to the settings. The invariant adds to the properties only `Shape`, `Counted` (until something counts as a
change, a setting that is not as opening made it is one of a failed request, of a raw opcode whose status
was not or not yet read, or the LED that is blinking just now) and `Unclaimable` (nothing is claimed of the
LED and of the stream).

**`MonitorLoopProofs`**, for any period, pulse, phase, time-out and ring: `EveryPulse`
(`PulsesCounted`), `JitterTrue` (`JitterWithinRound`), `FractionShown` (`FractionTrue`, if a redraw
takes time at all). `Steady` holds of every loop: a remembered level is that of the last poll that
succeeded, so each edge counted is of a pulse since (`NoneTwice`). `Exact` holds of a loop that
keeps up: two polls are less than a pulse and less than a pause apart (`Punctual`), so there is
exactly one pulse between them if the line rose and none otherwise (`BetweenPolls`); the last edge
came within a round of the last pulse (`LastEdge`), and pulses are a second apart, which bounds the
intervals and the fraction.

The line reader beneath it needs nothing of the tracker: `LinesReturned` (`ShortLinesSurvive`) and
`TypeCorrect`, for any lines, cut anywhere, and any sizes of the two buffers. `InOrder` says that
the lines returned lie before the buffer, one after another, `Resumed` that the buffer begins amid a
line only when that is too long for it, and `ShortTaken` that each line that fits and ends before the
buffer was returned whole.

**`NmeaProofs`**, for any talkers in any order (several may share a constellation), skies with lists of any
length, capacity and number of cycles: `TypeCorrect`, `TwiceIfMoved` (`TwiceOnlyIfMoved`), `ListsWhole`
(`ViewWhole`), `ListsFresh` (`ViewFresh`). `Single` holds whatever is lost: each
entry is a satellite of the sentence and list it says it is from, two entries of one satellite are of
different sentences of different lists, and the working list holds nothing of a constellation at or beyond
the sentence expected of it (`Beyond`), so the next one is new; a first sentence purges what was there. That
an earlier *list* may still stand there when the next sentence comes is why no more can be proved
(run `nmea_twice`). `Followed` holds until a sentence is lost: what came of the sequence under way is in the
working list, or nothing as the monitor was started in its middle (`InSync`); a constellation whose sequence
is not under way is whole there (`WorkWhole`), and every one in what is shown (`ShownWhole`); and no entry is
older than the last cycle, nor than this one once its constellation has passed (`FreshWork`, `FreshShown`).
Whole means: of one cycle, nothing of a sentence without all before it, and nothing missing unless the
buffer was full. A sentence that does not fit does not end the sequence; no later one finds room, as entries
are only added until the sequence has ended. That a purge from behind removes just the entries of one
constellation, and which sentences follow which in a cycle, are facts on recursive functions, proved from
their defining equations.

**`MiniFramesProofs`**, for any messages of any numbers of frames, any buffer and number of reads:
`TypeCorrect`, `FixBehindLock` (`GpsLockSeen`), `LastFrameTold` (`PllLockSeen`), `ReadBeforeDelivered`
(only messages read whole in this call pass the scan) and `NothingReadIsLost` (`MessagesSurvive`). The
invariant is

    Ranges /\ TornLack /\ WholeOnly /\ Unbroken /\ SampleTrue

`TornLack` gives soundness: of a message that was not read whole some frame is not in the buffer,
although its other frames may be, in any order and between those of others. It speaks of what the
buffer holds and not of what was received, because it must survive the scan, which only removes
(`ScanSound`: what passes had all its frames there). `Unbroken` gives completeness: what was read of the
present message stands at the end of the buffer as one run, and a message read whole is delivered or a
run in it; `ScanComplete` says that the scan passes a whole run or stops at a header before it. It
needs that keepalives are skipped, which `mini_gps_info` does not do (run `mini_gpsinfo`), and that the
buffer never overflows: a return leaves an incomplete message at the front (`Lacking`), so it suffices
that each message fits alone. In the code 16 frames do, which is a NAV-SAT of 81 satellites.

Recursive functions and loops are reasoned about by their least counterexample: the set of positions
where a fact fails has a least element (`WFMin`, or the lemmas `LeastExists`, `LeastOf`, `MinExists`),
and the defining equation refutes it there. That such a function exists at all is proved in the
same way before its equation is used (`ScanExists`, `SumsExist`).

Only model-checked are `ScanTerminates`, `UnplugEndsLog`, `SessionsEnd` and the liveness of
`ImplementsRequest`: fairness and `ENABLED` are beyond the prover. Every other property of a passing run
is proved. The four violations are shown by their runs.

## Disagreements between code and documentation

Four are shown by runs, above. In the code that of `nmea_twice` is this: a GSV sentence is accepted when
its number is the one expected (`nmea.c:171`), and neither the end of a list nor the time that passes resets
that number (`total_msg` is stored and never used). After a lost first sentence the second one goes on with
a list of an earlier cycle. `TwiceOnlyIfMoved` says what duplicates there can be.

One is proved (`RefusedAlthoughValid`): the divider search fixes N3 at 1 (`model_mini.c:76`) although its
comment allows up to 2^19 and -1 only "if no valid divider set was found" (`model_mini.c:33-39`); it refuses
369101568 Hz.

Met while modelling, and visible in the definitions:

* A report that does not fit throws away the whole buffer (`ubx.c:129-130`, "drop stale partial"), also
  messages received in full that wait behind a damaged header. `NothingSkipped` excepts them.
* A row of the clock log takes its fix from the last NAV-PVT received, of whatever second
  (`ubx.c:211-212`): after the loss of one, `valid` may be 1 without a fix. `FreshMeansExact`
  and `HonestSeries` say when it cannot.
* "No changes made" is printed after `--probe-op` when the opcode was carried out and only the status read
  after it failed (`main.c:315-318`), or a failed request was carried out. It also says nothing of what
  opening does: `mini_init` (`model_mini.c:94-119`) makes the receiver of every Mini stream, also for
  `--status`. `NoChangesTruthful` says that these are the only exceptions, setting by setting.
* A NAV-CLOCK is a duplicate only if its iTOW equals the last (`ubx.c:201`); an earlier one is
  logged, with a gap, although README.md:333 says that a non-advancing one is dropped.
* A GSV sequence that lost a sentence is shown in part when another talker publishes
  (`nmea.c:192-195`; nmea.h:10 says the sequences are independent).
* GGA alone sets `time_valid` (`nmea.c:94`), also before any date was received.
* A serial port that is hung up reads as silence: `lbe_serial_readline` ends only on a negative
  result (`lbe_serial_linux.c:106-107`), so the monitor of an unplugged clock draws on.
* `--statlog` takes a stall that outlasts its tries for an unplug (`main.c:255-264`).
* A Mini blinks on when its stop request fails (`model_mini.c:240`); `BlinkStops` excludes just that.
* The PLL of a Mini is taken to be locked until a frame says otherwise (`model_mini.c:365`): a
  silent stream is reported as locked. `PllLockSeen` is about streams that were heard.
* The length of `--clocklog` is multiplied in 32 bits (`model_1421.c:433`): 4294968 seconds or more
  wrap, and such a log ends early. `LogLength` has the premise `FitsClock`.
* `--rawdump` counts 200 ms for each read, however long it took (`lbe_device.c:229-246`), so its
  message "for %d ms" is true of a silent device only.
* `--diag` and `--clocklog` leave the NAV streams as they find them; nothing turns them off.
* With `--pid` of a product that is not known, any device of the vendor is opened, with the
  operations of the 1421.
* On Linux nodes that may not be opened do not count as matches; on Windows they do, so there a
  second clock that is in use elsewhere makes `--pid` necessary.
* `ctrl_transfer_retry` says it mirrors the ioctl of Linux but retries fewer errors
  (`lbe_transport_windows.c:24-46`): a busy device fails at once.
* The Mini's search tries multiples up to 4096 (`model_mini.c:53`), which do not reach the native band
  (`model_mini.c:49`) for frequencies up to 12 times 97600 Hz over a divisor of it.

## Not modelled, and what would come next

1. Composing `MonitorLoop` with `Nmea`, in place of lines that are only counted: the pieces of
   overlong lines that pass without a checksum.
2. The port search (`lbe_serial_find_nmea`): a scan of names for one that sends NMEA within a second,
   opening and closing each in turn; and the deadline of the Windows reader across the wrap of
   `GetTickCount`, which shortens one read in 49 days.

Left out for good: formatting (`cli_view.c`, `gnss_view.c`, the views in the stream loops),
decoding of fields nothing decides on, OS wrappers, and the Python and gnuplot aids, which are
not the program.
