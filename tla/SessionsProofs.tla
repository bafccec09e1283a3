--------------------------- MODULE SessionsProofs ---------------------------
(***************************************************************************)
(* The sessions of the LBE-1425 for every bus, clock, period, length and   *)
(* number of reads: whatever fails, the device used is the right one,      *)
(* nothing is left held, the MON streams are switched off again, and a log *)
(* polls in time and lasts as long as it was asked to.                     *)
(***************************************************************************)
EXTENDS Sessions1425, FiniteSetTheorems, SequenceTheorems, TLAPS

-----------------------------------------------------------------------------
(* The hold on the device and the choice of it.                            *)

\* What is held at each stage; the reference is counted under Windows only.
HoldOK ==
  /\ held \in BOOLEAN /\ claimed = held
  /\ pc \in {"start", "list", "scan", "choose", "opened", "up", "exit"}
  /\ platform \in {"linux", "windows"}
  /\ platform = "linux" => ref = 0 /\ list = {}
  /\ pc \in {"start", "exit"} => handles = {} /\ list = {} /\ ref = 0
  /\ pc = "list" => platform = "windows" /\ handles = {} /\ list = {} /\ ref = 1
  /\ pc \in {"scan", "choose"} /\ platform = "windows" => handles = {} /\ ref = 1
  /\ pc \in {"opened", "up"} =>
       /\ list = {} /\ \E h \in handles : handles = {h}
       /\ platform = "windows" => ref = 1
  /\ pc # "up" => ~ held
  /\ platform = "linux" => ~ held

\* What the search knows: all matches are matches, and all that could have been
\* opened at the nodes it has passed are among them.
SearchOK ==
  /\ platform \in {"linux", "windows"}
  /\ bus \in Seq(Node) /\ matches \in Seq(Nat) /\ pos \in Nat \ {0}
  /\ pc \in {"start", "list", "up", "exit"} => pos = 1 /\ matches = <<>>
  /\ \A k \in 1..Len(matches) :
       matches[k] \in 1..Len(bus) /\ Matching(bus[matches[k]])
  /\ pc = "scan" /\ platform = "windows" =>
       \A i \in 1..Len(bus) : bus[i].present => i \in list
  /\ \A i \in 1..Len(bus) :
       i < pos /\ Matching(bus[i]) /\ Openable(bus[i]) =>
         \E k \in 1..Len(matches) : matches[k] = i
  /\ pc \in {"choose", "opened"} => pos > Len(bus) \/ Len(matches) = MatchMax
  /\ pc = "opened" => ~ NoChoice
  /\ unit \in Node \cup {Nowhere}
  /\ pc = "up" => unit \in Node
  /\ RightDevice

-----------------------------------------------------------------------------

LEMMA HoldInit == TransportInit => HoldOK
  BY DEF TransportInit, HoldOK

\* A failure on the way gives everything back.
LEMMA GivesBack ==
  ASSUME HoldOK, pc \in {"scan", "choose", "opened"}, GiveUpOpen
  PROVE  HoldOK'
<1>1. pc' = "exit" /\ handles' = {} /\ list' = {} /\ UNCHANGED <<platform, claimed, held>>
  BY DEF GiveUpOpen
<1>2. ref \in {0, 1} /\ ref' = IF ref > 0 THEN ref - 1 ELSE 0
  BY DEF HoldOK, GiveUpOpen, DropRef
<1>3. ref' = 0
  BY <1>2
<1> QED
  BY <1>1, <1>3 DEF HoldOK

\* Closing does, too.
LEMMA ClosingGivesBack ==
  ASSUME HoldOK, pc \in {"opened", "up"}, Close, pc' = "exit",
         UNCHANGED <<platform, list>>
  PROVE  HoldOK'
<1>1. handles' = {} /\ claimed' = FALSE /\ held' = (held /\ ~ claimed)
  BY DEF Close, Release
<1>2. ref \in {0, 1} /\ ref' = IF ref > 0 THEN ref - 1 ELSE 0
  BY DEF HoldOK, Close, DropRef
<1>3. ref' = 0
  BY <1>2
<1>4. held' = FALSE
  BY <1>1, Zenon DEF HoldOK
<1> QED
  BY <1>1, <1>3, <1>4 DEF HoldOK

LEMMA ClaimKeepsHold ==
  ASSUME HoldOK, pc' = "up", pc \in {"opened", "up"}, NEW u,
         Claim(u) \/ UNCHANGED <<claimed, held>>,
         UNCHANGED <<platform, handles, list, ref>>
  PROVE  HoldOK'
<1>1. \/ UNCHANGED <<claimed, held>>
      \/ platform = "windows" /\ claimed' = TRUE /\ held' = TRUE
  BY DEF Claim
<1>2. held' \in BOOLEAN /\ claimed' = held'
  BY <1>1 DEF HoldOK
<1>3. platform = "linux" => ~ held'
  BY <1>1 DEF HoldOK
<1> QED
  BY <1>2, <1>3 DEF HoldOK

LEMMA ReleaseKeepsHold ==
  ASSUME HoldOK, Release, UNCHANGED <<platform, pc, handles, list, ref>>
  PROVE  HoldOK'
<1>1. held' = FALSE /\ claimed' = FALSE
  BY Zenon DEF Release, HoldOK
<1> QED
  BY <1>1 DEF HoldOK

LEMMA OpeningKeepsHold == HoldOK /\ Opening => HoldOK'
<1> SUFFICES ASSUME HoldOK, Opening PROVE HoldOK'
  OBVIOUS
<1>1. CASE OpenDir
  BY <1>1 DEF OpenDir, hold, HoldOK
<1>2. CASE InitUsb
  BY <1>2 DEF InitUsb, HoldOK
<1>3. CASE ListUsb
  BY <1>3 DEF ListUsb, DropRef, HoldOK
<1>4. CASE Search
  BY <1>4 DEF Search, HoldOK
<1>5. CASE SearchEnds
  BY <1>5 DEF SearchEnds, hold, HoldOK
<1>6. CASE Refuse \/ ChooseFails
  BY <1>6, GivesBack DEF Refuse, ChooseFails
<1>7. CASE Choose
  BY <1>7 DEF Choose, KeepFirst, HoldOK
<1>8. CASE OpenFails
  BY <1>8, ClosingGivesBack DEF OpenFails
<1>9. CASE OpenDevice
  BY <1>9, ClaimKeepsHold DEF OpenDevice
<1> QED
  BY <1>1, <1>2, <1>3, <1>4, <1>5, <1>6, <1>7, <1>8, <1>9 DEF Opening

LEMMA OtherStepsKeepHold ==
  HoldOK /\ (CloseDevice \/ Killed \/ Restart \/ NodeGone \/ UnitGone) => HoldOK'
<1> SUFFICES ASSUME HoldOK, CloseDevice \/ Killed \/ Restart \/ NodeGone \/ UnitGone
             PROVE  HoldOK'
  OBVIOUS
<1>1. CASE CloseDevice
  BY <1>1, ClosingGivesBack DEF CloseDevice
<1>2. CASE Killed
  BY <1>2 DEF Killed, HoldOK
<1>3. CASE Restart \/ NodeGone \/ UnitGone
  BY <1>3 DEF Restart, NodeGone, UnitGone, hold, HoldOK
<1> QED
  BY <1>1, <1>2, <1>3

LEMMA HoldNeverLeaks == HoldOK => NothingLeaks
<1> SUFFICES ASSUME HoldOK PROVE NothingLeaks
  OBVIOUS
<1>1. pc = "up" => Cardinality(handles) = 1
  <2> SUFFICES ASSUME pc = "up" PROVE Cardinality(handles) = 1
    OBVIOUS
  <2>1. PICK h \in handles : handles = {h}
    BY DEF HoldOK
  <2> QED
    BY <2>1, FS_Singleton, Zenon
<1>2. claimed = held
  BY DEF HoldOK
<1>3. ref = 0 /\ platform = "windows" => handles = {} /\ ~ held
  BY DEF HoldOK
<1> QED
  BY <1>1, <1>2, <1>3, Zenon DEF HoldOK, NothingLeaks

-----------------------------------------------------------------------------
(* The choice of the device.                                               *)

LEMMA SearchInit == TransportInit => SearchOK
<1> SUFFICES ASSUME TransportInit PROVE SearchOK
  OBVIOUS
<1>1. bus \in Seq(Node)
  <2>1. PICK n \in 0..BusMax : bus \in [1..n -> Node]
    BY DEF TransportInit, Buses
  <2>2. n \in Nat
    BY <2>1, TransportAssumption
  <2> QED
    BY <2>1, <2>2
<1>2. matches \in Seq(Nat) /\ Len(matches) = 0 /\ pos = 1
  BY DEF TransportInit
<1> QED
  BY <1>1, <1>2 DEF TransportInit, SearchOK, RightDevice

\* Forgetting the search leaves nothing to know of it.
LEMMA Forgotten ==
  ASSUME Forget, pc' \in {"up", "exit"}, unit' \in Node \cup {Nowhere},
         pc' = "up" => unit' \in Node, RightDevice', platform' \in {"linux", "windows"}
  PROVE  SearchOK'
<1>1. bus' \in Seq(Node) /\ matches' \in Seq(Nat) /\ Len(bus') = 0 /\ Len(matches') = 0
  BY DEF Forget
<1> QED
  BY <1>1 DEF Forget, SearchOK

LEMMA SearchStep ==
  ASSUME SearchOK, Search
  PROVE  SearchOK'
<1> DEFINE n == bus[pos]
           found == /\ Matching(n)
                    /\ IF platform = "linux" THEN Openable(n) ELSE pos \in list
<1>1. /\ pc = "scan" /\ pos <= Len(bus) /\ pos' = pos + 1
      /\ matches' = (IF found THEN Append(matches, pos) ELSE matches)
      /\ UNCHANGED <<platform, preferred, bus, pc, list, unit, rival>>
  BY DEF Search
<1>2. /\ bus \in Seq(Node) /\ matches \in Seq(Nat) /\ pos \in Nat \ {0} /\ Len(matches) \in Nat
      /\ Len(bus) \in Nat
  BY DEF SearchOK
<1> HIDE DEF found
<1>3. ASSUME NEW k \in 1..Len(matches)
      PROVE  matches'[k] = matches[k] /\ k \in 1..Len(matches')
  BY <1>1, <1>2
<1>4. matches' \in Seq(Nat)
  BY <1>1, <1>2
<1>5. ASSUME NEW k \in 1..Len(matches')
      PROVE  matches'[k] \in 1..Len(bus) /\ Matching(bus[matches'[k]])
  <2>1. CASE k \in 1..Len(matches)
    BY <1>3, <2>1 DEF SearchOK
  <2>2. CASE k \notin 1..Len(matches)
    <3>1. found /\ matches'[k] = pos
      BY <1>1, <1>2, <2>2
    <3> QED
      BY <1>1, <1>2, <3>1 DEF found
  <2> QED
    BY <2>1, <2>2
<1>6. ASSUME NEW i \in 1..Len(bus), i < pos', Matching(bus[i]), Openable(bus[i])
      PROVE  \E k \in 1..Len(matches') : matches'[k] = i
  <2>1. CASE i < pos
    <3>1. PICK k \in 1..Len(matches) : matches[k] = i
      BY <1>6, <2>1 DEF SearchOK
    <3> QED
      BY <1>3, <3>1
  <2>2. CASE i = pos
    <3>1. found
      BY <1>1, <1>6, <2>2 DEF found, SearchOK, Openable
    <3>2. Len(matches') = Len(matches) + 1 /\ matches'[Len(matches) + 1] = pos
      BY <1>1, <1>2, <3>1
    <3> QED
      BY <1>2, <2>2, <3>2
  <2> QED
    BY <1>1, <1>2, <1>6, <2>1, <2>2
<1>7. pos' \in Nat \ {0}
  BY <1>1, <1>2
<1> QED
  BY <1>1, <1>4, <1>5, <1>6, <1>7 DEF SearchOK, RightDevice, Matching, Openable

\* A sequence of one match: all that could be opened is that node.
LEMMA OnlyMatch ==
  ASSUME SearchOK, pc \in {"choose", "opened"}, ~ NoChoice, preferred = NoPid,
         NEW i \in 1..Len(bus), Matching(bus[i]), Openable(bus[i])
  PROVE  i = matches[1]
<1>0. /\ bus \in Seq(Node) /\ matches \in Seq(Nat) /\ pos \in Nat
      /\ matches # <<>> /\ ~ (Len(matches) > 1)
  BY DEF SearchOK, NoChoice
<1>1. Len(matches) = 1 /\ Len(bus) \in Nat /\ pos \in Nat
  <2>1. Len(matches) \in Nat \ {0}
    BY <1>0, EmptySeq, Zenon
  <2>2. Len(matches) = 1
    <3> DEFINE n == Len(matches)
    <3>1. ~ (n > 1) /\ n \in Nat /\ n # 0
      BY <1>0, <2>1
    <3> HIDE DEF n
    <3>2. n = 1
      BY <3>1
    <3> QED
      BY <3>2 DEF n
  <2>3. Len(bus) \in Nat
    BY <1>0
  <2> QED
    BY <1>0, <2>2, <2>3
<1>2. pos > Len(bus)
  BY <1>1, TransportAssumption DEF SearchOK
<1>3. PICK k \in 1..Len(matches) : matches[k] = i
  BY <1>1, <1>2 DEF SearchOK
<1> QED
  BY <1>1, <1>3

LEMMA OpeningDevice ==
  ASSUME SearchOK, OpenDevice
  PROVE  SearchOK'
<1>1. pc = "opened" /\ pc' = "up" /\ unit' = bus[matches[1]] /\ Forget
      /\ preferred' = preferred /\ platform' \in {"linux", "windows"}
  BY DEF OpenDevice, SearchOK
<1>2. ~ NoChoice
  BY <1>1 DEF SearchOK
<1>3. 1 \in 1..Len(matches)
  BY <1>2 DEF NoChoice, SearchOK
<1>4. matches[1] \in 1..Len(bus) /\ Matching(bus[matches[1]])
  BY <1>3 DEF SearchOK
<1>5. unit' \in Node
  BY <1>1, <1>4 DEF SearchOK
<1>6. RightDevice'
  <2>1. CASE preferred # NoPid
    BY <1>1, <1>4, <2>1 DEF Matching, RightDevice
  <2>2. CASE preferred = NoPid
    <3>1. unit'.pid \in Models
      BY <1>1, <1>4, <2>2 DEF Matching
    <3>2. DOMAIN bus = 1..Len(bus)
      BY DEF SearchOK
    <3>3. ~ \E i \in DOMAIN bus \ {matches[1]} : Matching(bus[i]) /\ Openable(bus[i])
      BY <1>1, <1>2, <2>2, <3>2, OnlyMatch
    <3>4. ~ rival'
      BY <3>3 DEF OpenDevice
    <3> QED
      BY <1>1, <2>2, <3>1, <3>4 DEF RightDevice
  <2> QED
    BY <2>1, <2>2
<1> QED
  BY <1>1, <1>5, <1>6, Forgotten

LEMMA OpeningKeepsSearch == SearchOK /\ Opening => SearchOK'
<1> SUFFICES ASSUME SearchOK, Opening PROVE SearchOK'
  OBVIOUS
<1>0. bus \in Seq(Node) /\ DOMAIN bus = 1..Len(bus)
  BY DEF SearchOK
<1>1. CASE OpenDir
  BY <1>1 DEF OpenDir, scan, hold, SearchOK, RightDevice, Matching, Openable
<1>2. CASE InitUsb
  BY <1>2 DEF InitUsb, scan, SearchOK, RightDevice, Matching, Openable
<1>3. CASE ListUsb
  BY <1>0, <1>3 DEF ListUsb, scan, SearchOK, RightDevice, Matching, Openable
<1>4. CASE Search
  BY <1>4, SearchStep
<1>5. CASE SearchEnds
  BY <1>5 DEF SearchEnds, scan, hold, SearchOK, RightDevice, Matching, Openable
<1>6. CASE Refuse \/ ChooseFails
  <2>1. Forget /\ pc' = "exit" /\ unit' = unit /\ platform' = platform
    BY <1>6 DEF Refuse, ChooseFails, GiveUpOpen
  <2> QED
    BY <2>1, Forgotten DEF SearchOK, RightDevice
<1>7. CASE Choose
  BY <1>7 DEF Choose, scan, SearchOK, RightDevice, Matching, Openable, NoChoice
<1>8. CASE OpenFails
  <2>1. Forget /\ pc' = "exit" /\ unit' = unit /\ platform' = platform
    BY <1>8 DEF OpenFails
  <2> QED
    BY <2>1, Forgotten DEF SearchOK, RightDevice
<1>9. CASE OpenDevice
  BY <1>9, OpeningDevice
<1> QED
  BY <1>1, <1>2, <1>3, <1>4, <1>5, <1>6, <1>7, <1>8, <1>9 DEF Opening

\* Unplugging only takes from what could be opened.
LEMMA GoneNode ==
  ASSUME SearchOK, NodeGone
  PROVE  SearchOK'
<1>1. PICK g \in DOMAIN bus : bus' = [bus EXCEPT ![g].present = FALSE]
  BY DEF NodeGone
<1>2. /\ UNCHANGED <<platform, preferred, pc, pos, matches, list, unit, rival>>
      /\ bus \in Seq(Node) /\ DOMAIN bus = 1..Len(bus) /\ pc # "up"
  BY DEF NodeGone, hold, SearchOK
<1>3. bus' \in Seq(Node) /\ Len(bus') = Len(bus)
  <2>1. Len(bus) \in Nat /\ g \in 1..Len(bus) /\ \A i \in 1..Len(bus) : bus[i] \in Node
    BY <1>2
  <2>2. [bus[g] EXCEPT !.present = FALSE] \in Node
    BY <2>1 DEF Node
  <2>3. DOMAIN bus' = 1..Len(bus) /\ \A i \in 1..Len(bus) : bus'[i] \in Node
    BY <1>1, <1>2, <2>1, <2>2
  <2>4. bus' \in [1..Len(bus) -> Node]
    BY <1>1, <1>2, <2>3
  <2> QED
    BY <2>1, <2>4
<1>4. \A i \in 1..Len(bus) :
        /\ bus[i].pid = bus'[i].pid /\ bus'[i].access = bus[i].access
        /\ bus'[i].present => bus[i].present
  BY <1>1, <1>2 DEF Node
<1>5. \A i \in 1..Len(bus) : Openable(bus'[i]) => Openable(bus[i])
  BY <1>4 DEF Openable
<1>6. \A i \in 1..Len(bus) : Matching(bus[i]) <=> Matching(bus[i])'
  BY <1>2, <1>4 DEF Matching
<1> QED
  BY <1>2, <1>3, <1>4, <1>5, <1>6 DEF SearchOK, RightDevice, NoChoice

LEMMA OtherStepsKeepSearch ==
  SearchOK /\ (CloseDevice \/ Killed \/ Restart \/ NodeGone \/ UnitGone) => SearchOK'
<1> SUFFICES ASSUME SearchOK, CloseDevice \/ Killed \/ Restart \/ NodeGone \/ UnitGone
             PROVE  SearchOK'
  OBVIOUS
<1>1. CASE CloseDevice
  BY <1>1 DEF CloseDevice, scan, SearchOK, RightDevice, Matching, Openable
<1>2. CASE Killed
  BY <1>2 DEF Killed, scan, SearchOK, RightDevice, Matching, Openable
<1>3. CASE Restart
  <2> DEFINE n == [unit EXCEPT !.present = TRUE]
  <2>1. unit \in Node
    BY <1>3 DEF Restart, SearchOK
  <2>2. n \in Node
    BY <2>1 DEF Node
  <2> HIDE DEF n
  <2>3. bus' = <<n>> /\ pc' = "start" /\ pos' = pos /\ matches' = matches /\ unit' = Nowhere
        /\ pc = "exit" /\ platform' = platform
    BY <1>3 DEF Restart, n
  <2>4. bus' \in Seq(Node) /\ Len(bus') = 1
    BY <2>2, <2>3
  <2>5. pos = 1 /\ matches = <<>> /\ Len(matches) = 0
    BY <2>3 DEF SearchOK
  <2> QED
    BY <2>3, <2>4, <2>5 DEF SearchOK, RightDevice
<1>4. CASE NodeGone
  BY <1>4, GoneNode
<1>5. CASE UnitGone
  <2>1. unit \in Node
    BY <1>5 DEF UnitGone, SearchOK
  <2>2. unit' \in Node /\ unit'.pid = unit.pid
    BY <1>5, <2>1 DEF UnitGone, Node
  <2> QED
    BY <1>5, <2>2 DEF UnitGone, scan, hold, SearchOK, RightDevice, Matching, Openable
<1> QED
  BY <1>1, <1>2, <1>3, <1>4, <1>5

-----------------------------------------------------------------------------
(* The sessions.                                                           *)

\* The steps of each session, and the MON streams still to be switched off.
StepOK ==
  /\ session \in {"none", "diag", "clocklog", "gps_info", "rawdump"}
  /\ session = "none" => step = "none"
  /\ session \in Logs => step \in {"read", "poll", "test"}
  /\ session = "gps_info" => step \in {"enable", "info", "disable"}
  /\ session = "rawdump" => step = "dump"
  /\ session # "none" => pc = "up"

StreamsOK ==
  /\ MonStreamsRestored
  /\ step = "disable" =>
       /\ left \in {<<"hw", "rf">>, <<"rf">>, <<>>}
       /\ \A s \in streams \cap Mon :
            s \in owed \/ \E k \in 1..Len(left) : left[k] = s

\* How far the clock's readings in a log lie behind it.
Lag(a, b, d) == d < Wrap => Minus32(a, b) = d

ReadingsOK ==
  /\ clock \in 0..(Wrap - 1) /\ now \in 0..(Wrap - 1)
  /\ start \in 0..(Wrap - 1) /\ last_poll \in 0..(Wrap - 1)
  /\ time \in Nat /\ sampled \in Nat /\ polled \in Nat
  /\ polled <= sampled /\ sampled <= time /\ asked \in Nat
  /\ Lag(clock, last_poll, time - polled) /\ Lag(now, last_poll, sampled - polled)
  /\ Lag(clock, start, time) /\ Lag(now, start, sampled)
  /\ Lag(clock, now, time - sampled)

\* The age of the last poll at each step.
PollsOK ==
  LET rest == IF PollTime < Second THEN Second ELSE PollTime
  IN  /\ step = "read" => time - polled <= rest
      /\ step = "poll" => time = sampled /\ time - polled <= rest + ReadTimeout
      /\ step = "test" =>
           \/ time = sampled /\ time - polled <= Second
           \/ polled = sampled /\ time - polled <= PollTime

\* The length so far of a log that will end.
LengthOK ==
  LET length == asked * Second
  IN  session = "clocklog" /\ asked > 0 /\ FitsClock =>
        /\ step = "read" => time <= length + PollTime
        /\ step = "poll" => time <= length + PollTime + ReadTimeout
        /\ step = "test" => time <= length + 2 * PollTime + ReadTimeout

LogOK == session \in Logs => ReadingsOK /\ PollsOK /\ LengthOK

IInv == HoldOK /\ SearchOK /\ StepOK /\ StreamsOK /\ LogOK

-----------------------------------------------------------------------------
(* The hold, the choice and the steps.                                     *)

LEMMA SameHold ==
  ASSUME HoldOK, SearchOK, UNCHANGED tvars
  PROVE  HoldOK' /\ SearchOK'
<1>1. HoldOK'
  BY DEF tvars, scan, hold, HoldOK
<1>2. SearchOK'
  BY DEF tvars, scan, hold, SearchOK, RightDevice, Matching, Openable, NoChoice
<1> QED
  BY <1>1, <1>2

LEMMA QuietSearch == SearchOK /\ Quiet => SearchOK'
  BY DEF Quiet, scan, SearchOK, RightDevice, Matching, Openable, NoChoice

LEMMA StartKeeps ==
  ASSUME HoldOK, SearchOK, NEW s, CanStart(s)
  PROVE  HoldOK' /\ SearchOK'
<1>1. pc = "up" /\ Claim(unit) /\ Quiet
  BY DEF CanStart
<1>2. HoldOK'
  BY <1>1, ClaimKeepsHold DEF Quiet
<1> QED
  BY <1>1, <1>2, QuietSearch

LEMMA EndKeeps ==
  ASSUME HoldOK, SearchOK, Release, Quiet
  PROVE  HoldOK' /\ SearchOK'
  BY ReleaseKeepsHold, QuietSearch DEF Quiet

LEMMA HoldStep ==
  ASSUME HoldOK, SearchOK, [Next]_vars
  PROVE  HoldOK' /\ SearchOK'
<1>1. CASE Lifecycle
  BY <1>1, OpeningKeepsHold, OtherStepsKeepHold, OpeningKeepsSearch, OtherStepsKeepSearch
     DEF Lifecycle
<1>2. CASE LogRead \/ LogPoll \/ NoPoll \/ LogGoesOn
  BY <1>2, SameHold DEF LogRead, LogPoll, NoPoll, LogGoesOn
<1>3. CASE Enable \/ Enabled \/ InfoRead \/ InfoEnds \/ Disable \/ DumpRead \/ DumpEnds
  BY <1>3, SameHold DEF Enable, Enabled, InfoRead, InfoEnds, Disable, DumpRead, DumpEnds
<1>4. CASE LogReadFails \/ LogEnds \/ InfoDone
  BY <1>4, EndKeeps DEF LogReadFails, LogEnds, InfoDone
<1>5. CASE Interrupt
  BY <1>5, OtherStepsKeepHold, OtherStepsKeepSearch DEF Interrupt
<1>6. CASE Unplug
  BY <1>6, OtherStepsKeepHold, OtherStepsKeepSearch DEF Unplug
<1>7. CASE StartInfo \/ StartDump \/ \E s \in Logs : StartLog(s)
  BY <1>7, StartKeeps DEF StartInfo, StartDump, StartLog
<1>8. CASE UNCHANGED vars
  BY <1>8, SameHold DEF vars
<1> QED
  BY <1>1, <1>2, <1>3, <1>4, <1>5, <1>6, <1>7, <1>8 DEF Next, Sessions

LEMMA StepStep ==
  ASSUME StepOK, [Next]_vars
  PROVE  StepOK'
<1> USE DEF StepOK, Logs
<1>1. CASE Lifecycle
  BY <1>1 DEF Lifecycle, svars
<1>2. CASE LogRead \/ LogPoll \/ NoPoll \/ LogGoesOn
  BY <1>2 DEF LogRead, LogPoll, NoPoll, LogGoesOn, tvars
<1>3. CASE Enable \/ Enabled \/ InfoRead \/ InfoEnds \/ Disable \/ DumpRead
  BY <1>3 DEF Enable, Enabled, InfoRead, InfoEnds, Disable, DumpRead, tvars
<1>4. CASE LogReadFails \/ LogEnds \/ InfoDone \/ DumpEnds \/ Interrupt
  BY <1>4 DEF LogReadFails, LogEnds, InfoDone, DumpEnds, Interrupt, Return
<1>5. CASE Unplug
  BY <1>5 DEF Unplug, UnitGone
<1>6. CASE StartInfo \/ StartDump \/ \E s \in Logs : StartLog(s)
  BY <1>6 DEF StartInfo, StartDump, StartLog, CanStart, Quiet
<1>7. CASE UNCHANGED vars
  BY <1>7 DEF vars, tvars, svars
<1> QED
  BY <1>1, <1>2, <1>3, <1>4, <1>5, <1>6, <1>7 DEF Next, Sessions

-----------------------------------------------------------------------------
(* The MON streams.                                                        *)

LEMMA DisableStep ==
  ASSUME StepOK, StreamsOK, Disable
  PROVE  StreamsOK'
<1>1. /\ step = "disable" /\ left \in {<<"hw", "rf">>, <<"rf">>} /\ step' = step
      /\ session' = session /\ session = "gps_info"
  BY DEF Disable, StreamsOK, StepOK, Logs
<1>2. MonStreamsRestored'
  BY <1>1 DEF MonStreamsRestored
<1>3. CASE left = <<"hw", "rf">>
  <2>1. Head(left) = "hw" /\ left' = <<"rf">> /\ left'[1] = "rf" /\ Len(left') = 1
    BY <1>3 DEF Disable
  <2>2. \A s \in streams \cap Mon : s \in owed \/ s \in {"hw", "rf"}
    BY DEF Mon
  <2>3. \A s \in streams' \cap Mon : s \in owed' \/ s = "rf"
    BY <2>1, <2>2 DEF Disable
  <2> QED
    BY <1>1, <1>2, <2>1, <2>3 DEF StreamsOK
<1>4. CASE left = <<"rf">>
  <2>1. Head(left) = "rf" /\ left' = <<>> /\ left[1] = "rf" /\ Len(left) = 1
    BY <1>4 DEF Disable
  <2>2. \A s \in streams \cap Mon : s \in owed \/ s = "rf"
    BY <1>1, <2>1 DEF StreamsOK
  <2>3. \A s \in streams' \cap Mon : s \in owed'
    BY <2>1, <2>2 DEF Disable
  <2> QED
    BY <1>1, <1>2, <2>1, <2>3 DEF StreamsOK
<1> QED
  BY <1>1, <1>3, <1>4

LEMMA StreamsStep ==
  ASSUME StepOK, StreamsOK, [Next]_vars
  PROVE  StreamsOK'
<1> USE DEF MonStreamsRestored
<1>1. CASE Lifecycle
  BY <1>1 DEF Lifecycle, svars, info, StreamsOK
<1>2. CASE LogRead \/ LogPoll \/ NoPoll \/ LogGoesOn
  BY <1>2 DEF LogRead, LogPoll, NoPoll, LogGoesOn, info, StreamsOK
<1>3. CASE LogReadFails \/ LogEnds \/ DumpEnds
  BY <1>3 DEF LogReadFails, LogEnds, DumpEnds, Return, StreamsOK, StepOK, Logs
<1>4. CASE InfoDone
  <2>1. step = "disable" /\ left = <<>> /\ Len(left) = 0 /\ UNCHANGED <<streams, owed>>
        /\ step' = "none"
    BY <1>4 DEF InfoDone, Return
  <2>2. streams \cap Mon \subseteq owed
    BY <2>1 DEF StreamsOK
  <2> QED
    BY <2>1, <2>2 DEF StreamsOK
<1>5. CASE Enable \/ Enabled \/ InfoRead
  BY <1>5 DEF Enable, Enabled, InfoRead, StreamsOK, StepOK, Logs
<1>6. CASE InfoEnds
  <2>1. left' = <<"hw", "rf">> /\ Len(left') = 2 /\ left'[1] = "hw" /\ left'[2] = "rf"
        /\ UNCHANGED <<session, streams, owed>> /\ session = "gps_info"
    BY <1>6 DEF InfoEnds, StepOK, Logs
  <2>2. \A s \in streams' \cap Mon : \E k \in 1..Len(left') : left'[k] = s
    BY <2>1 DEF Mon
  <2> QED
    BY <2>1, <2>2 DEF StreamsOK
<1>7. CASE Disable
  BY <1>7, DisableStep
<1>8. CASE DumpRead
  BY <1>8 DEF DumpRead, StreamsOK
<1>9. CASE Interrupt
  BY <1>9 DEF Interrupt, Return, StreamsOK
<1>10. CASE Unplug
  BY <1>10 DEF Unplug, info, StreamsOK
<1>11. CASE StartInfo \/ StartDump \/ \E s \in Logs : StartLog(s)
  BY <1>11 DEF StartInfo, StartDump, StartLog, CanStart, StreamsOK, Logs
<1>12. CASE UNCHANGED vars
  BY <1>12 DEF vars, svars, info, StreamsOK
<1> QED
  BY <1>1, <1>2, <1>3, <1>4, <1>5, <1>6, <1>7, <1>8, <1>9, <1>10, <1>11, <1>12
     DEF Next, Sessions

-----------------------------------------------------------------------------
(* The clock of a log.                                                     *)

\* Time that passes shows in the difference of two readings, across the wrap.
LEMMA Later ==
  ASSUME NEW a \in 0..(Wrap - 1), NEW b \in 0..(Wrap - 1), NEW e \in Nat, NEW d \in Nat,
         d < Wrap, Lag(a, b, e)
  PROVE  Plus32(a, d) \in 0..(Wrap - 1) /\ Lag(Plus32(a, d), b, e + d)
<1>1. Wrap \in Nat
  BY SessionsAssumption
<1>2. Plus32(a, d) \in 0..(Wrap - 1)
  BY <1>1 DEF Plus32
<1>3. ASSUME e + d < Wrap PROVE Minus32(Plus32(a, d), b) = e + d
  <2>1. Minus32(a, b) = e
    BY <1>1, <1>3 DEF Lag
  <2> QED
    BY <1>1, <1>3, <2>1 DEF Minus32, Plus32
<1> QED
  BY <1>2, <1>3 DEF Lag

LEMMA NoTime ==
  ASSUME NEW a \in 0..(Wrap - 1)
  PROVE  Lag(a, a, 0)
  BY SessionsAssumption DEF Lag, Minus32

\* The numbers the log's rules are made of.
LEMMA Numbers ==
  /\ Wrap \in Nat /\ Second \in Nat /\ PollTime \in Nat /\ ReadTimeout \in Nat
  /\ Second + PollTime + ReadTimeout < Wrap
  BY SessionsAssumption

LEMMA Product ==
  ASSUME NEW n \in Nat
  PROVE  n * Second \in Nat
<1>1. Second \in Nat
  BY Numbers
<1> QED
  BY <1>1

LEMMA StartsOK ==
  ASSUME NEW s \in Logs, StartLog(s)
  PROVE  LogOK'
<1>1. /\ clock' \in 0..(Wrap - 1) /\ last_poll' = clock' /\ start' = clock' /\ now' = clock'
      /\ time' = 0 /\ sampled' = 0 /\ polled' = 0 /\ step' = "read"
  BY SessionsAssumption DEF StartLog
<1>2. asked' \in Nat
  BY SessionsAssumption DEF StartLog
<1>3. ReadingsOK'
  BY <1>1, <1>2, NoTime DEF ReadingsOK
<1>4. PollsOK'
  BY <1>1, Numbers DEF PollsOK
<1>5. LengthOK'
  <2>1. asked' * Second \in Nat
    BY <1>2, Product, Zenon
  <2> QED
    BY <1>1, <2>1, Numbers DEF LengthOK
<1> QED
  BY <1>3, <1>4, <1>5 DEF LogOK

LEMMA ReadOK ==
  ASSUME LogOK, LogRead
  PROVE  LogOK'
<1>1. session \in Logs /\ ReadingsOK /\ PollsOK /\ LengthOK /\ step = "read" /\ step' = "poll"
  BY DEF LogRead, LogOK
<1>2. PICK d \in 0..ReadTimeout : time' = time + d /\ clock' = Plus32(clock, d)
  BY DEF LogRead
<1>3. /\ now' = clock' /\ sampled' = time'
      /\ UNCHANGED <<session, last_poll, start, asked, polled>>
  BY <1>2 DEF LogRead
<1>4. d \in Nat /\ d <= ReadTimeout /\ d < Wrap
  BY <1>2, Numbers
<1>5. /\ clock' \in 0..(Wrap - 1)
      /\ Lag(clock', last_poll, (time - polled) + d) /\ Lag(clock', start, time + d)
  <2>1. time - polled \in Nat /\ time \in Nat
    BY <1>1 DEF ReadingsOK
  <2> QED
    BY <1>1, <1>2, <1>4, <2>1, Later DEF ReadingsOK
<1>6. time' \in Nat /\ time' - polled = (time - polled) + d /\ time <= time'
  BY <1>1, <1>2, <1>4 DEF ReadingsOK
<1>7. ReadingsOK'
  <2>1. /\ Lag(clock', last_poll, time' - polled) /\ Lag(clock', start, time')
        /\ Lag(clock', clock', 0) /\ time' - time' = 0
    BY <1>2, <1>5, <1>6, NoTime
  <2>2. time' - sampled' = 0 /\ sampled' - polled' = time' - polled /\ time' - polled' = time' - polled
    BY <1>3, <2>1
  <2>3. Lag(clock, now, time - sampled)'
    BY <1>3, <2>1, <2>2, Zenon
  <2>4. Lag(clock, last_poll, time - polled)' /\ Lag(now, last_poll, sampled - polled)'
    BY <1>3, <2>1, <2>2, Zenon
  <2>5. Lag(clock, start, time)' /\ Lag(now, start, sampled)'
    BY <1>3, <2>1, Zenon
  <2>6. /\ (clock \in 0..(Wrap - 1))' /\ (now \in 0..(Wrap - 1))'
        /\ (start \in 0..(Wrap - 1))' /\ (last_poll \in 0..(Wrap - 1))'
        /\ (time \in Nat)' /\ (sampled \in Nat)' /\ (polled \in Nat)' /\ (asked \in Nat)'
        /\ (polled <= sampled)' /\ (sampled <= time)'
    BY <1>1, <1>3, <1>5, <1>6 DEF ReadingsOK
  <2> QED
    BY <2>3, <2>4, <2>5, <2>6, Zenon DEF ReadingsOK
<1>8. PollsOK'
  <2> DEFINE rest == IF PollTime < Second THEN Second ELSE PollTime
             age == time - polled
  <2>1. rest \in Nat /\ age \in Nat
    BY <1>1, Numbers DEF ReadingsOK
  <2>2. age <= rest
    BY <1>1 DEF PollsOK
  <2>3. time' - polled' = age + d
    BY <1>3, <1>6
  <2> HIDE DEF rest, age
  <2>4. time' - polled' <= rest + ReadTimeout
    BY <1>4, <2>1, <2>2, <2>3, Numbers
  <2> QED
    BY <1>1, <1>3, <2>4 DEF PollsOK, rest
<1>9. LengthOK'
  <2>1. asked * Second \in Nat /\ time \in Nat
    BY <1>1, Numbers DEF ReadingsOK
  <2> QED
    BY <1>1, <1>2, <1>3, <1>4, <2>1, Numbers DEF LengthOK, FitsClock
<1> QED
  BY <1>7, <1>8, <1>9 DEF LogOK

LEMMA PollOK ==
  ASSUME LogOK, LogPoll
  PROVE  LogOK'
<1>1. session \in Logs /\ ReadingsOK /\ PollsOK /\ LengthOK /\ step = "poll" /\ step' = "test"
  BY DEF LogPoll, LogOK
<1>2. PICK d \in 0..PollTime : time' = time + d /\ clock' = Plus32(clock, d)
  BY DEF LogPoll
<1>3. /\ last_poll' = now /\ polled' = sampled /\ time = sampled
      /\ UNCHANGED <<session, now, start, asked, sampled>>
  BY <1>1, <1>2 DEF LogPoll, PollsOK
<1>4. d \in Nat /\ d <= PollTime /\ d < Wrap
  BY <1>2, Numbers
<1>5. /\ clock' \in 0..(Wrap - 1)
      /\ Lag(clock', now, d) /\ Lag(clock', start, time + d)
  <2>1. time \in Nat /\ time - sampled = 0 /\ 0 + d = d
    BY <1>1, <1>3, <1>4 DEF ReadingsOK
  <2>2. Lag(clock, now, 0) /\ Lag(clock, start, time)
    BY <1>1, <2>1 DEF ReadingsOK
  <2>3. Lag(Plus32(clock, d), now, 0 + d) /\ Lag(Plus32(clock, d), start, time + d)
        /\ Plus32(clock, d) \in 0..(Wrap - 1)
    BY <1>1, <1>4, <2>1, <2>2, Later DEF ReadingsOK
  <2> QED
    BY <1>2, <2>1, <2>3
<1>6. time' \in Nat /\ time' - sampled = d /\ time <= time' /\ sampled - sampled = 0
  BY <1>1, <1>2, <1>3, <1>4 DEF ReadingsOK
<1>7. ReadingsOK'
  <2>1. /\ Lag(clock', now, time' - sampled) /\ Lag(clock', start, time')
        /\ Lag(now, now, sampled - sampled) /\ Lag(now, start, sampled)
    BY <1>1, <1>2, <1>5, <1>6, NoTime DEF ReadingsOK
  <2> QED
    BY <1>1, <1>3, <1>5, <1>6, <2>1 DEF ReadingsOK
<1>8. PollsOK'
  BY <1>1, <1>3, <1>4, <1>6, Numbers DEF PollsOK, ReadingsOK
<1>9. LengthOK'
  <2>1. asked * Second \in Nat /\ time \in Nat
    BY <1>1, Numbers DEF ReadingsOK
  <2> QED
    BY <1>1, <1>2, <1>3, <1>4, <2>1, Numbers DEF LengthOK, FitsClock
<1> QED
  BY <1>7, <1>8, <1>9 DEF LogOK

\* The test for a poll sees the age of the last one.
LEMMA NoPollOK ==
  ASSUME LogOK, NoPoll
  PROVE  LogOK'
<1>1. session \in Logs /\ ReadingsOK /\ PollsOK /\ LengthOK /\ step = "poll" /\ step' = "test"
  BY DEF NoPoll, LogOK
<1>2. UNCHANGED <<session, clock, last_poll, start, now, asked, time, sampled, polled>>
  BY DEF NoPoll, loop
<1>3. ReadingsOK'
  BY <1>1, <1>2 DEF ReadingsOK, Lag, Minus32
<1>4. time = sampled /\ time - polled <= Second
  <2>1. time = sampled /\ sampled - polled < Wrap
    BY <1>1, Numbers DEF PollsOK, ReadingsOK
  <2>2. Minus32(now, last_poll) = sampled - polled
    BY <1>1, <2>1 DEF ReadingsOK, Lag
  <2>3. ~ (Minus32(now, last_poll) > Second)
    BY DEF NoPoll, PollDue
  <2>4. sampled - polled \in Int /\ Second \in Int
    BY <1>1, Numbers DEF ReadingsOK
  <2> QED
    BY <2>1, <2>2, <2>3, <2>4
<1>5. PollsOK'
  BY <1>1, <1>2, <1>4, Numbers DEF PollsOK
<1>6. LengthOK'
  <2>1. asked * Second \in Nat /\ time \in Nat
    BY <1>1, Numbers DEF ReadingsOK
  <2> QED
    BY <1>1, <1>2, <2>1, Numbers DEF LengthOK, FitsClock
<1> QED
  BY <1>3, <1>5, <1>6 DEF LogOK

\* The test for the end sees the time since the start.
LEMMA EndTest ==
  ASSUME ReadingsOK, PollsOK, LengthOK, step = "test",
         session = "clocklog", asked > 0, FitsClock
  PROVE  /\ TimeUp <=> sampled >= asked * Second
         /\ time <= sampled + PollTime
<1> DEFINE length == asked * Second
<1>1. length \in Nat /\ time \in Nat /\ sampled \in Nat /\ sampled <= time
  BY Numbers DEF ReadingsOK
<1>2. time <= length + 2 * PollTime + ReadTimeout
  BY DEF LengthOK
<1>3. length + 2 * PollTime + ReadTimeout < Wrap
  BY DEF FitsClock
<1> HIDE DEF length
<1>4. sampled < Wrap /\ length < Wrap
  BY <1>1, <1>2, <1>3, Numbers
<1>5. Minus32(now, start) = sampled
  BY <1>4 DEF ReadingsOK, Lag
<1>6. length % Wrap = length
  BY <1>1, <1>4, Numbers
<1>7. TimeUp <=> sampled >= length
  BY <1>5, <1>6 DEF TimeUp, length
<1>8. time <= sampled + PollTime
  BY Numbers DEF PollsOK, ReadingsOK
<1> QED
  BY <1>7, <1>8 DEF length

LEMMA GoesOnOK ==
  ASSUME LogOK, LogGoesOn
  PROVE  LogOK'
<1>1. /\ session \in Logs /\ ReadingsOK /\ PollsOK /\ LengthOK
      /\ step = "test" /\ step' = "read" /\ ~ TimeUp
  BY DEF LogGoesOn, LogOK
<1>2. UNCHANGED <<session, clock, last_poll, start, now, asked, time, sampled, polled>>
  BY DEF LogGoesOn, loop
<1>3. ReadingsOK'
  BY <1>1, <1>2 DEF ReadingsOK, Lag, Minus32
<1>4. PollsOK'
  BY <1>1, <1>2, Numbers DEF PollsOK, ReadingsOK
<1>5. LengthOK'
  <2> SUFFICES ASSUME session = "clocklog", asked > 0, FitsClock
               PROVE  time <= asked * Second + PollTime
    BY <1>1, <1>2 DEF LengthOK, FitsClock
  <2>1. ~ (sampled >= asked * Second) /\ time <= sampled + PollTime
    BY <1>1, EndTest
  <2>2. asked * Second \in Nat /\ sampled \in Nat /\ time \in Nat
    BY <1>1, Numbers DEF ReadingsOK
  <2> QED
    BY <2>1, <2>2, Numbers
<1> QED
  BY <1>3, <1>4, <1>5 DEF LogOK

LEMMA LogStep ==
  ASSUME StepOK, LogOK, [Next]_vars
  PROVE  LogOK'
<1>1. ASSUME UNCHANGED <<session, step, loop>> PROVE LogOK'
  BY <1>1 DEF loop, LogOK, ReadingsOK, PollsOK, LengthOK, FitsClock, Lag, Minus32
<1>2. ASSUME session' \notin Logs PROVE LogOK'
  BY <1>2 DEF LogOK
<1>3. CASE Lifecycle \/ UNCHANGED vars
  BY <1>1, <1>3 DEF Lifecycle, vars, svars
<1>4. CASE LogRead \/ LogPoll \/ NoPoll \/ LogGoesOn
  BY <1>4, ReadOK, PollOK, NoPollOK, GoesOnOK
<1>5. CASE LogReadFails \/ LogEnds \/ InfoDone \/ DumpEnds \/ Interrupt
  BY <1>2, <1>5 DEF LogReadFails, LogEnds, InfoDone, DumpEnds, Interrupt, Return, Logs
<1>6. CASE Enable \/ Enabled \/ InfoRead \/ InfoEnds \/ Disable \/ DumpRead
  <2>1. session' = session /\ session \notin Logs
    BY <1>6 DEF Enable, Enabled, InfoRead, InfoEnds, Disable, DumpRead, StepOK, Logs
  <2> QED
    BY <1>2, <2>1
<1>7. CASE Unplug
  BY <1>1, <1>7 DEF Unplug
<1>8. CASE StartInfo \/ StartDump
  BY <1>2, <1>8 DEF StartInfo, StartDump, CanStart, Logs
<1>9. CASE \E s \in Logs : StartLog(s)
  BY <1>9, StartsOK
<1> QED
  BY <1>3, <1>4, <1>5, <1>6, <1>7, <1>8, <1>9 DEF Next, Sessions

-----------------------------------------------------------------------------
(* The theorems.                                                           *)

LEMMA InitIInv == Init => IInv
<1> SUFFICES ASSUME Init PROVE IInv
  OBVIOUS
<1>1. HoldOK /\ SearchOK
  BY HoldInit, SearchInit DEF Init
<1>2. session = "none" /\ step = "none" /\ streams = {}
  BY DEF Init, NoSession
<1>3. StepOK /\ StreamsOK /\ LogOK
  BY <1>2 DEF StepOK, StreamsOK, LogOK, MonStreamsRestored, Logs
<1> QED
  BY <1>1, <1>3 DEF IInv

LEMMA NextIInv == IInv /\ [Next]_vars => IInv'
  BY HoldStep, StepStep, StreamsStep, LogStep DEF IInv

LEMMA Inductive == Spec => []IInv
  BY InitIInv, NextIInv, PTL DEF Spec

\* Whatever fails on the way, nothing stays open, claimed or referenced when a
\* process has ended, and one handle is held while it runs
\* (lbe_transport_open, _claim, _release, _close on both platforms).
THEOREM NoLeak == Spec => []NothingLeaks
<1>1. IInv => NothingLeaks
  BY HoldNeverLeaks DEF IInv
<1> QED
  BY <1>1, Inductive, PTL

\* The device opened is the one asked for, however many match and whatever is
\* unplugged during the search (lbe_transport_open on both platforms).
THEOREM RightChoice == Spec => []RightDevice
<1>1. IInv => RightDevice
  BY DEF IInv, SearchOK
<1> QED
  BY <1>1, Inductive, PTL

\* --gps-info leaves no MON stream on but one whose request to stop failed or
\* that an interrupt left on (lbe_shared_gps_info).
THEOREM StreamsRestored == Spec => []MonStreamsRestored
<1>1. IInv => MonStreamsRestored
  BY DEF IInv, StreamsOK
<1> QED
  BY <1>1, Inductive, PTL

\* A log that waits for the device has polled within the last second, across the
\* wrap of the clock (lbe_shared_diag, lbe_shared_clocklog).
THEOREM PollsInTime == Spec => []PolledOften
<1>1. IInv => PolledOften
  BY DEF IInv, LogOK, PollsOK, PolledOften
<1> QED
  BY <1>1, Inductive, PTL

\* A log of a given length neither ends early nor runs on, wherever the clock
\* stands, as long as the length fits it (lbe_shared_clocklog).
THEOREM LengthKept == Spec => LogLength
<1> DEFINE Runs == session = "clocklog" /\ asked > 0 /\ FitsClock
                     => time <= asked * Second + 2 * PollTime + ReadTimeout
<1>1. IInv => Runs
  <2> SUFFICES ASSUME IInv, session = "clocklog", asked > 0, FitsClock
               PROVE  time <= asked * Second + 2 * PollTime + ReadTimeout
    OBVIOUS
  <2>1. ReadingsOK /\ LengthOK /\ step \in {"read", "poll", "test"}
    BY DEF IInv, LogOK, StepOK, Logs
  <2>2. asked * Second \in Nat /\ time \in Nat
    BY <2>1, Numbers DEF ReadingsOK
  <2> QED
    BY <2>1, <2>2, Numbers DEF LengthOK
<1>2. IInv /\ LogEnds /\ FitsClock => sampled >= asked * Second
  <2> SUFFICES ASSUME IInv, LogEnds, FitsClock PROVE sampled >= asked * Second
    OBVIOUS
  <2>1. session = "clocklog" /\ asked > 0 /\ TimeUp /\ step = "test" /\ session \in Logs
    BY DEF LogEnds, TimeUp
  <2>2. ReadingsOK /\ PollsOK /\ LengthOK
    BY <2>1 DEF IInv, LogOK
  <2> QED
    BY <2>1, <2>2, EndTest
<1>3. IInv /\ [Next]_vars => IInv'
  BY NextIInv
<1> QED
  BY <1>1, <1>2, <1>3, Inductive, PTL DEF LogLength, Spec
=============================================================================
