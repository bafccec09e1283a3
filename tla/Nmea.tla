-------------------------------- MODULE Nmea --------------------------------
(***************************************************************************)
(* The NMEA accumulator behind the 1420/1421/1423/1425 monitor:            *)
(* nmea_feed() and its four handlers, fed by a receiver that sends its     *)
(* sentences in cycles of a second.                                        *)
(*                                                                         *)
(* A sky gives each talker its list: a sequence of GSV sentences, each a   *)
(* sequence of satellites (up to four in the code).  From one cycle to the *)
(* next a satellite may move to another sentence.  The entries of the host *)
(* carry where they come from: sentence num of a list, sent in a cycle.    *)
(***************************************************************************)
EXTENDS Integers, Sequences, SequencesExt

CONSTANTS
  TalkerOrder,  \* the talkers whose GSV sequences a cycle holds, in order
  GnssId,       \* talker_to_gnss_id, as a function
  Skies,        \* the lists per talker considered
  MaxWork,      \* capacity of nmea_state.work: 64 satellites
  MaxCycle      \* bound: cycles simulated

Talkers == { TalkerOrder[i] : i \in DOMAIN TalkerOrder }
Ids == { GnssId[t] : t \in Talkers }
GPS == 0

\* A list has a sentence, be it empty, and names a satellite once.
IsList(l) ==
  /\ l \in Seq(Seq(Nat)) /\ Len(l) > 0
  /\ \A n, m \in DOMAIN l : \A i \in DOMAIN l[n], j \in DOMAIN l[m] :
       l[n][i] = l[m][j] => n = m /\ i = j

ASSUME NmeaAssumption ==
  /\ TalkerOrder \in Seq(Talkers)
  /\ GnssId \in [Talkers -> 0..7]
  /\ \A y \in Skies : DOMAIN y = Talkers /\ \A t \in Talkers : IsList(y[t])
  /\ MaxWork \in Nat /\ MaxCycle \in Nat

VARIABLES
  cycle, sky, fix, used,   \* the receiver: its cycle, what it sees and uses
  at,                      \*   the next sentence of the cycle
  work, expect,            \* nmea_state
  sv,                      \* gnss_svinfo: the entries shown
  pvt,                     \* gnss_pvt: fix, time_valid
  gsa,                     \* the satellites the last GSA received named,
  lost,                    \*   whether a sentence was lost, and
  full                     \*   whether one did not fit (ghosts)

receiver == <<cycle, sky, fix, used>>
host == <<work, expect, sv, pvt, gsa, full>>
vars == <<cycle, sky, fix, used, at, work, expect, sv, pvt, gsa, lost, full>>

\* The sentences of a cycle in the order u-blox receivers send them.
\* A talker that sees nothing still announces one sentence without satellites.
GsvOf(t) ==
  [n \in 1..Len(sky[t]) |-> [type |-> "GSV", talker |-> t, num |-> n,
                             total |-> Len(sky[t]), sats |-> sky[t][n]]]
Sentences ==
  <<[type |-> "RMC"], [type |-> "GGA"], [type |-> "GSA"]>>
    \o FlattenSeq([i \in DOMAIN TalkerOrder |-> GsvOf(TalkerOrder[i])])

InView(y, t) == UNION { Range(y[t][n]) : n \in DOMAIN y[t] }

NewSky == /\ sky' \in Skies
          /\ fix' \in BOOLEAN
          /\ used' \in { {}, UNION { InView(sky', t) : t \in { u \in Talkers : GnssId[u] = GPS } } }

\* The monitor is started anywhere in a cycle; nmea_state_init.
Init ==
  /\ cycle = 0
  /\ sky \in Skies /\ fix \in BOOLEAN /\ used = {}
  /\ at \in 1..Len(Sentences)
  /\ work = <<>> /\ expect = [g \in Ids |-> 0]
  /\ sv = <<>>
  /\ pvt = [fix |-> FALSE, time_valid |-> FALSE]
  /\ gsa = {} /\ lost = FALSE /\ full = FALSE

\* handle_rmc: only status A is accepted, and brings date and time.
HandleRmc ==
  /\ pvt' = IF fix THEN [pvt EXCEPT !.time_valid = TRUE]
                   ELSE pvt
  /\ UNCHANGED <<work, expect, sv, gsa, full>>

\* handle_gga: fix quality, time of day and time_valid, but no date.
HandleGga ==
  /\ pvt' = [pvt EXCEPT !.fix = fix, !.time_valid = fix]
  /\ UNCHANGED <<work, expect, sv, gsa, full>>

\* handle_gsa: the marks of the entries shown are set anew.
HandleGsa ==
  /\ sv' = [i \in DOMAIN sv |->
              [sv[i] EXCEPT !.used = sv[i].gnss = GPS /\ sv[i].svid \in used]]
  /\ gsa' = used
  /\ UNCHANGED <<work, expect, pvt, full>>

\* Mutant: the old entries of the constellation stay.
Unpurged(g) == work

\* handle_gsv.  A first sentence empties its constellation's part of the
\* working buffer; one out of order is refused until the next first one; the
\* last one publishes the whole buffer, the entries of all talkers.
Purged(g) ==
  LET out[r \in 0..Len(work)] ==
        IF r = 0 THEN <<>>
        ELSE IF work[r].gnss # g THEN Append(out[r - 1], work[r]) ELSE out[r - 1]
  IN out[Len(work)]

\* Mutants: no capacity test, or one of the sentence as a whole.
ExtendedAlways(w, more) == w \o more
ExtendedWhole(w, more) == IF Len(w \o more) <= MaxWork THEN w \o more ELSE w

\* As many of the satellites as there is room for.
Extended(w, more) ==
  IF Len(w \o more) <= MaxWork THEN w \o more ELSE SubSeq(w \o more, 1, MaxWork)

\* Mutants: published with the first sentence, or only when it is a single one.
CommittedEarly(s, w) == IF s.num = 1 THEN w ELSE sv
CommittedRarely(s, w) == IF s.total = 1 THEN w ELSE sv

Committed(s, w) == IF s.num = s.total THEN w ELSE sv

EntriesOf(s) ==
  [i \in DOMAIN s.sats |->
     [gnss |-> GnssId[s.talker], svid |-> s.sats[i], used |-> FALSE,
      num |-> s.num, list |-> sky[s.talker], cycle |-> cycle]]

HandleGsv(s) ==
  LET g == GnssId[s.talker]
      kept == IF s.num = 1 THEN Purged(g) ELSE work
      expected == IF s.num = 1 THEN 1 ELSE expect[g]
      filled == Extended(kept, EntriesOf(s))
  IN /\ IF s.num # expected
          THEN /\ expect' = [expect EXCEPT ![g] = 0]
               /\ work' = kept
               /\ UNCHANGED <<sv, full>>
          ELSE /\ expect' = [expect EXCEPT ![g] = s.num + 1]
               /\ work' = filled
               /\ sv' = Committed(s, filled)
               /\ full' = (full \/ filled # kept \o EntriesOf(s))
     /\ UNCHANGED <<pvt, gsa>>

\* nmea_feed: one line with a good checksum is dispatched on its type.
Feed ==
  /\ at <= Len(Sentences)
  /\ at' = at + 1
  /\ LET s == Sentences[at] IN
       \/ s.type = "RMC" /\ HandleRmc
       \/ s.type = "GGA" /\ HandleGga
       \/ s.type = "GSA" /\ HandleGsa
       \/ s.type = "GSV" /\ HandleGsv(s)
  /\ UNCHANGED <<receiver, lost>>

\* A line is lost, or its checksum does not match: nothing changes.
Lose ==
  /\ at <= Len(Sentences)
  /\ at' = at + 1
  /\ lost' = TRUE
  /\ UNCHANGED <<receiver, host>>

NextCycle ==
  /\ at > Len(Sentences)
  /\ cycle < MaxCycle
  /\ cycle' = cycle + 1
  /\ NewSky
  /\ at' = 1
  /\ UNCHANGED <<host, lost>>

Next == Feed \/ Lose \/ NextCycle

Spec == Init /\ [][Next]_vars

-----------------------------------------------------------------------------

Entry == [gnss : Ids, svid : Nat, used : BOOLEAN,
          num : Nat \ {0}, list : Seq(Seq(Nat)), cycle : 0..MaxCycle]

TypeOK ==
  /\ cycle \in 0..MaxCycle /\ sky \in Skies /\ fix \in BOOLEAN /\ used \subseteq Nat
  /\ at \in 1..(Len(Sentences) + 1)
  /\ work \in Seq(Entry) /\ Len(work) <= MaxWork
  /\ expect \in [Ids -> Nat]
  /\ sv \in Seq(Entry) /\ Len(sv) <= MaxWork
  /\ pvt \in [fix : BOOLEAN, time_valid : BOOLEAN]
  /\ gsa \subseteq Nat /\ lost \in BOOLEAN /\ full \in BOOLEAN

Shown == { sv[i] : i \in DOMAIN sv }

\* The satellites of sentence n of the list of e are shown.
SentenceShown(e, n) ==
  \A i \in DOMAIN e.list[n] : \E f \in Shown :
    f.gnss = e.gnss /\ f.cycle = e.cycle /\ f.num = n /\ f.svid = e.list[n][i]

\* While no sentence was lost each constellation shown is the list of one cycle,
\* although all talkers publish through one buffer (handle_gsv): nothing is shown of
\* a sentence without all of those before it, and nothing is missing unless the
\* buffer was full, which leaves out just the end of a list (nmea.c:182).
ViewWhole == ~ lost =>
  \A e \in Shown :
    /\ \A n \in 1..(e.num - 1) : SentenceShown(e, n)
    /\ ~ full => \A n \in DOMAIN e.list : SentenceShown(e, n)
    /\ \A f \in Shown : f.gnss = e.gnss => f.cycle = e.cycle

\* While no sentence was lost nothing shown is older than the previous cycle
\* (handle_gsv, purge_gnss), also where the buffer was full.
ViewFresh == ~ lost => \A e \in Shown : e.cycle >= cycle - 1

SameSat(i, j) == sv[i].gnss = sv[j].gnss /\ sv[i].svid = sv[j].svid

\* Whatever sentences are lost, a satellite is listed twice only if it moved to
\* another sentence of a changed list: no sentence is taken twice, in one cycle or
\* in two, nor beside its old self (purge_gnss and the expect_msg discipline of
\* handle_gsv).
TwiceOnlyIfMoved ==
  \A i, j \in DOMAIN sv : i # j /\ SameSat(i, j) =>
    sv[i].num # sv[j].num /\ sv[i].list # sv[j].list

\* "out of order; reset and wait for next msg 1" (nmea.c:172): a sequence that was
\* interrupted is never gone on with, so that no satellite is listed twice.
ListedOnce == \A i, j \in DOMAIN sv : i # j => ~ SameSat(i, j)

\* "used: 1 if used in nav solution" (gnss_view.h:29): a satellite shown is
\* marked exactly when the last GSA sentence named it.
UsedMarksKept ==
  \A e \in Shown : e.used = (e.gnss = GPS /\ e.svid \in gsa)
=============================================================================
