----------------------------- MODULE MiniFrames -----------------------------
(***************************************************************************)
(* The interrupt-IN frames of the LBE-Mini and the three loops that read   *)
(* them: mini_monitor(), mini_sample_nav() for --status, and               *)
(* mini_gps_info().  A frame carries status bits, and either part of a UBX *)
(* message or padding.  UbxReassembly models the scan byte by byte; here a *)
(* message is a run of parts of a frame each, and the scan is its result.  *)
(***************************************************************************)
EXTENDS Integers, Sequences, FiniteSets, SequencesExt

CONSTANTS
  Messages,    \* the messages the receiver may send, each once
  Parts,       \* the number of frames of each
  Solutions,   \* those that are NAV-PVT, and
  Fixes,       \*   those of them with a 2D or 3D fix
  Version,     \* the one that answers --gps-info
  Readers,     \* the loops considered: "monitor", "status", "gps-info"
  Capacity,    \* frames that fit the reassembly buffer
  Reads        \* reads of a bounded loop: 60 for --status, 200 for --gps-info

None == "none"

ASSUME MiniAssumption ==
  /\ None \notin Messages
  /\ Parts \in [Messages -> Nat \ {0}]
  /\ Fixes \subseteq Solutions /\ Solutions \subseteq Messages
  /\ Version \in Messages \ Solutions
  /\ Readers \subseteq {"monitor", "status", "gps-info"}
  /\ Capacity \in Nat \ {0} /\ Reads \in Nat

VARIABLES
  locked, signal,  \* the device: PLL locked, GPS signal present
  sending, part,   \*   the message being sent and its next part, or None, 0
  sent,            \*   messages begun
  whole,           \* messages of which the host has read every frame
  torn,            \* whether a frame of the present message was lost
  reader,          \* the loop that runs, and
  reads,           \*   the reads it has left (the monitor's never end)
  buf,             \* the reassembly buffer, in parts
  delivered,       \* messages that passed the scan
  pll_hw_locked, gps_signal_ok, fix,   \* of mini_sample_nav
  result,          \* None, or what the loop returned: "status", "ok", "timeout"
  status,          \* the struct lbe_status of mini_get_status
  told             \* the lock bit of the last frame read: None, "locked",
                   \*   "unlocked" (for the properties)

device == <<locked, signal>>
source == <<sending, part, sent, whole, torn>>
sample == <<pll_hw_locked, gps_signal_ok, fix>>
host == <<buf, delivered, sample, result, status, told>>
vars == <<device, source, reader, reads, host>>

Padding == [msg |-> None, part |-> 0]
Unknown == -1        \* fix before a NAV-PVT was seen

Init ==
  /\ locked \in BOOLEAN /\ signal \in BOOLEAN
  /\ sending = None /\ part = 0 /\ sent = {} /\ whole = {} /\ torn = FALSE
  /\ reader \in Readers /\ reads = Reads
  /\ buf = <<>> /\ delivered = {}
  /\ pll_hw_locked = TRUE /\ gps_signal_ok = FALSE /\ fix = Unknown
  /\ result = None /\ status = [pll_locked |-> FALSE, gps_lock |-> FALSE]
  /\ told = None

\* Mutant: the checksum is not compared.
AnythingAt(b, i) == TRUE

\* The parts of b from i on are those of one message: the checksum holds.
IntactAt(b, i) ==
  \A k \in 1..Parts[b[i].msg] : b[i + k - 1] = [msg |-> b[i].msg, part |-> k]

\* What the while loop over ubx_next finds in b, in order, and where it stops:
\* at the end or at a header that still lacks parts.  What is neither is
\* skipped.
Found(b) ==
  LET f[i \in 1..(Len(b) + 1)] ==
        IF i > Len(b) THEN [msgs |-> <<>>, stop |-> i]
        ELSE IF b[i].part # 1 THEN f[i + 1]
        ELSE LET last == i + Parts[b[i].msg] - 1 IN
             IF last > Len(b) THEN [msgs |-> <<>>, stop |-> i]
             ELSE IF IntactAt(b, i)
                    THEN [f[last + 1] EXCEPT !.msgs = <<b[i].msg>> \o @]
                    ELSE f[i + 1]
  IN f[1]

FixOf(m) == IF m \in Fixes THEN 3 ELSE 0

\* mini_sample_nav keeps the first solution: the last one of the first frame
\* that completes any.
Consume(p) ==
  LET b == Append(IF Len(buf) + 1 > Capacity THEN <<>> ELSE buf, p)
      found == Found(b)
      pvts == { i \in DOMAIN found.msgs : found.msgs[i] \in Solutions }
  IN /\ delivered' = delivered \cup ToSet(found.msgs)
     /\ buf' = SubSeq(b, found.stop, Len(b))
     /\ fix' = IF reader = "status" /\ fix = Unknown /\ pvts # {}
                 THEN FixOf(found.msgs[Max(pvts)]) ELSE fix

\* Mutant: the keepalive frames are appended too.
SkipsNone(p) == FALSE

\* mini_consume_ubx skips frames without bit 7; mini_gps_info appends all.
Skips(p) == p = Padding /\ reader # "gps-info"

Appended(p) == IF Skips(p) THEN UNCHANGED <<buf, delivered, fix>> ELSE Consume(p)

\* Mutant: the status bits are taken from frames with UBX data only.
SampledData(p) ==
  IF reader = "status" /\ p # Padding
    THEN pll_hw_locked' = locked /\ gps_signal_ok' = signal
    ELSE UNCHANGED <<pll_hw_locked, gps_signal_ok>>

\* mini_sample_nav takes the status bits of every frame.
Sampled(p) ==
  IF reader = "status"
    THEN pll_hw_locked' = locked /\ gps_signal_ok' = signal
    ELSE UNCHANGED <<pll_hw_locked, gps_signal_ok>>

\* A bounded loop has a read left.
Reading == result = None /\ reads > 0

Spend == reads' = IF reader = "monitor" THEN reads ELSE reads - 1

\* A read that returns the frame p.
Receive(p) ==
  /\ Appended(p) /\ Sampled(p) /\ Spend
  /\ told' = IF locked THEN "locked" ELSE "unlocked"
  /\ result' = IF reader = "gps-info" /\ Version \in delivered'
                 THEN "ok" ELSE result
  /\ UNCHANGED <<device, reader, status>>

\* The next frame of the stream is a part of the present or of a new message.
NextPart(m) == IF sending = None THEN m \notin sent ELSE m = sending
Present(m) == [msg |-> m, part |-> IF sending = None THEN 1 ELSE part]
Advance(m) ==
  LET ended == Present(m).part = Parts[m] IN
  /\ sending' = IF ended THEN None ELSE m
  /\ part' = IF ended THEN 0 ELSE Present(m).part + 1
  /\ sent' = sent \cup {m}

DataFrame(m) ==
  /\ Reading /\ NextPart(m)
  /\ Advance(m)
  /\ torn' = (torn /\ sending' # None)
  /\ whole' = IF sending' = None /\ ~ torn THEN whole \cup {m} ELSE whole
  /\ Receive(Present(m))

DataLost(m) ==
  /\ Reading /\ NextPart(m)
  /\ Advance(m)
  /\ torn' = (sending' # None)
  /\ UNCHANGED <<device, whole, reader, reads, host>>

\* A keepalive frame may come between any two others.
Keepalive == Reading /\ Receive(Padding) /\ UNCHANGED source

\* A read of a bounded loop times out.
Timeout ==
  /\ Reading /\ reader # "monitor"
  /\ Spend
  /\ UNCHANGED <<device, source, reader, host>>

\* The loop has used its reads; mini_get_status combines what was sampled.
Finish ==
  /\ result = None /\ reads = 0
  /\ IF reader = "status"
       THEN /\ result' = "status"
            /\ status' = [pll_locked |-> pll_hw_locked,
                          gps_lock |-> gps_signal_ok \/ fix >= 2]
       ELSE result' = "timeout" /\ UNCHANGED status
  /\ UNCHANGED <<device, source, reader, reads, buf, delivered, sample, told>>

DeviceChanges ==
  /\ result = None
  /\ locked' \in BOOLEAN /\ signal' \in BOOLEAN
  /\ UNCHANGED <<source, reader, reads, host>>

\* The command is given again while the stream runs on.
Again ==
  /\ result # None
  /\ result' = None /\ reads' = Reads
  /\ buf' = <<>> /\ delivered' = {} /\ whole' = {} /\ torn' = (sending # None)
  /\ sent' = IF sending = None THEN {} ELSE {sending}
  /\ pll_hw_locked' = TRUE /\ gps_signal_ok' = FALSE /\ fix' = Unknown
  /\ told' = None
  /\ UNCHANGED <<device, sending, part, reader, status>>

Next == \/ \E m \in Messages : DataFrame(m) \/ DataLost(m)
        \/ Keepalive \/ Timeout \/ Finish \/ DeviceChanges \/ Again

Spec == Init /\ [][Next]_vars

-----------------------------------------------------------------------------

\* Types of the variables of mini_consume_ubx and mini_sample_nav
\* (model_mini.c:286-384): the buffer keeps its size, the reads their bound.
TypeOK ==
  /\ locked \in BOOLEAN /\ signal \in BOOLEAN
  /\ sending \in Messages \cup {None} /\ part \in Nat
  /\ sent \subseteq Messages /\ whole \subseteq sent /\ torn \in BOOLEAN
  /\ reader \in Readers /\ reads \in 0..Reads
  /\ buf \in Seq([msg : Messages \cup {None}, part : Nat])
  /\ Len(buf) <= Capacity
  /\ delivered \subseteq Messages
  /\ pll_hw_locked \in BOOLEAN /\ gps_signal_ok \in BOOLEAN
  /\ fix \in {Unknown, 0, 3} /\ told \in {None, "locked", "unlocked"}
  /\ result \in {None, "status", "ok", "timeout"}
  /\ status \in [pll_locked : BOOLEAN, gps_lock : BOOLEAN]

Held(m) == \A k \in 1..Parts[m] :
             \E i \in DOMAIN buf : buf[i] = [msg |-> m, part |-> k]

\* A message whose frames were all read is delivered, or waits complete behind
\* the torso of another one: frames lost before or after it and keepalive
\* frames within it do no harm (model_mini.c:292-298, appending keepalive
\* frames "corrupts messages that span two UBX frames. Skip them entirely").
MessagesSurvive == \A m \in whole : m \in delivered \/ Held(m)

\* "PLL Lock, GPS signal and signal-loss-count come from r[0..1] of the
\* interrupt-IN stream" (model_mini.c:157-158), whose bits "are valid on every
\* frame" (:361): once a frame came, the lock reported is what the last one
\* said, whether it carried data or not and whatever was lost before it.
PllLockSeen ==
  result = "status" /\ told # None => (status.pll_locked <=> told = "locked")

\* A GPS lock is reported only if the last frame had a signal, or if every
\* frame of a solution with a fix was read: no torn one counts, nor one of an
\* earlier call (model_mini.c:159-166, 345-384).
GpsLockSeen ==
  result = "status" /\ status.gps_lock =>
    gps_signal_ok \/ whole \cap Fixes # {}
=============================================================================
