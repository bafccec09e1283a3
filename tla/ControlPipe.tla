---------------------------- MODULE ControlPipe ----------------------------
(***************************************************************************)
(* Feature-report requests over hidraw or libusb: ioctl_retry() and        *)
(* ctrl_transfer_retry() under lbe_transport_feat_set() and _get(), the    *)
(* plausibility retry of m1421_get_status() and m1420_get_status() around  *)
(* them, and the polling loop of --statlog.  The device may be stunned,    *)
(* stall its control pipe, be busy or silent, recover or be unplugged      *)
(* between any two steps.                                                  *)
(***************************************************************************)
EXTENDS Integers

CONSTANTS
  LBE_CTRL_RETRY_MAX,   \* 3: ioctls tried for one report
  StatusReads           \* 2: reports read for one status

Requests == {"status", "set"}

ASSUME PipeAssumption ==
  LBE_CTRL_RETRY_MAX \in Nat \ {0} /\ StatusReads \in Nat \ {0}

VARIABLES
  platform,    \* "linux" or "windows"
  device,      \* "ok"; "stunned": answers with zeros; or an error of its own:
               \* "stalled": EPIPE, or LIBUSB_ERROR_PIPE and _IO;
               \* "busy": EAGAIN, EBUSY, EINTR, or LIBUSB_ERROR_BUSY and
               \* _INTERRUPTED; "silent": a time-out; "gone": unplugged, for good
  pc,          \* "idle", "ioctl", "backoff", "settle", or "poll" (statlog sleeps)
  request,     \* the request in progress, or "none"
  attempt,     \* of ioctl_retry
  read,        \* attempt of get_status
  logging,     \* inside the loop of --statlog
  result,      \* of the last request: "none" while one runs
  frequency,   \* lbe_status.frequency1 as last returned: "none", "zero", "good"
  delivered,   \* whether the device carried out the SET in progress, or the last
  stalls,      \* tries of this report that failed and are retried,
  refused,     \* the error that ended the request at once, or "none",
  zeros,       \* reports of this request that were zeros, and
  waits        \* its sleeps of 20 ms (these four for the properties)

vars == <<platform, device, pc, request, attempt, read, logging, result, frequency,
          delivered, stalls, refused, zeros, waits>>

Init ==
  /\ platform \in {"linux", "windows"}
  /\ device = "ok"
  /\ pc = "idle" /\ request = "none"
  /\ attempt = 0 /\ read = 0
  /\ logging = FALSE
  /\ result = "none" /\ frequency = "none" /\ delivered = FALSE
  /\ stalls = 0 /\ refused = "none" /\ zeros = 0 /\ waits = 0

Begin(r) ==
  /\ pc' = "ioctl" /\ request' = r
  /\ attempt' = 0 /\ read' = 0
  /\ result' = "none" /\ delivered' = FALSE
  /\ stalls' = 0 /\ refused' = "none" /\ zeros' = 0 /\ waits' = 0
  /\ UNCHANGED <<platform, device, frequency>>

\* The next option of the command line: --status, a --set, or --statlog.
CallStatus == pc = "idle" /\ Begin("status") /\ UNCHANGED logging
CallSet == pc = "idle" /\ Begin("set") /\ UNCHANGED logging
CallStatlog == pc = "idle" /\ Begin("status") /\ logging' = TRUE

\* Mutant: --statlog ignores the failure.
FinishPolling(r) ==
  /\ result' = r /\ request' = "none"
  /\ attempt' = 0 /\ read' = 0
  /\ pc' = IF logging THEN "poll" ELSE "idle"
  /\ logging' = logging

\* The request returns to main; a failed status ends --statlog, a good one is
\* printed and the loop sleeps for a second.
Finish(r) ==
  /\ result' = r /\ request' = "none"
  /\ attempt' = 0 /\ read' = 0
  /\ pc' = IF logging /\ r = "ok" THEN "poll" ELSE "idle"
  /\ logging' = (logging /\ r = "ok")

\* ioctl returns >= 0: the SET is done, or a status report was read.
Answer == IF device = "ok" THEN "good" ELSE "zero"

\* Mutant: any report is taken.
PlausibleAlways == TRUE

Plausible == Answer # "zero"

LastRead == read + 1 = StatusReads

SetDone ==
  /\ pc = "ioctl" /\ request = "set"
  /\ device \in {"ok", "stunned"}
  /\ delivered' = TRUE
  /\ Finish("ok")
  /\ UNCHANGED <<platform, device, frequency, stalls, refused, zeros, waits>>

StatusDone ==
  /\ pc = "ioctl" /\ request = "status"
  /\ device \in {"ok", "stunned"} /\ Plausible
  /\ frequency' = Answer
  /\ Finish("ok")
  /\ UNCHANGED <<platform, device, delivered, stalls, refused, zeros, waits>>

StatusZero ==
  /\ pc = "ioctl" /\ request = "status"
  /\ device \in {"ok", "stunned"} /\ ~ Plausible
  /\ zeros' = zeros + 1
  /\ IF LastRead
       THEN Finish("fail") /\ UNCHANGED waits
       ELSE /\ pc' = "settle" /\ waits' = waits + 1
            /\ UNCHANGED <<request, attempt, read, logging, result>>
  /\ UNCHANGED <<platform, device, frequency, delivered, stalls, refused>>

\* Mutant: one try too many.
LastAttemptLate == attempt = LBE_CTRL_RETRY_MAX

LastAttempt == attempt + 1 = LBE_CTRL_RETRY_MAX

\* The errors that are tried again; Windows knows fewer of them.
Retried == IF platform = "linux" THEN {"stalled", "busy"} ELSE {"stalled"}

\* A SET that fails may have reached the device all the same.
MaybeDelivered ==
  \/ UNCHANGED delivered
  \/ request = "set" /\ delivered' = TRUE

\* A transient error: back off and try again, unless this was the last try.
IoctlTransient ==
  /\ pc = "ioctl" /\ device \in Retried
  /\ stalls' = stalls + 1
  /\ MaybeDelivered
  /\ IF LastAttempt
       THEN Finish("fail") /\ UNCHANGED waits
       ELSE /\ pc' = "backoff" /\ waits' = waits + 1
            /\ UNCHANGED <<request, attempt, read, logging, result>>
  /\ UNCHANGED <<platform, device, frequency, refused, zeros>>

\* Any other error ends the request at once.
IoctlFatal ==
  /\ pc = "ioctl" /\ device \in {"stalled", "busy", "silent", "gone"} \ Retried
  /\ refused' = device
  /\ IF device = "gone" THEN UNCHANGED delivered ELSE MaybeDelivered
  /\ Finish("fail")
  /\ UNCHANGED <<platform, device, frequency, stalls, zeros, waits>>

Retry ==
  /\ pc = "backoff" /\ pc' = "ioctl"
  /\ attempt' = attempt + 1
  /\ UNCHANGED <<platform, device, request, read, logging, result, frequency,
                 delivered, stalls, refused, zeros, waits>>

\* Mutant: the tries of the first read count for the second.
RereadTired ==
  /\ pc = "settle" /\ pc' = "ioctl"
  /\ read' = read + 1
  /\ stalls' = 0
  /\ UNCHANGED <<platform, device, request, attempt, logging, result, frequency,
                 delivered, refused, zeros, waits>>

\* get_status reads the report anew, with all its ioctl tries.
Reread ==
  /\ pc = "settle" /\ pc' = "ioctl"
  /\ read' = read + 1 /\ attempt' = 0
  /\ stalls' = 0
  /\ UNCHANGED <<platform, device, request, logging, result, frequency,
                 delivered, refused, zeros, waits>>

Poll == pc = "poll" /\ Begin("status") /\ UNCHANGED logging

Host == SetDone \/ StatusDone \/ StatusZero \/ IoctlTransient \/ IoctlFatal
          \/ Retry \/ Reread \/ Poll

\* The device changes; only unplugging is for good.
DeviceChanges ==
  /\ device # "gone"
  /\ device' \in {"ok", "stunned", "stalled", "busy", "silent", "gone"} \ {device}
  /\ UNCHANGED <<platform, pc, request, attempt, read, logging, result,
                 frequency, delivered, stalls, refused, zeros, waits>>

Next == CallStatus \/ CallSet \/ CallStatlog \/ Host \/ DeviceChanges

\* Sleeps end and ioctls return, so the host goes on; the device and the user
\* owe nothing.
Spec == Init /\ [][Next]_vars /\ WF_vars(Host)

-----------------------------------------------------------------------------

FlagsOK == logging \in BOOLEAN /\ delivered \in BOOLEAN

StateOK ==
  /\ platform \in {"linux", "windows"}
  /\ device \in {"ok", "stunned", "stalled", "busy", "silent", "gone"}
  /\ pc \in {"idle", "ioctl", "backoff", "settle", "poll"}
  /\ request \in Requests \cup {"none"}
  /\ request = "none" <=> pc \in {"idle", "poll"}
  /\ attempt \in 0..(LBE_CTRL_RETRY_MAX - 1)
  /\ read \in 0..(StatusReads - 1)
  /\ result \in {"none", "ok", "fail"}
  /\ frequency \in {"none", "zero", "good"}
  /\ refused \in {"none", "stalled", "busy", "silent", "gone"}
  /\ stalls \in Nat /\ zeros \in Nat /\ waits \in Nat

TypeOK == FlagsOK /\ StateOK

\* A request fails only when the device was silent or unplugged, or busy under
\* Windows; when one report failed in all its tries; or when every report read
\* for a status was zeros: no shorter glitch is ever reported (ioctl_retry,
\* ctrl_transfer_retry, get_status).
GlitchesAbsorbed ==
  result = "fail" =>
    \/ refused \in {"silent", "gone"}
    \/ refused = "busy" /\ platform = "windows"
    \/ stalls = LBE_CTRL_RETRY_MAX
    \/ zeros = StatusReads

\* Retries nest (three tries for each of two reads) without multiplying: no
\* request sleeps longer than this many times 20 ms, so 100 ms.
SleepBounded == waits <= StatusReads * LBE_CTRL_RETRY_MAX - 1

\* Every request ends, a SET that succeeds was carried out, and a status that
\* is returned never shows the 0 Hz of a stunned device (model_1421.c:40-44).
Request == INSTANCE ControlRequest WITH
  Requests <- Requests, request <- request, delivered <- delivered,
  result <- result, frequency <- frequency
ImplementsRequest == Request!Spec

\* An unplugged device ends --statlog, instead of an endless series of errors
\* (main.c:256-264).
UnplugEndsLog == (logging /\ device = "gone") ~> ~ logging
=============================================================================
