------------------------- MODULE ControlPipeProofs -------------------------
(***************************************************************************)
(* What ControlPipe guarantees for every number of tries and reads: its    *)
(* bounds, which failures may surface, how long a request may sleep, and   *)
(* that every step is one ControlRequest allows.                           *)
(***************************************************************************)
EXTENDS ControlPipe, TLAPS

\* The counters of the properties follow those of the code while a request
\* runs: one try per counted stall, one read per counted zero report.
Counted ==
  /\ pc \in {"ioctl", "backoff"} =>
       /\ stalls = attempt + (IF pc = "backoff" THEN 1 ELSE 0)
       /\ zeros = read
  /\ pc = "settle" => zeros = read + 1
  /\ pc = "backoff" => attempt + 1 < LBE_CTRL_RETRY_MAX
  /\ pc = "settle" => read + 1 < StatusReads /\ request = "status"
  /\ request # "none" => result = "none"

\* The sleeps so far: at most one after each try of each read before this one,
\* and one after each try of this one.
Slept ==
  IF request = "none"
    THEN SleepBounded
    ELSE waits <= read * LBE_CTRL_RETRY_MAX + attempt
                    + (IF pc = "ioctl" THEN 0 ELSE 1)

Numbers == StateOK /\ Counted /\ Slept /\ GlitchesAbsorbed

IInv == FlagsOK /\ Numbers

\* A bound on the sleeps of the first r reads bounds those of all of them.
LEMMA Rounds ==
  ASSUME NEW r \in 0..(StatusReads - 1)
  PROVE  r * LBE_CTRL_RETRY_MAX + LBE_CTRL_RETRY_MAX
           <= StatusReads * LBE_CTRL_RETRY_MAX
<1> DEFINE K == StatusReads - 1 - r
<1>1. K \in Nat /\ LBE_CTRL_RETRY_MAX \in Nat /\ StatusReads \in Nat
  BY PipeAssumption
<1>2. K * LBE_CTRL_RETRY_MAX >= 0
  <2> HIDE DEF K
  <2> QED BY <1>1
<1>3. StatusReads * LBE_CTRL_RETRY_MAX
        = r * LBE_CTRL_RETRY_MAX + LBE_CTRL_RETRY_MAX + K * LBE_CTRL_RETRY_MAX
  BY <1>1
<1>4. r * LBE_CTRL_RETRY_MAX \in Int /\ K * LBE_CTRL_RETRY_MAX \in Int
      /\ StatusReads * LBE_CTRL_RETRY_MAX \in Int
  BY <1>1
<1> HIDE DEF K
<1> QED BY <1>1, <1>2, <1>3, <1>4

\* While a request runs it has not slept longer than a whole request may.
LEMMA SleptEnough == StateOK /\ Counted /\ Slept => SleepBounded
<1> SUFFICES ASSUME StateOK, Counted, Slept, request # "none" PROVE SleepBounded
  BY DEF Slept
<1>1. read \in 0..(StatusReads - 1) /\ attempt \in 0..(LBE_CTRL_RETRY_MAX - 1)
      /\ waits \in Nat
  BY DEF StateOK
<1>2. read * LBE_CTRL_RETRY_MAX + LBE_CTRL_RETRY_MAX
        <= StatusReads * LBE_CTRL_RETRY_MAX
  BY <1>1, Rounds
<1>3. /\ LBE_CTRL_RETRY_MAX \in Nat \ {0} /\ StatusReads \in Nat \ {0}
      /\ read * LBE_CTRL_RETRY_MAX \in Int
      /\ StatusReads * LBE_CTRL_RETRY_MAX \in Int
  BY <1>1, PipeAssumption
<1>4. waits <= read * LBE_CTRL_RETRY_MAX + attempt
                 + (IF pc = "ioctl" THEN 0 ELSE 1)
  BY DEF Slept
<1>5. CASE pc = "ioctl"
  BY <1>1, <1>2, <1>3, <1>4, <1>5 DEF SleepBounded
<1>6. CASE pc = "backoff"
  BY <1>1, <1>2, <1>3, <1>4, <1>6 DEF SleepBounded, Counted
<1>7. CASE pc = "settle"
  <2>1. read + 1 \in 0..(StatusReads - 1)
    BY <1>1, <1>3, <1>7 DEF Counted
  <2>2. (read + 1) * LBE_CTRL_RETRY_MAX + LBE_CTRL_RETRY_MAX
          <= StatusReads * LBE_CTRL_RETRY_MAX
    BY <2>1, Rounds
  <2>3. (read + 1) * LBE_CTRL_RETRY_MAX
          = read * LBE_CTRL_RETRY_MAX + LBE_CTRL_RETRY_MAX
    BY <1>1, <1>3
  <2> QED
    BY <1>1, <1>3, <1>4, <1>7, <2>2, <2>3 DEF SleepBounded
<1> QED BY <1>5, <1>6, <1>7 DEF StateOK

-----------------------------------------------------------------------------

LEMMA InitNumbers == Init => Numbers
<1> SUFFICES ASSUME Init PROVE Numbers
  OBVIOUS
<1>1. StateOK /\ Counted /\ GlitchesAbsorbed
  BY PipeAssumption DEF Init, StateOK, Counted, GlitchesAbsorbed
<1>2. StatusReads * LBE_CTRL_RETRY_MAX >= 1
  <2>1. 0 \in 0..(StatusReads - 1) BY PipeAssumption
  <2> QED BY <2>1, Rounds, PipeAssumption
<1>3. Slept
  BY <1>2, PipeAssumption DEF Init, Slept, SleepBounded
<1> QED BY <1>1, <1>3 DEF Numbers

\* A request begins with fresh counters.
LEMMA BeginNumbers ==
  ASSUME Numbers, NEW r \in Requests, pc \in {"idle", "poll"}, Begin(r)
  PROVE  Numbers'
<1>1. StateOK'
  BY PipeAssumption DEF Numbers, StateOK, Begin, Requests
<1>2. Counted' /\ GlitchesAbsorbed'
  BY PipeAssumption DEF Numbers, StateOK, Begin, Requests, Counted, GlitchesAbsorbed
<1>3. Slept'
  BY PipeAssumption DEF Begin, Slept, Requests
<1> QED BY <1>1, <1>2, <1>3 DEF Numbers

LEMMA SetDoneNumbers == ASSUME Numbers, SetDone PROVE Numbers'
<1>1. StateOK' /\ Counted' /\ GlitchesAbsorbed'
  BY PipeAssumption
  DEF Numbers, StateOK, SetDone, Finish, Requests, Counted, GlitchesAbsorbed
<1>2. SleepBounded
  BY SleptEnough DEF Numbers
<1>3. Slept'
  BY <1>2 DEF SetDone, Finish, Slept, SleepBounded
<1> QED BY <1>1, <1>3 DEF Numbers

LEMMA StatusDoneNumbers == ASSUME Numbers, StatusDone PROVE Numbers'
<1>1. StateOK' /\ Counted' /\ GlitchesAbsorbed'
  BY PipeAssumption
  DEF Numbers, StateOK, StatusDone, Answer, Finish, Requests, Counted,
      GlitchesAbsorbed
<1>2. SleepBounded
  BY SleptEnough DEF Numbers
<1>3. Slept'
  BY <1>2 DEF StatusDone, Finish, Slept, SleepBounded
<1> QED BY <1>1, <1>3 DEF Numbers

\* The last zero report is the StatusReads-th; any other is slept on.
LEMMA StatusZeroNumbers == ASSUME Numbers, StatusZero PROVE Numbers'
<1>1. SleepBounded
  BY SleptEnough DEF Numbers
<1>2. CASE LastRead
  <2>1. StateOK' /\ Counted'
    BY <1>2, PipeAssumption
    DEF Numbers, StateOK, StatusZero, LastRead, Finish, Requests, Counted
  <2>2. GlitchesAbsorbed'
    BY <1>2, PipeAssumption
    DEF Numbers, StateOK, StatusZero, LastRead, Finish, Counted, GlitchesAbsorbed
  <2>3. Slept'
    BY <1>1, <1>2 DEF StatusZero, Finish, Slept, SleepBounded
  <2> QED BY <2>1, <2>2, <2>3 DEF Numbers
<1>3. CASE ~ LastRead
  <2>1. StateOK' /\ Counted' /\ GlitchesAbsorbed'
    BY <1>3, PipeAssumption
    DEF Numbers, StateOK, StatusZero, LastRead, Requests, Counted, GlitchesAbsorbed
  <2>2. Slept'
    BY <1>3, PipeAssumption DEF Numbers, StateOK, StatusZero, Slept
  <2> QED BY <2>1, <2>2 DEF Numbers
<1> QED BY <1>2, <1>3

\* The last try of a report is the LBE_CTRL_RETRY_MAX-th.
LEMMA IoctlTransientNumbers == ASSUME Numbers, IoctlTransient PROVE Numbers'
<1>1. SleepBounded
  BY SleptEnough DEF Numbers
<1>2. CASE LastAttempt
  <2>1. StateOK' /\ Counted'
    BY <1>2, PipeAssumption
    DEF Numbers, StateOK, IoctlTransient, MaybeDelivered, LastAttempt, Finish, Requests, Counted
  <2>2. GlitchesAbsorbed'
    BY <1>2, PipeAssumption
    DEF Numbers, StateOK, IoctlTransient, MaybeDelivered, LastAttempt, Finish, Counted,
        GlitchesAbsorbed
  <2>3. Slept'
    BY <1>1, <1>2 DEF IoctlTransient, Finish, Slept, SleepBounded
  <2> QED BY <2>1, <2>2, <2>3 DEF Numbers
<1>3. CASE ~ LastAttempt
  <2>1. StateOK' /\ Counted' /\ GlitchesAbsorbed'
    BY <1>3, PipeAssumption
    DEF Numbers, StateOK, IoctlTransient, MaybeDelivered, LastAttempt, Requests, Counted,
        GlitchesAbsorbed
  <2>2. Slept'
    BY <1>3, PipeAssumption DEF Numbers, StateOK, IoctlTransient, Slept
  <2> QED BY <2>1, <2>2 DEF Numbers
<1> QED BY <1>2, <1>3

\* A stall is always retried, a busy device on Linux.
LEMMA IoctlFatalNumbers == ASSUME Numbers, IoctlFatal PROVE Numbers'
<1>1. SleepBounded
  BY SleptEnough DEF Numbers
<1>2. StateOK' /\ Counted'
  BY PipeAssumption
  DEF Numbers, StateOK, IoctlFatal, MaybeDelivered, Finish, Requests, Counted
<1>3. GlitchesAbsorbed'
  BY DEF Numbers, StateOK, IoctlFatal, Retried, GlitchesAbsorbed
<1>4. Slept'
  BY <1>1 DEF IoctlFatal, Finish, Slept, SleepBounded
<1> QED BY <1>2, <1>3, <1>4 DEF Numbers

LEMMA RetryNumbers == ASSUME Numbers, Retry PROVE Numbers'
<1>1. StateOK' /\ Counted' /\ GlitchesAbsorbed'
  BY PipeAssumption
  DEF Numbers, StateOK, Retry, Requests, Counted, GlitchesAbsorbed
<1>2. Slept'
  BY PipeAssumption DEF Numbers, StateOK, Retry, Slept
<1> QED BY <1>1, <1>2 DEF Numbers

\* The sleeps of a read that ends are those of all its tries, at most.
LEMMA RereadNumbers == ASSUME Numbers, Reread PROVE Numbers'
<1>1. StateOK' /\ Counted' /\ GlitchesAbsorbed'
  BY PipeAssumption
  DEF Numbers, StateOK, Reread, Requests, Counted, GlitchesAbsorbed
<1>2. waits <= read * LBE_CTRL_RETRY_MAX + LBE_CTRL_RETRY_MAX
  <2>1. /\ waits <= read * LBE_CTRL_RETRY_MAX + attempt + 1
        /\ attempt + 1 <= LBE_CTRL_RETRY_MAX
        /\ attempt \in Int /\ read \in Int /\ waits \in Int
    BY PipeAssumption DEF Numbers, StateOK, Reread, Slept, Counted
  <2>2. read * LBE_CTRL_RETRY_MAX \in Int
    BY <2>1, PipeAssumption
  <2> QED BY <2>1, <2>2, PipeAssumption
<1>3. (read + 1) * LBE_CTRL_RETRY_MAX
        = read * LBE_CTRL_RETRY_MAX + LBE_CTRL_RETRY_MAX
  BY PipeAssumption DEF Numbers, StateOK
<1>4. (read + 1) * LBE_CTRL_RETRY_MAX \in Int
  BY PipeAssumption DEF Numbers, StateOK
<1>5. /\ read' = read + 1 /\ attempt' = 0 /\ waits' = waits /\ pc' = "ioctl"
      /\ request' # "none"
  BY DEF Reread, Numbers, Counted
<1>6. Slept'
  BY <1>2, <1>3, <1>4, <1>5 DEF Slept
<1> QED BY <1>1, <1>6 DEF Numbers

LEMMA DeviceChangesNumbers == ASSUME Numbers, DeviceChanges PROVE Numbers'
<1>1. StateOK' /\ Counted' /\ GlitchesAbsorbed'
  BY DEF Numbers, StateOK, DeviceChanges, Counted, GlitchesAbsorbed
<1>2. Slept'
  BY DEF Numbers, DeviceChanges, Slept, SleepBounded
<1> QED BY <1>1, <1>2 DEF Numbers

LEMMA StepNumbers == Numbers /\ [Next]_vars => Numbers'
<1> SUFFICES ASSUME Numbers, [Next]_vars PROVE Numbers'
  OBVIOUS
<1>1. CASE CallStatus
  BY <1>1, BeginNumbers DEF CallStatus, Requests
<1>2. CASE CallSet
  BY <1>2, BeginNumbers DEF CallSet, Requests
<1>3. CASE CallStatlog
  BY <1>3, BeginNumbers DEF CallStatlog, Requests
<1>4. CASE Host
  <2>1. CASE Poll
    BY <2>1, BeginNumbers DEF Poll, Requests
  <2> QED
    BY <1>4, <2>1, SetDoneNumbers, StatusDoneNumbers, StatusZeroNumbers,
       IoctlTransientNumbers, IoctlFatalNumbers, RetryNumbers, RereadNumbers
    DEF Host
<1>5. CASE DeviceChanges
  BY <1>5, DeviceChangesNumbers
<1>6. CASE UNCHANGED vars
  BY <1>6
  DEF vars, Numbers, StateOK, Counted, Slept, SleepBounded, GlitchesAbsorbed
<1> QED BY <1>1, <1>2, <1>3, <1>4, <1>5, <1>6 DEF Next

LEMMA StepFlags == FlagsOK /\ [Next]_vars => FlagsOK'
<1> SUFFICES ASSUME FlagsOK, [Next]_vars PROVE FlagsOK'
  OBVIOUS
<1> USE DEF FlagsOK
<1>1. CASE CallStatus \/ CallSet \/ CallStatlog \/ Poll
  BY <1>1 DEF CallStatus, CallSet, CallStatlog, Poll, Begin
<1>2. CASE SetDone
  BY <1>2 DEF SetDone, Finish
<1>3. CASE StatusDone
  BY <1>3 DEF StatusDone, Finish
<1>4. CASE StatusZero
  BY <1>4 DEF StatusZero, Finish
<1>5. CASE IoctlTransient
  BY <1>5 DEF IoctlTransient, MaybeDelivered, Finish
<1>6. CASE IoctlFatal
  BY <1>6 DEF IoctlFatal, MaybeDelivered, Finish
<1>7. CASE Retry \/ Reread \/ DeviceChanges \/ UNCHANGED vars
  <2>1. UNCHANGED <<logging, delivered>>
    BY <1>7 DEF Retry, Reread, DeviceChanges, vars
  <2> QED BY <2>1
<1> QED BY <1>1, <1>2, <1>3, <1>4, <1>5, <1>6, <1>7 DEF Next, Host

THEOREM Inductive == Spec => []IInv
<1>1. Init => FlagsOK
  BY DEF Init, FlagsOK
<1> QED BY <1>1, InitNumbers, StepNumbers, StepFlags, PTL DEF Spec, IInv

-----------------------------------------------------------------------------

\* The counters of the code keep their bounds.
THEOREM TypeCorrect == Spec => []TypeOK
<1>1. IInv => TypeOK BY DEF IInv, Numbers, FlagsOK, TypeOK
<1> QED BY <1>1, Inductive, PTL

\* No glitch shorter than the tries and reads of the code makes a request fail
\* (ioctl_retry, ctrl_transfer_retry, get_status).
THEOREM ShortGlitchesAbsorbed == Spec => []GlitchesAbsorbed
<1>1. IInv => GlitchesAbsorbed BY DEF IInv, Numbers
<1> QED BY <1>1, Inductive, PTL

\* Nested retries sleep at most once per try but the last.
THEOREM SleepsBounded == Spec => []SleepBounded
<1>1. IInv => SleepBounded BY SleptEnough DEF IInv, Numbers
<1> QED BY <1>1, Inductive, PTL

\* Every step of the transport is one the caller was promised: a request ends
\* once, a success was carried out, a status returned is plausible.
THEOREM RefinesRequest == Spec => Request!Safety
<1>1. Init => Request!Init
  BY DEF Init, Request!Init
<1>2. ASSUME IInv, [Next]_vars PROVE [Request!Next]_(Request!vars)
  <2>a. /\ request \in {"status", "set", "none"}
        /\ request = "none" <=> pc \in {"idle", "poll"}
    BY <1>2 DEF IInv, Numbers, StateOK, Requests
  <2> USE DEF Request!Next, Request!vars
  <2>1. CASE CallStatus \/ CallSet \/ CallStatlog \/ Poll
    <3>1. PICK r \in Requests : Begin(r)
      BY <2>1 DEF CallStatus, CallSet, CallStatlog, Poll, Requests
    <3>2. request = "none"
      BY <2>1, <2>a DEF CallStatus, CallSet, CallStatlog, Poll
    <3>3. Request!Start(r)
      BY <3>1, <3>2 DEF Begin, Request!Start
    <3> QED BY <3>3
  <2>2. CASE SetDone \/ StatusDone
    <3>1. CASE SetDone
      BY <3>1 DEF SetDone, Finish, Request!Succeed
    <3>2. CASE StatusDone
      <4>1. Answer = "good"
        BY <3>2 DEF StatusDone, Answer, Plausible
      <4>2. Request!Succeed
        BY <3>2, <4>1 DEF StatusDone, Finish, Request!Succeed
      <4> QED BY <4>2
    <3> QED BY <2>2, <3>1, <3>2
  <2>3. CASE StatusZero
    <3>1. CASE LastRead
      BY <2>3, <3>1 DEF StatusZero, Finish, Request!Fail
    <3>2. CASE ~ LastRead
      BY <2>3, <3>2 DEF StatusZero
    <3> QED BY <3>1, <3>2
  <2>4. CASE IoctlTransient
    <3>1. request # "none" /\ UNCHANGED frequency /\ MaybeDelivered
      BY <2>4, <2>a DEF IoctlTransient
    <3>2. CASE LastAttempt
      <4>1. request' = "none" /\ result' = "fail"
        BY <2>4, <3>2 DEF IoctlTransient, Finish
      <4> QED BY <3>1, <4>1 DEF MaybeDelivered, Request!Fail
    <3>3. CASE ~ LastAttempt
      <4>1. UNCHANGED <<request, result>>
        BY <2>4, <3>3 DEF IoctlTransient
      <4> QED BY <3>1, <4>1 DEF MaybeDelivered, Request!Carry
    <3> QED BY <3>2, <3>3
  <2>5. CASE IoctlFatal
    <3>1. request # "none" /\ UNCHANGED frequency
      BY <2>5, <2>a DEF IoctlFatal
    <3>2. request' = "none" /\ result' = "fail"
      BY <2>5 DEF IoctlFatal, Finish
    <3>3. UNCHANGED delivered \/ (request = "set" /\ delivered' = TRUE)
      BY <2>5 DEF IoctlFatal, MaybeDelivered
    <3> QED BY <3>1, <3>2, <3>3 DEF Request!Fail
  <2>6. CASE Retry \/ Reread \/ DeviceChanges \/ UNCHANGED vars
    BY <2>6 DEF Retry, Reread, DeviceChanges, vars
  <2> QED
    BY <1>2, <2>1, <2>2, <2>3, <2>4, <2>5, <2>6 DEF Next, Host
<1> QED BY <1>1, <1>2, Inductive, PTL DEF Spec, Request!Safety
=============================================================================
