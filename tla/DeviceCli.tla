----------------------------- MODULE DeviceCli -----------------------------
(***************************************************************************)
(* The command line as a program: the option loop of main(), the dispatch  *)
(* of lbe_device.c, the operation tables of the five models, and the       *)
(* device that receives the opcodes.                                       *)
(*                                                                         *)
(* A request to the device behaves as ControlRequest says: when it         *)
(* succeeds it was carried out, when it fails it may have been.  Opening a *)
(* Mini already sends it some.                                             *)
(* Frequencies are counted in units of 10 MHz, so 429 stands for the       *)
(* greatest uint32_t and greater values for those that do not fit.  The    *)
(* Mini's are what its divider chain makes, see MiniPll.                   *)
(***************************************************************************)
EXTENDS Integers, MiniPll

CONSTANTS
  Models,        \* the models considered, of "1420", "1421", "1423", "1425", "Mini"
  Values,        \* for each option, the arguments considered
  MaxOptions     \* bound: options on the command line

Null == 0        \* an operation that is NULL, or refuses without a request

Frequency == {"f1", "f2", "f1t", "f2t"}
Flags == {"out", "pll", "pps", "pwr1", "pwr2", "nmea"}
Sets == Frequency \cup Flags \cup {"drive", "gnss", "dynmodel"}

ASSUME CliAssumption ==
  /\ Models \subseteq {"1420", "1421", "1423", "1425", "Mini"}
  /\ Values \in [Sets -> SUBSET Nat]
  /\ MaxOptions \in Nat

\* The operation tables: the opcode each operation sends.
Ops_1421 ==
  [f1 |-> 6, f1t |-> 5, f2 |-> 10, f2t |-> 9, out |-> 1, blink |-> 2,
   pll |-> 11, pps |-> 12, pwr1 |-> 13, pwr2 |-> 14,
   drive |-> Null, gnss |-> Null, dynmodel |-> Null, nmea |-> Null]
Ops_1423 == Ops_1421
Ops_1425 == [Ops_1421 EXCEPT !.gnss = 3, !.dynmodel = 4, !.nmea = 15]

\* Mutant: --pwr1 sends the opcode that sets the constellations.
Ops_1420_1_07 ==
  [Ops_1421 EXCEPT !.f2 = Null, !.f2t = Null, !.pps = Null, !.pwr2 = Null,
                   !.pwr1 = 7, !.gnss = 7, !.dynmodel = 9]

Ops_1420 ==
  [Ops_1421 EXCEPT !.f2 = Null, !.f2t = Null, !.pps = Null, !.pwr2 = Null,
                   !.gnss = 7, !.dynmodel = 9]
Ops_mini ==
  [o \in DOMAIN Ops_1421 |->
     CASE o = "f1" -> 4 [] o = "out" -> 1 [] o = "blink" -> 2
       [] o \in {"pwr1", "drive"} -> 3 [] OTHER -> Null]

Ops(m) == CASE m = "1420" -> Ops_1420 [] m = "1421" -> Ops_1421
            [] m = "1423" -> Ops_1423 [] m = "1425" -> Ops_1425
            [] m = "Mini" -> Ops_mini

\* Mutant: one limit for both outputs.
MaxFreqShared(m, output) ==
  CASE m = "1420" -> 160 [] m = "Mini" -> 81 [] OTHER -> 140

\* lbe_max_freq.
MaxFreq(m, output) ==
  CASE m = "1420" -> 160
    [] m \in {"1421", "1423"} -> 140
    [] m = "1425" -> IF output = 1 THEN 80 ELSE 140
    [] m = "Mini" -> 81
MaxUint32 == 429

\* The device (external): what each opcode sets.  "flash" is what survives a
\* power cycle; a temporary frequency does not touch it.  "stream" is which
\* messages the receiver sends, 0 being what it does when it is switched on.
\* Opcodes that have no documented meaning on a model are taken to set "other".
Common == [c \in 1..15 |->
  CASE c = 1 -> {"out"} [] c = 2 -> {"led"} [] c = 5 -> {"out1"}
    [] c = 6 -> {"out1", "flash1"} [] c = 11 -> {"pll"} [] c = 13 -> {"pwr1"}
    [] OTHER -> {"other"}]
Dual == [Common EXCEPT ![9] = {"out2"}, ![10] = {"out2", "flash2"},
                       ![12] = {"pps"}, ![14] = {"pwr2"}]
Effects(m) ==
  CASE m = "1420" -> [Common EXCEPT ![7] = {"gnss"}, ![8] = {"stream"},
                                    ![9] = {"dynmodel"}]
    [] m \in {"1421", "1423"} -> Dual
    [] m = "1425" -> [Dual EXCEPT ![3] = {"gnss"}, ![4] = {"dynmodel"},
                                  ![8] = {"stream"}, ![15] = {"nmea"}]
    [] m = "Mini" -> [c \in 1..15 |->
         CASE c = 1 -> {"out"} [] c = 2 -> {"led"} [] c = 3 -> {"pwr1"}
           [] c = 4 -> {"out1", "flash1"} [] c \in {8, 10} -> {"stream"}
           [] OTHER -> {"other"}]

Settings == {"out1", "flash1", "out2", "flash2", "out", "pll", "pps", "pwr1",
             "pwr2", "gnss", "dynmodel", "nmea", "led", "stream", "other"}

VARIABLES
  model,       \* the device opened
  device,      \* its settings
  option,      \* the option being handled, "open" before the first, or "none"
  step,        \* how far its handler is
  used,        \* options handled so far
  changed,     \* of main()
  ended,       \* main() has returned
  claimed,     \* settings reported as set, with their values (for the properties)
  probed,      \* the settings that raw opcodes were sent for, and
  unsure,      \*   those that failed requests were for (for the properties)
  unseen       \* the status after a raw opcode failed (for the properties)

vars == <<model, device, option, step, used, changed, ended, claimed, probed,
          unsure, unseen>>

Factory == [s \in Settings |-> IF s \in {"out1", "flash1", "out2", "flash2"}
                                 THEN 1 ELSE 0]
Unclaimed == 1000

Init ==
  /\ model \in Models
  /\ device = Factory
  /\ option = "open" /\ step = "none"
  /\ used = 0 /\ changed = FALSE /\ ended = FALSE
  /\ claimed = [s \in Settings |-> Unclaimed]
  /\ probed = {} /\ unsure = {} /\ unseen = FALSE

\* The new settings after opcode c with argument v was carried out.
Written(c, v) ==
  [s \in Settings |-> IF s \in Effects(model)[c] THEN v ELSE device[s]]

\* A request: it succeeded, or it failed and was perhaps carried out.
Sent(c, v) == device' = Written(c, v) /\ UNCHANGED unsure
Failed(c, v) == /\ device' \in {device, Written(c, v)}
                /\ unsure' = unsure \cup Effects(model)[c]

\* lbe_open_device calls the model's init, which only the Mini has: four
\* requests that make the receiver stream, whose results are ignored.  They all
\* succeeded, or some did not.
Open ==
  /\ option = "open" /\ option' = "none"
  /\ IF model = "Mini" THEN Sent(10, 1) \/ Failed(10, 1)
                       ELSE UNCHANGED <<device, unsure>>
  /\ UNCHANGED <<model, step, used, changed, ended, claimed, probed, unseen>>

Claim(c, v) ==
  [s \in Settings |-> IF s \in Effects(model)[c] THEN v ELSE claimed[s]]

-----------------------------------------------------------------------------
(* The setting options.                                                    *)

NewFreq(v) == IF v > MaxUint32 THEN 0 ELSE v
InRange(m, o, v) ==
  NewFreq(v) \in 1..MaxFreq(m, IF o \in {"f1", "f1t"} THEN 1 ELSE 2)

Bit(v, b) == (v \div b) % 2 = 1

\* Mutant: only the combination with GPS is refused.
GnssAllowedLax(m, v) ==
  /\ v <= 255
  /\ m # "1420" => ~ (Bit(v, 8) /\ Bit(v, 1))

GnssAllowed(m, v) ==
  /\ v <= 255
  /\ m # "1420" => ~ (Bit(v, 8) /\ (Bit(v, 1) \/ Bit(v, 2) \/ Bit(v, 4)))

\* The Mini's chain for each frequency it is asked for.
Chain == [v \in Values["f1"] |->
            IF InRange("Mini", "f1", v) THEN Solve(v) ELSE NoChain]

\* What main(), lbe_device.c and the model accept before they send anything.
Accepted(o, v) ==
  /\ Ops(model)[o] # Null
  /\ o \in Frequency => InRange(model, o, v)
  /\ model = "Mini" /\ o = "f1" => Chain[v] # NoChain
  /\ o \in Flags => v \in {0, 1}
  /\ o = "drive" => v \in {8, 16, 24, 32}
  /\ o = "gnss" => GnssAllowed(model, v)

\* The argument as it is sent: the Mini encodes drive strengths, and its two
\* power levels as the extremes of them; its dividers read back as a frequency.
Encoded(o, v) ==
  CASE o = "f1" /\ model = "Mini" -> Output(Chain[v])
    [] o = "drive" -> v \div 8 - 1
    [] o = "pwr1" /\ model = "Mini" -> IF v = 1 THEN 0 ELSE 3
    [] OTHER -> v

\* What main() says it has set.
Reported(o, v) == IF o \in Frequency THEN v ELSE Encoded(o, v)

MoreOptions == option = "none" /\ ~ ended /\ used < MaxOptions
Handled == used' = used + 1
Quiet == UNCHANGED <<model, ended, unseen>>

\* Mutant: the result of the request is ignored.
SetOptionBlind(o, v) ==
  /\ MoreOptions /\ Accepted(o, v)
  /\ LET c == Ops(model)[o]
         a == Encoded(o, v) IN
     /\ Sent(c, a) \/ Failed(c, a)
     /\ changed' = TRUE /\ claimed' = Claim(c, Reported(o, v))
  /\ Handled /\ Quiet
  /\ UNCHANGED <<option, step, probed>>

SetOption(o, v) ==
  /\ MoreOptions /\ Accepted(o, v)
  /\ LET c == Ops(model)[o]
         a == Encoded(o, v) IN
     \/ Sent(c, a) /\ changed' = TRUE /\ claimed' = Claim(c, Reported(o, v))
     \/ /\ Failed(c, a) /\ UNCHANGED changed
        /\ claimed' = Claim(c, Unclaimed)
  /\ Handled /\ Quiet
  /\ UNCHANGED <<option, step, probed>>

\* Not supported, out of range, or without a divider chain: a message.
RejectOption(o, v) ==
  /\ MoreOptions
  /\ ~ Accepted(o, v)
  /\ Handled /\ Quiet
  /\ UNCHANGED <<device, option, step, changed, claimed, probed, unsure>>

\* --blink: the firmware of the others stops by itself; the Mini must be told
\* to, three seconds later.
LedOn == IF model = "Mini" THEN 1 ELSE 0

\* Mutant: the Mini is not told to stop.
BlinkOnce ==
  /\ MoreOptions
  /\ LET c == Ops(model)["blink"] IN
     \/ Sent(c, LedOn) /\ changed' = TRUE
     \/ Failed(c, LedOn) /\ UNCHANGED changed
  /\ Handled /\ Quiet
  /\ UNCHANGED <<option, step, claimed, probed>>

Blink ==
  /\ MoreOptions
  /\ LET c == Ops(model)["blink"] IN
     \/ /\ Sent(c, LedOn)
        /\ IF model = "Mini"
             THEN /\ option' = "blink" /\ step' = "off"
                  /\ UNCHANGED <<changed, used>>
             ELSE changed' = TRUE /\ Handled /\ UNCHANGED <<option, step>>
     \/ Failed(c, LedOn) /\ Handled /\ UNCHANGED <<option, step, changed>>
  /\ Quiet
  /\ UNCHANGED <<claimed, probed>>

BlinkOff ==
  /\ option = "blink" /\ step = "off"
  /\ LET c == Ops(model)["blink"] IN
     \/ Sent(c, 0) /\ changed' = TRUE
     \/ Failed(c, 0) /\ UNCHANGED changed
  /\ option' = "none" /\ step' = "none"
  /\ Handled /\ Quiet
  /\ UNCHANGED <<claimed, probed>>

\* --probe-op: a status, the opcode, and a status to compare; each of the three
\* may fail and end the option.
GiveUp == /\ option' = "none" /\ step' = "none"
          /\ Handled /\ UNCHANGED changed

ProbeBefore ==
  /\ MoreOptions
  /\ \/ /\ option' = "probe" /\ step' = "send"
        /\ UNCHANGED <<used, changed>>
     \/ GiveUp
  /\ Quiet
  /\ UNCHANGED <<device, claimed, probed, unsure>>

ProbeSend(c, v) ==
  /\ option = "probe" /\ step = "send"
  /\ \/ /\ Sent(c, v) /\ step' = "after"
        /\ UNCHANGED <<option, used, changed>>
     \/ Failed(c, v) /\ GiveUp
  /\ claimed' = Claim(c, Unclaimed)
  /\ probed' = probed \cup Effects(model)[c]
  /\ Quiet

\* Mutant: a probe does not count as a change.
ProbeAfterUncounted ==
  /\ option = "probe" /\ step = "after"
  /\ GiveUp /\ Quiet
  /\ UNCHANGED <<device, claimed, probed, unsure>>

ProbeAfter ==
  /\ option = "probe" /\ step = "after"
  /\ \/ /\ option' = "none" /\ step' = "none"
        /\ Handled /\ changed' = TRUE /\ UNCHANGED unseen
     \/ GiveUp /\ unseen' = TRUE
  /\ UNCHANGED <<model, ended, device, claimed, probed, unsure>>

\* --status reads.
Status == /\ MoreOptions /\ Handled /\ Quiet
          /\ UNCHANGED <<device, option, step, changed, claimed, probed, unsure>>

\* --monitor, --diag, --gps-info, --clocklog and --rawdump count as a change
\* whatever they return; some of them ask the receiver for messages.
Stream == /\ MoreOptions /\ Handled /\ Quiet /\ changed' = TRUE
          /\ \/ UNCHANGED device
             \/ model \in {"1420", "1425", "Mini"} /\ device' = Written(8, 1)
          /\ UNCHANGED <<option, step, claimed, probed, unsure>>

\* The end of main(), which prints "No changes made" unless changed.
End == /\ option = "none" /\ ~ ended /\ ended' = TRUE
       /\ UNCHANGED <<model, device, option, step, used, changed, claimed, probed,
                      unsure, unseen>>

Next == \/ Open
        \/ \E o \in Sets : \E v \in Values[o] : SetOption(o, v) \/ RejectOption(o, v)
        \/ Blink \/ BlinkOff
        \/ ProbeBefore \/ (\E c \in 1..15 : ProbeSend(c, 0)) \/ ProbeAfter
        \/ Status \/ Stream \/ End

Spec == Init /\ [][Next]_vars

-----------------------------------------------------------------------------

TypeOK ==
  /\ model \in Models
  /\ device \in [Settings -> Nat] /\ claimed \in [Settings -> Nat]
  /\ option \in {"open", "none", "blink", "probe"}
  /\ step \in [open |-> {"none"}, none |-> {"none"}, blink |-> {"off"}, probe |-> {"send", "after"}][option]
  /\ used \in 0..MaxOptions
  /\ changed \in BOOLEAN /\ ended \in BOOLEAN
  /\ probed \subseteq Settings /\ unsure \subseteq Settings /\ unseen \in BOOLEAN

\* What the user of each option asks for (README.md:133-151).
Asked == [f1 |-> {"out1", "flash1"}, f1t |-> {"out1"},
          f2 |-> {"out2", "flash2"}, f2t |-> {"out2"},
          out |-> {"out"}, pll |-> {"pll"}, pps |-> {"pps"}, pwr1 |-> {"pwr1"},
          pwr2 |-> {"pwr2"}, drive |-> {"pwr1"}, gnss |-> {"gnss"},
          dynmodel |-> {"dynmodel"}, nmea |-> {"nmea"}]

\* An option changes what it names and nothing else on every model, although
\* the models reuse opcodes 3, 4, 7 and 9 for different settings: what it sends
\* is never a different command to the device attached (model_1421.c:129-135,
\* lbe_common.h:44-49), and a temporary frequency never reaches the flash.
OnlyAsked ==
  [][\A o \in Sets : \A v \in Values[o] :
       SetOption(o, v) =>
         \A s \in Settings : device'[s] # device[s] => s \in Asked[o]]_vars

\* What the outputs can make, in the words of the README (README.md:7-11, 43).
Rated == [m \in {"1420", "1421", "1423", "1425", "Mini"} |->
            CASE m = "1420" -> <<160, 160>> [] m = "1425" -> <<80, 140>>
              [] m = "Mini" -> <<81, 81>> [] OTHER -> <<140, 140>>]

\* The device is never told what it cannot do: both outputs stay within what the
\* model can make, temporarily and in the flash, on the 1425 too, where the
\* limits differ (lbe_device.c:104-108, main.c:114-118), and a receiver of the
\* M8 family never tracks BeiDou with GPS, SBAS or Galileo (lbe_set_gnss).
\* What a raw opcode was sent for is the user's own affair, the rest is not.
WithinRating ==
  /\ \A s \in {"out1", "flash1"} \ probed : device[s] \in 1..Rated[model][1]
  /\ \A s \in {"out2", "flash2"} \ probed : device[s] \in 1..Rated[model][2]
  /\ model = "1425" /\ "gnss" \notin probed
       => ~ (Bit(device.gnss, 8) /\ device.gnss % 8 # 0)

\* The Mini accepts a frequency just when there is a divider chain for it with
\* an n3 of 1, its chain keeps the constraints, and its oscillator runs in the
\* native band if any such chain's does (model_mini.c:48-51), as long as the
\* multiples tried reach the band.  (In the code they do not for the frequencies
\* up to 12 times 97600 Hz over a divisor of it: 4096 * 12 < 51230.)
InRangeOnMini == {v \in Values["f1"] : InRange("Mini", "f1", v)}
Legal == [v \in InRangeOnMini |-> ChainsWith(v, {1})]

ChainGood(v) ==
  /\ Chain[v] \in Legal[v]
  /\ KMax * P(v) >= NativeHigh /\ (\E ch \in Legal[v] : InBand(ch))
       => InBand(Chain[v])

MiniSolves ==
  [][\A v \in InRangeOnMini : model = "Mini" =>
       /\ SetOption("f1", v) => ChainGood(v)
       /\ RejectOption("f1", v) => Legal[v] = {}]_vars

\* Whatever main reported as set is what the device has, until the setting is
\* attempted again.
ClaimsHold ==
  \A s \in Settings : claimed[s] # Unclaimed => device[s] = claimed[s]

\* The device as lbe_open_device leaves it when nothing fails.
AsOpened == [Factory EXCEPT !.stream = IF model = "Mini" THEN 1 ELSE 0]
NoChangesPrinted == ended /\ ~ changed

\* When "No changes made" is printed (main.c:376) every setting is what opening
\* the device made it, except where a request failed, for these may have been
\* carried out, and what a raw opcode wrote whose effect was not read back.
NoChangesTruthful ==
  NoChangesPrinted =>
    \A s \in Settings : device[s] # AsOpened[s] =>
      s \in unsure \/ (unseen /\ s \in probed)

\* "Blink output LED(s) for 3 seconds" (README.md:151): no LED blinks once the
\* option has been handled, unless a request for it failed or a raw one was sent.
BlinkStops == option # "blink" /\ device.led # 0 => "led" \in unsure \cup probed
=============================================================================
