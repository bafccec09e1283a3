----------------------------- MODULE Transport -----------------------------
(***************************************************************************)
(* A process's hold on the device: lbe_transport_open() under              *)
(* lbe_open_device(), lbe_transport_claim() and _release(), and            *)
(* lbe_transport_close(), over hidraw (Linux) and libusb (Windows).        *)
(* Devices may be unplugged between any two steps.                         *)
(***************************************************************************)
EXTENDS Integers, Sequences, FiniteSets

CONSTANTS
  Models,      \* the product ids lbe_open_device asks for, "mini" among them
  Strangers,   \* other product ids under the vendor's id
  MatchMax,    \* 8: matches kept
  BusMax       \* bound: nodes on the bus

NoPid == "none"     \* no --pid: preferred_pid = 0
Foreign == "foreign"  \* the devices of other vendors

ASSUME TransportAssumption ==
  /\ MatchMax \in Nat /\ MatchMax >= 2
  /\ BusMax \in Nat
  /\ NoPid \notin Models \cup Strangers /\ Foreign \notin Models \cup Strangers

\* A node of /dev, or an entry of libusb's list; access: may be opened.
Node == [pid : Models \cup Strangers \cup {Foreign}, access : BOOLEAN,
         present : BOOLEAN]

VARIABLES
  platform,    \* "linux" or "windows"
  preferred,   \* preferred_pid
  bus,         \* the nodes, in the order readdir or libusb gives
  pc,          \* "start", "list", "scan", "choose", "opened", "up", "exit"
  pos,         \* the next node to look at
  matches,     \* matches, match_idx: positions of the nodes kept
  handles,     \* positions of the nodes held open
  list,        \* libusb's device list: the positions in it
  ref,         \* libusb_ref
  unit,        \* the node behind the lbe_device, or Nowhere
  rival,       \* whether another device matched that could be opened as
               \* well (for the properties)
  claimed,     \* lbe_transport.interface_claimed
  held         \* whether the system has given this process the interface

scan == <<bus, pos, matches>>
hold == <<handles, list, ref, claimed, held>>
tvars == <<platform, preferred, pc, scan, hold, unit, rival>>

Nowhere == [pid |-> NoPid, access |-> FALSE, present |-> FALSE]

Buses == UNION {[1..n -> Node] : n \in 0..BusMax}

TransportInit ==
  /\ platform \in {"linux", "windows"}
  /\ preferred \in Models \cup Strangers \cup {NoPid}
  /\ bus \in Buses /\ \A i \in DOMAIN bus : bus[i].present
  /\ pc = "start"
  /\ pos = 1 /\ matches = <<>> /\ list = {}
  /\ handles = {} /\ ref = 0 /\ claimed = FALSE /\ held = FALSE
  /\ unit = Nowhere /\ rival = FALSE

\* Mutant: an error path forgets its reference.
DropRefNever == UNCHANGED ref

\* if (libusb_ref > 0 && --libusb_ref == 0) libusb_exit(NULL)
DropRef == ref' = IF ref > 0 THEN ref - 1 ELSE 0

\* opendir.
OpenDir ==
  /\ pc = "start" /\ platform = "linux"
  /\ pc' \in {"scan", "exit"}
  /\ UNCHANGED <<platform, preferred, scan, hold, unit, rival>>

\* libusb_init, which may fail.
InitUsb ==
  /\ pc = "start" /\ platform = "windows"
  /\ \/ pc' = "exit" /\ UNCHANGED ref
     \/ pc' = "list" /\ ref' = ref + 1
  /\ UNCHANGED <<platform, preferred, scan, handles, list, claimed, held, unit,
                 rival>>

ListUsb ==
  /\ pc = "list"
  /\ \/ pc' = "exit" /\ DropRef /\ UNCHANGED list
     \/ /\ pc' = "scan" /\ list' = {i \in DOMAIN bus : bus[i].present}
        /\ UNCHANGED ref
  /\ UNCHANGED <<platform, preferred, scan, handles, claimed, held, unit, rival>>

Matching(n) ==
  /\ n.pid # Foreign
  /\ IF preferred # NoPid THEN n.pid = preferred ELSE n.pid \in Models

Openable(n) == n.present /\ n.access

\* One iteration of the search.  probe_hidraw keeps what it could open and
\* matches; the search in libusb's list opens nothing.
Search ==
  /\ pc = "scan" /\ pos <= Len(bus) /\ Len(matches) < MatchMax
  /\ pos' = pos + 1
  /\ LET found == /\ Matching(bus[pos])
                  /\ IF platform = "linux" THEN Openable(bus[pos])
                                           ELSE pos \in list
     IN  /\ matches' = IF found THEN Append(matches, pos) ELSE matches
         /\ handles' = IF found /\ platform = "linux" THEN handles \cup {pos}
                                                      ELSE handles
  /\ UNCHANGED <<platform, preferred, bus, pc, list, ref, claimed, held, unit,
                 rival>>

SearchEnds ==
  /\ pc = "scan" /\ (pos > Len(bus) \/ Len(matches) = MatchMax)
  /\ pc' = "choose"
  /\ UNCHANGED <<platform, preferred, scan, hold, unit, rival>>

\* Mutant: the first match is opened whatever else there is.
NoChoiceEmpty == matches = <<>>

NoChoice == matches = <<>> \/ (Len(matches) > 1 /\ preferred = NoPid)

\* The search is over: its locals go, and no other node matters again.
Forget == bus' = <<>> /\ pos' = 1 /\ matches' = <<>>

\* Every way lbe_transport_open fails from here on: what it holds is closed.
GiveUpOpen ==
  /\ pc' = "exit"
  /\ Forget
  /\ handles' = {} /\ list' = {}
  /\ DropRef
  /\ UNCHANGED <<platform, preferred, claimed, held, unit, rival>>

Refuse == pc = "choose" /\ NoChoice /\ GiveUpOpen

\* Mutant: the siblings are left open.
KeepFirstOnly(h) == h \cup {matches[1]}

KeepFirst(h) == {matches[1]}

\* Keep, or under Windows open, the first match; close the others.
Choose ==
  /\ pc = "choose" /\ ~ NoChoice
  /\ platform = "windows" => Openable(bus[matches[1]])
  /\ pc' = "opened"
  /\ handles' = KeepFirst(handles) /\ list' = {}
  /\ UNCHANGED <<platform, preferred, scan, ref, claimed, held, unit, rival>>

\* libusb_open fails, or there is no memory.
ChooseFails == pc = "choose" /\ ~ NoChoice /\ GiveUpOpen

\* Mutants: the flag is left set; the interface stays claimed.
ReleaseForgetful == held' = FALSE /\ UNCHANGED claimed
CloseHolding ==
  /\ handles' = {}
  /\ claimed' = FALSE /\ UNCHANGED held
  /\ DropRef

Claim(u) ==
  \/ UNCHANGED <<claimed, held>>    \* Linux, claimed already, or a failure
  \/ /\ platform = "windows" /\ ~ claimed /\ u.present
     /\ claimed' = TRUE /\ held' = TRUE

Release == claimed' = FALSE /\ held' = (held /\ ~ claimed)

Close ==
  /\ handles' = {}
  /\ Release
  /\ DropRef

\* lbe_open_device: no memory, or the operations are chosen; the Mini's init
\* claims the interface for good.
OpenFails ==
  /\ pc = "opened" /\ pc' = "exit"
  /\ Forget
  /\ Close
  /\ UNCHANGED <<platform, preferred, list, unit, rival>>

OpenDevice ==
  /\ pc = "opened" /\ pc' = "up"
  /\ unit' = bus[matches[1]]
  /\ rival' = \E i \in DOMAIN bus \ {matches[1]} :
                Matching(bus[i]) /\ Openable(bus[i])
  /\ Forget
  /\ IF unit'.pid = "mini" THEN Claim(unit') ELSE UNCHANGED <<claimed, held>>
  /\ UNCHANGED <<platform, preferred, handles, list, ref>>

\* lbe_close_device at the end of main.
CloseDevice ==
  /\ pc = "up" /\ pc' = "exit"
  /\ Close
  /\ UNCHANGED <<platform, preferred, scan, list, unit, rival>>

\* The process is killed: the system takes back what it held.
Killed ==
  /\ pc = "up" /\ pc' = "exit"
  /\ handles' = {} /\ list' = {} /\ ref' = 0
  /\ claimed' = FALSE /\ held' = FALSE
  /\ UNCHANGED <<platform, preferred, scan, unit, rival>>

\* The command is given again: a process with a new --pid sees the device the
\* last one used, plugged in again if need be.
Restart ==
  /\ pc = "exit" /\ unit # Nowhere
  /\ pc' = "start"
  /\ preferred' \in {unit.pid, NoPid}
  /\ bus' = <<[unit EXCEPT !.present = TRUE]>>
  /\ unit' = Nowhere /\ rival' = FALSE
  /\ UNCHANGED <<platform, pos, matches, hold>>

\* A node disappears during the search.
NodeGone ==
  /\ pc \in {"list", "scan", "choose", "opened"}
  /\ \E i \in DOMAIN bus :
       bus[i].present /\ bus' = [bus EXCEPT ![i].present = FALSE]
  /\ UNCHANGED <<platform, preferred, pc, pos, matches, hold, unit, rival>>

\* The device in use is unplugged.
UnitGone ==
  /\ pc = "up" /\ unit.present
  /\ unit' = [unit EXCEPT !.present = FALSE]
  /\ UNCHANGED <<platform, preferred, pc, scan, hold, rival>>

Opening == \/ OpenDir \/ InitUsb \/ ListUsb \/ Search \/ SearchEnds \/ Refuse
           \/ Choose \/ ChooseFails \/ OpenFails \/ OpenDevice

-----------------------------------------------------------------------------

\* The device used is the one asked for: of the product --pid names or, without
\* one, of a supported product and the only such device that could have been
\* used (lbe_transport_linux.c:141, lbe_transport_windows.c:125).
RightDevice ==
  pc = "up" =>
    IF preferred # NoPid THEN unit.pid = preferred
                         ELSE unit.pid \in Models /\ ~ rival

\* Whatever failed on the way, a process that has closed its device or failed
\* to open one holds no handle, list, interface or libusb context; while it runs
\* it holds exactly one handle, and the claim flag tells the truth.
NothingLeaks ==
  /\ pc = "exit" => handles = {} /\ list = {} /\ ref = 0 /\ ~ held
  /\ pc = "up" => Cardinality(handles) = 1 /\ list = {}
  /\ claimed = held
  /\ ref = 0 /\ platform = "windows" => handles = {} /\ ~ held
=============================================================================
