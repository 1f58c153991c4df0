------------------------------ MODULE Entries ------------------------------
(***************************************************************************)
(* From discovery to a config entry and to an action on its device: the    *)
(* config flow with its awaited read of the controller, several flows at   *)
(* once, the options flow, and the choice of the coordinator that the      *)
(* set_program action makes for the device it is given.                    *)
(*                                                                         *)
(* Home Assistant's part, marked external in the map: a flow belongs to    *)
(* its unique id, and an entry that is created ends the other flows of its *)
(* unique id. It ends them in their forms at once, but not a read that is  *)
(* under way: that becomes an orphan, whose result nobody takes.           *)
(* Every identified controller has the same editing entities.              *)
(***************************************************************************)
EXTENDS Naturals, FiniteSets

CONSTANTS Flow,          \* bound: the flows that may be open at a time
          Address,       \* the controllers, by their Bluetooth address
          Pin, PinOf,    \* PINs of four digits, and each controller's
          Malformed,     \* any other input for a PIN
          Serial,        \* serial numbers, one of them "unknown"
          DefaultTime,   \* run times, in seconds: the default, and what may be
          RunTimes,      \*   entered, in half seconds
          User, Entity,  \* who calls the action, and the entities that edit a program
          Granted,       \* the entities each user may control
          None           \* no value, and the user of an automation

ASSUME EntriesAssumption ==
    /\ PinOf \in [Address -> Pin]
    /\ Malformed \notin Pin /\ None \notin Address \cup Pin \cup Serial \cup User
    /\ Granted \in [User -> SUBSET Entity]
    /\ DefaultTime \in Nat /\ RunTimes \subseteq Nat
    /\ IsFiniteSet(Address)

VARIABLES
    serial,      \* of each controller, as it reports it
    flow,        \* the open flows
    entries,     \* of each address, the PIN of its entry, None without one
    loaded,      \* addresses whose entry is loaded
    identified,  \* of each address, the serial number in its coordinator's data
    devices,     \* the device registry: serial numbers and the addresses of their entries
    runTime,     \* of each entry, the option run_time
    asked,       \* history: the last run time the options flow took, in half seconds
    edited       \* history: device, controller and caller of the edit just begun

lifecycle == <<loaded, identified, devices>>
options   == <<runTime, asked>>
vars == <<serial, flow, entries, lifecycle, options, edited>>

Gone == [at |-> "gone", source |-> None, offered |-> {}, address |-> None, pin |-> None]

FlowState == [at      : {"gone", "form", "reading", "orphan"},
              source  : {"bluetooth", "user", None},
              offered : SUBSET Address,
              address : Address \cup {None},
              pin     : Pin \cup {None}]

TypeOK ==
    /\ serial \in [Address -> Serial]
    /\ flow \in [Flow -> FlowState]
    /\ entries \in [Address -> Pin \cup {None}]
    /\ loaded \in SUBSET {a \in Address : entries[a] # None}
    /\ identified \in [Address -> Serial \cup {None}]
    /\ devices \in SUBSET (Serial \X {a \in Address : entries[a] # None})
    /\ runTime \in [Address -> Nat] /\ asked \in [Address -> Nat]
    /\ edited \in (Serial \X Address \X (User \cup {None})) \cup {None}

Init ==
    /\ serial \in [Address -> Serial]
    /\ flow = [f \in Flow |-> Gone]
    /\ entries = [a \in Address |-> None]
    /\ loaded = {}
    /\ identified = [a \in Address |-> None]
    /\ devices = {}
    /\ runTime = [a \in Address |-> DefaultTime]
    /\ asked = [a \in Address |-> 2 * DefaultTime]
    /\ edited = None
-----------------------------------------------------------------------------
(* The config flow *)

Becomes(f, state) == flow' = [flow EXCEPT ![f] = state]

InProgress(a) == \E f \in Flow : flow[f].at \in {"form", "reading"} /\ flow[f].address = a

\* async_step_bluetooth: of a configured controller, or one that has a flow, a discovery
\* is dropped.
Discover(f, a) ==
    /\ flow[f] = Gone
    /\ entries[a] = None
    /\ ~InProgress(a)
    /\ Becomes(f, [at |-> "form", source |-> "bluetooth", offered |-> {a},
                   address |-> a, pin |-> None])
    /\ edited' = None
    /\ UNCHANGED <<serial, entries, lifecycle, options>>

\* async_step_user shows the controllers in reach that are not configured now.
StartUserFlow(f) ==
    /\ flow[f] = Gone
    /\ \E offered \in SUBSET {a \in Address : entries[a] = None} \ {{}} :
          Becomes(f, [at |-> "form", source |-> "user", offered |-> offered,
                      address |-> None, pin |-> None])
    /\ edited' = None
    /\ UNCHANGED <<serial, entries, lifecycle, options>>

\* Mutant: what the form offers is not checked again.
NeverAborts(f, a) == FALSE

\* What a user flow offers may have been configured since.
AbortsConfigured(f, a) == flow[f].source = "user" /\ entries[a] # None

\* Mutant: any input is taken for a PIN.
AnyPin(pin) == TRUE

WellFormed(pin) == pin # Malformed

\* Input for a form. A PIN that is none shows it again, any other is tried.
Submit(f, a, pin) ==
    /\ flow[f].at = "form"
    /\ a \in flow[f].offered
    /\ \/ AbortsConfigured(f, a) /\ Becomes(f, Gone)
       \/ /\ ~AbortsConfigured(f, a) /\ WellFormed(pin)
          /\ Becomes(f, [flow[f] EXCEPT !.address = a, !.at = "reading", !.pin = pin])
       \/ /\ ~AbortsConfigured(f, a) /\ ~WellFormed(pin)
          /\ Becomes(f, [flow[f] EXCEPT !.address = a])
    /\ edited' = None
    /\ UNCHANGED <<serial, entries, lifecycle, options>>

Ended(f) == IF flow[f].at = "reading" THEN [flow[f] EXCEPT !.at = "orphan"] ELSE Gone

\* Only a controller that took the PIN is read.
ReadsWith(f) == flow[f].pin = PinOf[flow[f].address]

\* The read succeeds: the entry is created and loaded.
CreateEntry(f) ==
    /\ flow[f].at = "reading"
    /\ ReadsWith(f)
    /\ LET a == flow[f].address IN
          /\ entries' = [entries EXCEPT ![a] = flow[f].pin]
          /\ loaded' = loaded \cup {a}
          /\ identified' = [identified EXCEPT ![a] = None]
          /\ flow' = [g \in Flow |-> IF g = f THEN Gone
                                     ELSE IF flow[g].address = a THEN Ended(g)
                                     ELSE flow[g]]
    /\ edited' = None
    /\ UNCHANGED <<serial, devices, options>>

\* invalid_auth, cannot_connect or unknown: the form is shown again.
ReadFails(f) ==
    /\ flow[f].at = "reading"
    /\ Becomes(f, [flow[f] EXCEPT !.at = "form", !.pin = None])
    /\ edited' = None
    /\ UNCHANGED <<serial, entries, lifecycle, options>>

\* The read of a flow that is no more ends.
OrphanEnds(f) ==
    /\ flow[f].at = "orphan"
    /\ Becomes(f, Gone)
    /\ edited' = None
    /\ UNCHANGED <<serial, entries, lifecycle, options>>

CloseFlow(f) ==
    /\ flow[f].at \in {"form", "reading"}
    /\ Becomes(f, Ended(f))
    /\ edited' = None
    /\ UNCHANGED <<serial, entries, lifecycle, options>>
-----------------------------------------------------------------------------
(* Entries *)

Load(a) ==
    /\ entries[a] # None
    /\ a \notin loaded
    /\ loaded' = loaded \cup {a}
    /\ identified' = [identified EXCEPT ![a] = None]
    /\ edited' = None
    /\ UNCHANGED <<serial, flow, entries, devices, options>>

Unload(a) ==
    /\ a \in loaded
    /\ loaded' = loaded \ {a}
    /\ edited' = None
    /\ UNCHANGED <<serial, flow, entries, identified, devices, options>>

\* A read succeeds. Its entities put the entry into the device of that serial number.
Identify(a) ==
    /\ a \in loaded
    /\ identified[a] = None
    /\ identified' = [identified EXCEPT ![a] = serial[a]]
    /\ devices' = devices \cup {<<serial[a], a>>}
    /\ edited' = None
    /\ UNCHANGED <<serial, flow, entries, loaded, options>>

\* The user removes an entry, and with it its options and its place in the devices.
Remove(a) ==
    /\ entries[a] # None
    /\ entries' = [entries EXCEPT ![a] = None]
    /\ loaded' = loaded \ {a}
    /\ identified' = [identified EXCEPT ![a] = None]
    /\ devices' = {d \in devices : d[2] # a}
    /\ runTime' = [runTime EXCEPT ![a] = DefaultTime]
    /\ asked' = [asked EXCEPT ![a] = 2 * DefaultTime]
    /\ edited' = None
    /\ UNCHANGED <<serial, flow>>

\* Mutant: a fraction of a second is cut off.
AcceptsAny(time) == TRUE

\* The number selector lets fractions pass.
Accepts(time) == time % 2 = 0

SetOptions(a, time) ==
    /\ entries[a] # None
    /\ Accepts(time)
    /\ runTime' = [runTime EXCEPT ![a] = time \div 2]
    /\ asked' = [asked EXCEPT ![a] = time]
    /\ edited' = None
    /\ UNCHANGED <<serial, flow, entries, lifecycle>>
-----------------------------------------------------------------------------
(* The action set_program *)

\* Mutant: an entry that has been unloaded still counts.
CandidatesUnloaded(s) ==
    {a \in Address : <<s, a>> \in devices /\ identified[a] = s}

\* Of a device's entries those that are loaded and identify themselves as it.
Candidates(s) ==
    {a \in Address : <<s, a>> \in devices /\ a \in loaded /\ identified[a] = s}

\* A user must be allowed to control every editing entity of the program, of which
\* there must be one.
MayEdit(user) == user \in {None} \cup {u \in User : Granted[u] = Entity /\ Entity # {}}

SetProgram(s, user) ==
    /\ Cardinality(Candidates(s)) = 1
    /\ MayEdit(user)
    /\ \E a \in Candidates(s) : edited' = <<s, a, user>>
    /\ UNCHANGED <<serial, flow, entries, lifecycle, options>>

Next ==
    \/ \E f \in Flow :
          \/ \E a \in Address : Discover(f, a)
          \/ StartUserFlow(f)
          \/ \E a \in Address, p \in Pin \cup {Malformed} : Submit(f, a, p)
          \/ CreateEntry(f) \/ ReadFails(f) \/ OrphanEnds(f) \/ CloseFlow(f)
    \/ \E a \in Address :
          \/ Load(a) \/ Unload(a) \/ Identify(a) \/ Remove(a)
          \/ \E time \in RunTimes : SetOptions(a, time)
    \/ \E s \in Serial, user \in User \cup {None} : SetProgram(s, user)

Spec == Init /\ [][Next]_vars
-----------------------------------------------------------------------------
(* Properties *)

\* No flow that may still create an entry, and so tell its user of success, reads a
\* controller that is configured, so that none replaces an entry: neither a form shown
\* nor a read begun before the controller was configured does. An orphan may read it,
\* under a lock of its own (HunterNodeConfigFlow, _async_create_for_device).
FlowsReadUnconfigured ==
    \A f \in Flow : flow[f].at = "reading" => entries[flow[f].address] = None

\* The option that is stored is what was entered, never less (async_step_init).
RunTimeAsAsked == \A a \in Address : 2 * runTime[a] = asked[a]

\* The action edits a controller that is configured and loaded, has the serial number
\* of the device it was given, and is the only one loaded that has shown it; a user who
\* may control some of its editing entities only edits nothing (async_set_program in
\* services.py).
ActionFindsDevice ==
    [][edited' # None =>
        LET s == edited'[1]
            a == edited'[2]
            user == edited'[3]
        IN  /\ entries[a] # None /\ a \in loaded
            /\ serial[a] = s
            /\ \A b \in loaded : identified[b] = s => b = a
            /\ user # None => Entity \subseteq Granted[user]]_vars
=============================================================================
