------------------------------ MODULE Startup ------------------------------
(***************************************************************************)
(* One config entry from its setup to its unload, again and again: who     *)
(* listens to the coordinator, when its first read and its polls run, when *)
(* the controller's entities are built, and what two sensors show that     *)
(* must work without a successful read: the signal sensor, fed from        *)
(* advertisements alone, and the sensor of the program-write status.       *)
(*                                                                         *)
(* Reads and edits hold the operation lock and are one step to begin and   *)
(* one to end (module Coordinator has the rest). An edit that outlives its *)
(* entry publishes to nobody and is left out here. Entities the user may   *)
(* have disabled do not count as listeners. Setting up takes less than the *)
(* update interval.                                                        *)
(***************************************************************************)
EXTENDS Naturals

CONSTANTS Platform, \* the platforms the entry is forwarded to
          Sensor,   \* the one of the two sensors
          Setups,   \* bound: how often the entry is set up
          MaxTime   \* bound: when an advertisement was received, from 1

ASSUME StartupAssumption == Sensor \in Platform /\ Setups \in Nat /\ MaxTime \in Nat

VARIABLES
    entry,        \* the state of the config entry
    setups,
    \* the coordinator of the last setup
    listeners,    \* platforms whose add_when_ready listens to it
    data,         \* it has data
    success,      \* last_update_success
    timer,        \* the next poll is scheduled
    operation,    \* what holds the operation lock
    status,       \* schedule_write_status
    \* the platforms
    up,           \* set up
    built,        \* how often each has built the controller's entities
    statusShown,  \* the last state the status sensor wrote
    \* advertisements, by their time, 0 before the first
    cached,       \* Home Assistant's last one
    observed,     \* HunterNodeAdvertisements.data
    signalAdded,  \* the signal sensor exists
    signalShown   \* the last state it wrote, 0 while unavailable

lifecycle   == <<entry, setups>>
coordinator == <<listeners, data, success, timer, operation, status>>
entities    == <<up, built, statusShown>>
signal      == <<observed, signalAdded, signalShown>>
vars == <<lifecycle, coordinator, entities, cached, signal>>

Time == 0..MaxTime
Status == {"not_requested", "writing", "verified", "unverified", "failed"}

TypeOK ==
    /\ entry \in {"unloaded", "setup", "loaded", "unloading"}
    /\ setups \in 0..Setups
    /\ listeners \in SUBSET Platform /\ up \in SUBSET Platform
    /\ data \in BOOLEAN /\ success \in BOOLEAN /\ timer \in BOOLEAN
    /\ operation \in {"none", "read", "edit"}
    /\ status \in Status /\ statusShown \in Status \cup {"none"}
    /\ built \in [Platform -> Nat]
    /\ cached \in Time /\ observed \in Time /\ signalShown \in Time
    /\ signalAdded \in BOOLEAN
    /\ entry \in {"setup", "unloaded"} => operation = "none"
    /\ status = "writing" /\ entry # "unloaded" => operation = "edit"

Init ==
    /\ entry = "unloaded" /\ setups = 0
    /\ listeners = {} /\ up = {}
    /\ data = FALSE /\ success = FALSE /\ timer = FALSE
    /\ operation = "none"
    /\ status = "not_requested" /\ statusShown = "none"
    /\ built = [p \in Platform |-> 0]
    /\ cached = 0 /\ observed = 0 /\ signalShown = 0
    /\ signalAdded = FALSE
-----------------------------------------------------------------------------
(* What the coordinator's listeners do *)

\* Mutant: nothing remembers that entities have been built.
MayBuildAgain(p) == data' /\ success'

\* add_when_ready
MayBuild(p) == data' /\ success' /\ built[p] = 0

BuildReady(platforms) ==
    built' = [p \in Platform |-> IF p \in platforms /\ MayBuild(p) THEN built[p] + 1
                                                                  ELSE built[p]]

\* Mutant: a platform stops listening when it has built its entities.
RetainedUntilBuilt(p) == built'[p] = 0

\* The listener stays until the entry is unloaded, also without entities.
Retained(p) == TRUE

\* All listeners are called, in the new state of the coordinator; the status sensor
\* exists when its platform has built it and has not been unloaded.
Notify ==
    /\ BuildReady(listeners)
    /\ listeners' = {p \in listeners : Retained(p)}
    /\ statusShown' = IF Sensor \in up /\ built'[Sensor] > 0 THEN status' ELSE statusShown

Quiet == UNCHANGED <<built, listeners, statusShown>>
-----------------------------------------------------------------------------
(* Setup and unload *)

\* Mutant: an observation is taken as it comes.
ObserveAny(time) ==
    /\ observed' = IF time # 0 THEN time ELSE observed
    /\ signalShown' = IF signalAdded THEN observed' ELSE signalShown

\* async_observe: only a newer observation is published.
Observe(time) ==
    /\ observed' = IF time > observed THEN time ELSE observed
    /\ signalShown' = IF signalAdded THEN observed' ELSE signalShown

\* A new coordinator, unavailable until it has read (__init__). It listens to
\* advertisements at once: the last one is replayed and sampled.
SetUpEntry ==
    /\ entry = "unloaded"
    /\ setups < Setups
    /\ entry' = "setup"
    /\ setups' = setups + 1
    /\ data' = FALSE /\ success' = FALSE
    /\ status' = "not_requested"
    /\ built' = [p \in Platform |-> 0]
    /\ observed' = cached
    /\ UNCHANGED <<listeners, timer, operation, up, statusShown, cached,
                   signalAdded, signalShown>>

\* A platform listens, and tries at once. The first listener starts the polling.
SetUpPlatform(p) ==
    /\ entry = "setup"
    /\ p \notin up
    /\ up' = up \cup {p}
    /\ listeners' = listeners \cup {p}
    /\ timer' = (timer \/ listeners = {})
    /\ UNCHANGED <<data, success>>
    /\ BuildReady({p})
    /\ UNCHANGED <<lifecycle, operation, status, statusShown, cached, signal>>

\* The signal sensor is added, unconditionally, by a task of its platform.
AddSignal ==
    /\ Sensor \in up
    /\ ~signalAdded
    /\ signalAdded' = TRUE
    /\ signalShown' = observed
    /\ UNCHANGED <<lifecycle, coordinator, entities, cached, observed>>

\* The first read goes on in the background.
FinishSetup ==
    /\ entry = "setup"
    /\ up = Platform
    /\ entry' = "loaded"
    /\ operation' = "read"
    /\ timer' = FALSE
    /\ UNCHANGED <<setups, listeners, data, success, status, entities, cached, signal>>

\* Unloading the platforms removes the entities, and takes a while.
UnloadPlatforms ==
    /\ entry = "loaded"
    /\ entry' = "unloading"
    /\ up' = {}
    /\ statusShown' = "none"
    /\ signalAdded' = FALSE
    /\ signalShown' = 0
    /\ UNCHANGED <<setups, coordinator, built, cached, observed>>

\* Then the entry calls what async_on_unload collected and cancels its tasks.
FinishUnload ==
    /\ entry = "unloading"
    /\ entry' = "unloaded"
    /\ listeners' = {}
    /\ timer' = FALSE
    /\ operation' = "none"
    /\ UNCHANGED <<setups, data, success, status, entities, cached, signal>>
-----------------------------------------------------------------------------
(* Reads and edits *)

Poll ==
    /\ entry \in {"loaded", "unloading"}
    /\ timer
    /\ operation = "none"
    /\ operation' = "read"
    /\ timer' = FALSE
    /\ UNCHANGED <<lifecycle, listeners, data, success, status, entities, cached, signal>>

\* Mutant: a failed read raises ConfigEntryAuthFailed, after which Home Assistant
\* schedules none.
NextPollIfRead(ok) == ok /\ listeners' # {}

\* UpdateFailed: the next poll is scheduled, while anyone listens, also after a failure.
NextPoll(ok) == listeners' # {}

\* A failure is told to the listeners only if there was none before, so that nobody is
\* told of those before the first success.
EndRead(ok) ==
    /\ operation = "read"
    /\ operation' = "none"
    /\ data' = (data \/ ok)
    /\ success' = ok
    /\ UNCHANGED status
    /\ IF ok \/ success THEN Notify ELSE Quiet
    /\ timer' = NextPoll(ok)
    /\ UNCHANGED <<lifecycle, up, cached, signal>>

ReadSucceeds == EndRead(TRUE)
ReadFails == EndRead(FALSE)

\* The action set_program, on a loaded entry that has been read.
BeginEdit ==
    /\ entry = "loaded"
    /\ data
    /\ operation = "none"
    /\ operation' = "edit"
    /\ status' = "writing"
    /\ UNCHANGED <<data, success, timer>>
    /\ Notify
    /\ UNCHANGED <<lifecycle, up, cached, signal>>

EditVerified ==
    /\ status' = "verified"
    /\ success' = TRUE
    /\ Notify
    /\ timer' = (listeners' # {})

\* Mutant: nobody is told that an edit was refused.
EditRefusedQuietly ==
    /\ status' = "failed"
    /\ UNCHANGED <<success, timer>>
    /\ Quiet

EditRefused ==
    /\ status' = "failed"
    /\ UNCHANGED <<success, timer>>
    /\ Notify

\* Mutant: a cancelled edit leaves the status behind.
EditUncaught ==
    /\ UNCHANGED <<status, timer>>
    /\ success' = FALSE
    /\ IF success THEN Notify ELSE Quiet

\* async_set_update_error tells the listeners unless the last update had failed.
EditFails ==
    /\ status' \in {"unverified", "failed"}
    /\ success' = FALSE
    /\ UNCHANGED timer
    /\ IF success THEN Notify ELSE Quiet

EndEdit ==
    /\ operation = "edit"
    /\ operation' = "none"
    /\ UNCHANGED data
    /\ EditVerified \/ EditRefused \/ EditFails
    /\ UNCHANGED <<lifecycle, up, cached, signal>>
-----------------------------------------------------------------------------
(* Advertisements *)

\* One arrives, at some proxy: it need not be newer than the last. Home Assistant
\* tells of it unless only its signal strength differs.
Advertise ==
    /\ \E time \in Time \ {0, cached} :
          /\ cached' = time
          /\ \/ entry # "unloaded" /\ Observe(time)
             \/ UNCHANGED <<observed, signalShown>>
    /\ UNCHANGED <<lifecycle, coordinator, entities, signalAdded>>

\* Mutant: the cache is only sampled until there is an observation.
SampleFirst ==
    /\ entry # "unloaded"
    /\ observed = 0
    /\ Observe(cached)
    /\ UNCHANGED <<lifecycle, coordinator, entities, cached, signalAdded>>

\* Once a second.
Sample ==
    /\ entry # "unloaded"
    /\ Observe(cached)
    /\ UNCHANGED <<lifecycle, coordinator, entities, cached, signalAdded>>

Next ==
    \/ SetUpEntry \/ FinishSetup \/ UnloadPlatforms \/ FinishUnload
    \/ \E p \in Platform : SetUpPlatform(p)
    \/ Poll \/ ReadSucceeds \/ ReadFails
    \/ BeginEdit \/ EndEdit
    \/ AddSignal \/ Advertise \/ Sample

Spec == Init /\ [][Next]_vars

\* Timers fire, setting up and unloading go on, reads and edits end, the signal sensor
\* is enabled, and the controller is not out of reach of every read for ever.
FairSpec ==
    /\ Spec
    /\ \A p \in Platform : WF_vars(SetUpPlatform(p))
    /\ WF_vars(FinishSetup) /\ WF_vars(FinishUnload)
    /\ WF_vars(Poll) /\ WF_vars(ReadFails) /\ SF_vars(ReadSucceeds) /\ WF_vars(EndEdit)
    /\ WF_vars(AddSignal) /\ WF_vars(Sample)
-----------------------------------------------------------------------------
(* Properties *)

\* Every platform gets its entities with the first successful read, whatever failed
\* before it, once in each setup, and none before (async_add_entities_when_ready).
EntitiesWithData ==
    entry # "unloaded" => \A p \in Platform : built[p] = IF data THEN 1 ELSE 0

\* While an entry is loaded its next poll is scheduled or a read is under way, so that
\* failures and disabled entities never end the polling (setup_helpers.py:31, "so
\* polling survives the handover to entities").
PollingSurvives == entry = "loaded" /\ operation # "read" => timer

\* While the controls are available the status sensor shows the status of the last
\* edit (async_set_program, HunterNodeScheduleStatus).
StatusShownWhenAvailable ==
    entry = "loaded" /\ data /\ success => statusShown = status

\* SCHEDULES.md:25, "program-write status remain visible through BLE failures. Write
\* status describes the last requested edit": so it does while they last.
StatusAlwaysShown == entry = "loaded" /\ data => statusShown = status

\* What the signal sensor shows never gets older, though callback and sampler deliver
\* observations twice and out of order (HunterNodeAdvertisements.async_observe).
SignalNeverOlder == [][signalShown' # 0 => signalShown' >= signalShown]_signalShown

\* The entities appear in the end, however many reads fail before.
EntitiesAppear ==
    entry = "loaded" ~> (entry # "loaded" \/ \A p \in Platform : built[p] = 1)

\* An advertisement that stays the last one is shown in the end, even if Home Assistant
\* did not tell of it and every read fails (_async_sample_advertisement).
SignalShownAtLast ==
    \A time \in Time :
        <>[](entry = "loaded" /\ cached = time) => <>[](signalShown >= time)
=============================================================================
