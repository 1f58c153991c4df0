------------------------------ MODULE Watering ------------------------------
(***************************************************************************)
(* Manual watering: valves and the stop button send commands, and what the *)
(* valves show comes from reads alone. A command asks for a refresh when   *)
(* it returns. Home Assistant's debouncer may run it at once, put it off   *)
(* to the end of a cooldown, or drop it because a refresh is running       *)
(* already, and every new read cancels one that was put off. So whether    *)
(* the valves ever show what a command did depends on the order in which   *)
(* commands and reads get the session lock.                                *)
(*                                                                         *)
(* Locks and failures are those of module Coordinator, for one coordinator *)
(* and without the steps of a session that do not touch station state.     *)
(***************************************************************************)
EXTENDS FifoLock

CONSTANTS Station, \* the stations of the controller
          Poller   \* the task in which Home Assistant polls and runs refreshes put off

ASSUME WateringAssumption ==
    /\ Poller \in Task
    \* no station is taken for another request
    /\ Station \cap {"stop", "edit", "refresh", "deferred", "poll"} = {}

VARIABLES
    running,     \* the controller: stations that water
    sessionLock, opLock,
    refreshing,  \* the task that holds the debouncer's lock
    cooldown,    \* of the debouncer: "over", "on", or "due" for a refresh at its end
    shown,       \* the active stations of coordinator.data
    available,   \* last_update_success
    pc, request, seen, outcome, \* each task: its frame
    latest,      \* history: what became of the last command the controller got
    changed      \* history: watering changed by itself since the last read

debouncer == <<refreshing, cooldown>>
valves    == <<shown, available>>
frame     == <<pc, request, seen, outcome>>
history   == <<latest, changed>>
vars == <<running, sessionLock, opLock, debouncer, valves, frame, history>>

Stop    == "stop"
Edit    == "edit"
Refresh == {"refresh", "deferred", "poll"} \* in the caller, put off, every five minutes
Request == Station \cup {Stop, Edit} \cup Refresh \* a station: start it

IsCommand(t) == request[t] \in Station \cup {Stop}
InSession(t) == pc[t] \in {"connecting", "working", "acking", "closing"}

TypeOK ==
    /\ running \in SUBSET Station
    /\ sessionLock \in Lock /\ opLock \in Lock
    /\ refreshing \in Task \cup {Nobody}
    /\ cooldown \in {"over", "on", "due"}
    /\ shown \in SUBSET Station
    /\ available \in BOOLEAN
    /\ pc \in [Task -> {"idle", "opWait", "sessionWait", "connecting", "working",
                        "acking", "closing"}]
    /\ request \in [Task -> Request]
    /\ seen \in [Task -> SUBSET Station]
    /\ outcome \in [Task -> {"ok", "invalid", "error", "ambiguous", "cancelled"}]
    /\ latest \in {"read", "sent", "returned", "dropped"}
    /\ changed \in BOOLEAN
    /\ \A t \in Task :
          /\ InSession(t) => sessionLock.owner = t
          /\ refreshing = t <=> request[t] \in Refresh /\ pc[t] # "idle"

\* Valves and buttons exist since the first successful read.
Init ==
    /\ running \in SUBSET Station
    /\ shown = running
    /\ available = TRUE
    /\ sessionLock = FreeLock /\ opLock = FreeLock
    /\ refreshing = Nobody
    /\ cooldown = "over"
    /\ pc = [t \in Task |-> "idle"]
    /\ request = [t \in Task |-> "poll"]
    /\ seen = [t \in Task |-> {}]
    /\ outcome = [t \in Task |-> "ok"]
    /\ latest = "read"
    /\ changed = FALSE
-----------------------------------------------------------------------------
(* Calls *)

Goto(t, where) == pc' = [pc EXCEPT ![t] = where]

\* A poll, refresh or edit asks for the operation lock and then for the session
\* lock, which is in state lock by now.
BeginRead(t, lock) ==
    /\ opLock' = Acquire(opLock, t)
    /\ IF opLock.owner = Nobody
       THEN Goto(t, "sessionWait") /\ sessionLock' = Acquire(lock, t)
       ELSE Goto(t, "opWait") /\ sessionLock' = lock

\* Opening a valve or the action start_watering starts its station; closing any
\* valve, or the button, stops all. Neither takes the operation lock.
Command(t, r) ==
    /\ t # Poller
    /\ pc[t] = "idle"
    /\ request' = [request EXCEPT ![t] = r]
    /\ sessionLock' = Acquire(sessionLock, t)
    /\ Goto(t, "sessionWait")
    /\ UNCHANGED <<running, opLock, debouncer, valves, seen, outcome, history>>

EditProgram(t) ==
    /\ t # Poller
    /\ pc[t] = "idle"
    /\ request' = [request EXCEPT ![t] = Edit]
    /\ BeginRead(t, sessionLock)
    /\ UNCHANGED <<running, debouncer, valves, seen, outcome, history>>

\* _async_refresh, in the task t: it cancels the cooldown and what was put off.
RunRefresh(t, kind, lock) ==
    /\ refreshing = Nobody
    /\ refreshing' = t
    /\ cooldown' = "over"
    /\ request' = [request EXCEPT ![t] = kind]
    /\ BeginRead(t, lock)

\* The timer of the update interval, and the end of a cooldown.
Poll ==
    /\ pc[Poller] = "idle"
    /\ RunRefresh(Poller, "poll", sessionLock)
    /\ UNCHANGED <<running, valves, seen, outcome, history>>

CooledDown ==
    \/ /\ cooldown = "on"
       /\ cooldown' = "over"
       /\ UNCHANGED <<running, sessionLock, opLock, refreshing, valves, frame, history>>
    \/ /\ cooldown = "due"
       /\ pc[Poller] = "idle"
       /\ RunRefresh(Poller, "deferred", sessionLock)
       /\ UNCHANGED <<running, valves, seen, outcome, history>>
-----------------------------------------------------------------------------
(* Sessions *)

EnterOperation(t) ==
    /\ pc[t] = "opWait"
    /\ opLock.owner = t
    /\ Goto(t, "sessionWait")
    /\ sessionLock' = Acquire(sessionLock, t)
    /\ UNCHANGED <<running, opLock, debouncer, valves, request, seen, outcome, history>>

Connect(t) ==
    /\ \/ pc[t] = "sessionWait" /\ sessionLock.owner = t /\ Goto(t, "connecting")
       \/ pc[t] = "connecting" /\ Goto(t, "working")
    /\ UNCHANGED <<running, sessionLock, opLock, debouncer, valves,
                   request, seen, outcome, history>>

\* The controller gets a command. It starts the station, with or without stopping
\* the others, or stops all, or refuses.
Deliver(t) ==
    /\ pc[t] = "working"
    /\ IsCommand(t)
    /\ Goto(t, "acking")
    /\ running' \in {running} \cup (IF request[t] = Stop THEN {{}}
                                    ELSE {r \in SUBSET Station : request[t] \in r})
    /\ latest' = "sent"
    /\ UNCHANGED <<sessionLock, opLock, debouncer, valves, request, seen, outcome, changed>>

Close(t, result) ==
    /\ Goto(t, "closing")
    /\ outcome' = [outcome EXCEPT ![t] = result]

\* Status 0, or another (_require_success).
Answer(t) ==
    /\ pc[t] = "acking"
    /\ \E result \in {"ok", "error"} : Close(t, result)
    /\ UNCHANGED <<running, sessionLock, opLock, debouncer, valves, request, seen, history>>

\* Section_State, the last answer of every read; an edit may be refused before.
ReadState(t) ==
    /\ pc[t] = "working"
    /\ ~IsCommand(t)
    /\ \/ /\ Close(t, "ok")
          /\ seen' = [seen EXCEPT ![t] = running]
          /\ latest' = "read"
          /\ changed' = FALSE
       \/ /\ request[t] = Edit
          /\ Close(t, "invalid")
          /\ UNCHANGED <<seen, history>>
    /\ UNCHANGED <<running, sessionLock, opLock, debouncer, valves, request>>

\* An exception in the session: at the login, or in a transaction. Once the request of
\* a start is under way nobody knows whether it arrived.
Fail(t) ==
    /\ \/ pc[t] = "working" /\ Close(t, "error")
       \/ pc[t] = "acking" /\ request[t] = Stop /\ Close(t, "error")
       \/ pc[t] \in {"working", "acking"} /\ request[t] \in Station /\ Close(t, "ambiguous")
    /\ UNCHANGED <<running, sessionLock, opLock, debouncer, valves, request, seen, history>>
-----------------------------------------------------------------------------
(* Ends *)

Return(t) ==
    /\ Goto(t, "idle")
    /\ request' = [request EXCEPT ![t] = "poll"]
    /\ seen' = [seen EXCEPT ![t] = {}]

\* Mutant: only an acknowledged command is followed by a refresh.
OwesWhenAcknowledged(t, result) == result = "ok"

\* async_start_station and async_stop_all
OwesRefresh(t, result) == result \in {"ok", "ambiguous"}

\* async_request_refresh: put off during a cooldown, needless while one runs.
RequestRefresh(t, lock) ==
    \/ /\ cooldown # "over"
       /\ cooldown' = "due"
       /\ Return(t)
       /\ sessionLock' = lock
       /\ UNCHANGED <<opLock, refreshing>>
    \/ /\ cooldown = "over"
       /\ refreshing # Nobody
       /\ Return(t)
       /\ sessionLock' = lock
       /\ UNCHANGED <<opLock, debouncer>>
    \/ /\ cooldown = "over"
       /\ RunRefresh(t, "refresh", lock)
       /\ UNCHANGED seen

EndCommand(t, result, lock) ==
    /\ IF OwesRefresh(t, result)
       THEN RequestRefresh(t, lock)
       ELSE /\ Return(t)
            /\ sessionLock' = lock
            /\ UNCHANGED <<opLock, debouncer>>
    /\ latest' = IF result \in {"ok", "ambiguous"} /\ latest # "read" THEN "returned"
                                                                    ELSE latest
    /\ UNCHANGED <<valves, changed>>

\* Mutant: a failure leaves the entities available.
PublishKeepsData(t, result, harmless) ==
    /\ shown' = IF result = "ok" THEN seen[t] ELSE shown
    /\ available' = TRUE

\* What was read is published; a failure, unless harmless, withdraws what is shown.
Publish(t, result, harmless) ==
    IF result = "ok" THEN shown' = seen[t] /\ available' = TRUE
                     ELSE available' = (available /\ result = harmless) /\ UNCHANGED shown

\* A refresh publishes what it read or the failure; the cancellation of the caller
\* it runs in leaves everything as it was. It is followed by a cooldown, a poll is not.
EndRefresh(t, result, lock) ==
    /\ Publish(t, result, "cancelled")
    /\ latest' = IF result = "cancelled" THEN "dropped" ELSE latest
    /\ refreshing' = Nobody
    /\ cooldown' = IF request[t] = "poll" THEN cooldown ELSE "on"
    /\ opLock' = Release(opLock)
    /\ sessionLock' = lock
    /\ Return(t)
    /\ UNCHANGED changed

\* An edit publishes what it verified, which cancels the cooldown, or is refused, or
\* withdraws what is shown.
EndEdit(t, result, lock) ==
    /\ Publish(t, result, "invalid")
    /\ cooldown' = IF result = "ok" THEN "over" ELSE cooldown
    /\ opLock' = Release(opLock)
    /\ sessionLock' = lock
    /\ Return(t)
    /\ UNCHANGED <<refreshing, history>>

\* The request of t ended, which leaves the session lock in state lock.
End(t, result, lock) ==
    /\ \/ IsCommand(t) /\ EndCommand(t, result, lock)
       \/ request[t] \in Refresh /\ EndRefresh(t, result, lock)
       \/ request[t] = Edit /\ EndEdit(t, result, lock)
    /\ outcome' = [outcome EXCEPT ![t] = "ok"]
    /\ UNCHANGED running

Disconnected(t) ==
    /\ pc[t] = "closing"
    /\ End(t, outcome[t], Release(sessionLock))

ConnectFails(t) ==
    /\ pc[t] = "connecting"
    /\ End(t, "error", Release(sessionLock))

\* Mutant: a cancelled session gives up its lock before it has disconnected.
CancelReleases(t) ==
    /\ t # Poller
    /\ pc[t] \in {"working", "acking"}
    /\ Close(t, "cancelled")
    /\ sessionLock' = Release(sessionLock)
    /\ UNCHANGED <<running, opLock, debouncer, valves, request, seen, history>>

\* The caller is cancelled: in its session, which is then closed, or before it.
Cancel(t) ==
    /\ t # Poller
    /\ \/ /\ pc[t] \in {"working", "acking", "closing"}
          /\ Close(t, "cancelled")
          /\ UNCHANGED <<running, sessionLock, opLock, debouncer, valves,
                         request, seen, history>>
       \/ /\ pc[t] \in {"sessionWait", "connecting"}
          /\ End(t, "cancelled", Leave(sessionLock, t))

CancelOpWait(t) ==
    /\ t # Poller
    /\ pc[t] = "opWait"
    /\ opLock' = Leave(opLock, t)
    /\ IF request[t] = Edit THEN UNCHANGED <<debouncer, latest>>
       ELSE refreshing' = Nobody /\ cooldown' = "on" /\ latest' = "dropped"
    /\ Return(t)
    /\ UNCHANGED <<running, sessionLock, valves, outcome, changed>>

\* A timer of the controller ends, a program starts, someone presses a button.
Elsewhere ==
    /\ running' \in SUBSET Station \ {running}
    /\ changed' = TRUE
    /\ UNCHANGED <<sessionLock, opLock, debouncer, valves, frame, latest>>

Progress(t) ==
    \/ EnterOperation(t) \/ Connect(t) \/ Deliver(t) \/ Answer(t) \/ ReadState(t)
    \/ Fail(t) \/ Disconnected(t) \/ ConnectFails(t)

Next ==
    \/ \E t \in Task :
          \/ \E r \in Station \cup {Stop} : Command(t, r)
          \/ EditProgram(t)
          \/ Progress(t)
          \/ Cancel(t) \/ CancelOpWait(t)
    \/ Poll \/ CooledDown
    \/ Elsewhere

Spec == Init /\ [][Next]_vars

\* The event loop runs tasks that can go on, and every wait for the controller ends
\* (module Coordinator). The update interval comes round, and the poll waits its turn
\* for the debouncer's lock: nobody overtakes it there, so it begins if it could again
\* and again. Callers that cancel their refreshes forever, each within five minutes of
\* the last, would put it off forever; that is assumed not to happen.
FairSpec ==
    /\ Spec
    /\ \A t \in Task : WF_vars(Progress(t))
    /\ SF_vars(Poll)
-----------------------------------------------------------------------------
(* Properties *)

\* As long as what the valves show is presented as current, a command that was
\* acknowledged, or may have been, is followed by a read: one that was put off and
\* not cancelled since, or one that runs and has not read the state yet or has failed
\* (async_start_station, async_stop_all). The debouncer may drop a request because a
\* refresh is running only as no refresh can be past its read then.
RefreshOwed ==
    latest = "returned" /\ available =>
        \/ cooldown = "due"
        \/ \E t \in Task : /\ request[t] \in Refresh
                           /\ \/ pc[t] \in {"opWait", "sessionWait", "connecting", "working"}
                              \/ pc[t] = "closing" /\ outcome[t] # "ok"

\* A read is under way, or its result about to be published.
ReadPending ==
    \/ cooldown = "due"
    \/ \E t \in Task : \/ request[t] \in Refresh /\ pc[t] # "idle"
                       \/ request[t] = Edit /\ pc[t] = "closing"

\* When no command has been lost, no refresh was cancelled with its caller, nothing
\* but the integration changed the watering, and no read is under way, the valves
\* show the stations that water, or are unavailable (HunterNodeValve.is_closed).
ValvesTruthful ==
    available /\ ~changed /\ latest \in {"read", "returned"} /\ ~ReadPending
        => shown = running

\* Whatever a command did, and however it ended, a read comes that sees it, or the
\* valves become unavailable (the update interval of the coordinator).
CommandsSeen ==
    latest # "read" ~> (latest = "read" \/ ~available)
=============================================================================
