---------------------------- MODULE Coordinator ----------------------------
(***************************************************************************)
(* Everything the integration does over the radio: polls, program edits,   *)
(* station starts and stops, each a task that ends in one BLE session.     *)
(* A config entry may be reloaded while tasks of its old coordinator are   *)
(* still running; generation c of the coordinator has its own operation    *)
(* lock, status and published data, and all generations share the session  *)
(* lock of the controller's address.                                       *)
(*                                                                         *)
(* One action is the code between two awaits. A program is a function from *)
(* fields to values: what a field holds does not matter here, only which   *)
(* fields an edit names (module Schedules has their rules).                *)
(***************************************************************************)
EXTENDS FifoLock

CONSTANTS Generations,   \* bound: how often the entry is set up
          Letter,        \* programs of the controller
          Field, Value,  \* fields of a program and what they hold
          Keep,          \* a field an edit does not name
          None,          \* no value yet
          Requests       \* bound: the requests made of the integration

Generation == 1..Generations
Program    == [Field -> Value]
Programs   == [Letter -> Program]
Change     == [Field -> Value \cup {Keep}]

Poll   == [kind |-> "poll"]
Start  == [kind |-> "start"]
Stop   == [kind |-> "stop"]
Edits  == [kind : {"program"}, letter : Letter, change : Change]
Request == {Poll, Start, Stop} \cup Edits

ASSUME CoordinatorAssumption ==
    /\ Generations \in Nat \ {0}
    /\ Keep \notin Value
    /\ None \notin Programs \cup Request
    /\ Requests \subseteq Request

VARIABLES
    \* the controller, which answers one central at a time
    device,       \* its programs
    \* Home Assistant
    current,      \* the generation the config entry's runtime_data names
    sessionLock,  \* hass.data[DOMAIN][address]
    backups,      \* the program backup store, one program per letter
    \* each generation of the coordinator
    opLock, status, available, data, verifiedAt,
    foreign,      \* history: letters someone else changed since data was read
    \* each task: its frame
    pc, home, request, before, snapshot, loaded, outcome

taskVars  == <<pc, home, request, before, snapshot, loaded, outcome>>
coordVars == <<opLock, status, available, data, verifiedAt, foreign>>
vars == <<device, current, sessionLock, backups, coordVars, taskVars>>

Status  == {"not_requested", "writing", "verified", "unverified", "failed"}
Outcome == {"none", "ok", "invalid", "error", "ambiguous", "unverified", "cancelled"}

\* Where a task waits for the other side of its BLE link, or for the store.
Connected == {"authenticating", "reading", "stating", "loading", "saving", "writing",
              "acking", "verifying", "confirming", "commanding", "disconnecting"}
Where == {"idle", "opWait", "sessionWait", "connecting"} \cup Connected

InSession(t)  == pc[t] \in Connected \cup {"connecting"}
IsCommand(t)  == request[t] \in {Start, Stop}
IsEdit(t)     == request[t] \in Edits
HoldsOp(t)    == /\ pc[t] \in Where \ {"idle", "opWait"}
                 /\ ~IsCommand(t)

Merge(change, raw) ==
    [f \in Field |-> IF change[f] = Keep THEN raw[f] ELSE change[f]]

\* The program an edit asks for, given the configuration it read.
Wanted(t) == Merge(request[t].change, before[t][request[t].letter])

TypeOK ==
    /\ device \in Programs
    /\ current \in Generation
    /\ sessionLock \in Lock
    /\ backups \in [Letter -> Program \cup {None}]
    /\ opLock \in [Generation -> Lock]
    /\ status \in [Generation -> Status]
    /\ available \in [Generation -> BOOLEAN]
    /\ data \in [Generation -> Programs \cup {None}]
    /\ verifiedAt \in [Generation -> Programs \cup {None}]
    /\ foreign \in [Generation -> SUBSET Letter]
    /\ pc \in [Task -> Where]
    /\ home \in [Task -> Generation]
    /\ request \in [Task -> Request \cup {None}]
    /\ before \in [Task -> Programs \cup {None}]
    /\ snapshot \in [Task -> Programs \cup {None}]
    /\ loaded \in [Task -> [Letter -> Program \cup {None}] \cup {None}]
    /\ outcome \in [Task -> Outcome]

Init ==
    /\ device \in Programs
    /\ current = 1
    /\ sessionLock = FreeLock
    /\ backups = [l \in Letter |-> None]
    /\ opLock = [c \in Generation |-> FreeLock]
    /\ status = [c \in Generation |-> "not_requested"]
    /\ available = [c \in Generation |-> FALSE]
    /\ data = [c \in Generation |-> None]
    /\ verifiedAt = [c \in Generation |-> None]
    /\ foreign = [c \in Generation |-> {}]
    /\ pc = [t \in Task |-> "idle"]
    /\ home = [t \in Task |-> 1]
    /\ request = [t \in Task |-> None]
    /\ before = [t \in Task |-> None]
    /\ snapshot = [t \in Task |-> None]
    /\ loaded = [t \in Task |-> None]
    /\ outcome = [t \in Task |-> "none"]
-----------------------------------------------------------------------------
(* Frames *)

Goto(t, where) == pc' = [pc EXCEPT ![t] = where]

\* The session is over, or its work failed: disconnect and then report result.
Disconnect(t, result) ==
    /\ Goto(t, "disconnecting")
    /\ outcome' = [outcome EXCEPT ![t] = result]

ClearFrame(t) ==
    /\ before' = [before EXCEPT ![t] = None]
    /\ snapshot' = [snapshot EXCEPT ![t] = None]
    /\ loaded' = [loaded EXCEPT ![t] = None]
    /\ outcome' = [outcome EXCEPT ![t] = "none"]

Return(t) ==
    /\ Goto(t, "idle")
    /\ request' = [request EXCEPT ![t] = None]
    /\ ClearFrame(t)
-----------------------------------------------------------------------------
(* Requests, and the locks they take *)

\* Mutant: every operation shows the status "writing".
EnterWriting(t, c, r) ==
    /\ Goto(t, "sessionWait")
    /\ sessionLock' = Acquire(sessionLock, t)
    /\ status' = [status EXCEPT ![c] = "writing"]

\* With the operation lock of c in hand, an edit shows that it is writing; then
\* the task asks for the session lock.
Enter(t, c, r) ==
    /\ Goto(t, "sessionWait")
    /\ sessionLock' = Acquire(sessionLock, t)
    /\ status' = IF r \in Edits THEN [status EXCEPT ![c] = "writing"] ELSE status

\* A poll, an entity or an action calls the coordinator that is loaded now. A free
\* lock is taken without suspending, a held one is waited for.
Call(t, r) ==
    /\ pc[t] = "idle"
    /\ home' = [home EXCEPT ![t] = current]
    /\ request' = [request EXCEPT ![t] = r]
    /\ opLock' = IF r \in {Start, Stop} THEN opLock
                 ELSE [opLock EXCEPT ![current] = Acquire(@, t)]
    /\ IF r \in {Start, Stop} \/ opLock[current].owner = Nobody
       THEN Enter(t, current, r)
       ELSE Goto(t, "opWait") /\ UNCHANGED <<sessionLock, status>>
    /\ UNCHANGED <<device, current, backups, available, data, verifiedAt, foreign,
                   before, snapshot, loaded, outcome>>

\* The operation lock was handed to a waiting task.
EnterOperation(t) ==
    /\ pc[t] = "opWait"
    /\ opLock[home[t]].owner = t
    /\ Enter(t, home[t], request[t])
    /\ UNCHANGED <<device, current, backups, opLock, available, data, verifiedAt, foreign,
                   home, request, before, snapshot, loaded, outcome>>

\* Mutant: every generation has a session lock of its own.
HoldsOwnSessionLock(t) ==
    sessionLock.owner = t \/ home[sessionLock.owner] # home[t]

HoldsSessionLock(t) == sessionLock.owner = t

Connect(t) ==
    /\ \/ pc[t] = "sessionWait" /\ HoldsSessionLock(t) /\ Goto(t, "connecting")
       \/ pc[t] = "connecting" /\ Goto(t, "authenticating")
    /\ UNCHANGED <<device, current, sessionLock, backups, coordVars,
                   home, request, before, snapshot, loaded, outcome>>

Authenticate(t) ==
    /\ pc[t] = "authenticating"
    /\ Goto(t, IF IsCommand(t) THEN "commanding" ELSE "reading")
    /\ UNCHANGED <<device, current, sessionLock, backups, coordVars,
                   home, request, before, snapshot, loaded, outcome>>
-----------------------------------------------------------------------------
(* The session of a poll, and of an edit up to its write *)

\* The first Read All. An edit is then refused (ValueError), changes nothing,
\* or goes on to the backup of what was read.
ReadAll(t) ==
    /\ pc[t] = "reading"
    /\ before' = [before EXCEPT ![t] = device]
    /\ snapshot' = [snapshot EXCEPT ![t] = device]
    /\ \/ /\ IsEdit(t)
          /\ Disconnect(t, "invalid")
       \/ /\ IsEdit(t) => Merge(request[t].change, device[request[t].letter])
                              = device[request[t].letter]
          /\ Goto(t, "stating")
          /\ UNCHANGED outcome
       \/ /\ IsEdit(t)
          /\ Merge(request[t].change, device[request[t].letter])
                 # device[request[t].letter]
          /\ Goto(t, "loading")
          /\ UNCHANGED outcome
    /\ UNCHANGED <<device, current, sessionLock, backups, coordVars, home, request, loaded>>

\* The Section_State read that completes a snapshot.
ReadState(t) ==
    /\ pc[t] \in {"stating", "confirming"}
    /\ Disconnect(t, "ok")
    /\ UNCHANGED <<device, current, sessionLock, backups, coordVars,
                   home, request, before, snapshot, loaded>>

LoadBackups(t) ==
    /\ pc[t] = "loading"
    /\ loaded' = [loaded EXCEPT ![t] = backups]
    /\ Goto(t, "saving")
    /\ UNCHANGED <<device, current, sessionLock, backups, coordVars,
                   home, request, before, snapshot, outcome>>

\* Mutants: all of what was read, the last published program, the new program.
BackupConfiguration(t) == before[t]
BackupPublished(t) ==
    IF data[home[t]] = None THEN before[t][request[t].letter]
                            ELSE data[home[t]][request[t].letter]
BackupWanted(t) == Wanted(t)

BackupOf(t) == before[t][request[t].letter]

SaveBackup(t) ==
    /\ pc[t] = "saving"
    /\ backups' = [loaded[t] EXCEPT ![request[t].letter] = BackupOf(t)]
    /\ Goto(t, "writing")
    /\ UNCHANGED <<device, current, sessionLock, coordVars,
                   home, request, before, snapshot, loaded, outcome>>
-----------------------------------------------------------------------------
(* The write of an edit and its verification *)

\* The patch reaches the controller. What its firmware makes of it is not for the
\* integration to say: it has been seen to truncate names and to corrupt starts.
DeliverWrite(t) ==
    /\ pc[t] = "writing"
    /\ \E p \in Program : device' = [device EXCEPT ![request[t].letter] = p]
    /\ foreign' = [c \in Generation |-> IF c = home[t] THEN foreign[c]
                                        ELSE foreign[c] \cup {request[t].letter}]
    /\ Goto(t, "acking")
    /\ UNCHANGED <<current, sessionLock, backups, opLock, status, available, data, verifiedAt,
                   home, request, before, snapshot, loaded, outcome>>

\* The answer: integer status 0, or anything else.
AnswerWrite(t) ==
    /\ pc[t] = "acking"
    /\ \/ Goto(t, "verifying") /\ UNCHANGED outcome
       \/ Disconnect(t, "error")
    /\ UNCHANGED <<device, current, sessionLock, backups, coordVars,
                   home, request, before, snapshot, loaded>>

\* Mutant: only the fields of the edit are compared.
MatchesEdit(t) ==
    \A f \in Field : request[t].change[f] \in {Keep, device[request[t].letter][f]}

\* The readback must show the whole program as the edit wanted it.
Matches(t) == device[request[t].letter] = Wanted(t)

ReadBack(t) ==
    /\ pc[t] = "verifying"
    /\ IF Matches(t)
       THEN /\ Goto(t, "confirming")
            /\ snapshot' = [snapshot EXCEPT ![t] = device]
            /\ UNCHANGED outcome
       ELSE /\ Disconnect(t, "unverified")
            /\ UNCHANGED snapshot
    /\ UNCHANGED <<device, current, sessionLock, backups, coordVars,
                   home, request, before, loaded>>
-----------------------------------------------------------------------------
(* Commands, failures and cancellation *)

Command(t) ==
    /\ pc[t] = "commanding"
    /\ \E result \in {"ok", "error"} : Disconnect(t, result)
    /\ UNCHANGED <<device, current, sessionLock, backups, coordVars,
                   home, request, before, snapshot, loaded>>

\* Mutant: a ValueError of the last read is taken for refused input.
FailureInvalid(t) ==
    IF pc[t] = "confirming" THEN {"unverified", "invalid"}
    ELSE IF pc[t] \in {"writing", "acking", "verifying"} THEN {"unverified"}
    ELSE {"error"}

\* How an exception of an await (a lost link, a timeout, a malformed answer, a
\* failing store) leaves the session.
FailureOf(t) ==
    IF pc[t] \in {"writing", "acking", "verifying", "confirming"} THEN {"unverified"}
    ELSE IF pc[t] = "commanding" /\ request[t] = Start THEN {"ambiguous"}
    ELSE IF pc[t] = "stating" /\ IsEdit(t) THEN {"error", "invalid"}
    ELSE {"error"}

\* Mutant: a write whose acknowledgement is lost is sent again.
FailResends(t) ==
    /\ pc[t] \in Connected \ {"disconnecting"}
    /\ IF pc[t] = "acking" THEN Goto(t, "writing") /\ UNCHANGED outcome
                           ELSE \E result \in FailureOf(t) : Disconnect(t, result)
    /\ UNCHANGED <<device, current, sessionLock, backups, coordVars,
                   home, request, before, snapshot, loaded>>

Fail(t) ==
    /\ pc[t] \in Connected \ {"disconnecting"}
    /\ \E result \in FailureOf(t) : Disconnect(t, result)
    /\ UNCHANGED <<device, current, sessionLock, backups, coordVars,
                   home, request, before, snapshot, loaded>>

CancelSession(t) ==
    /\ pc[t] \in Connected
    /\ outcome[t] # "cancelled"
    /\ Disconnect(t, "cancelled")
    /\ UNCHANGED <<device, current, sessionLock, backups, coordVars,
                   home, request, before, snapshot, loaded>>

\* Mutant: a cancelled waiter stays in the queue.
CancelOpWaitQueued(t) ==
    /\ pc[t] = "opWait"
    /\ Return(t)
    /\ UNCHANGED <<device, current, sessionLock, backups, coordVars, home>>

CancelOpWait(t) ==
    /\ pc[t] = "opWait"
    /\ opLock' = [opLock EXCEPT ![home[t]] = Leave(@, t)]
    /\ Return(t)
    /\ UNCHANGED <<device, current, sessionLock, backups,
                   status, available, data, verifiedAt, foreign, home>>
-----------------------------------------------------------------------------
(* The end of a task: what its coordinator reports and publishes *)

ConcludePoll(t, result) ==
    /\ request[t] = Poll
    /\ opLock' = [opLock EXCEPT ![home[t]] = Release(@)]
    /\ available' = [available EXCEPT ![home[t]] =
                        IF result = "cancelled" THEN @ ELSE result = "ok"]
    /\ data' = IF result = "ok" THEN [data EXCEPT ![home[t]] = snapshot[t]] ELSE data
    /\ foreign' = IF result = "ok" THEN [foreign EXCEPT ![home[t]] = {}] ELSE foreign
    /\ Return(t)
    /\ UNCHANGED <<status, verifiedAt>>

\* Mutant: cancellation is not caught.
VerdictUncaught(result) ==
    CASE result = "ok" -> "verified"
      [] result = "unverified" -> "unverified"
      [] result = "cancelled" -> "writing"
      [] OTHER -> "failed"

Verdict(result) ==
    CASE result = "ok" -> "verified"
      [] result \in {"unverified", "cancelled"} -> "unverified"
      [] OTHER -> "failed"

\* Mutant: an unverified write leaves the published data available.
AvailableUnverified(c, result) ==
    IF result \in {"invalid", "unverified"} THEN available[c] ELSE result = "ok"

\* Input the session refuses leaves the published data available; every other
\* failure withdraws it until a read succeeds.
AvailableAfter(c, result) ==
    IF result = "invalid" THEN available[c] ELSE result = "ok"

ConcludeEdit(t, result) ==
    /\ IsEdit(t)
    /\ opLock' = [opLock EXCEPT ![home[t]] = Release(@)]
    /\ status' = [status EXCEPT ![home[t]] = Verdict(result)]
    /\ available' = [available EXCEPT ![home[t]] = AvailableAfter(home[t], result)]
    /\ IF result = "ok"
       THEN /\ data' = [data EXCEPT ![home[t]] = snapshot[t]]
            /\ verifiedAt' = [verifiedAt EXCEPT ![home[t]] = snapshot[t]]
            /\ foreign' = [foreign EXCEPT ![home[t]] = {}]
       ELSE UNCHANGED <<data, verifiedAt, foreign>>
    /\ Return(t)

\* A start that was acknowledged or may have arrived, and a stop that was
\* acknowledged, go on to a refresh; every other end is just reported.
ConcludeCommand(t, result) ==
    /\ IsCommand(t)
    /\ IF result \in {"ok", "ambiguous"}
       THEN /\ Goto(t, "opWait")
            /\ request' = [request EXCEPT ![t] = Poll]
            /\ opLock' = [opLock EXCEPT ![home[t]] = Acquire(@, t)]
            /\ ClearFrame(t)
       ELSE Return(t) /\ UNCHANGED opLock
    /\ UNCHANGED <<status, available, data, verifiedAt, foreign>>

Conclude(t, result) ==
    /\ \/ ConcludePoll(t, result)
       \/ ConcludeEdit(t, result)
       \/ ConcludeCommand(t, result)
    /\ UNCHANGED <<device, current, backups, home>>

\* The link is down (or the disconnect failed, which changes nothing).
Disconnected(t) ==
    /\ pc[t] = "disconnecting"
    /\ sessionLock' = Release(sessionLock)
    /\ Conclude(t, outcome[t])

\* Mutant: the session lock is released only after a session.
ConnectFailsLocked(t) ==
    /\ pc[t] = "connecting"
    /\ UNCHANGED sessionLock
    /\ Conclude(t, "error")

ConnectFails(t) ==
    /\ pc[t] = "connecting"
    /\ sessionLock' = Release(sessionLock)
    /\ Conclude(t, "error")

\* There is no client to disconnect yet.
CancelBeforeSession(t) ==
    /\ pc[t] \in {"sessionWait", "connecting"}
    /\ sessionLock' = Leave(sessionLock, t)
    /\ Conclude(t, "cancelled")
-----------------------------------------------------------------------------
(* The rest of the world *)

\* The phone app connects while the integration does not.
AppEdit ==
    /\ \A t \in Task : pc[t] \notin Connected
    /\ \E l \in Letter, p \in Program :
          /\ device' = [device EXCEPT ![l] = p]
          /\ foreign' = [c \in Generation |-> foreign[c] \cup {l}]
    /\ UNCHANGED <<current, sessionLock, backups, opLock, status, available, data, verifiedAt,
                   taskVars>>

\* The entry is unloaded and set up again; tasks of the old coordinator go on. That
\* takes many turns of the event loop, and a task that was handed a lock runs in the
\* next one.
Reload ==
    /\ current < Generations
    /\ \A t \in Task : (pc[t] = "opWait" => opLock[home[t]].owner # t)
    /\ \A t \in Task : (pc[t] = "sessionWait" => sessionLock.owner # t)
    /\ current' = current + 1
    /\ UNCHANGED <<device, sessionLock, backups, coordVars, taskVars>>

Progress(t) ==
    \/ EnterOperation(t) \/ Connect(t) \/ Authenticate(t)
    \/ ReadAll(t) \/ ReadState(t) \/ LoadBackups(t) \/ SaveBackup(t)
    \/ DeliverWrite(t) \/ AnswerWrite(t) \/ ReadBack(t) \/ Command(t)
    \/ Fail(t) \/ ConnectFails(t) \/ Disconnected(t)

Cancel(t) == CancelSession(t) \/ CancelOpWait(t) \/ CancelBeforeSession(t)

Next ==
    \/ \E t \in Task : Progress(t) \/ Cancel(t) \/ \E r \in Requests : Call(t, r)
    \/ AppEdit
    \/ Reload

Spec == Init /\ [][Next]_vars

FairSpec == Spec /\ \A t \in Task : WF_vars(Progress(t))
-----------------------------------------------------------------------------
(* Properties *)

\* At most one task is between connecting and disconnecting, whatever generation
\* of the coordinator it belongs to (HunterNodeController._lock).
OneSession == \A t, u \in Task : InSession(t) /\ InSession(u) => t = u

\* The write status reads "writing" exactly while an edit of that coordinator is
\* under way: no failure or cancellation leaves it behind (async_set_program).
StatusTruthful ==
    \A c \in Generation :
        status[c] = "writing" <=> \E t \in Task : home[t] = c /\ IsEdit(t) /\ HoldsOp(t)

\* A write of t may have reached the controller and its verdict is still open.
WriteOpen(t) == IsEdit(t) /\ pc[t] \in {"acking", "verifying", "confirming", "disconnecting"}

\* While a coordinator is available, what it publishes is what the controller
\* holds, but for programs that somebody else edited since: a write of its own
\* that went wrong withdraws the data until a read replaces it.
AvailableDataCurrent ==
    \A c \in Generation :
        available[c] /\ (\A t \in Task : home[t] = c => ~WriteOpen(t)) =>
            /\ data[c] # None
            /\ \A l \in Letter \ foreign[c] : data[c][l] = device[l]

\* Whatever the integration overwrites on the controller is in the backup store
\* when the write arrives, across reloads, app edits and failures (set_program).
BackupBeforeOverwrite ==
    [][\A l \in Letter :
          device'[l] # device[l] /\ (\E t \in Task : pc[t] \in Connected)
             => backups[l] = device[l]]_vars

\* The store only ever changes to record what the controller holds at that moment:
\* no save puts an older backup of another program back (_async_save_program_backup).
BackupIsCurrent ==
    [][\A l \in Letter : backups'[l] # backups[l] => backups'[l] = device[l]]_vars

\* When an edit is reported verified, the controller holds its program as it was
\* read in the same session with just the edit's fields changed, the other
\* programs as they were, and that is what is published.
VerifiedHolds ==
    [][\A t \in Task :
          IsEdit(t) /\ HoldsOp(t) /\ pc'[t] = "idle" /\ status'[home[t]] = "verified" =>
             /\ device' = [before[t] EXCEPT ![request[t].letter] = Wanted(t)]
             /\ data'[home[t]] = device'
             /\ available'[home[t]]]_vars

\* An edit that fails and leaves its coordinator available was refused before
\* anything was written: what the controller holds is what the edit read.
RefusedNeverWritten ==
    [][\A t \in Task :
          IsEdit(t) /\ HoldsOp(t) /\ pc'[t] = "idle"
          /\ status'[home[t]] = "failed" /\ available'[home[t]]
             => device' = before[t]]_vars

\* Only an edit of the same coordinator changes a write status or moves the time of
\* the last verified write: a refresh that happens to succeed vouches for nothing.
OnlyEditsJudge ==
    [][\A c \in Generation :
          <<status[c], verifiedAt[c]>>' # <<status[c], verifiedAt[c]>> =>
             /\ \E t \in Task : /\ home'[t] = c
                                /\ pc'[t] # pc[t]
                                /\ IsEdit(t) \/ IsEdit(t)'
             /\ verifiedAt'[c] # verifiedAt[c] => status'[c] = "verified"]_vars

\* An edit never keeps its status at "writing": every lock is handed on and every
\* session ends, however it fails.
EditConcludes ==
    \A c \in Generation : status[c] = "writing" ~> status[c] # "writing"

\* Every request that waits for a lock gets it, or is cancelled, and returns.
RequestsReturn == \A t \in Task : pc[t] # "idle" ~> pc[t] = "idle"

\* SCHEDULES.md:141, "an in-flight edit finishes before the new coordinator
\* connects": while a newer generation has a session, no edit of an older one is
\* under way, one whose coordinator shows the status "writing".
OldEditFinishesFirst ==
    \A t, u \in Task :
        InSession(t) /\ home[u] < home[t] => ~(IsEdit(u) /\ HoldsOp(u))
=============================================================================
