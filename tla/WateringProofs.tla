--------------------------- MODULE WateringProofs ---------------------------
(***************************************************************************)
(* Proofs about Watering for any number of tasks and stations. A read is   *)
(* owed to a command until it has happened, because a refresh that runs    *)
(* when the command returns has not had the session lock yet; and what a   *)
(* read has seen is still true when it is published, because a command     *)
(* needs the session lock, which the read gives up only then.              *)
(***************************************************************************)
EXTENDS Watering, FifoLockProofs

\* A task that waits for a lock has its place; whatever reads has the operation lock.
OwnLocks(t) ==
    /\ InSession(t) => sessionLock.owner = t
    /\ pc[t] = "sessionWait" => Waits(sessionLock, t)
    /\ pc[t] = "opWait" => Waits(opLock, t) /\ ~IsCommand(t)
    /\ pc[t] \notin {"idle", "opWait"} /\ ~IsCommand(t) => opLock.owner = t
    /\ pc[t] = "acking" => IsCommand(t)

LockInv == \A t \in Task : OwnLocks(t)

\* t has read the state and is about to publish it.
HasRead(t) == pc[t] = "closing" /\ ~IsCommand(t) /\ outcome[t] = "ok"

\* No command came after the read that t is about to publish.
ReadInv ==
    \A t \in Task : HasRead(t) =>
        /\ latest \in {"read", "dropped"}
        /\ latest = "read" /\ ~changed => seen[t] = running

\* When the last command has been read the valves show it, or are about to change.
ShownInv ==
    available /\ ~changed /\ latest = "read" =>
        \/ shown = running
        \/ \E t \in Task : pc[t] = "closing" /\ ~IsCommand(t) /\ outcome[t] # "invalid"

IInv == TypeOK /\ LockInv /\ ReadInv /\ RefreshOwed /\ ShownInv

USE NobodyIsNoTask, WateringAssumption
-----------------------------------------------------------------------------
LEMMA InitInv == Init => IInv
<1> SUFFICES ASSUME Init PROVE IInv
  OBVIOUS
<1>1. TypeOK
  <2>1. FreeLock \in Lock
    BY DEF FreeLock, Lock
  <2>2. /\ request \in [Task -> Request]
        /\ \A t \in Task : pc[t] = "idle" /\ ~InSession(t) /\ refreshing # t
    BY DEF Init, Request, Refresh, InSession
  <2> QED BY <2>1, <2>2 DEF Init, TypeOK
<1>2. LockInv /\ ReadInv /\ RefreshOwed /\ ShownInv
  BY DEF Init, LockInv, OwnLocks, InSession, ReadInv, HasRead, RefreshOwed, ShownInv
<1> QED BY <1>1, <1>2 DEF IInv
-----------------------------------------------------------------------------
(* Locks *)

\* Lock m is lock l after a step of t: nobody else has lost it or a place in its queue.
Keeps(l, m, t) ==
    /\ m \in Lock
    /\ \A u \in Task \ {t} : /\ l.owner = u => m.owner = u
                             /\ Waits(l, u) => Waits(m, u)

LEMMA KeepsAcquired ==
    ASSUME NEW l \in Lock, NEW m, NEW t \in Task, Keeps(l, m, t)
    PROVE  Keeps(l, Acquire(m, t), t) /\ Waits(Acquire(m, t), t)
           /\ (m.owner = Nobody => Acquire(m, t).owner = t)
<1>1. Keeps(l, Acquire(m, t), t) /\ Waits(Acquire(m, t), t)
  BY AcquireLemma DEF Keeps
<1>2. m.owner = Nobody => Acquire(m, t).owner = t
  BY DEF Acquire, Keeps, Lock
<1> QED BY <1>1, <1>2

LEMMA KeepsReleased ==
    ASSUME NEW l \in Lock, NEW t \in Task, l.owner = t
    PROVE  Keeps(l, Release(l), t)
BY ReleaseLemma DEF Keeps, Waits

LEMMA KeepsLeft ==
    ASSUME NEW l \in Lock, NEW t \in Task, Waits(l, t)
    PROVE  Keeps(l, Leave(l, t), t)
BY LeaveLemma DEF Keeps

\* A step of t that minds its own locks leaves everybody else's alone.
LEMMA LockStep ==
    ASSUME LockInv, NEW t \in Task, OwnLocks(t)',
           Keeps(sessionLock, sessionLock', t), Keeps(opLock, opLock', t),
           \A u \in Task \ {t} : pc'[u] = pc[u] /\ request'[u] = request[u]
    PROVE  LockInv'
<1> SUFFICES ASSUME NEW u \in Task \ {t} PROVE OwnLocks(u)'
  BY DEF LockInv
<1>1. OwnLocks(u) /\ pc'[u] = pc[u] /\ request'[u] = request[u]
  BY DEF LockInv
<1>2. /\ sessionLock.owner = u => sessionLock'.owner = u
      /\ Waits(sessionLock, u) => Waits(sessionLock', u)
      /\ opLock.owner = u => opLock'.owner = u
      /\ Waits(opLock, u) => Waits(opLock', u)
  BY DEF Keeps
<1> QED BY <1>1, <1>2 DEF OwnLocks, InSession, IsCommand
-----------------------------------------------------------------------------
(* Steps of a task, by what they leave alone *)

\* A session excludes every other.
LEMMA Alone ==
    ASSUME LockInv, NEW t \in Task, InSession(t)
    PROVE  \A u \in Task \ {t} : ~InSession(u)
BY DEF LockInv, OwnLocks

\* Only t moves, to a place where, and now or before asks for a request of kind r.
Moves(t, where, r) ==
    /\ pc' = [pc EXCEPT ![t] = where]
    /\ request' = [request EXCEPT ![t] = r]

LEMMA MovesLemma ==
    ASSUME TypeOK, NEW t \in Task, NEW where, NEW r \in Request, Moves(t, where, r)
    PROVE  /\ pc'[t] = where /\ request'[t] = r
           /\ request' \in [Task -> Request]
           /\ \A u \in Task \ {t} : pc'[u] = pc[u] /\ request'[u] = request[u]
BY DEF TypeOK, Moves

\* The types of what is not a lock, a place or a request.
DataOK ==
    /\ running \in SUBSET Station
    /\ cooldown \in {"over", "on", "due"}
    /\ shown \in SUBSET Station
    /\ available \in BOOLEAN
    /\ seen \in [Task -> SUBSET Station]
    /\ outcome \in [Task -> {"ok", "invalid", "error", "ambiguous", "cancelled"}]
    /\ latest \in {"read", "sent", "returned", "dropped"}
    /\ changed \in BOOLEAN

\* A step of t keeps the debouncer's lock for the one task that refreshes.
LEMMA TypeStep ==
    ASSUME TypeOK, NEW t \in Task, NEW r \in Request,
           NEW where \in {"idle", "opWait", "sessionWait", "connecting", "working",
                          "acking", "closing"},
           Moves(t, where, r), DataOK', LockInv', sessionLock' \in Lock, opLock' \in Lock,
           IF r \in Refresh /\ where # "idle"
           THEN refreshing \in {t, Nobody} /\ refreshing' = t
           ELSE refreshing' = IF refreshing = t THEN Nobody ELSE refreshing
    PROVE  TypeOK'
<1>1. /\ pc'[t] = where /\ request'[t] = r /\ request' \in [Task -> Request]
      /\ \A u \in Task \ {t} : pc'[u] = pc[u] /\ request'[u] = request[u]
  BY MovesLemma
<1>2. pc' \in [Task -> {"idle", "opWait", "sessionWait", "connecting", "working",
                       "acking", "closing"}]
  BY DEF TypeOK, Moves
<1>3. refreshing' \in Task \cup {Nobody}
  BY DEF TypeOK
<1>4. \A u \in Task : (refreshing = u <=> request[u] \in Refresh /\ pc[u] # "idle")
  BY DEF TypeOK
<1>5. \A u \in Task : (refreshing = u <=> request[u] \in Refresh /\ pc[u] # "idle")'
  <2>1. refreshing' = t <=> request'[t] \in Refresh /\ pc'[t] # "idle"
    BY <1>1
  <2>2. ASSUME NEW u \in Task \ {t}
        PROVE  refreshing' = u <=> request'[u] \in Refresh /\ pc'[u] # "idle"
    BY <1>1, <1>4
  <2> QED BY <2>1, <2>2 DEF Refresh
<1>6. \A u \in Task : InSession(u)' => sessionLock'.owner = u
  BY DEF LockInv, OwnLocks
<1> QED BY <1>1, <1>2, <1>3, <1>5, <1>6 DEF TypeOK, DataOK

\* A step that neither reads nor publishes, nor tells the controller anything, and takes
\* no part in what is owed, leaves all of it as it was.
LEMMA QuietStep ==
    ASSUME IInv, NEW t \in Task,
           \A u \in Task \ {t} : pc'[u] = pc[u] /\ request'[u] = request[u],
           pc[t] # "closing", pc'[t] # "closing",
           UNCHANGED <<running, valves, seen, outcome, history>>,
           \/ cooldown' = cooldown
           \/ cooldown = "on"
           \/ request'[t] \in Refresh /\ pc'[t] \in {"opWait", "sessionWait"},
           \/ request[t] \notin Refresh
           \/ pc[t] = "idle"
           \/ request'[t] \in Refresh /\ pc'[t] \in {"opWait", "sessionWait", "connecting", "working"}
    PROVE  ReadInv' /\ RefreshOwed' /\ ShownInv'
<1>1. ReadInv'
  BY DEF IInv, ReadInv, HasRead, IsCommand, history
<1>2. RefreshOwed'
  BY DEF IInv, RefreshOwed, valves, history
<1>3. ShownInv'
  BY DEF IInv, ShownInv, IsCommand, valves, history
<1> QED BY <1>1, <1>2, <1>3
-----------------------------------------------------------------------------
(* Starts *)

\* BeginRead queues t for the operation lock, or gets it and queues for the session.
LEMMA BeginReadStep ==
    ASSUME IInv, NEW t \in Task, NEW lock, NEW kind \in Refresh \cup {Edit},
           Keeps(sessionLock, lock, t),
           request' = [request EXCEPT ![t] = kind], BeginRead(t, lock)
    PROVE  /\ LockInv' /\ sessionLock' \in Lock /\ opLock' \in Lock
           /\ \E where \in {"opWait", "sessionWait"} : Moves(t, where, kind)
<1> USE DEF IInv
<1>1. PICK where \in {"opWait", "sessionWait"} : Moves(t, where, kind)
  BY DEF BeginRead, Goto, Moves
<1>2. kind \in Request /\ kind \notin Station \cup {Stop}
  BY DEF Request, Refresh, Edit, Stop
<1>3. /\ pc'[t] = where /\ request'[t] = kind
      /\ \A u \in Task \ {t} : pc'[u] = pc[u] /\ request'[u] = request[u]
  BY <1>1, <1>2, MovesLemma
<1>4. sessionLock \in Lock /\ opLock \in Lock /\ Keeps(opLock, opLock, t)
  BY DEF TypeOK, Keeps
<1>5. /\ Keeps(opLock, opLock', t) /\ Waits(opLock', t)
      /\ opLock.owner = Nobody => opLock'.owner = t
  BY <1>4, KeepsAcquired DEF BeginRead
<1>6. /\ Keeps(sessionLock, sessionLock', t)
      /\ where = "sessionWait" => Waits(sessionLock', t)
      /\ where = "sessionWait" => opLock.owner = Nobody
  <2>1. CASE opLock.owner = Nobody
    BY <2>1, <1>4, KeepsAcquired DEF BeginRead
  <2>2. CASE opLock.owner # Nobody
    <3>1. pc'[t] = "opWait"
      BY <2>2 DEF BeginRead, Goto, TypeOK
    <3> QED BY <2>2, <3>1, <1>3 DEF BeginRead
  <2> QED BY <2>1, <2>2
<1>7. OwnLocks(t)'
  BY <1>2, <1>3, <1>5, <1>6 DEF OwnLocks, InSession, IsCommand
<1>8. LockInv'
  BY <1>3, <1>5, <1>6, <1>7, LockStep
<1> QED BY <1>1, <1>5, <1>6, <1>8 DEF Keeps

\* A refresh starts, in an idle task or at the end of a command.
LEMMA RunRefreshStep ==
    ASSUME IInv, NEW t \in Task, NEW lock, NEW kind \in Refresh,
           Keeps(sessionLock, lock, t), RunRefresh(t, kind, lock), DataOK'
    PROVE  /\ LockInv' /\ TypeOK'
           /\ pc'[t] \in {"opWait", "sessionWait"} /\ request'[t] = kind
           /\ \A u \in Task \ {t} : pc'[u] = pc[u] /\ request'[u] = request[u]
<1>1. /\ LockInv' /\ sessionLock' \in Lock /\ opLock' \in Lock
      /\ \E where \in {"opWait", "sessionWait"} : Moves(t, where, kind)
  BY BeginReadStep DEF RunRefresh
<1>2. PICK where \in {"opWait", "sessionWait"} : Moves(t, where, kind)
  BY <1>1
<1>3. /\ pc'[t] = where /\ request'[t] = kind /\ kind \in Request
      /\ \A u \in Task \ {t} : pc'[u] = pc[u] /\ request'[u] = request[u]
  BY <1>2, MovesLemma DEF IInv, Request
<1>4. TypeOK'
  BY <1>1, <1>2, <1>3, TypeStep DEF IInv, RunRefresh
<1> QED BY <1>1, <1>3, <1>4

LEMMA IdleRefreshStep ==
    ASSUME IInv, NEW t \in Task, pc[t] = "idle", NEW kind \in Refresh,
           RunRefresh(t, kind, sessionLock),
           UNCHANGED <<running, valves, seen, outcome, history>>
    PROVE  IInv'
<1>1. Keeps(sessionLock, sessionLock, t) /\ DataOK'
  BY DEF IInv, TypeOK, Keeps, DataOK, RunRefresh, valves, history
<1>2. /\ LockInv' /\ TypeOK'
      /\ pc'[t] \in {"opWait", "sessionWait"} /\ request'[t] = kind
      /\ \A u \in Task \ {t} : pc'[u] = pc[u] /\ request'[u] = request[u]
  BY <1>1, RunRefreshStep
<1>3. ReadInv' /\ RefreshOwed' /\ ShownInv'
  BY <1>2, QuietStep
<1> QED BY <1>2, <1>3 DEF IInv

LEMMA StartStep ==
    ASSUME IInv,
           \/ \E t \in Task : \/ \E r \in Station \cup {Stop} : Command(t, r)
                              \/ EditProgram(t)
           \/ Poll \/ CooledDown
    PROVE  IInv'
<1>1. ASSUME NEW t \in Task, NEW r \in Station \cup {Stop}, Command(t, r) PROVE IInv'
  <2>1. Moves(t, "sessionWait", r) /\ r \in Request /\ r \notin Refresh
    BY <1>1 DEF Command, Goto, Moves, Request, Refresh, Stop
  <2>2. /\ pc'[t] = "sessionWait" /\ request'[t] = r /\ request' \in [Task -> Request]
        /\ \A u \in Task \ {t} : pc'[u] = pc[u] /\ request'[u] = request[u]
    BY <2>1, MovesLemma DEF IInv
  <2>3. /\ sessionLock \in Lock /\ opLock \in Lock /\ opLock' = opLock
        /\ Keeps(sessionLock, sessionLock, t) /\ Keeps(opLock, opLock', t)
    BY <1>1 DEF Command, IInv, TypeOK, Keeps
  <2>4. Keeps(sessionLock, sessionLock', t) /\ Waits(sessionLock', t)
    BY <1>1, <2>3, KeepsAcquired DEF Command
  <2>5. OwnLocks(t)'
    BY <2>2, <2>4 DEF OwnLocks, InSession, IsCommand
  <2>6. LockInv'
    BY <2>2, <2>3, <2>4, <2>5, LockStep DEF IInv
  <2>7. TypeOK'
    <3>1. DataOK' /\ refreshing # t /\ refreshing' = refreshing /\ sessionLock' \in Lock
      BY <1>1, <2>4 DEF Command, IInv, TypeOK, DataOK, Keeps, debouncer, valves, history
    <3> QED BY <2>1, <2>3, <2>6, <3>1, TypeStep DEF IInv
  <2>8. ReadInv' /\ RefreshOwed' /\ ShownInv'
    BY <1>1, <2>2, QuietStep DEF Command, debouncer
  <2> QED BY <2>6, <2>7, <2>8 DEF IInv
<1>2. ASSUME NEW t \in Task, EditProgram(t) PROVE IInv'
  <2>1. Keeps(sessionLock, sessionLock, t) /\ pc[t] = "idle"
    BY <1>2 DEF EditProgram, IInv, TypeOK, Keeps
  <2>2. /\ LockInv' /\ sessionLock' \in Lock /\ opLock' \in Lock
        /\ \E where \in {"opWait", "sessionWait"} : Moves(t, where, Edit)
    BY <1>2, <2>1, BeginReadStep DEF EditProgram
  <2>3. PICK where \in {"opWait", "sessionWait"} : Moves(t, where, Edit)
    BY <2>2
  <2>4. Edit \in Request /\ Edit \notin Refresh
    BY DEF Request, Edit, Refresh
  <2>5. /\ pc'[t] = where /\ request'[t] = Edit /\ request' \in [Task -> Request]
        /\ \A u \in Task \ {t} : pc'[u] = pc[u] /\ request'[u] = request[u]
    BY <2>3, <2>4, MovesLemma DEF IInv
  <2>6. TypeOK'
    <3>1. DataOK' /\ refreshing # t /\ refreshing' = refreshing
      BY <1>2, <2>1 DEF EditProgram, IInv, TypeOK, DataOK, debouncer, valves, history
    <3> QED BY <2>2, <2>3, <2>4, <3>1, TypeStep DEF IInv
  <2>7. ReadInv' /\ RefreshOwed' /\ ShownInv'
    BY <1>2, <2>1, <2>5, QuietStep DEF EditProgram, debouncer
  <2> QED BY <2>2, <2>6, <2>7 DEF IInv
<1>3. CASE Poll
  BY <1>3, IdleRefreshStep DEF Poll, Refresh
<1>4. CASE CooledDown
  <2>1. CASE /\ cooldown = "on" /\ cooldown' = "over"
             /\ UNCHANGED <<running, sessionLock, opLock, refreshing, valves, frame, history>>
    <3>1. LockInv'
      BY <2>1 DEF IInv, LockInv, OwnLocks, InSession, IsCommand, frame
    <3>2. TypeOK'
      BY <2>1 DEF IInv, TypeOK, InSession, frame, valves, history
    <3>3. ReadInv' /\ RefreshOwed' /\ ShownInv'
      BY <2>1 DEF IInv, ReadInv, HasRead, RefreshOwed, ShownInv, IsCommand,
                  frame, valves, history
    <3> QED BY <3>1, <3>2, <3>3 DEF IInv
  <2>2. CASE /\ cooldown = "due" /\ pc[Poller] = "idle"
             /\ RunRefresh(Poller, "deferred", sessionLock)
             /\ UNCHANGED <<running, valves, seen, outcome, history>>
    BY <2>2, IdleRefreshStep DEF Refresh
  <2> QED BY <1>4, <2>1, <2>2 DEF CooledDown
<1> QED BY <1>1, <1>2, <1>3, <1>4
-----------------------------------------------------------------------------
(* Sessions *)

\* A session goes on under the locks it has.
LEMMA SessionMove ==
    ASSUME IInv, NEW t \in Task,
           NEW where \in {"connecting", "working", "acking", "closing"},
           pc' = [pc EXCEPT ![t] = where], request' = request,
           InSession(t) \/ (pc[t] = "sessionWait" /\ sessionLock.owner = t),
           where = "acking" => IsCommand(t),
           sessionLock' = sessionLock, opLock' = opLock, refreshing' = refreshing, DataOK'
    PROVE  /\ LockInv' /\ TypeOK'
           /\ pc'[t] = where
           /\ \A u \in Task \ {t} : pc'[u] = pc[u] /\ ~InSession(u) /\ ~InSession(u)'
<1>1. request[t] \in Request /\ Moves(t, where, request[t])
  BY DEF IInv, TypeOK, Moves
<1>2. /\ pc'[t] = where
      /\ \A u \in Task \ {t} : pc'[u] = pc[u] /\ request'[u] = request[u]
  BY <1>1, MovesLemma DEF IInv
<1>3. sessionLock.owner = t /\ OwnLocks(t)
  BY DEF IInv, LockInv, OwnLocks
<1>4. OwnLocks(t)'
  BY <1>2, <1>3 DEF OwnLocks, InSession, IsCommand
<1>5. /\ sessionLock \in Lock /\ opLock \in Lock
      /\ Keeps(sessionLock, sessionLock', t) /\ Keeps(opLock, opLock', t)
  BY DEF IInv, TypeOK, Keeps
<1>6. LockInv'
  BY <1>2, <1>4, <1>5, LockStep DEF IInv
<1>7. TypeOK'
  <2>1. refreshing = t <=> request[t] \in Refresh /\ pc[t] # "idle"
    BY DEF IInv, TypeOK
  <2>2. pc[t] # "idle"
    BY DEF InSession
  <2> QED BY <1>1, <1>5, <1>6, <2>1, <2>2, TypeStep DEF IInv
<1>8. \A u \in Task \ {t} : ~InSession(u) /\ ~InSession(u)'
  BY <1>2, <1>3, NobodyIsNoTask DEF IInv, LockInv, OwnLocks, InSession
<1> QED BY <1>2, <1>6, <1>7, <1>8

LEMMA EnterOperationStep ==
    ASSUME IInv, NEW t \in Task, EnterOperation(t)
    PROVE  IInv'
<1>1. request[t] \in Request /\ Moves(t, "sessionWait", request[t])
  BY DEF IInv, TypeOK, EnterOperation, Goto, Moves
<1>2. /\ pc[t] = "opWait" /\ pc'[t] = "sessionWait" /\ request' = request
      /\ \A u \in Task \ {t} : pc'[u] = pc[u] /\ request'[u] = request[u]
  BY <1>1, MovesLemma DEF IInv, EnterOperation
<1>3. /\ sessionLock \in Lock /\ opLock \in Lock /\ opLock' = opLock
      /\ Keeps(sessionLock, sessionLock, t) /\ Keeps(opLock, opLock', t)
  BY DEF EnterOperation, IInv, TypeOK, Keeps
<1>4. Keeps(sessionLock, sessionLock', t) /\ Waits(sessionLock', t)
  BY <1>3, KeepsAcquired DEF EnterOperation
<1>5. OwnLocks(t)'
  BY <1>2, <1>3, <1>4 DEF EnterOperation, OwnLocks, InSession, IsCommand
<1>6. LockInv'
  BY <1>2, <1>3, <1>4, <1>5, LockStep DEF IInv
<1>7. TypeOK'
  <2>1. DataOK' /\ refreshing' = refreshing /\ sessionLock' \in Lock
    BY <1>4 DEF EnterOperation, IInv, TypeOK, DataOK, Keeps, debouncer, valves, history
  <2>2. refreshing = t <=> request[t] \in Refresh
    BY <1>2 DEF IInv, TypeOK
  <2> QED BY <1>1, <1>3, <1>6, <2>1, <2>2, TypeStep DEF IInv
<1>8. ReadInv' /\ RefreshOwed' /\ ShownInv'
  BY <1>2, QuietStep DEF EnterOperation, debouncer
<1> QED BY <1>6, <1>7, <1>8 DEF IInv

LEMMA ConnectStep ==
    ASSUME IInv, NEW t \in Task, Connect(t)
    PROVE  IInv'
<1>1. PICK where \in {"connecting", "working"} :
        /\ pc' = [pc EXCEPT ![t] = where]
        /\ IF where = "connecting" THEN pc[t] = "sessionWait" /\ sessionLock.owner = t
                                   ELSE pc[t] = "connecting"
  BY DEF Connect, Goto
<1>2. DataOK'
  BY DEF Connect, IInv, TypeOK, DataOK, debouncer, valves, history
<1>3. /\ LockInv' /\ TypeOK' /\ pc'[t] = where
      /\ \A u \in Task \ {t} : pc'[u] = pc[u]
  <2>1. /\ sessionLock' = sessionLock /\ opLock' = opLock /\ refreshing' = refreshing
        /\ request' = request /\ where # "acking"
        /\ InSession(t) \/ (pc[t] = "sessionWait" /\ sessionLock.owner = t)
    BY <1>1 DEF Connect, InSession, debouncer
  <2> QED BY <1>1, <1>2, <2>1, SessionMove
<1>4. ReadInv' /\ RefreshOwed' /\ ShownInv'
  BY <1>1, <1>3, QuietStep DEF Connect, debouncer
<1> QED BY <1>3, <1>4 DEF IInv

\* While the controller gets a command no read is about to be published.
LEMMA DeliverStep ==
    ASSUME IInv, NEW t \in Task, Deliver(t)
    PROVE  IInv'
<1>1. running' \in SUBSET Station
  BY DEF Deliver, IInv, TypeOK
<1>2. DataOK'
  BY <1>1 DEF Deliver, IInv, TypeOK, DataOK, debouncer, valves, history
<1>3. /\ LockInv' /\ TypeOK' /\ pc'[t] = "acking"
      /\ \A u \in Task \ {t} : ~InSession(u)'
  <2>1. /\ sessionLock' = sessionLock /\ opLock' = opLock /\ refreshing' = refreshing
        /\ request' = request /\ InSession(t) /\ IsCommand(t)
        /\ pc' = [pc EXCEPT ![t] = "acking"]
    BY DEF Deliver, Goto, InSession, debouncer
  <2> QED BY <1>2, <2>1, SessionMove
<1>4. \A u \in Task : ~HasRead(u)'
  BY <1>3 DEF HasRead, InSession
<1>5. latest' = "sent"
  BY DEF Deliver
<1> QED BY <1>3, <1>4, <1>5 DEF IInv, ReadInv, RefreshOwed, ShownInv

\* A session begins to close, without news about the stations.
LEMMA CloseStep ==
    ASSUME IInv, NEW t \in Task,
           NEW result \in {"ok", "invalid", "error", "ambiguous", "cancelled"},
           InSession(t), Close(t, result),
           IsCommand(t) \/ result # "ok",
           result = "invalid" => pc[t] # "closing",
           UNCHANGED <<running, sessionLock, opLock, debouncer, valves, request, seen, history>>
    PROVE  IInv'
<1>1. DataOK'
  BY DEF Close, IInv, TypeOK, DataOK, debouncer, valves, history
<1>2. /\ LockInv' /\ TypeOK' /\ pc'[t] = "closing"
      /\ \A u \in Task \ {t} : pc'[u] = pc[u] /\ ~InSession(u) /\ ~InSession(u)'
  <2>1. /\ sessionLock' = sessionLock /\ opLock' = opLock /\ refreshing' = refreshing
        /\ request' = request /\ pc' = [pc EXCEPT ![t] = "closing"]
    BY DEF Close, Goto, debouncer
  <2> QED BY <1>1, <2>1, SessionMove
<1>3. outcome'[t] = result /\ \A u \in Task \ {t} : outcome'[u] = outcome[u]
  BY DEF Close, IInv, TypeOK
<1>4. ReadInv'
  BY <1>2, <1>3 DEF ReadInv, HasRead, IsCommand, InSession
<1>5. RefreshOwed'
  <2>1. SUFFICES ASSUME latest = "returned", available, cooldown # "due"
                 PROVE  RefreshOwed'
    BY DEF RefreshOwed, valves, history, debouncer
  <2>2. PICK u \in Task : /\ request[u] \in Refresh
                          /\ \/ pc[u] \in {"opWait", "sessionWait", "connecting", "working"}
                             \/ pc[u] = "closing" /\ outcome[u] # "ok"
    BY <2>1 DEF IInv, RefreshOwed
  <2>3. IsCommand(t) => u # t
    BY <2>2 DEF IsCommand, Refresh, Stop
  <2>4. /\ request'[u] \in Refresh
        /\ \/ pc'[u] \in {"opWait", "sessionWait", "connecting", "working"}
           \/ pc'[u] = "closing" /\ outcome'[u] # "ok"
    BY <1>2, <1>3, <2>2, <2>3
  <2> QED BY <2>4 DEF RefreshOwed
<1>6. ShownInv'
  BY <1>2, <1>3 DEF IInv, ShownInv, IsCommand, InSession, valves, history
<1> QED BY <1>2, <1>4, <1>5, <1>6 DEF IInv

\* A read that has ended well has seen the stations as they are.
LEMMA ReadStateStep ==
    ASSUME IInv, NEW t \in Task, ReadState(t)
    PROVE  IInv'
<1>1. CASE /\ Close(t, "ok") /\ seen' = [seen EXCEPT ![t] = running]
           /\ latest' = "read" /\ changed' = FALSE
  <2>1. DataOK'
    BY <1>1 DEF ReadState, Close, IInv, TypeOK, DataOK, debouncer, valves
  <2>2. /\ LockInv' /\ TypeOK' /\ pc'[t] = "closing"
        /\ \A u \in Task \ {t} : ~InSession(u)'
    <3>1. /\ sessionLock' = sessionLock /\ opLock' = opLock /\ refreshing' = refreshing
          /\ request' = request /\ InSession(t) /\ pc' = [pc EXCEPT ![t] = "closing"]
      BY <1>1 DEF ReadState, Close, Goto, InSession, debouncer
    <3> QED BY <2>1, <3>1, SessionMove
  <2>3. /\ outcome'[t] = "ok" /\ seen'[t] = running' /\ ~IsCommand(t)'
    BY <1>1 DEF ReadState, Close, IInv, TypeOK, IsCommand
  <2>4. ReadInv'
    BY <1>1, <2>2, <2>3 DEF ReadInv, HasRead, InSession
  <2>5. RefreshOwed' /\ ShownInv'
    BY <1>1, <2>2, <2>3 DEF RefreshOwed, ShownInv
  <2> QED BY <2>2, <2>4, <2>5 DEF IInv
<1>2. CASE request[t] = Edit /\ Close(t, "invalid") /\ UNCHANGED <<seen, history>>
  BY <1>2, CloseStep DEF ReadState, InSession
<1> QED BY <1>1, <1>2 DEF ReadState

LEMMA SessionStep ==
    ASSUME IInv, NEW t \in Task,
           \/ EnterOperation(t) \/ Connect(t) \/ Deliver(t) \/ Answer(t) \/ ReadState(t)
           \/ Fail(t)
    PROVE  IInv'
<1>1. CASE Answer(t)
  <2>1. IsCommand(t) /\ InSession(t) /\ pc[t] # "closing"
    BY <1>1 DEF Answer, IInv, LockInv, OwnLocks, InSession
  <2> QED BY <1>1, <2>1, CloseStep DEF Answer
<1>2. CASE Fail(t)
  <2>1. PICK result \in {"error", "ambiguous"} : Close(t, result)
    BY <1>2 DEF Fail
  <2>2. InSession(t)
    BY <1>2 DEF Fail, InSession
  <2> QED BY <1>2, <2>1, <2>2, CloseStep DEF Fail
<1> QED BY <1>1, <1>2, EnterOperationStep, ConnectStep, DeliverStep, ReadStateStep
-----------------------------------------------------------------------------
(* Ends *)

\* How the request of t may end: in its session as that went, otherwise in failure.
Ends(t, result, lock) ==
    /\ pc[t] \in {"sessionWait", "connecting", "closing"}
    /\ \/ result = "cancelled"
       \/ result = "error" /\ pc[t] = "connecting"
       \/ result = outcome[t] /\ pc[t] = "closing"
    /\ Keeps(sessionLock, lock, t)
    /\ outcome' = [outcome EXCEPT ![t] = "ok"]
    /\ running' = running

\* What the end of t leaves of the others and of their reads.
LEMMA OthersRead ==
    ASSUME IInv, NEW t \in Task, NEW result, NEW lock, Ends(t, result, lock),
           \A u \in Task \ {t} : pc'[u] = pc[u] /\ request'[u] = request[u]
                                 /\ seen'[u] = seen[u],
           pc'[t] # "closing", changed' = changed,
           latest' \in {latest, "dropped"} \/ InSession(t)
    PROVE  ReadInv'
<1> SUFFICES ASSUME NEW u \in Task, HasRead(u)'
             PROVE  /\ latest' \in {"read", "dropped"}
                    /\ latest' = "read" /\ ~changed' => seen'[u] = running'
  BY DEF ReadInv
<1>1. u # t
  BY DEF HasRead
<1>2. HasRead(u) /\ seen'[u] = seen[u]
  BY <1>1 DEF HasRead, IsCommand, Ends, IInv, TypeOK
<1>3. latest' \in {latest, "dropped"}
  BY <1>1, <1>2, Alone DEF IInv, HasRead, InSession
<1> QED BY <1>2, <1>3 DEF IInv, ReadInv, Ends

\* The task is idle again, and has given up the locks it held.
LEMMA ReturnStep ==
    ASSUME IInv, NEW t \in Task, NEW lock, Keeps(sessionLock, lock, t), sessionLock' = lock,
           Keeps(opLock, opLock', t), Return(t)
    PROVE  /\ LockInv' /\ sessionLock' \in Lock /\ opLock' \in Lock
           /\ "poll" \in Request /\ Moves(t, "idle", "poll")
           /\ pc'[t] = "idle" /\ request'[t] = "poll"
           /\ \A u \in Task \ {t} : /\ pc'[u] = pc[u] /\ request'[u] = request[u]
                                    /\ seen'[u] = seen[u]
           /\ seen' \in [Task -> SUBSET Station]
<1>1. "poll" \in Request /\ Moves(t, "idle", "poll")
  BY DEF Request, Refresh, Return, Goto, Moves
<1>2. /\ pc'[t] = "idle" /\ request'[t] = "poll"
      /\ \A u \in Task \ {t} : pc'[u] = pc[u] /\ request'[u] = request[u]
  BY <1>1, MovesLemma DEF IInv
<1>3. /\ \A u \in Task \ {t} : seen'[u] = seen[u]
      /\ seen' \in [Task -> SUBSET Station]
  BY DEF Return, IInv, TypeOK
<1>4. OwnLocks(t)'
  BY <1>2 DEF OwnLocks, InSession
<1>5. LockInv'
  BY <1>2, <1>4, LockStep DEF IInv
<1> QED BY <1>1, <1>2, <1>3, <1>5 DEF Keeps

\* An acknowledged command may drop its refresh because one runs: that one waits for
\* the session lock, which the command has.
LEMMA EndCommandStep ==
    ASSUME IInv, NEW t \in Task, NEW result, NEW lock, Ends(t, result, lock),
           IsCommand(t), EndCommand(t, result, lock)
    PROVE  IInv'
<1> DEFINE places == {"idle", "opWait", "sessionWait"}
<1>1. request[t] \notin Refresh /\ refreshing # t /\ pc[t] # "idle"
  <2>1. request[t] \notin Refresh
    BY DEF IsCommand, Refresh, Stop
  <2> QED BY <2>1 DEF IInv, TypeOK, Ends
<1>2. opLock \in Lock /\ Keeps(opLock, opLock, t)
  BY DEF IInv, TypeOK, Keeps
<1>3. /\ LockInv' /\ TypeOK' /\ pc'[t] \in places
      /\ \A u \in Task \ {t} : /\ pc'[u] = pc[u] /\ request'[u] = request[u]
                               /\ seen'[u] = seen[u]
      /\ \/ cooldown' = cooldown /\ ~OwesRefresh(t, result)
         \/ cooldown' = "due"
         \/ refreshing \in Task /\ cooldown = "over" /\ cooldown' = cooldown
         \/ /\ request'[t] \in Refresh /\ pc'[t] \in {"opWait", "sessionWait"}
            /\ cooldown = "over"
  <2>1. CASE /\ Return(t) /\ sessionLock' = lock /\ opLock' = opLock /\ refreshing' = refreshing
             /\ \/ cooldown' = cooldown /\ ~OwesRefresh(t, result)
                \/ cooldown' = "due"
                \/ refreshing # Nobody /\ cooldown = "over" /\ cooldown' = cooldown
    <3>1. Keeps(sessionLock, lock, t) /\ Keeps(opLock, opLock', t)
      BY <2>1, <1>2 DEF Ends
    <3>2. /\ LockInv' /\ sessionLock' \in Lock /\ opLock' \in Lock
          /\ "poll" \in Request /\ Moves(t, "idle", "poll")
          /\ pc'[t] = "idle" /\ request'[t] = "poll"
          /\ \A u \in Task \ {t} : /\ pc'[u] = pc[u] /\ request'[u] = request[u]
                                   /\ seen'[u] = seen[u]
          /\ seen' \in [Task -> SUBSET Station]
      BY <2>1, <3>1, ReturnStep
    <3>3. DataOK'
      BY <2>1, <3>2 DEF IInv, TypeOK, DataOK, EndCommand, Ends, valves
    <3>4. TypeOK'
      BY <1>1, <2>1, <3>2, <3>3, TypeStep DEF IInv
    <3>5. refreshing # Nobody => refreshing \in Task
      BY DEF IInv, TypeOK
    <3> QED BY <2>1, <3>2, <3>4, <3>5
  <2>2. CASE cooldown = "over" /\ RunRefresh(t, "refresh", lock) /\ UNCHANGED seen
    <3>1. Keeps(sessionLock, lock, t) /\ DataOK'
      BY <2>2 DEF IInv, TypeOK, DataOK, EndCommand, Ends, RunRefresh, valves
    <3>2. /\ LockInv' /\ TypeOK'
          /\ pc'[t] \in {"opWait", "sessionWait"} /\ request'[t] = "refresh"
          /\ \A u \in Task \ {t} : pc'[u] = pc[u] /\ request'[u] = request[u]
      BY <2>2, <3>1, RunRefreshStep DEF Refresh
    <3> QED BY <2>2, <3>2 DEF Refresh
  <2> QED BY <2>1, <2>2 DEF EndCommand, RequestRefresh, debouncer
<1>4. InSession(t) \/ latest' = latest
  BY DEF EndCommand, Ends, InSession
<1>5. ReadInv'
  BY <1>3, <1>4, OthersRead DEF EndCommand
<1>6. RefreshOwed'
  <2>1. SUFFICES ASSUME latest' = "returned", available, cooldown' # "due",
                        ~(request'[t] \in Refresh /\ pc'[t] \in {"opWait", "sessionWait"})
                 PROVE  \E u \in Task \ {t} :
                           /\ request[u] \in Refresh
                           /\ \/ pc[u] \in {"opWait", "sessionWait", "connecting", "working"}
                              \/ pc[u] = "closing" /\ outcome[u] # "ok"
    <3>1. \A u \in Task \ {t} : outcome'[u] = outcome[u]
      BY DEF Ends, IInv, TypeOK
    <3>2. available' = available
      BY DEF EndCommand, valves
    <3> QED BY <1>3, <3>1, <3>2 DEF RefreshOwed
  <2>2. CASE cooldown' = cooldown /\ ~OwesRefresh(t, result)
    <3>1. latest = "returned"
      BY <2>1, <2>2 DEF EndCommand, OwesRefresh
    <3> QED BY <1>1, <2>1, <2>2, <3>1 DEF IInv, RefreshOwed
  <2>3. CASE refreshing \in Task /\ cooldown = "over" /\ cooldown' = cooldown
    <3>1. PICK u \in Task : u = refreshing /\ request[u] \in Refresh /\ pc[u] # "idle"
      BY <2>3 DEF IInv, TypeOK
    <3>2. CASE InSession(t)
      <4>1. u # t /\ pc[u] \in {"opWait", "sessionWait"}
        BY <1>1, <3>1, <3>2, Alone DEF IInv, TypeOK, InSession
      <4> QED BY <3>1, <4>1
    <3>3. CASE latest = "returned"
      BY <1>1, <2>1, <2>3, <3>3 DEF IInv, RefreshOwed
    <3> QED BY <1>4, <2>1, <3>2, <3>3
  <2> QED BY <1>3, <2>1, <2>2, <2>3
<1>7. ShownInv'
  <2>1. \A u \in Task \ {t} : outcome'[u] = outcome[u]
    BY DEF Ends, IInv, TypeOK
  <2> QED BY <1>3, <2>1 DEF IInv, ShownInv, EndCommand, Ends, IsCommand, valves
<1> QED BY <1>3, <1>5, <1>6, <1>7 DEF IInv

\* Whatever reads gives up the operation lock with the session lock.
LEMMA ReadReturns ==
    ASSUME IInv, NEW t \in Task, NEW result, NEW lock, Ends(t, result, lock),
           ~IsCommand(t), Return(t), sessionLock' = lock, opLock' = Release(opLock),
           changed' = changed, latest' \in {latest, "dropped"}, DataOK',
           refreshing' = IF request[t] \in Refresh THEN Nobody ELSE refreshing
    PROVE  /\ LockInv' /\ TypeOK' /\ ReadInv' /\ pc'[t] = "idle"
           /\ \A u \in Task \ {t} : /\ pc'[u] = pc[u] /\ request'[u] = request[u]
                                    /\ outcome'[u] = outcome[u]
<1>1. opLock \in Lock /\ opLock.owner = t
  BY DEF Ends, IInv, TypeOK, LockInv, OwnLocks
<1>2. Keeps(sessionLock, lock, t) /\ Keeps(opLock, opLock', t)
  BY <1>1, KeepsReleased DEF Ends
<1>3. /\ LockInv' /\ sessionLock' \in Lock /\ opLock' \in Lock
      /\ "poll" \in Request /\ Moves(t, "idle", "poll")
      /\ pc'[t] = "idle" /\ request'[t] = "poll"
      /\ \A u \in Task \ {t} : /\ pc'[u] = pc[u] /\ request'[u] = request[u]
                               /\ seen'[u] = seen[u]
  BY <1>2, ReturnStep
<1>4. TypeOK'
  <2>1. refreshing = t <=> request[t] \in Refresh
    BY DEF Ends, IInv, TypeOK
  <2> QED BY <1>3, <2>1, TypeStep DEF IInv
<1>5. ReadInv'
  BY <1>3, OthersRead
<1>6. \A u \in Task \ {t} : outcome'[u] = outcome[u]
  BY DEF Ends, IInv, TypeOK
<1> QED BY <1>3, <1>4, <1>5, <1>6

\* What t publishes is true, unless a command was dropped or the stations changed.
LEMMA PublishedIsRead ==
    ASSUME IInv, NEW t \in Task, NEW lock, Ends(t, "ok", lock), ~IsCommand(t)
    PROVE  /\ latest \in {"read", "dropped"}
           /\ latest = "read" /\ ~changed => seen[t] = running
BY DEF Ends, IInv, ReadInv, HasRead

LEMMA PublishTypes ==
    ASSUME IInv, NEW t \in Task, NEW result, NEW harmless, Publish(t, result, harmless)
    PROVE  /\ shown' \in SUBSET Station /\ available' \in BOOLEAN
           /\ result # "ok" => shown' = shown
           /\ result \notin {"ok", harmless} => ~available'
           /\ result # "ok" /\ available' => available
<1>1. shown \in SUBSET Station /\ seen[t] \in SUBSET Station
  BY DEF IInv, TypeOK
<1>2. CASE result = "ok"
  BY <1>1, <1>2 DEF Publish
<1>3. CASE result # "ok"
  BY <1>1, <1>3 DEF Publish, IInv, TypeOK
<1> QED BY <1>2, <1>3

\* A refresh that does not see what the last command did leaves it dropped, or the
\* valves unavailable.
LEMMA EndRefreshStep ==
    ASSUME IInv, NEW t \in Task, NEW result, NEW lock, Ends(t, result, lock),
           request[t] \in Refresh, EndRefresh(t, result, lock)
    PROVE  IInv'
<1>1. ~IsCommand(t)
  BY DEF IsCommand, Refresh, Stop
<1>2. /\ shown' \in SUBSET Station /\ available' \in BOOLEAN
      /\ result # "ok" => shown' = shown
      /\ result \notin {"ok", "cancelled"} => ~available'
      /\ result # "ok" /\ available' => available
  BY PublishTypes DEF EndRefresh
<1>3. DataOK'
  BY <1>2 DEF EndRefresh, Return, Ends, IInv, TypeOK, DataOK
<1>4. latest' \in {latest, "dropped"} /\ (result = "cancelled" => latest' = "dropped")
  BY DEF EndRefresh
<1>5. /\ LockInv' /\ TypeOK' /\ ReadInv' /\ pc'[t] = "idle"
      /\ \A u \in Task \ {t} : /\ pc'[u] = pc[u] /\ request'[u] = request[u]
                               /\ outcome'[u] = outcome[u]
  BY <1>1, <1>3, <1>4, ReadReturns DEF EndRefresh
<1>6. CASE result = "ok"
  <2>1. /\ latest \in {"read", "dropped"}
        /\ latest = "read" /\ ~changed => seen[t] = running
    BY <1>1, <1>6, PublishedIsRead
  <2>2. shown' = seen[t] /\ running' = running /\ changed' = changed
    BY <1>6 DEF EndRefresh, Publish, Ends
  <2> QED BY <1>4, <1>5, <2>1, <2>2 DEF IInv, RefreshOwed, ShownInv
<1>7. CASE result # "ok"
  <2>1. latest' = "dropped" \/ ~available'
    BY <1>2, <1>4, <1>7
  <2> QED BY <1>5, <2>1 DEF IInv, RefreshOwed, ShownInv
<1> QED BY <1>6, <1>7

\* An edit may take the place of a refresh put off only by what it has read itself.
LEMMA EndEditStep ==
    ASSUME IInv, NEW t \in Task, NEW result, NEW lock, Ends(t, result, lock),
           request[t] = Edit, EndEdit(t, result, lock)
    PROVE  IInv'
<1>1. ~IsCommand(t) /\ request[t] \notin Refresh
  BY DEF IsCommand, Refresh, Stop, Edit
<1>2. /\ shown' \in SUBSET Station /\ available' \in BOOLEAN
      /\ result # "ok" => shown' = shown
      /\ result \notin {"ok", "invalid"} => ~available'
      /\ result # "ok" /\ available' => available
  BY PublishTypes DEF EndEdit
<1>3. DataOK' /\ latest' = latest /\ changed' = changed /\ running' = running
  BY <1>2 DEF EndEdit, Return, Ends, IInv, TypeOK, DataOK, history
<1>4. /\ LockInv' /\ TypeOK' /\ ReadInv' /\ pc'[t] = "idle"
      /\ \A u \in Task \ {t} : /\ pc'[u] = pc[u] /\ request'[u] = request[u]
                               /\ outcome'[u] = outcome[u]
  BY <1>1, <1>3, ReadReturns DEF EndEdit
<1>5. CASE result = "ok"
  <2>1. /\ latest \in {"read", "dropped"}
        /\ latest = "read" /\ ~changed => seen[t] = running
    BY <1>1, <1>5, PublishedIsRead
  <2>2. shown' = seen[t]
    BY <1>5 DEF EndEdit, Publish
  <2> QED BY <1>3, <1>4, <2>1, <2>2 DEF IInv, RefreshOwed, ShownInv
<1>6. CASE result = "invalid"
  <2>1. /\ shown' = shown /\ (available' => available) /\ cooldown' = cooldown
        /\ outcome[t] = "invalid"
    BY <1>2, <1>6 DEF EndEdit, Ends
  <2>2. RefreshOwed'
    BY <1>1, <1>3, <1>4, <2>1 DEF IInv, RefreshOwed
  <2>3. ShownInv'
    BY <1>3, <1>4, <2>1 DEF IInv, ShownInv, IsCommand
  <2> QED BY <1>4, <2>2, <2>3 DEF IInv
<1>7. CASE result \notin {"ok", "invalid"}
  BY <1>2, <1>4, <1>7 DEF IInv, RefreshOwed, ShownInv
<1> QED BY <1>5, <1>6, <1>7

LEMMA EndStep ==
    ASSUME IInv, NEW t \in Task,
           \/ Disconnected(t) \/ ConnectFails(t) \/ Cancel(t)
    PROVE  IInv'
<1>1. ASSUME NEW result, NEW lock, Ends(t, result, lock), End(t, result, lock)
      PROVE  IInv'
  BY <1>1, EndCommandStep, EndRefreshStep, EndEditStep DEF End
<1>2. /\ sessionLock \in Lock /\ OwnLocks(t)
      /\ sessionLock.owner = t => Keeps(sessionLock, Release(sessionLock), t)
      /\ Waits(sessionLock, t) => Keeps(sessionLock, Leave(sessionLock, t), t)
  BY KeepsReleased, KeepsLeft DEF IInv, TypeOK, LockInv
<1>3. CASE Disconnected(t)
  BY <1>1, <1>2, <1>3 DEF Disconnected, End, Ends, OwnLocks, InSession
<1>4. CASE ConnectFails(t)
  BY <1>1, <1>2, <1>4 DEF ConnectFails, End, Ends, OwnLocks, InSession
<1>5. CASE /\ pc[t] \in {"working", "acking", "closing"}
           /\ Close(t, "cancelled")
           /\ UNCHANGED <<running, sessionLock, opLock, debouncer, valves,
                          request, seen, history>>
  BY <1>5, CloseStep DEF InSession
<1>6. CASE /\ pc[t] \in {"sessionWait", "connecting"}
           /\ End(t, "cancelled", Leave(sessionLock, t))
  <2>1. Waits(sessionLock, t)
    BY <1>2, <1>6 DEF OwnLocks, InSession, Waits
  <2> QED BY <1>1, <1>2, <1>6, <2>1 DEF End, Ends
<1> QED BY <1>3, <1>4, <1>5, <1>6 DEF Cancel

\* A task that leaves the queue for the operation lock has read nothing.
LEMMA CancelOpWaitStep ==
    ASSUME IInv, NEW t \in Task, CancelOpWait(t)
    PROVE  IInv'
<1>1. /\ sessionLock \in Lock /\ opLock \in Lock /\ Waits(opLock, t) /\ ~IsCommand(t)
      /\ sessionLock' = sessionLock /\ Keeps(sessionLock, sessionLock, t)
  BY DEF CancelOpWait, IInv, TypeOK, LockInv, OwnLocks, Keeps
<1>2. Keeps(opLock, opLock', t)
  BY <1>1, KeepsLeft DEF CancelOpWait
<1>3. /\ LockInv' /\ sessionLock' \in Lock /\ opLock' \in Lock
      /\ "poll" \in Request /\ Moves(t, "idle", "poll")
      /\ pc'[t] = "idle" /\ request'[t] = "poll"
      /\ \A u \in Task \ {t} : /\ pc'[u] = pc[u] /\ request'[u] = request[u]
                               /\ seen'[u] = seen[u]
      /\ seen' \in [Task -> SUBSET Station]
  BY <1>1, <1>2, ReturnStep DEF CancelOpWait
<1>4. request[t] \in Refresh <=> request[t] # Edit
  BY <1>1 DEF IInv, TypeOK, Request, IsCommand, Edit, Refresh
<1>5. /\ DataOK'
      /\ IF request[t] = Edit THEN refreshing' = refreshing /\ cooldown' = cooldown
                                   /\ latest' = latest
                              ELSE refreshing' = Nobody /\ latest' = "dropped"
  BY <1>3 DEF CancelOpWait, IInv, TypeOK, DataOK, debouncer, valves
<1>6. TypeOK'
  <2>1. refreshing = t <=> request[t] \in Refresh
    BY DEF CancelOpWait, IInv, TypeOK
  <2> QED BY <1>3, <1>4, <1>5, <2>1, TypeStep DEF IInv
<1>7. CASE request[t] = Edit
  <2>1. ReadInv' /\ RefreshOwed' /\ ShownInv'
    <3>1. UNCHANGED <<running, valves, outcome, history>>
      BY <1>5, <1>7 DEF CancelOpWait, history
    <3>2. \A u \in Task : /\ HasRead(u)' => HasRead(u) /\ seen'[u] = seen[u]
      BY <1>3, <3>1 DEF HasRead, IsCommand
    <3>3. ReadInv'
      BY <3>1, <3>2 DEF IInv, ReadInv, history
    <3>4. RefreshOwed' /\ ShownInv'
      BY <1>3, <1>4, <1>5, <1>7, <3>1
         DEF CancelOpWait, IInv, RefreshOwed, ShownInv, IsCommand, valves, history
    <3> QED BY <3>3, <3>4
  <2> QED BY <1>3, <1>6, <2>1 DEF IInv
<1>8. CASE request[t] # Edit
  BY <1>3, <1>5, <1>6, <1>8 DEF IInv, ReadInv, RefreshOwed, ShownInv
<1> QED BY <1>7, <1>8

LEMMA ElsewhereStep == IInv /\ Elsewhere => IInv'
<1> SUFFICES ASSUME IInv, Elsewhere PROVE IInv'
  OBVIOUS
<1>1. TypeOK'
  BY DEF Elsewhere, IInv, TypeOK, InSession, debouncer, valves, frame
<1>2. LockInv'
  BY DEF Elsewhere, IInv, LockInv, OwnLocks, InSession, IsCommand, frame
<1>3. ReadInv' /\ RefreshOwed' /\ ShownInv'
  BY DEF Elsewhere, IInv, ReadInv, HasRead, RefreshOwed, ShownInv, IsCommand,
         debouncer, valves, frame
<1> QED BY <1>1, <1>2, <1>3 DEF IInv
-----------------------------------------------------------------------------
(* Theorems *)

LEMMA InvStep == IInv /\ [Next]_vars => IInv'
<1> SUFFICES ASSUME IInv, [Next]_vars PROVE IInv'
  OBVIOUS
<1>1. ASSUME NEW t \in Task, Progress(t) PROVE IInv'
  BY <1>1, SessionStep, EndStep DEF Progress
<1>2. ASSUME NEW t \in Task, Cancel(t) \/ CancelOpWait(t) PROVE IInv'
  BY <1>2, EndStep, CancelOpWaitStep
<1>3. CASE UNCHANGED vars
  <2>1. TypeOK' /\ LockInv'
    BY <1>3 DEF IInv, TypeOK, LockInv, OwnLocks, InSession, IsCommand,
                vars, debouncer, valves, frame, history
  <2>2. ReadInv' /\ RefreshOwed' /\ ShownInv'
    BY <1>3 DEF IInv, ReadInv, HasRead, RefreshOwed, ShownInv, IsCommand,
                vars, debouncer, valves, frame, history
  <2> QED BY <2>1, <2>2 DEF IInv
<1> QED BY <1>1, <1>2, <1>3, StartStep, ElsewhereStep DEF Next

THEOREM Invariance == Spec => []IInv
BY InitInv, InvStep, PTL DEF Spec

\* Sessions exclude each other, and a refresh holds the debouncer's lock from its
\* start to its end (BleakClient's session lock, the debouncer's execute lock).
THEOREM TypeCorrect == Spec => []TypeOK
BY Invariance, PTL DEF IInv

\* A read is owed to every command that returned, as long as the valves are available
\* (async_start_station, async_stop_all).
THEOREM ReadOwed == Spec => []RefreshOwed
BY Invariance, PTL DEF IInv

\* The valves show the stations that water when nothing is under way
\* (HunterNodeValve.is_closed).
THEOREM ValvesTrue == Spec => []ValvesTruthful
<1>1. IInv => ValvesTruthful
  <2> SUFFICES ASSUME IInv, available, ~changed, latest \in {"read", "returned"},
                      ~ReadPending
               PROVE  shown = running
    BY DEF ValvesTruthful
  <2>1. latest = "read"
    BY DEF IInv, RefreshOwed, ReadPending
  <2>2. ASSUME NEW t \in Task, pc[t] = "closing" PROVE IsCommand(t)
    BY <2>2 DEF IInv, TypeOK, ReadPending, IsCommand, Request, Refresh, Edit, Stop
  <2> QED BY <2>1, <2>2 DEF IInv, ShownInv
<1> QED BY <1>1, Invariance, PTL
=============================================================================
