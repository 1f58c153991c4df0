-------------------------- MODULE CoordinatorProofs --------------------------
(***************************************************************************)
(* Proofs about Coordinator for every number of tasks, generations,        *)
(* programs and fields. The inductive invariant says who holds and who     *)
(* waits for each lock, and what an edit knows at each point of its        *)
(* session: nobody but the owner of the session lock changes the           *)
(* controller's programs or the backup store while it is connected. The    *)
(* last part adds what the coordinators report to it.                      *)
(***************************************************************************)
EXTENDS Coordinator, FifoLockProofs

\* A task in a session owns the session lock, one past opWait its operation lock,
\* and one that waits for either has its place.
LockInv ==
    /\ \A t \in Task : pc[t] # "idle" => request[t] \in Request
    /\ \A t \in Task : InSession(t) => sessionLock.owner = t
    /\ \A t \in Task : pc[t] = "sessionWait" => Waits(sessionLock, t)
    /\ \A t \in Task : HoldsOp(t) => opLock[home[t]].owner = t
    /\ \A t \in Task : pc[t] = "opWait" => Waits(opLock[home[t]], t)

EditSteps == {"loading", "saving", "writing", "acking", "verifying", "confirming"}

\* Up to its write an edit's first read is what the controller holds; from then on
\* only the program it edits may differ; a success has been read back.
KnowsDevice(t) ==
    /\ pc[t] \in EditSteps => IsEdit(t) /\ before[t] \in Programs
    /\ pc[t] = "commanding" => ~IsEdit(t)
    /\ pc[t] \in {"loading", "saving", "writing"} => before[t] = device
    /\ pc[t] \in {"acking", "verifying"} =>
          \A l \in Letter \ {request[t].letter} : device[l] = before[t][l]
    /\ pc[t] = "stating" /\ IsEdit(t) =>
          /\ before[t] = device
          /\ snapshot[t] = device
          /\ Wanted(t) = device[request[t].letter]
    /\ pc[t] = "confirming" \/ (pc[t] = "disconnecting" /\ outcome[t] = "ok" /\ IsEdit(t)) =>
          /\ snapshot[t] = device
          /\ device = [before[t] EXCEPT ![request[t].letter] = Wanted(t)]
    /\ pc[t] = "disconnecting" /\ outcome[t] = "invalid" /\ IsEdit(t) => before[t] = device

\* The store an edit is about to save is the current one, and what it is about to
\* overwrite on the controller has been saved.
KnowsBackups(t) ==
    /\ pc[t] = "saving" => loaded[t] = backups
    /\ pc[t] = "writing" => backups[request[t].letter] = device[request[t].letter]

EditInv == \A t \in Task : KnowsDevice(t) /\ KnowsBackups(t)

IInv == TypeOK /\ LockInv /\ EditInv

USE CoordinatorAssumption, NobodyIsNoTask
-----------------------------------------------------------------------------
LEMMA InitInv == Init => IInv
<1> SUFFICES ASSUME Init PROVE IInv
  OBVIOUS
<1>1. TypeOK
  BY DEF Init, TypeOK, Generation, FreeLock, Lock, Status, Outcome, Where
<1>2. LockInv
  BY DEF Init, LockInv, InSession, HoldsOp, Connected
<1>3. EditInv
  BY DEF Init, EditInv, KnowsDevice, KnowsBackups, EditSteps
<1> QED BY <1>1, <1>2, <1>3 DEF IInv

\* A task that moves on inside its session disturbs no lock.
LEMMA SessionKeepsLocks ==
    ASSUME IInv, NEW t \in Task, InSession(t),
           NEW w \in Connected, pc' = [pc EXCEPT ![t] = w],
           UNCHANGED <<sessionLock, opLock, home, request>>
    PROVE  LockInv'
<1> USE DEF IInv, TypeOK
<1>1. \A u \in Task : pc'[u] = IF u = t THEN w ELSE pc[u]
  OBVIOUS
<1>2. pc[t] \notin {"idle", "opWait", "sessionWait"} /\ w \notin {"idle", "opWait", "sessionWait"}
  BY DEF InSession, Connected
<1>3. \A u \in Task : (HoldsOp(u))' => HoldsOp(u)
  BY <1>1, <1>2 DEF HoldsOp, IsCommand, Where
<1>4. \A u \in Task : (InSession(u))' => InSession(u)
  BY <1>1 DEF InSession
<1> QED BY <1>1, <1>2, <1>3, <1>4 DEF LockInv

\* Only the task in the session is anywhere in a session.
LEMMA Alone ==
    ASSUME IInv, NEW t \in Task, InSession(t)
    PROVE  \A u \in Task \ {t} : ~InSession(u)
  BY DEF IInv, LockInv
-----------------------------------------------------------------------------
(* The steps inside a session: type, locks, then what the edit knows. *)

LEMMA CommandsAreNoEdits == \A t \in Task : IsCommand(t) => ~IsEdit(t)
<1> SUFFICES ASSUME NEW t \in Task, request[t] \in {Start, Stop}, request[t] \in Edits
             PROVE  FALSE
  BY DEF IsCommand, IsEdit
<1>1. request[t].kind \in {"start", "stop"}
  BY DEF Start, Stop
<1>2. request[t].kind = "program"
  BY DEF Edits
<1> QED BY <1>1, <1>2

\* The other tasks know nothing that a step outside their session could change, for
\* they have none.
LEMMA OthersKnow ==
    ASSUME IInv, NEW t \in Task, InSession(t),
           NEW w \in Connected, pc' = [pc EXCEPT ![t] = w]
    PROVE  \A u \in Task \ {t} : (KnowsDevice(u) /\ KnowsBackups(u))'
<1> SUFFICES ASSUME NEW u \in Task \ {t}
             PROVE  (KnowsDevice(u) /\ KnowsBackups(u))'
  OBVIOUS
<1>1. pc'[u] = pc[u] /\ pc[u] \notin Connected
  BY Alone DEF IInv, TypeOK, InSession
<1> QED BY <1>1 DEF KnowsDevice, KnowsBackups, EditSteps, Connected

LEMMA AuthenticateInv ==
    ASSUME IInv, NEW t \in Task, Authenticate(t) PROVE IInv'
<1> DEFINE w == IF IsCommand(t) THEN "commanding" ELSE "reading"
<1>1. InSession(t) /\ w \in Connected /\ pc' = [pc EXCEPT ![t] = w]
  BY DEF Authenticate, Goto, InSession, Connected
<1>2. TypeOK'
  BY <1>1 DEF IInv, TypeOK, Authenticate, coordVars, Where
<1>3. LockInv'
  BY <1>1, SessionKeepsLocks DEF Authenticate, coordVars
<1>4. (KnowsDevice(t) /\ KnowsBackups(t))'
  BY <1>1, CommandsAreNoEdits DEF IInv, TypeOK, Authenticate, coordVars,
                                  KnowsDevice, KnowsBackups, EditSteps, IsEdit, IsCommand
<1> QED BY <1>1, <1>2, <1>3, <1>4, OthersKnow DEF IInv, EditInv

LEMMA ReadAllInv ==
    ASSUME IInv, NEW t \in Task, ReadAll(t) PROVE IInv'
<1> USE DEF Disconnect, Goto
<1>1. PICK w \in Connected : pc' = [pc EXCEPT ![t] = w]
  BY DEF ReadAll, Connected
<1>2. InSession(t)
  BY DEF ReadAll, InSession, Connected
<1>3. TypeOK'
  BY <1>1 DEF IInv, TypeOK, ReadAll, coordVars, Where, Outcome
<1>4. LockInv'
  BY <1>1, <1>2, SessionKeepsLocks DEF ReadAll, coordVars
<1>5. (KnowsDevice(t) /\ KnowsBackups(t))'
  BY DEF IInv, TypeOK, ReadAll, KnowsDevice, KnowsBackups, EditSteps, IsEdit, Wanted, Edits
<1> QED BY <1>1, <1>2, <1>3, <1>4, <1>5, OthersKnow DEF IInv, EditInv

LEMMA ReadStateInv ==
    ASSUME IInv, NEW t \in Task, ReadState(t) PROVE IInv'
<1>1. InSession(t) /\ "disconnecting" \in Connected /\ pc' = [pc EXCEPT ![t] = "disconnecting"]
  BY DEF ReadState, Disconnect, Goto, InSession, Connected
<1>2. TypeOK'
  BY <1>1 DEF IInv, TypeOK, ReadState, Disconnect, coordVars, Where, Outcome
<1>3. LockInv'
  BY <1>1, SessionKeepsLocks DEF ReadState, coordVars
<1>4. (KnowsDevice(t) /\ KnowsBackups(t))'
  <2>1. IsEdit(t) => /\ snapshot[t] = device
                     /\ device = [before[t] EXCEPT ![request[t].letter] = Wanted(t)]
    <3>1. CASE pc[t] = "confirming"
      BY <3>1 DEF IInv, EditInv, KnowsDevice
    <3>2. CASE pc[t] = "stating"
      BY <3>2 DEF IInv, EditInv, KnowsDevice, TypeOK, Programs, IsEdit, Edits
    <3> QED BY <3>1, <3>2 DEF ReadState
  <2> QED
    BY <1>1, <2>1 DEF IInv, TypeOK, ReadState, Disconnect, KnowsDevice, KnowsBackups,
                      EditSteps, IsEdit, Wanted
<1> QED BY <1>1, <1>2, <1>3, <1>4, OthersKnow DEF IInv, EditInv

LEMMA LoadBackupsInv ==
    ASSUME IInv, NEW t \in Task, LoadBackups(t) PROVE IInv'
<1>1. InSession(t) /\ "saving" \in Connected /\ pc' = [pc EXCEPT ![t] = "saving"]
  BY DEF LoadBackups, Goto, InSession, Connected
<1>2. TypeOK'
  BY <1>1 DEF IInv, TypeOK, LoadBackups, coordVars, Where
<1>3. LockInv'
  BY <1>1, SessionKeepsLocks DEF LoadBackups, coordVars
<1>4. (KnowsDevice(t) /\ KnowsBackups(t))'
  BY <1>1 DEF IInv, EditInv, TypeOK, LoadBackups, KnowsDevice, KnowsBackups, EditSteps, IsEdit
<1> QED BY <1>1, <1>2, <1>3, <1>4, OthersKnow DEF IInv, EditInv

LEMMA SaveBackupInv ==
    ASSUME IInv, NEW t \in Task, SaveBackup(t) PROVE IInv'
<1>1. InSession(t) /\ "writing" \in Connected /\ pc' = [pc EXCEPT ![t] = "writing"]
  BY DEF SaveBackup, Goto, InSession, Connected
<1>2. /\ IsEdit(t)
      /\ request[t].letter \in Letter
      /\ before[t] = device
      /\ loaded[t] = backups
      /\ backups' = [backups EXCEPT ![request[t].letter] = device[request[t].letter]]
  BY DEF IInv, EditInv, SaveBackup, KnowsDevice, KnowsBackups, EditSteps, IsEdit, Edits, BackupOf
<1>3. TypeOK'
  BY <1>1, <1>2 DEF IInv, TypeOK, SaveBackup, coordVars, Where, Programs
<1>4. LockInv'
  BY <1>1, SessionKeepsLocks DEF SaveBackup, coordVars
<1>5. (KnowsDevice(t) /\ KnowsBackups(t))'
  BY <1>1, <1>2 DEF IInv, TypeOK, SaveBackup, KnowsDevice, KnowsBackups, EditSteps, IsEdit
<1> QED BY <1>1, <1>3, <1>4, <1>5, OthersKnow DEF IInv, EditInv

LEMMA DeliverWriteInv ==
    ASSUME IInv, NEW t \in Task, DeliverWrite(t) PROVE IInv'
<1>1. InSession(t) /\ "acking" \in Connected /\ pc' = [pc EXCEPT ![t] = "acking"]
  BY DEF DeliverWrite, Goto, InSession, Connected
<1>2. PICK p \in Program : device' = [device EXCEPT ![request[t].letter] = p]
  BY DEF DeliverWrite
<1>3. IsEdit(t) /\ request[t].letter \in Letter /\ before[t] = device
  BY DEF IInv, EditInv, DeliverWrite, KnowsDevice, EditSteps, IsEdit, Edits
<1>4. TypeOK'
  BY <1>1, <1>2, <1>3 DEF IInv, TypeOK, DeliverWrite, Where, Programs
<1>5. LockInv'
  BY <1>1, SessionKeepsLocks DEF DeliverWrite
<1>6. (KnowsDevice(t) /\ KnowsBackups(t))'
  BY <1>1, <1>2, <1>3 DEF IInv, TypeOK, DeliverWrite, KnowsDevice, KnowsBackups, EditSteps,
                          IsEdit, Programs
<1> QED BY <1>1, <1>4, <1>5, <1>6, OthersKnow DEF IInv, EditInv

LEMMA AnswerWriteInv ==
    ASSUME IInv, NEW t \in Task, AnswerWrite(t) PROVE IInv'
<1> USE DEF Disconnect, Goto
<1>1. PICK w \in Connected : pc' = [pc EXCEPT ![t] = w]
  BY DEF AnswerWrite, Connected
<1>2. InSession(t)
  BY DEF AnswerWrite, InSession, Connected
<1>3. TypeOK'
  BY <1>1 DEF IInv, TypeOK, AnswerWrite, coordVars, Where, Outcome
<1>4. LockInv'
  BY <1>1, <1>2, SessionKeepsLocks DEF AnswerWrite, coordVars
<1>5. (KnowsDevice(t) /\ KnowsBackups(t))'
  BY DEF IInv, EditInv, TypeOK, AnswerWrite, KnowsDevice, KnowsBackups, EditSteps, IsEdit
<1> QED BY <1>1, <1>2, <1>3, <1>4, <1>5, OthersKnow DEF IInv, EditInv

LEMMA ReadBackInv ==
    ASSUME IInv, NEW t \in Task, ReadBack(t) PROVE IInv'
<1> USE DEF Disconnect, Goto
<1>1. PICK w \in Connected : pc' = [pc EXCEPT ![t] = w]
  BY DEF ReadBack, Connected
<1>2. InSession(t)
  BY DEF ReadBack, InSession, Connected
<1>3. TypeOK'
  BY <1>1 DEF IInv, TypeOK, ReadBack, coordVars, Where, Outcome
<1>4. LockInv'
  BY <1>1, <1>2, SessionKeepsLocks DEF ReadBack, coordVars
<1>5. (KnowsDevice(t) /\ KnowsBackups(t))'
  <2>1. /\ IsEdit(t) /\ request[t].letter \in Letter
        /\ before[t] \in Programs /\ device \in Programs
        /\ \A l \in Letter \ {request[t].letter} : device[l] = before[t][l]
    BY DEF IInv, EditInv, TypeOK, ReadBack, KnowsDevice, EditSteps, IsEdit, Edits
  <2>2. CASE Matches(t)
    <3>1. device = [before[t] EXCEPT ![request[t].letter] = Wanted(t)]
      BY <2>1, <2>2 DEF Matches, Programs
    <3>2. pc'[t] = "confirming" /\ snapshot'[t] = device
      BY <2>2 DEF IInv, TypeOK, ReadBack
    <3>3. UNCHANGED <<device, backups, request, before>>
      BY DEF ReadBack
    <3> QED
      BY <2>1, <3>1, <3>2, <3>3 DEF KnowsDevice, KnowsBackups, EditSteps, IsEdit, Wanted
  <2>3. CASE ~Matches(t)
    BY <2>3 DEF IInv, TypeOK, ReadBack, KnowsDevice, KnowsBackups, EditSteps, IsEdit
  <2> QED BY <2>2, <2>3
<1> QED BY <1>1, <1>2, <1>3, <1>4, <1>5, OthersKnow DEF IInv, EditInv

\* Every step that only gives up or finishes, with a result that claims no success.
LEMMA GiveUpInv ==
    ASSUME IInv, NEW t \in Task, InSession(t),
           NEW result \in Outcome, Disconnect(t, result),
           IsEdit(t) => result # "ok",
           IsEdit(t) /\ result = "invalid" => before[t] = device,
           UNCHANGED <<device, current, sessionLock, backups, coordVars,
                       home, request, before, snapshot, loaded>>
    PROVE  IInv'
<1>1. "disconnecting" \in Connected /\ pc' = [pc EXCEPT ![t] = "disconnecting"]
  BY DEF Disconnect, Goto, Connected
<1>2. TypeOK'
  BY <1>1 DEF IInv, TypeOK, Disconnect, coordVars, Where
<1>3. LockInv'
  BY <1>1, SessionKeepsLocks DEF coordVars
<1>4. (KnowsDevice(t) /\ KnowsBackups(t))'
  BY <1>1 DEF IInv, TypeOK, Disconnect, KnowsDevice, KnowsBackups, EditSteps, IsEdit
<1> QED BY <1>1, <1>2, <1>3, <1>4, OthersKnow DEF IInv, EditInv

LEMMA CommandInv ==
    ASSUME IInv, NEW t \in Task, Command(t) PROVE IInv'
<1>1. PICK result \in {"ok", "error"} : Disconnect(t, result)
  BY DEF Command
<1>2. InSession(t) /\ ~IsEdit(t)
  BY DEF IInv, EditInv, Command, KnowsDevice, InSession, Connected
<1>3. result \in Outcome
  BY DEF Outcome
<1> QED BY <1>1, <1>2, <1>3, GiveUpInv DEF Command

LEMMA FailInv ==
    ASSUME IInv, NEW t \in Task, Fail(t) PROVE IInv'
<1>1. PICK result \in FailureOf(t) : Disconnect(t, result)
  BY DEF Fail
<1>2. InSession(t)
  BY DEF Fail, InSession
<1>3. result \in Outcome /\ result # "ok"
  BY DEF FailureOf, Outcome
<1>4. IsEdit(t) /\ result = "invalid" => before[t] = device
  BY DEF FailureOf, IInv, EditInv, KnowsDevice
<1> QED BY <1>1, <1>2, <1>3, <1>4, GiveUpInv DEF Fail

LEMMA CancelSessionInv ==
    ASSUME IInv, NEW t \in Task, CancelSession(t) PROVE IInv'
<1>1. InSession(t) /\ "cancelled" \in Outcome
  BY DEF CancelSession, InSession, Outcome
<1> QED BY <1>1, GiveUpInv DEF CancelSession
-----------------------------------------------------------------------------
(* Asking for locks. *)

\* A task that moves on outside its session, and leaves what the others know alone.
LEMMA OutsideKnows ==
    ASSUME IInv, NEW t \in Task, NEW w \in Where \ Connected,
           pc' = [pc EXCEPT ![t] = w],
           \A u \in Task \ {t} : request'[u] = request[u] /\ before'[u] = before[u]
                /\ snapshot'[u] = snapshot[u] /\ loaded'[u] = loaded[u] /\ outcome'[u] = outcome[u],
           UNCHANGED <<device, backups>>
    PROVE  EditInv'
<1> SUFFICES ASSUME NEW u \in Task PROVE (KnowsDevice(u) /\ KnowsBackups(u))'
  BY DEF EditInv
<1>1. CASE u = t
  BY <1>1 DEF IInv, TypeOK, KnowsDevice, KnowsBackups, EditSteps, Connected
<1>2. CASE u # t
  <2>1. pc'[u] = pc[u] /\ KnowsDevice(u) /\ KnowsBackups(u)
    BY <1>2 DEF IInv, TypeOK, EditInv
  <2> QED
    BY <1>2, <2>1 DEF KnowsDevice, KnowsBackups, IsEdit, Wanted
<1> QED BY <1>1, <1>2

\* Queueing for the session lock disturbs no one else.
LEMMA EnterLocks ==
    ASSUME IInv, NEW t \in Task, NEW c \in Generation, NEW r \in Request,
           ~InSession(t), pc[t] # "sessionWait", Enter(t, c, r),
           opLock' \in [Generation -> Lock],
           home' = [home EXCEPT ![t] = c], request' = [request EXCEPT ![t] = r],
           r \notin {Start, Stop} => opLock'[c].owner = t,
           \A u \in Task \ {t}, d \in Generation :
              /\ opLock[d].owner = u => opLock'[d].owner = u
              /\ Waits(opLock[d], u) => Waits(opLock'[d], u)
    PROVE  LockInv' /\ sessionLock' \in Lock
<1> USE DEF IInv, TypeOK, Enter, Goto
<1>1. /\ sessionLock' \in Lock
      /\ Waits(sessionLock', t)
      /\ \A u \in Task : Waits(sessionLock, u) => Waits(sessionLock', u)
      /\ \A u \in Task : sessionLock.owner = u => sessionLock'.owner = u
  BY AcquireLemma
<1>2. \A u \in Task \ {t} : /\ pc'[u] = pc[u]
                            /\ home'[u] = home[u]
                            /\ request'[u] = request[u]
                            /\ home[u] \in Generation
  OBVIOUS
<1>3. pc'[t] = "sessionWait" /\ home'[t] = c /\ request'[t] = r
  OBVIOUS
<1>4. (\A u \in Task : pc[u] # "idle" => request[u] \in Request)'
  BY <1>2, <1>3 DEF LockInv
<1>5. (\A u \in Task : InSession(u) => sessionLock.owner = u)'
  BY <1>1, <1>2, <1>3 DEF LockInv, InSession, Connected
<1>6. (\A u \in Task : pc[u] = "sessionWait" => Waits(sessionLock, u))'
  BY <1>1, <1>2, <1>3 DEF LockInv
<1>7. (\A u \in Task : HoldsOp(u) => opLock[home[u]].owner = u)'
  BY <1>2, <1>3 DEF LockInv, HoldsOp, IsCommand
<1>8. (\A u \in Task : pc[u] = "opWait" => Waits(opLock[home[u]], u))'
  BY <1>2, <1>3 DEF LockInv
<1> QED BY <1>1, <1>4, <1>5, <1>6, <1>7, <1>8 DEF LockInv

\* The operation lock of generation c, before and after t asks for it.
LEMMA OpLockAcquired ==
    ASSUME IInv, NEW t \in Task, NEW c \in Generation,
           opLock' = [opLock EXCEPT ![c] = Acquire(@, t)]
    PROVE  /\ opLock' \in [Generation -> Lock]
           /\ Waits(opLock'[c], t)
           /\ opLock[c].owner = Nobody => opLock'[c].owner = t
           /\ \A u \in Task, d \in Generation :
                 /\ opLock[d].owner = u => opLock'[d].owner = u
                 /\ Waits(opLock[d], u) => Waits(opLock'[d], u)
<1>1. /\ opLock[c] \in Lock
      /\ opLock'[c] = Acquire(opLock[c], t)
      /\ \A d \in Generation \ {c} : opLock'[d] = opLock[d]
  BY DEF IInv, TypeOK
<1>2. opLock' \in [Generation -> Lock]
  <2>1. Acquire(opLock[c], t) \in Lock
    BY <1>1, AcquireLemma
  <2> QED BY <2>1 DEF IInv, TypeOK
<1>3. opLock[c].owner = Nobody => opLock'[c].owner = t
  BY <1>1 DEF Acquire, Lock
<1>4. ASSUME NEW u \in Task, NEW d \in Generation
      PROVE  /\ opLock[d].owner = u => opLock'[d].owner = u
             /\ Waits(opLock[d], u) => Waits(opLock'[d], u)
  <2>1. CASE d = c
    <3>1. /\ opLock[c].owner = u => Acquire(opLock[c], t).owner = u
          /\ Waits(opLock[c], u) => Waits(Acquire(opLock[c], t), u)
      BY <1>1, AcquireLemma
    <3> QED BY <1>1, <2>1, <3>1
  <2>2. CASE d # c
    BY <1>1, <2>2
  <2> QED BY <2>1, <2>2
<1>5. Waits(opLock'[c], t)
  BY <1>1, AcquireLemma
<1> QED BY <1>2, <1>3, <1>4, <1>5

LEMMA CallInv ==
    ASSUME IInv, NEW t \in Task, NEW r \in Requests, Call(t, r) PROVE IInv'
<1> USE DEF Goto
<1>1. r \in Request /\ current \in Generation
  BY DEF IInv, TypeOK
<1>2. ~InSession(t) /\ pc[t] # "sessionWait"
  BY DEF Call, InSession, Connected
<1>3. PICK w \in {"sessionWait", "opWait"} : pc' = [pc EXCEPT ![t] = w]
  BY DEF Call, Enter
<1>4. EditInv'
  BY <1>3, OutsideKnows DEF Call, Where, Connected, IInv, TypeOK
<1>5. CASE r \in {Start, Stop} \/ opLock[current].owner = Nobody
  <2>1. Enter(t, current, r)
    BY <1>5 DEF Call
  <2>2. /\ opLock' \in [Generation -> Lock]
        /\ r \notin {Start, Stop} => opLock'[current].owner = t
        /\ \A u \in Task \ {t}, d \in Generation :
              /\ opLock[d].owner = u => opLock'[d].owner = u
              /\ Waits(opLock[d], u) => Waits(opLock'[d], u)
    <3>1. CASE r \in {Start, Stop}
      BY <3>1 DEF Call, IInv, TypeOK
    <3>2. CASE r \notin {Start, Stop}
      <4>1. opLock' = [opLock EXCEPT ![current] = Acquire(@, t)] /\ opLock[current].owner = Nobody
        BY <1>5, <3>2 DEF Call
      <4> QED BY <1>1, <4>1, OpLockAcquired
    <3> QED BY <3>1, <3>2
  <2>3. LockInv' /\ sessionLock' \in Lock
    BY <1>1, <1>2, <2>1, <2>2, EnterLocks DEF Call
  <2>4. TypeOK'
    BY <1>1, <1>3, <2>1, <2>2, <2>3 DEF IInv, TypeOK, Call, Enter, Where, Status
  <2> QED BY <1>4, <2>3, <2>4 DEF IInv
<1>6. CASE ~(r \in {Start, Stop} \/ opLock[current].owner = Nobody)
  <2>1. /\ pc' = [pc EXCEPT ![t] = "opWait"]
        /\ UNCHANGED <<sessionLock, status>>
        /\ opLock' = [opLock EXCEPT ![current] = Acquire(@, t)]
    BY <1>6 DEF Call
  <2>2. /\ opLock' \in [Generation -> Lock]
        /\ Waits(opLock'[current], t)
        /\ \A u \in Task, d \in Generation :
              /\ opLock[d].owner = u => opLock'[d].owner = u
              /\ Waits(opLock[d], u) => Waits(opLock'[d], u)
    BY <1>1, <2>1, OpLockAcquired
  <2>3. TypeOK'
    BY <1>1, <2>1, <2>2 DEF IInv, TypeOK, Call, Where
  <2>4. LockInv'
    BY <1>1, <2>1, <2>2 DEF IInv, TypeOK, LockInv, Call, InSession, HoldsOp, IsCommand, Connected
  <2> QED BY <1>4, <2>3, <2>4 DEF IInv
<1> QED BY <1>5, <1>6

LEMMA EnterOperationInv ==
    ASSUME IInv, NEW t \in Task, EnterOperation(t) PROVE IInv'
<1>1. /\ home[t] \in Generation
      /\ request[t] \in Request
      /\ ~InSession(t) /\ pc[t] # "sessionWait"
      /\ pc' = [pc EXCEPT ![t] = "sessionWait"]
  BY DEF EnterOperation, Enter, Goto, InSession, Connected, IInv, TypeOK, LockInv
<1>2. home' = [home EXCEPT ![t] = home[t]] /\ request' = [request EXCEPT ![t] = request[t]]
  BY DEF EnterOperation, IInv, TypeOK
<1>3. LockInv' /\ sessionLock' \in Lock
  BY <1>1, <1>2, EnterLocks DEF EnterOperation, IInv, TypeOK
<1>4. TypeOK'
  BY <1>1, <1>3 DEF IInv, TypeOK, EnterOperation, Enter, Where, Status
<1>5. EditInv'
  BY <1>1, OutsideKnows DEF EnterOperation, Where, Connected
<1> QED BY <1>3, <1>4, <1>5 DEF IInv

LEMMA ConnectInv ==
    ASSUME IInv, NEW t \in Task, Connect(t) PROVE IInv'
<1> USE DEF Goto
<1>1. CASE pc[t] = "sessionWait" /\ HoldsSessionLock(t) /\ Goto(t, "connecting")
  <2>1. TypeOK'
    BY <1>1 DEF IInv, TypeOK, Connect, coordVars, Where
  <2>2. LockInv'
    BY <1>1 DEF IInv, TypeOK, LockInv, Connect, coordVars, HoldsSessionLock, InSession, HoldsOp,
                IsCommand, Connected, Where
  <2>3. EditInv'
    BY <1>1, OutsideKnows DEF Connect, Where, Connected
  <2> QED BY <2>1, <2>2, <2>3 DEF IInv
<1>2. CASE pc[t] = "connecting" /\ Goto(t, "authenticating")
  <2>1. InSession(t) /\ "authenticating" \in Connected /\ pc' = [pc EXCEPT ![t] = "authenticating"]
    BY <1>2 DEF InSession, Connected
  <2>2. TypeOK'
    BY <2>1 DEF IInv, TypeOK, Connect, coordVars, Where
  <2>3. LockInv'
    BY <2>1, SessionKeepsLocks DEF Connect, coordVars
  <2>4. (KnowsDevice(t) /\ KnowsBackups(t))'
    BY <2>1 DEF IInv, TypeOK, KnowsDevice, KnowsBackups, EditSteps
  <2> QED BY <2>1, <2>2, <2>3, <2>4, OthersKnow DEF IInv, EditInv
<1> QED BY <1>1, <1>2 DEF Connect
-----------------------------------------------------------------------------
(* Giving up a place in a queue, and the end of a task. *)

\* Any operation on the lock of one generation that only takes t away from it.
OpLockLeft(t, c) ==
    /\ opLock' \in [Generation -> Lock]
    /\ \A u \in Task \ {t}, d \in Generation :
          /\ opLock[d].owner = u => opLock'[d].owner = u
          /\ Waits(opLock[d], u) => Waits(opLock'[d], u)

LEMMA OpLockReleased ==
    ASSUME IInv, NEW t \in Task, NEW c \in Generation, opLock[c].owner = t,
           opLock' = [opLock EXCEPT ![c] = Release(@)]
    PROVE  OpLockLeft(t, c)
<1>1. /\ opLock \in [Generation -> Lock]
      /\ opLock[c] \in Lock
      /\ opLock'[c] = Release(opLock[c])
      /\ \A d \in Generation \ {c} : opLock'[d] = opLock[d]
  BY DEF IInv, TypeOK
<1>2. opLock' \in [Generation -> Lock]
  BY <1>1, ReleaseLemma
<1>3. ASSUME NEW u \in Task \ {t}, NEW d \in Generation
      PROVE  /\ opLock[d].owner = u => opLock'[d].owner = u
             /\ Waits(opLock[d], u) => Waits(opLock'[d], u)
  <2>1. CASE d = c
    BY <1>1, <2>1, ReleaseLemma DEF Waits
  <2>2. CASE d # c
    BY <1>1, <2>2
  <2> QED BY <2>1, <2>2
<1> QED BY <1>2, <1>3 DEF OpLockLeft

LEMMA CancelOpWaitInv ==
    ASSUME IInv, NEW t \in Task, CancelOpWait(t) PROVE IInv'
<1> USE DEF Return, Goto, ClearFrame
<1>1. /\ pc' = [pc EXCEPT ![t] = "idle"]
      /\ home[t] \in Generation
      /\ opLock[home[t]] \in Lock
      /\ Waits(opLock[home[t]], t)
      /\ opLock'[home[t]] = Leave(opLock[home[t]], t)
      /\ \A d \in Generation \ {home[t]} : opLock'[d] = opLock[d]
  BY DEF IInv, TypeOK, LockInv, CancelOpWait
<1>2. opLock' \in [Generation -> Lock]
  BY <1>1, LeaveLemma DEF IInv, TypeOK, CancelOpWait
<1>3. \A u \in Task \ {t}, d \in Generation :
         /\ opLock[d].owner = u => opLock'[d].owner = u
         /\ Waits(opLock[d], u) => Waits(opLock'[d], u)
  BY <1>1, LeaveLemma
<1>4. TypeOK'
  BY <1>2 DEF IInv, TypeOK, CancelOpWait, Where, Outcome
<1>5. LockInv'
  BY <1>1, <1>3 DEF IInv, TypeOK, LockInv, CancelOpWait, InSession, HoldsOp, IsCommand, Connected,
                    Where
<1>6. EditInv'
  <2>1. \A u \in Task \ {t} : request'[u] = request[u] /\ before'[u] = before[u]
          /\ snapshot'[u] = snapshot[u] /\ loaded'[u] = loaded[u] /\ outcome'[u] = outcome[u]
    BY DEF CancelOpWait, IInv, TypeOK
  <2>2. "idle" \in Where \ Connected
    BY DEF Where, Connected
  <2> QED BY <1>1, <2>1, <2>2, OutsideKnows DEF CancelOpWait
<1> QED BY <1>4, <1>5, <1>6 DEF IInv

\* However a task leaves the session lock, its end leaves the invariant.
LEMMA ConcludeInv ==
    ASSUME IInv, NEW t \in Task, NEW result \in Outcome, Conclude(t, result),
           pc[t] \in {"sessionWait", "connecting", "disconnecting"},
           sessionLock' \in Lock,
           \A u \in Task \ {t} : /\ sessionLock.owner = u => sessionLock'.owner = u
                                 /\ Waits(sessionLock, u) => Waits(sessionLock', u)
    PROVE  IInv'
<1> USE DEF Return, Goto, ClearFrame
<1>1. /\ home[t] \in Generation
      /\ home' = home
      /\ request[t] \in Request
      /\ UNCHANGED <<device, current, backups>>
  BY DEF IInv, TypeOK, LockInv, Conclude
<1>2. PICK w \in {"idle", "opWait"} :
         /\ pc' = [pc EXCEPT ![t] = w]
         /\ w = "opWait" => /\ request' = [request EXCEPT ![t] = Poll]
                            /\ Waits(opLock'[home[t]], t)
         /\ w = "idle" => request' = [request EXCEPT ![t] = None]
  BY <1>1, OpLockAcquired DEF Conclude, ConcludePoll, ConcludeEdit, ConcludeCommand
<1>3. OpLockLeft(t, home[t])
  <2>1. CASE ConcludePoll(t, result) \/ ConcludeEdit(t, result)
    <3>1. HoldsOp(t)
      BY <2>1, CommandsAreNoEdits DEF ConcludePoll, ConcludeEdit, HoldsOp, IsCommand, Where, Connected,
                                      Poll, Start, Stop
    <3> QED
      BY <1>1, <2>1, <3>1, OpLockReleased DEF ConcludePoll, ConcludeEdit, IInv, LockInv
  <2>2. CASE ConcludeCommand(t, result)
    BY <1>1, <2>2, OpLockAcquired DEF ConcludeCommand, OpLockLeft, IInv, TypeOK
  <2> QED BY <2>1, <2>2 DEF Conclude
<1>4. TypeOK'
  <2>1. /\ pc' \in [Task -> Where]
        /\ request' \in [Task -> Request \cup {None}]
    BY <1>2 DEF IInv, TypeOK, Where, Request
  <2>2. /\ status' \in [Generation -> Status]
        /\ available' \in [Generation -> BOOLEAN]
        /\ data' \in [Generation -> Programs \cup {None}]
        /\ verifiedAt' \in [Generation -> Programs \cup {None}]
        /\ foreign' \in [Generation -> SUBSET Letter]
    <3>1. Verdict(result) \in Status
      BY DEF Verdict, Status
    <3>2. AvailableAfter(home[t], result) \in BOOLEAN
      BY <1>1 DEF AvailableAfter, IInv, TypeOK
    <3>3. snapshot[t] \in Programs \cup {None}
      BY DEF IInv, TypeOK
    <3>4. CASE ConcludePoll(t, result)
      BY <1>1, <3>3, <3>4 DEF ConcludePoll, IInv, TypeOK
    <3>5. CASE ConcludeEdit(t, result)
      BY <1>1, <3>1, <3>2, <3>3, <3>5 DEF ConcludeEdit, IInv, TypeOK
    <3>6. CASE ConcludeCommand(t, result)
      BY <3>6 DEF ConcludeCommand, IInv, TypeOK
    <3> QED BY <3>4, <3>5, <3>6 DEF Conclude
  <2>3. /\ before' \in [Task -> Programs \cup {None}]
        /\ snapshot' \in [Task -> Programs \cup {None}]
        /\ loaded' \in [Task -> [Letter -> Program \cup {None}] \cup {None}]
        /\ outcome' \in [Task -> Outcome]
    <3>1. ClearFrame(t)
      BY DEF Conclude, ConcludePoll, ConcludeEdit, ConcludeCommand, Return
    <3> QED BY <3>1 DEF ClearFrame, IInv, TypeOK, Outcome
  <2> QED
    BY <1>1, <1>3, <2>1, <2>2, <2>3 DEF IInv, TypeOK, OpLockLeft
<1>5. LockInv'
  <2>1. \A u \in Task \ {t} : pc'[u] = pc[u] /\ request'[u] = request[u] /\ home[u] \in Generation
    BY <1>2 DEF IInv, TypeOK
  <2>2. /\ pc'[t] = "idle" \/ pc'[t] = "opWait"
        /\ pc'[t] = "opWait" => request'[t] \in Request /\ Waits(opLock'[home[t]], t)
    BY <1>2 DEF IInv, TypeOK, Request
  <2> QED
    BY <1>1, <1>3, <2>1, <2>2 DEF IInv, LockInv, OpLockLeft, InSession, HoldsOp, IsCommand, Connected
<1>6. EditInv'
  <2>1. \A u \in Task \ {t} : request'[u] = request[u] /\ before'[u] = before[u]
          /\ snapshot'[u] = snapshot[u] /\ loaded'[u] = loaded[u] /\ outcome'[u] = outcome[u]
    BY <1>2 DEF Conclude, ConcludePoll, ConcludeEdit, ConcludeCommand, IInv, TypeOK
  <2>2. w \in Where \ Connected
    BY DEF Where, Connected
  <2> QED BY <1>1, <1>2, <2>1, <2>2, OutsideKnows
<1> QED BY <1>4, <1>5, <1>6 DEF IInv

LEMMA DisconnectedInv ==
    ASSUME IInv, NEW t \in Task, Disconnected(t) \/ ConnectFails(t) PROVE IInv'
<1>1. PICK result \in Outcome : Conclude(t, result)
  BY DEF IInv, TypeOK, Disconnected, ConnectFails, Outcome
<1>2. pc[t] \in {"connecting", "disconnecting"} /\ sessionLock' = Release(sessionLock)
  BY DEF Disconnected, ConnectFails
<1>3. sessionLock.owner = t /\ sessionLock \in Lock
  BY <1>2 DEF IInv, TypeOK, LockInv, InSession, Connected
<1>4. /\ sessionLock' \in Lock
      /\ \A u \in Task \ {t} : /\ sessionLock.owner = u => sessionLock'.owner = u
                               /\ Waits(sessionLock, u) => Waits(sessionLock', u)
  BY <1>2, <1>3, ReleaseLemma DEF Waits
<1> QED BY <1>1, <1>2, <1>4, ConcludeInv

LEMMA CancelBeforeSessionInv ==
    ASSUME IInv, NEW t \in Task, CancelBeforeSession(t) PROVE IInv'
<1>1. /\ pc[t] \in {"sessionWait", "connecting"}
      /\ sessionLock' = Leave(sessionLock, t)
      /\ Conclude(t, "cancelled")
      /\ "cancelled" \in Outcome
  BY DEF CancelBeforeSession, Outcome
<1>2. Waits(sessionLock, t) /\ sessionLock \in Lock
  BY <1>1 DEF IInv, TypeOK, LockInv, InSession, Waits
<1>3. /\ sessionLock' \in Lock
      /\ \A u \in Task \ {t} : /\ sessionLock.owner = u => sessionLock'.owner = u
                               /\ Waits(sessionLock, u) => Waits(sessionLock', u)
  BY <1>1, <1>2, LeaveLemma
<1> QED BY <1>1, <1>3, ConcludeInv
-----------------------------------------------------------------------------
(* The rest of the world, and the theorems. *)

LEMMA AppEditInv == IInv /\ AppEdit => IInv'
<1> SUFFICES ASSUME IInv, AppEdit PROVE IInv'
  OBVIOUS
<1>1. TypeOK'
  BY DEF IInv, TypeOK, AppEdit, taskVars, Programs
<1>2. LockInv'
  BY DEF IInv, LockInv, AppEdit, taskVars, InSession, HoldsOp, IsCommand
<1>3. EditInv'
  BY DEF IInv, EditInv, AppEdit, taskVars, KnowsDevice, KnowsBackups, EditSteps, IsEdit, Connected
<1> QED BY <1>1, <1>2, <1>3 DEF IInv

LEMMA ReloadInv == IInv /\ Reload => IInv'
<1> SUFFICES ASSUME IInv, Reload PROVE IInv'
  OBVIOUS
<1>1. TypeOK'
  BY DEF IInv, TypeOK, Reload, taskVars, coordVars, Generation
<1>2. LockInv'
  BY DEF IInv, LockInv, Reload, taskVars, coordVars, InSession, HoldsOp, IsCommand
<1>3. EditInv'
  BY DEF IInv, EditInv, Reload, taskVars, coordVars, KnowsDevice, KnowsBackups, IsEdit, Wanted
<1> QED BY <1>1, <1>2, <1>3 DEF IInv

LEMMA NextInv == IInv /\ [Next]_vars => IInv'
<1> SUFFICES ASSUME IInv, [Next]_vars PROVE IInv'
  OBVIOUS
<1>1. ASSUME NEW t \in Task, Progress(t) PROVE IInv'
  BY <1>1, EnterOperationInv, ConnectInv, AuthenticateInv, ReadAllInv, ReadStateInv,
     LoadBackupsInv, SaveBackupInv, DeliverWriteInv, AnswerWriteInv, ReadBackInv, CommandInv,
     FailInv, DisconnectedInv DEF Progress
<1>2. ASSUME NEW t \in Task, Cancel(t) PROVE IInv'
  BY <1>2, CancelSessionInv, CancelOpWaitInv, CancelBeforeSessionInv DEF Cancel
<1>3. ASSUME NEW t \in Task, NEW r \in Requests, Call(t, r) PROVE IInv'
  BY <1>3, CallInv
<1>4. CASE UNCHANGED vars
  <2>1. UNCHANGED <<device, current, sessionLock, backups, opLock, status, available, data,
                    verifiedAt, foreign, pc, home, request, before, snapshot, loaded, outcome>>
    BY <1>4 DEF vars, coordVars, taskVars
  <2>2. TypeOK'
    BY <2>1 DEF IInv, TypeOK
  <2>3. LockInv'
    BY <2>1 DEF IInv, LockInv, InSession, HoldsOp, IsCommand
  <2>4. EditInv'
    BY <2>1 DEF IInv, EditInv, KnowsDevice, KnowsBackups, IsEdit, Wanted
  <2> QED BY <2>2, <2>3, <2>4 DEF IInv
<1> QED BY <1>1, <1>2, <1>3, <1>4, AppEditInv, ReloadInv DEF Next

\* The inductive invariant holds in every reachable state.
THEOREM Invariance == Spec => []IInv
  BY InitInv, NextInv, PTL DEF Spec

\* Every variable keeps its type, the locks among them.
THEOREM TypeCorrect == Spec => []TypeOK
<1>1. IInv => TypeOK
  BY DEF IInv
<1> QED BY <1>1, Invariance, PTL

\* At most one task is connected to the controller, across all generations of the
\* coordinator.
THEOREM SessionsExclude == Spec => []OneSession
<1>1. IInv => OneSession
  BY DEF IInv, LockInv, OneSession
<1> QED BY <1>1, Invariance, PTL

\* What the integration overwrites on the controller is in the backup store.
THEOREM BackupsPrecedeWrites == Spec => BackupBeforeOverwrite
<1>1. IInv /\ [Next]_vars => [\A l \in Letter :
          device'[l] # device[l] /\ (\E t \in Task : pc[t] \in Connected)
             => backups[l] = device[l]]_vars
  <2> SUFFICES ASSUME IInv, Next, NEW l \in Letter, device'[l] # device[l],
                      NEW u \in Task, pc[u] \in Connected
               PROVE  backups[l] = device[l]
    OBVIOUS
  <2>1. PICK t \in Task : DeliverWrite(t)
    BY DEF Next, Progress, Cancel, Call, EnterOperation, Connect, Authenticate, ReadAll, ReadState,
           LoadBackups, SaveBackup, AnswerWrite, ReadBack, Command, Fail, Disconnected, ConnectFails,
           CancelSession, CancelOpWait, CancelBeforeSession, Conclude, AppEdit, Reload
  <2>2. l = request[t].letter
    BY <2>1 DEF DeliverWrite, IInv, TypeOK, Programs
  <2> QED BY <2>1, <2>2 DEF IInv, EditInv, KnowsBackups, DeliverWrite
<1> QED BY <1>1, Invariance, PTL DEF Spec, BackupBeforeOverwrite

\* The store only changes to record what the controller holds at that moment.
THEOREM BackupsAreCurrent == Spec => BackupIsCurrent
<1>1. IInv /\ [Next]_vars =>
          [\A l \in Letter : backups'[l] # backups[l] => backups'[l] = device[l]]_vars
  <2> SUFFICES ASSUME IInv, Next, NEW l \in Letter, backups'[l] # backups[l]
               PROVE  backups'[l] = device[l]
    OBVIOUS
  <2>1. PICK t \in Task : SaveBackup(t)
    BY DEF Next, Progress, Cancel, Call, EnterOperation, Connect, Authenticate, ReadAll, ReadState,
           LoadBackups, DeliverWrite, AnswerWrite, ReadBack, Command, Fail, Disconnected,
           ConnectFails, CancelSession, CancelOpWait, CancelBeforeSession, Conclude, AppEdit, Reload
  <2>2. before[t] = device /\ loaded[t] = backups
    BY <2>1 DEF SaveBackup, IInv, EditInv, KnowsDevice, KnowsBackups
  <2>3. backups' = [backups EXCEPT ![request[t].letter] = device[request[t].letter]]
    BY <2>1, <2>2 DEF SaveBackup, BackupOf
  <2> QED BY <2>3 DEF IInv, TypeOK
<1> QED BY <1>1, Invariance, PTL DEF Spec, BackupIsCurrent

\* An edit past its operation lock ends in ConcludeEdit, and with success or a refusal
\* only after a session that had that result.
LEMMA EditEnds ==
    ASSUME IInv, Next, NEW t \in Task, IsEdit(t), HoldsOp(t), pc'[t] = "idle"
    PROVE  \E result \in Outcome :
              /\ ConcludeEdit(t, result)
              /\ device' = device
              /\ result \in {"ok", "invalid"} => pc[t] = "disconnecting" /\ outcome[t] = result
<1>1. pc[t] \notin {"idle", "opWait"} /\ ~IsCommand(t) /\ request[t] # Poll
  BY CommandsAreNoEdits DEF HoldsOp, IsEdit, Edits, Poll
<1>2. ASSUME NEW result \in Outcome, Conclude(t, result)
      PROVE  ConcludeEdit(t, result) /\ device' = device
  BY <1>1, <1>2 DEF Conclude, ConcludePoll, ConcludeCommand
<1>3. CASE Disconnected(t)
  BY <1>2, <1>3 DEF Disconnected, IInv, TypeOK
<1>4. CASE ConnectFails(t)
  BY <1>2, <1>4 DEF ConnectFails, Outcome
<1>5. CASE CancelBeforeSession(t)
  BY <1>2, <1>5 DEF CancelBeforeSession, Outcome
<1>6. ASSUME NEW u \in Task, u # t,
             Progress(u) \/ Cancel(u) \/ \E r \in Requests : Call(u, r)
      PROVE  FALSE
  <2>1. PICK w : pc' = [pc EXCEPT ![u] = w]
    BY <1>6 DEF Progress, Cancel, Call, EnterOperation, Enter, Connect, Authenticate, ReadAll,
           ReadState, LoadBackups, SaveBackup, DeliverWrite, AnswerWrite, ReadBack, Command, Fail,
           Disconnected, ConnectFails, CancelSession, CancelOpWait, CancelBeforeSession, Conclude,
           ConcludePoll, ConcludeEdit, ConcludeCommand, Return, Disconnect, Goto
  <2> QED BY <1>1, <1>6, <2>1 DEF IInv, TypeOK
<1>7. CASE AppEdit \/ Reload
  BY <1>1, <1>7 DEF AppEdit, Reload, taskVars
<1>8. ASSUME NEW r \in Requests, Call(t, r) PROVE FALSE
  BY <1>1, <1>8 DEF Call
<1>9. CASE EnterOperation(t) \/ CancelOpWait(t)
  BY <1>1, <1>9 DEF EnterOperation, CancelOpWait
<1>10. ASSUME \/ Connect(t) \/ Authenticate(t)
              \/ ReadAll(t) \/ ReadState(t) \/ LoadBackups(t) \/ SaveBackup(t)
              \/ DeliverWrite(t) \/ AnswerWrite(t) \/ ReadBack(t) \/ Command(t)
              \/ Fail(t) \/ CancelSession(t)
       PROVE  FALSE
  <2>1. PICK w : w # "idle" /\ pc' = [pc EXCEPT ![t] = w]
    BY <1>10 DEF Connect, Authenticate, ReadAll, ReadState, LoadBackups, SaveBackup, DeliverWrite,
           AnswerWrite, ReadBack, Command, Fail, CancelSession, Disconnect, Goto
  <2> QED BY <2>1 DEF IInv, TypeOK
<1> QED
  BY <1>3, <1>4, <1>5, <1>6, <1>7, <1>8, <1>9, <1>10 DEF Next, Progress, Cancel

\* A verified edit is what the controller holds, with all else as it was read.
THEOREM VerifiedEditsHold == Spec => VerifiedHolds
<1>1. IInv /\ [Next]_vars => [\A t \in Task :
          IsEdit(t) /\ HoldsOp(t) /\ pc'[t] = "idle" /\ status'[home[t]] = "verified" =>
             /\ device' = [before[t] EXCEPT ![request[t].letter] = Wanted(t)]
             /\ data'[home[t]] = device'
             /\ available'[home[t]]]_vars
  <2> SUFFICES ASSUME IInv, Next, NEW t \in Task, IsEdit(t), HoldsOp(t), pc'[t] = "idle",
                      status'[home[t]] = "verified"
               PROVE  /\ device' = [before[t] EXCEPT ![request[t].letter] = Wanted(t)]
                      /\ data'[home[t]] = device'
                      /\ available'[home[t]]
    OBVIOUS
  <2>1. PICK result \in Outcome :
           /\ ConcludeEdit(t, result)
           /\ device' = device
           /\ result \in {"ok", "invalid"} => pc[t] = "disconnecting" /\ outcome[t] = result
    BY EditEnds
  <2>2. home[t] \in Generation
    BY DEF IInv, TypeOK
  <2>3. result = "ok"
    BY <2>1, <2>2 DEF ConcludeEdit, Verdict, IInv, TypeOK
  <2>4. /\ snapshot[t] = device
        /\ device = [before[t] EXCEPT ![request[t].letter] = Wanted(t)]
    BY <2>1, <2>3 DEF IInv, EditInv, KnowsDevice
  <2>5. data'[home[t]] = snapshot[t] /\ available'[home[t]]
    BY <2>1, <2>2, <2>3 DEF ConcludeEdit, AvailableAfter, IInv, TypeOK
  <2> QED BY <2>1, <2>4, <2>5
<1> QED BY <1>1, Invariance, PTL DEF Spec, VerifiedHolds

\* An edit that fails and leaves its coordinator available wrote nothing.
THEOREM RefusedEditsWroteNothing == Spec => RefusedNeverWritten
<1>1. IInv /\ [Next]_vars => [\A t \in Task :
          IsEdit(t) /\ HoldsOp(t) /\ pc'[t] = "idle"
          /\ status'[home[t]] = "failed" /\ available'[home[t]]
             => device' = before[t]]_vars
  <2> SUFFICES ASSUME IInv, Next, NEW t \in Task, IsEdit(t), HoldsOp(t), pc'[t] = "idle",
                      status'[home[t]] = "failed", available'[home[t]]
               PROVE  device' = before[t]
    OBVIOUS
  <2>1. PICK result \in Outcome :
           /\ ConcludeEdit(t, result)
           /\ device' = device
           /\ result \in {"ok", "invalid"} => pc[t] = "disconnecting" /\ outcome[t] = result
    BY EditEnds
  <2>2. home[t] \in Generation
    BY DEF IInv, TypeOK
  <2>3. result = "invalid"
    BY <2>1, <2>2 DEF ConcludeEdit, Verdict, AvailableAfter, IInv, TypeOK
  <2> QED BY <2>1, <2>3 DEF IInv, EditInv, KnowsDevice
<1> QED BY <1>1, Invariance, PTL DEF Spec, RefusedNeverWritten
-----------------------------------------------------------------------------
(***************************************************************************)
(* What the coordinators report is true: the write status, and the data    *)
(* published as available. Both rest on the locks: the status of a         *)
(* coordinator belongs to the one edit that owns its operation lock, and a *)
(* snapshot is what the controller holds as long as its task is in the     *)
(* session, which nobody else is.                                          *)
(***************************************************************************)

Writing(t) == IsEdit(t) /\ HoldsOp(t)

\* A write of t may have reached the controller, or t is sure to withdraw the data.
Unsettled(t) ==
    /\ IsEdit(t)
    /\ \/ pc[t] \in {"acking", "verifying", "confirming"}
       \/ pc[t] = "disconnecting" /\ outcome[t] # "invalid"

Current(c) == data[c] # None /\ \A l \in Letter \ foreign[c] : data[c][l] = device[l]

\* What a poll has read is what the controller holds, until it is published.
SnapshotInv ==
    /\ \A t \in Task : pc[t] = "commanding" => request[t] # Poll
    /\ \A t \in Task : request[t] = Poll =>
          (pc[t] = "stating" \/ (pc[t] = "disconnecting" /\ outcome[t] = "ok")
             => snapshot[t] = device)

\* What is available is current, unless an edit of that coordinator is about to
\* withdraw it.
PublishedInv ==
    \A c \in Generation :
        available[c] /\ (\A t \in Task : home[t] = c => ~Unsettled(t)) => Current(c)

RInv == IInv /\ StatusTruthful /\ SnapshotInv /\ PublishedInv

-----------------------------------------------------------------------------
(* The kinds of steps *)

\* t goes on in its session.
SessionStep(t) ==
    /\ InSession(t)
    /\ \E w \in Connected : pc' = [pc EXCEPT ![t] = w]
    /\ UNCHANGED <<status, available, data, verifiedAt, home, request>>

\* t goes on outside, or gives up waiting there.
OutsideStep(t) ==
    /\ \/ EnterOperation(t) \/ CancelOpWait(t)
       \/ pc[t] = "sessionWait" /\ Connect(t)

\* t ends with a result, which is a success or a refusal only after a session.
EndStep(t) ==
    /\ pc[t] \in {"sessionWait", "connecting", "disconnecting"}
    /\ \E result \in Outcome :
          /\ Conclude(t, result)
          /\ result \in {"ok", "invalid"} => pc[t] = "disconnecting" /\ outcome[t] = result

LEMMA StepsInSession ==
    ASSUME IInv, NEW t \in Task,
           \/ Authenticate(t) \/ ReadAll(t) \/ ReadState(t) \/ LoadBackups(t) \/ SaveBackup(t)
           \/ DeliverWrite(t) \/ AnswerWrite(t) \/ ReadBack(t) \/ Command(t) \/ Fail(t)
           \/ CancelSession(t) \/ (pc[t] = "connecting" /\ Connect(t))
    PROVE  SessionStep(t)
<1>1. InSession(t)
  BY DEF Authenticate, ReadAll, ReadState, LoadBackups, SaveBackup, DeliverWrite, AnswerWrite,
         ReadBack, Command, Fail, CancelSession, Connect, InSession, Connected
<1>2. \E w \in Connected : pc' = [pc EXCEPT ![t] = w]
  BY DEF Authenticate, ReadAll, ReadState, LoadBackups, SaveBackup, DeliverWrite, AnswerWrite,
         ReadBack, Command, Fail, CancelSession, Connect, Disconnect, Goto, Connected
<1>3. UNCHANGED <<status, available, data, verifiedAt, home, request>>
  BY DEF Authenticate, ReadAll, ReadState, LoadBackups, SaveBackup, DeliverWrite, AnswerWrite,
         ReadBack, Command, Fail, CancelSession, Connect, coordVars
<1> QED BY <1>1, <1>2, <1>3 DEF SessionStep

LEMMA Ends ==
    ASSUME IInv, NEW t \in Task, Disconnected(t) \/ ConnectFails(t) \/ CancelBeforeSession(t)
    PROVE  EndStep(t)
BY DEF Disconnected, ConnectFails, CancelBeforeSession, EndStep, IInv, TypeOK, Outcome

LEMMA NextIsOne ==
    ASSUME IInv, Next
    PROVE  \/ \E t \in Task : SessionStep(t) \/ OutsideStep(t) \/ EndStep(t)
           \/ \E t \in Task, r \in Requests : Call(t, r)
           \/ AppEdit \/ Reload
<1>1. ASSUME NEW t \in Task, Progress(t) PROVE SessionStep(t) \/ OutsideStep(t) \/ EndStep(t)
  <2>1. CASE Connect(t)
    <3>1. pc[t] \in {"sessionWait", "connecting"}
      BY <2>1 DEF Connect
    <3> QED BY <2>1, <3>1, StepsInSession DEF OutsideStep
  <2>2. CASE ~Connect(t)
    BY <1>1, <2>2, StepsInSession, Ends DEF Progress, OutsideStep
  <2> QED BY <2>1, <2>2
<1>2. ASSUME NEW t \in Task, Cancel(t) PROVE SessionStep(t) \/ OutsideStep(t) \/ EndStep(t)
  BY <1>2, StepsInSession, Ends DEF Cancel, OutsideStep
<1> QED BY <1>1, <1>2 DEF Next
-----------------------------------------------------------------------------
(* The status *)

\* Only one edit at a time reports to a coordinator.
LEMMA OneWriting ==
    ASSUME IInv
    PROVE  \A t, u \in Task : Writing(t) /\ Writing(u) /\ home[t] = home[u] => t = u
BY DEF IInv, LockInv, Writing

\* A step that leaves statuses, homes and who writes as they were.
LEMMA StatusStays ==
    ASSUME StatusTruthful, UNCHANGED status,
           \A u \in Task : Writing(u) => Writing(u)' /\ home'[u] = home[u],
           \A u \in Task : Writing(u)' => Writing(u)
    PROVE  StatusTruthful'
BY DEF StatusTruthful, Writing

LEMMA EnterStatus ==
    ASSUME IInv, StatusTruthful, NEW t \in Task, NEW c \in Generation, NEW r \in Request,
           pc[t] \in {"idle", "opWait"}, Enter(t, c, r),
           home' = [home EXCEPT ![t] = c], request' = [request EXCEPT ![t] = r]
    PROVE  StatusTruthful'
<1>1. ~Writing(t)
  BY DEF Writing, HoldsOp
<1>2. \A u \in Task \ {t} : (Writing(u)' <=> Writing(u)) /\ home'[u] = home[u]
  BY DEF Enter, Goto, Writing, IsEdit, HoldsOp, IsCommand, IInv, TypeOK
<1>3. home'[t] = c /\ request'[t] = r /\ pc'[t] = "sessionWait"
  BY DEF Enter, Goto, IInv, TypeOK
<1>4. CASE r \in Edits
  <2>1. r \notin {Start, Stop}
    BY <1>4 DEF Edits, Start, Stop
  <2>2. Writing(t)'
    BY <1>3, <1>4, <2>1 DEF Writing, IsEdit, HoldsOp, IsCommand, Where
  <2>3. status' = [status EXCEPT ![c] = "writing"]
    BY <1>4 DEF Enter
  <2> QED BY <1>1, <1>2, <1>3, <2>2, <2>3 DEF StatusTruthful, Writing, IInv, TypeOK
<1>5. CASE r \notin Edits
  <2>1. UNCHANGED status /\ ~Writing(t)'
    BY <1>3, <1>5 DEF Enter, Writing, IsEdit
  <2> QED BY <1>1, <1>2, <2>1, StatusStays
<1> QED BY <1>4, <1>5

LEMMA EndStatus ==
    ASSUME IInv, StatusTruthful, NEW t \in Task, EndStep(t)
    PROVE  StatusTruthful'
<1> USE DEF Return, Goto
<1>1. PICK result \in Outcome : Conclude(t, result)
  BY DEF EndStep
<1>2. home' = home /\ home[t] \in Generation /\ pc[t] \in Where \ {"idle", "opWait"}
  BY <1>1 DEF Conclude, EndStep, IInv, TypeOK, Where, Connected
<1>3. ~Writing(t)'
  <2>1. pc'[t] \in {"idle", "opWait"}
    BY <1>1 DEF Conclude, ConcludePoll, ConcludeEdit, ConcludeCommand, IInv, TypeOK
  <2> QED BY <2>1 DEF Writing, HoldsOp
<1>4. \A u \in Task \ {t} : Writing(u)' <=> Writing(u)
  BY <1>1 DEF Conclude, ConcludePoll, ConcludeEdit, ConcludeCommand, IInv, TypeOK,
              Writing, IsEdit, HoldsOp, IsCommand
<1>5. CASE IsEdit(t)
  <2>1. ConcludeEdit(t, result)
    BY <1>1, <1>5, CommandsAreNoEdits
       DEF Conclude, ConcludePoll, ConcludeCommand, IsEdit, Edits, Poll
  <2>2. status' = [status EXCEPT ![home[t]] = Verdict(result)] /\ Verdict(result) # "writing"
    BY <2>1 DEF ConcludeEdit, Verdict
  <2>3. Writing(t)
    BY <1>2, <1>5, CommandsAreNoEdits DEF Writing, HoldsOp
  <2>4. \A u \in Task \ {t} : home[u] = home[t] => ~Writing(u)
    BY <2>3, OneWriting
  <2>5. ASSUME NEW c \in Generation
        PROVE  (status[c] = "writing" <=> \E u \in Task : home[u] = c /\ Writing(u))'
    <3>1. CASE c = home[t]
      <4>1. status'[c] # "writing"
        BY <2>2, <3>1 DEF IInv, TypeOK
      <4>2. \A u \in Task : home'[u] = c => ~Writing(u)'
        BY <1>2, <1>3, <1>4, <2>4, <3>1
      <4> QED BY <4>1, <4>2
    <3>2. CASE c # home[t]
      <4>1. status'[c] = status[c]
        BY <1>2, <2>2, <3>2 DEF IInv, TypeOK
      <4>2. \A u \in Task : home'[u] = c => (Writing(u)' <=> Writing(u))
        BY <1>2, <1>4, <3>2
      <4> QED BY <1>2, <4>1, <4>2 DEF StatusTruthful, Writing
    <3> QED BY <3>1, <3>2
  <2> QED BY <2>5 DEF StatusTruthful, Writing
<1>6. CASE ~IsEdit(t)
  <2>1. UNCHANGED status
    BY <1>1, <1>6 DEF Conclude, ConcludePoll, ConcludeEdit, ConcludeCommand
  <2>2. ~Writing(t)
    BY <1>6 DEF Writing
  <2> QED BY <1>2, <1>3, <1>4, <2>1, <2>2, StatusStays
<1> QED BY <1>5, <1>6

LEMMA StatusInv == IInv /\ StatusTruthful /\ [Next]_vars => StatusTruthful'
<1> SUFFICES ASSUME IInv, StatusTruthful, [Next]_vars PROVE StatusTruthful'
  OBVIOUS
<1>1. ASSUME NEW t \in Task, SessionStep(t) PROVE StatusTruthful'
  <2>1. \A u \in Task : Writing(u)' <=> Writing(u)
    BY <1>1 DEF SessionStep, InSession, Connected, Where, IInv, TypeOK, Writing, IsEdit, HoldsOp,
                IsCommand
  <2> QED BY <1>1, <2>1, StatusStays DEF SessionStep
<1>2. ASSUME NEW t \in Task, OutsideStep(t) PROVE StatusTruthful'
  <2>1. CASE EnterOperation(t)
    <3>1. home' = [home EXCEPT ![t] = home[t]] /\ request' = [request EXCEPT ![t] = request[t]]
      BY <2>1 DEF EnterOperation, IInv, TypeOK
    <3>2. home[t] \in Generation /\ request[t] \in Request /\ pc[t] = "opWait"
      BY <2>1 DEF EnterOperation, IInv, TypeOK, LockInv
    <3> QED BY <2>1, <3>1, <3>2, EnterStatus DEF EnterOperation
  <2>2. CASE CancelOpWait(t)
    <3>1. \A u \in Task : Writing(u)' <=> Writing(u)
      BY <2>2 DEF CancelOpWait, Return, Goto, IInv, TypeOK, Writing, IsEdit, HoldsOp, IsCommand
    <3> QED BY <2>2, <3>1, StatusStays DEF CancelOpWait
  <2>3. CASE pc[t] = "sessionWait" /\ Connect(t)
    <3>1. \A u \in Task : Writing(u)' <=> Writing(u)
      BY <2>3 DEF Connect, Goto, Where, IInv, TypeOK, Writing, IsEdit, HoldsOp, IsCommand
    <3> QED BY <2>3, <3>1, StatusStays DEF Connect, coordVars
  <2> QED BY <1>2, <2>1, <2>2, <2>3 DEF OutsideStep
<1>3. ASSUME NEW t \in Task, NEW r \in Requests, Call(t, r) PROVE StatusTruthful'
  <2>1. r \in Request /\ current \in Generation
    BY DEF IInv, TypeOK
  <2>2. CASE Enter(t, current, r)
    BY <1>3, <2>1, <2>2, EnterStatus DEF Call
  <2>3. CASE Goto(t, "opWait") /\ UNCHANGED <<sessionLock, status>>
    <3>1. ~Writing(t) /\ ~Writing(t)'
      BY <1>3, <2>3 DEF Call, Goto, Writing, HoldsOp, IInv, TypeOK
    <3>2. \A u \in Task \ {t} : (Writing(u)' <=> Writing(u)) /\ home'[u] = home[u]
      BY <1>3, <2>3 DEF Call, Goto, IInv, TypeOK, Writing, IsEdit, HoldsOp, IsCommand
    <3> QED BY <2>3, <3>1, <3>2, StatusStays
  <2> QED BY <1>3, <2>2, <2>3 DEF Call
<1>4. CASE AppEdit \/ Reload \/ UNCHANGED vars
  <2>1. UNCHANGED <<status, pc, home, request>>
    BY <1>4 DEF AppEdit, Reload, vars, coordVars, taskVars
  <2> QED BY <2>1, StatusStays DEF Writing, IsEdit, HoldsOp, IsCommand
<1> QED BY <1>1, <1>2, <1>3, <1>4, NextIsOne, EndStatus
-----------------------------------------------------------------------------
(* The published data *)

LEMMA PollIsNoEdit == \A t \in Task : request[t] = Poll => ~IsEdit(t) /\ ~IsCommand(t)
BY DEF Poll, IsEdit, Edits, IsCommand, Start, Stop

\* In its session a task reads what the controller holds, and nobody changes that.
LEMMA SessionSnapshots ==
    ASSUME IInv, SnapshotInv, NEW t \in Task,
           \/ Authenticate(t) \/ ReadAll(t) \/ ReadState(t) \/ LoadBackups(t) \/ SaveBackup(t)
           \/ DeliverWrite(t) \/ AnswerWrite(t) \/ ReadBack(t) \/ Command(t) \/ Fail(t)
           \/ CancelSession(t) \/ (pc[t] = "connecting" /\ Connect(t))
    PROVE  SnapshotInv'
<1>1. SessionStep(t)
  BY StepsInSession
<1>2. \A u \in Task \ {t} : pc'[u] = pc[u] /\ pc[u] \notin Connected /\ request'[u] = request[u]
  BY <1>1, Alone DEF SessionStep, InSession, IInv, TypeOK
<1>3. request'[t] = request[t]
  BY <1>1 DEF SessionStep
<1>4. CASE request[t] # Poll
  BY <1>2, <1>3, <1>4 DEF SnapshotInv, Connected
<1>5. CASE request[t] = Poll
  <2>1. ~IsEdit(t) /\ ~IsCommand(t)
    BY <1>5, PollIsNoEdit
  <2>2. pc[t] \notin {"loading", "saving", "writing", "acking", "verifying", "confirming", "commanding"}
    BY <1>5, <2>1 DEF IInv, EditInv, KnowsDevice, EditSteps, SnapshotInv
  <2>3. /\ pc'[t] # "commanding"
        /\ pc'[t] = "stating" \/ (pc'[t] = "disconnecting" /\ outcome'[t] = "ok")
             => snapshot'[t] = device'
    <3>1. CASE ReadAll(t)
      BY <2>1, <3>1 DEF ReadAll, Goto, IInv, TypeOK
    <3>2. CASE ReadState(t)
      BY <1>5, <2>2, <3>2 DEF ReadState, Disconnect, Goto, IInv, TypeOK, SnapshotInv
    <3>3. CASE Fail(t)
      BY <2>1, <2>2, <3>3 DEF Fail, FailureOf, Disconnect, Goto, IInv, TypeOK
    <3>4. CASE CancelSession(t)
      BY <3>4 DEF CancelSession, Disconnect, Goto, IInv, TypeOK
    <3>5. CASE Authenticate(t) \/ (pc[t] = "connecting" /\ Connect(t))
      BY <2>1, <3>5 DEF Authenticate, Connect, Goto, IInv, TypeOK
    <3> QED BY <2>2, <3>1, <3>2, <3>3, <3>4, <3>5
               DEF LoadBackups, SaveBackup, DeliverWrite, AnswerWrite, ReadBack, Command
  <2> QED BY <1>2, <2>3 DEF SnapshotInv, Connected
<1> QED BY <1>4, <1>5

\* A step that leaves what is published as it was, and unsettles nothing less.
LEMMA PublishedStays ==
    ASSUME PublishedInv, UNCHANGED <<available, data, foreign, device>>,
           \A u \in Task : Unsettled(u) => Unsettled(u)' /\ home'[u] = home[u]
    PROVE  PublishedInv'
BY DEF PublishedInv, Current

LEMMA SessionPublished ==
    ASSUME IInv, PublishedInv, NEW t \in Task,
           \/ Authenticate(t) \/ ReadAll(t) \/ ReadState(t) \/ LoadBackups(t) \/ SaveBackup(t)
           \/ DeliverWrite(t) \/ AnswerWrite(t) \/ ReadBack(t) \/ Command(t) \/ Fail(t)
           \/ CancelSession(t) \/ (pc[t] = "connecting" /\ Connect(t))
    PROVE  PublishedInv'
<1>1. SessionStep(t)
  BY StepsInSession
<1>2. \A u \in Task \ {t} : ~Unsettled(u)
  BY <1>1, Alone DEF SessionStep, Unsettled, InSession, Connected
<1>3. Unsettled(t) => Unsettled(t)'
  BY DEF Authenticate, ReadAll, ReadState, LoadBackups, SaveBackup, DeliverWrite, AnswerWrite,
         ReadBack, Command, Fail, FailureOf, CancelSession, Connect, Disconnect, Goto, Unsettled,
         IsEdit, IInv, TypeOK
<1>4. CASE DeliverWrite(t)
  <2>1. IsEdit(t) /\ request[t].letter \in Letter
    BY <1>4 DEF DeliverWrite, IInv, EditInv, KnowsDevice, EditSteps, IsEdit, Edits
  <2>2. Unsettled(t)' /\ home' = home
    BY <1>4, <2>1 DEF DeliverWrite, Goto, Unsettled, IsEdit, IInv, TypeOK
  <2>3. ASSUME NEW c \in Generation, available'[c],
               \A u \in Task : home'[u] = c => ~Unsettled(u)'
        PROVE  Current(c)'
    <3>1. c # home[t]
      BY <2>2, <2>3
    <3>2. Current(c)
      BY <1>2, <1>4, <2>3, <3>1 DEF PublishedInv, DeliverWrite
    <3>3. foreign'[c] = foreign[c] \cup {request[t].letter} /\ data' = data
      BY <1>4, <3>1 DEF DeliverWrite
    <3>4. \A l \in Letter \ {request[t].letter} : device'[l] = device[l]
      BY <1>4 DEF DeliverWrite, IInv, TypeOK, Programs
    <3> QED BY <3>2, <3>3, <3>4 DEF Current
  <2> QED BY <2>3 DEF PublishedInv
<1>5. CASE ~DeliverWrite(t)
  <2>1. UNCHANGED <<available, data, foreign, device, home>>
    BY <1>5 DEF Authenticate, ReadAll, ReadState, LoadBackups, SaveBackup, AnswerWrite,
                ReadBack, Command, Fail, CancelSession, Connect, coordVars
  <2> QED BY <1>2, <1>3, <2>1, PublishedStays
<1> QED BY <1>4, <1>5

LEMMA EndSnapshots ==
    ASSUME IInv, SnapshotInv, NEW t \in Task, EndStep(t)
    PROVE  SnapshotInv'
<1>1. PICK result \in Outcome : Conclude(t, result)
  BY DEF EndStep
<1>2. pc'[t] \in {"idle", "opWait"} /\ device' = device
  BY <1>1 DEF Conclude, ConcludePoll, ConcludeEdit, ConcludeCommand, Return, Goto, IInv, TypeOK
<1>3. \A u \in Task \ {t} : /\ pc'[u] = pc[u] /\ request'[u] = request[u]
                            /\ snapshot'[u] = snapshot[u] /\ outcome'[u] = outcome[u]
  BY <1>1 DEF Conclude, ConcludePoll, ConcludeEdit, ConcludeCommand, Return, Goto, ClearFrame,
              IInv, TypeOK
<1> QED BY <1>2, <1>3 DEF SnapshotInv

LEMMA EndPublished ==
    ASSUME IInv, SnapshotInv, PublishedInv, NEW t \in Task, EndStep(t)
    PROVE  PublishedInv'
<1>1. PICK result \in Outcome :
         /\ Conclude(t, result)
         /\ result \in {"ok", "invalid"} => pc[t] = "disconnecting" /\ outcome[t] = result
  BY DEF EndStep
<1>2. /\ device' = device /\ home' = home /\ home[t] \in Generation
      /\ pc'[t] \in {"idle", "opWait"}
  BY <1>1 DEF Conclude, ConcludePoll, ConcludeEdit, ConcludeCommand, Return, Goto, IInv, TypeOK
<1>3. \A u \in Task \ {t} : Unsettled(u)' <=> Unsettled(u)
  BY <1>1 DEF Conclude, ConcludePoll, ConcludeEdit, ConcludeCommand, Return, Goto, ClearFrame,
              Unsettled, IsEdit, IInv, TypeOK
<1>4. \A c \in Generation \ {home[t]} :
         available'[c] = available[c] /\ data'[c] = data[c] /\ foreign'[c] = foreign[c]
  BY <1>1 DEF Conclude, ConcludePoll, ConcludeEdit, ConcludeCommand, IInv, TypeOK
<1>5. ASSUME NEW c \in Generation, c # home[t], available'[c],
             \A u \in Task : home'[u] = c => ~Unsettled(u)'
      PROVE  Current(c)'
  BY <1>2, <1>3, <1>4, <1>5 DEF PublishedInv, Current
<1>6. ASSUME NEW c \in Generation, c = home[t], available'[c],
             \A u \in Task : home'[u] = c => ~Unsettled(u)'
      PROVE  Current(c)'
  <2>1. CASE result = "ok" /\ ~IsCommand(t)
    <3>1. snapshot[t] = device /\ snapshot[t] # None
      <4>1. CASE IsEdit(t)
        BY <1>1, <2>1, <4>1 DEF IInv, EditInv, KnowsDevice, TypeOK, Request
      <4>2. CASE request[t] = Poll
        BY <1>1, <2>1, <4>2 DEF SnapshotInv, IInv, TypeOK
      <4> QED BY <1>1, <2>1, <4>1, <4>2 DEF Conclude, ConcludePoll, ConcludeEdit, ConcludeCommand
    <3>2. data'[home[t]] = snapshot[t]
      BY <1>1, <1>2, <2>1 DEF Conclude, ConcludePoll, ConcludeEdit, ConcludeCommand, IInv, TypeOK
    <3> QED BY <1>2, <1>6, <3>1, <3>2 DEF Current
  <2>2. CASE IsCommand(t) \/ result # "ok"
    <3>1. /\ available[home[t]] /\ UNCHANGED <<data, foreign>>
          /\ IsEdit(t) => result = "invalid"
      BY <1>1, <1>2, <1>6, <2>2, CommandsAreNoEdits, PollIsNoEdit
         DEF Conclude, ConcludePoll, ConcludeEdit, ConcludeCommand, AvailableAfter, IInv, TypeOK
    <3>2. ~Unsettled(t)
      BY <1>1, <3>1 DEF Unsettled
    <3> QED BY <1>2, <1>3, <1>6, <3>1, <3>2 DEF PublishedInv, Current
  <2> QED BY <2>1, <2>2
<1> QED BY <1>5, <1>6 DEF PublishedInv

\* A step outside a session touches neither what is read nor what is published.
LEMMA OutsideReports ==
    ASSUME IInv, SnapshotInv, PublishedInv, NEW t \in Task,
           OutsideStep(t) \/ \E r \in Requests : Call(t, r)
    PROVE  SnapshotInv' /\ PublishedInv'
<1> USE DEF OutsideStep, EnterOperation, CancelOpWait, Connect, Call, Enter, Return, Goto,
            ClearFrame
<1>1. pc[t] \notin Connected /\ pc'[t] \notin Connected
  BY DEF IInv, TypeOK, Connected
<1>2. UNCHANGED <<device, available, data, foreign>>
  BY DEF coordVars
<1>3. \A u \in Task \ {t} :
         /\ pc'[u] = pc[u] /\ request'[u] = request[u] /\ home'[u] = home[u]
         /\ snapshot'[u] = snapshot[u] /\ outcome'[u] = outcome[u]
  BY DEF IInv, TypeOK
<1>4. SnapshotInv'
  BY <1>1, <1>2, <1>3 DEF SnapshotInv, Connected
<1>5. \A u \in Task : Unsettled(u) => Unsettled(u)' /\ home'[u] = home[u]
  BY <1>1, <1>3 DEF Unsettled, IsEdit, Connected
<1> QED BY <1>2, <1>4, <1>5, PublishedStays

LEMMA AppEditReports ==
    ASSUME IInv, SnapshotInv, PublishedInv, AppEdit
    PROVE  SnapshotInv' /\ PublishedInv'
<1>1. \A t \in Task : pc[t] \notin Connected /\ ~Unsettled(t)
  BY DEF AppEdit, Unsettled, Connected
<1>2. UNCHANGED <<available, data, taskVars>>
  BY DEF AppEdit
<1>3. SnapshotInv'
  BY <1>1, <1>2 DEF SnapshotInv, taskVars, Connected
<1>4. PICK l \in Letter, p \in Program :
         /\ device' = [device EXCEPT ![l] = p]
         /\ foreign' = [c \in Generation |-> foreign[c] \cup {l}]
  BY DEF AppEdit
<1>5. \A k \in Letter \ {l} : device'[k] = device[k]
  BY <1>4 DEF IInv, TypeOK, Programs
<1>6. \A c \in Generation : Current(c) => Current(c)'
  BY <1>2, <1>4, <1>5 DEF Current
<1>7. PublishedInv'
  BY <1>1, <1>2, <1>6 DEF PublishedInv
<1> QED BY <1>3, <1>7

LEMMA RInvariance == Spec => []RInv
<1>1. Init => StatusTruthful /\ SnapshotInv /\ PublishedInv
  BY DEF Init, StatusTruthful, IsEdit, HoldsOp, SnapshotInv, PublishedInv
<1>2. RInv /\ [Next]_vars => SnapshotInv' /\ PublishedInv'
  <2> SUFFICES ASSUME IInv, SnapshotInv, PublishedInv, [Next]_vars
               PROVE  SnapshotInv' /\ PublishedInv'
    BY DEF RInv
  <2>1. ASSUME NEW t \in Task, Progress(t) \/ Cancel(t) PROVE SnapshotInv' /\ PublishedInv'
    <3>1. CASE pc[t] = "sessionWait" /\ Connect(t)
      BY <3>1, OutsideReports DEF OutsideStep
    <3>2. CASE ~(pc[t] = "sessionWait" /\ Connect(t))
      <4>1. Connect(t) => pc[t] = "connecting" /\ Connect(t)
        BY <3>2 DEF Connect
      <4> QED BY <2>1, <4>1, SessionSnapshots, SessionPublished, Ends, EndSnapshots, EndPublished,
                 OutsideReports DEF Progress, Cancel, OutsideStep
    <3> QED BY <3>1, <3>2
  <2>2. CASE Reload \/ UNCHANGED vars
    <3>1. UNCHANGED <<device, available, data, foreign, pc, home, request, snapshot, outcome>>
      BY <2>2 DEF Reload, vars, coordVars, taskVars
    <3>2. SnapshotInv'
      BY <3>1 DEF SnapshotInv
    <3> QED BY <3>1, <3>2, PublishedStays DEF Unsettled, IsEdit
  <2> QED BY <2>1, <2>2, OutsideReports, AppEditReports DEF Next
<1>3. RInv /\ [Next]_vars => RInv'
  BY <1>2, NextInv, StatusInv DEF RInv
<1> QED BY <1>1, <1>3, InitInv, PTL DEF Spec, RInv
-----------------------------------------------------------------------------
\* The status reads "writing" exactly while an edit of that coordinator is under way
\* (async_set_program).
THEOREM StatusesTrue == Spec => []StatusTruthful
BY RInvariance, PTL DEF RInv

\* What is published as available is what the controller holds, but for programs that
\* somebody else edited since (_async_update_data, async_set_program).
THEOREM DataCurrent == Spec => []AvailableDataCurrent
<1>1. RInv => AvailableDataCurrent
  BY DEF RInv, PublishedInv, Current, AvailableDataCurrent, Unsettled, WriteOpen
<1> QED BY <1>1, RInvariance, PTL

\* Only an edit of its own changes what a coordinator says of its writes.
THEOREM EditsJudge == Spec => OnlyEditsJudge
<1>1. IInv /\ [Next]_vars => [\A c \in Generation :
          <<status[c], verifiedAt[c]>>' # <<status[c], verifiedAt[c]>> =>
             /\ \E t \in Task : /\ home'[t] = c
                                /\ pc'[t] # pc[t]
                                /\ IsEdit(t) \/ IsEdit(t)'
             /\ verifiedAt'[c] # verifiedAt[c] => status'[c] = "verified"]_vars
  <2> SUFFICES ASSUME IInv, Next, NEW c \in Generation,
                      status'[c] # status[c] \/ verifiedAt'[c] # verifiedAt[c]
               PROVE  /\ \E t \in Task : /\ home'[t] = c
                                         /\ pc'[t] # pc[t]
                                         /\ IsEdit(t) \/ IsEdit(t)'
                      /\ verifiedAt'[c] # verifiedAt[c] => status'[c] = "verified"
    OBVIOUS
  <2>1. ASSUME NEW t \in Task, EndStep(t)
        PROVE  /\ home'[t] = c /\ pc'[t] # pc[t] /\ IsEdit(t)
               /\ verifiedAt'[c] # verifiedAt[c] => status'[c] = "verified"
    <3>1. PICK result \in Outcome : Conclude(t, result)
      BY <2>1 DEF EndStep
    <3>2. ConcludeEdit(t, result) /\ home' = home
      BY <3>1 DEF Conclude, ConcludePoll, ConcludeCommand
    <3>3. home[t] = c /\ IsEdit(t)
      BY <3>2 DEF ConcludeEdit, IInv, TypeOK
    <3>4. pc'[t] = "idle" /\ pc[t] # "idle"
      BY <2>1, <3>2 DEF EndStep, ConcludeEdit, Return, Goto, IInv, TypeOK
    <3>5. verifiedAt'[c] # verifiedAt[c] => status'[c] = "verified"
      BY <3>2, <3>3 DEF ConcludeEdit, Verdict, IInv, TypeOK
    <3> QED BY <3>2, <3>3, <3>4, <3>5
  <2>2. ASSUME NEW t \in Task, OutsideStep(t)
        PROVE  /\ home'[t] = c /\ pc'[t] # pc[t] /\ IsEdit(t)
               /\ verifiedAt' = verifiedAt
    <3>1. EnterOperation(t)
      BY <2>2 DEF OutsideStep, CancelOpWait, Connect, coordVars
    <3> QED BY <3>1 DEF EnterOperation, Enter, Goto, IsEdit, IInv, TypeOK
  <2>3. ASSUME NEW t \in Task, NEW r \in Requests, Call(t, r)
        PROVE  /\ home'[t] = c /\ pc'[t] # pc[t] /\ IsEdit(t)'
               /\ verifiedAt' = verifiedAt
    BY <2>3 DEF Call, Enter, Goto, IsEdit, IInv, TypeOK
  <2>4. ~(AppEdit \/ Reload) /\ \A t \in Task : ~SessionStep(t)
    BY DEF AppEdit, Reload, SessionStep, coordVars
  <2> QED BY <2>1, <2>2, <2>3, <2>4, NextIsOne
<1> QED BY <1>1, Invariance, PTL DEF Spec, OnlyEditsJudge
=============================================================================
