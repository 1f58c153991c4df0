-------------------------- MODULE RefinementProofs --------------------------
(***************************************************************************)
(* Coordinator implements ProgramEdits, for any number of tasks and        *)
(* generations. A step of a task maps to a step of its edit, if it has     *)
(* one, or to none; that the controller is what an edit's frame says, and  *)
(* that no other edit is between its write and its verification, comes     *)
(* from the inductive invariant of CoordinatorProofs.                      *)
(***************************************************************************)
EXTENDS CoordinatorRefinement, CoordinatorProofs

\* An idle task has no request.
IdleInv == \A t \in Task : pc[t] = "idle" => request[t] = None

USE CoordinatorAssumption, NobodyIsNoTask
-----------------------------------------------------------------------------
LEMMA IdleInvariance == Spec => []IdleInv
<1>1. Init => IdleInv
  BY DEF Init, IdleInv
<1>2. IInv /\ IdleInv /\ [Next]_vars => IdleInv'
  <2> SUFFICES ASSUME IInv, IdleInv, [Next]_vars PROVE IdleInv'
    OBVIOUS
  <2>1. ASSUME NEW t \in Task, Progress(t) \/ Cancel(t) \/ \E r \in Requests : Call(t, r)
        PROVE  IdleInv'
    <3>1. \A u \in Task \ {t} : pc'[u] = pc[u] /\ request'[u] = request[u]
      BY <2>1 DEF Progress, Cancel, Call, EnterOperation, Enter, Connect, Authenticate, ReadAll,
             ReadState, LoadBackups, SaveBackup, DeliverWrite, AnswerWrite, ReadBack, Command, Fail,
             Disconnected, ConnectFails, CancelSession, CancelOpWait, CancelBeforeSession, Conclude,
             ConcludePoll, ConcludeEdit, ConcludeCommand, Return, Disconnect, Goto, IInv, TypeOK
    <3>2. pc'[t] = "idle" => request'[t] = None
      BY <2>1 DEF Progress, Cancel, Call, EnterOperation, Enter, Connect, Authenticate, ReadAll,
             ReadState, LoadBackups, SaveBackup, DeliverWrite, AnswerWrite, ReadBack, Command, Fail,
             Disconnected, ConnectFails, CancelSession, CancelOpWait, CancelBeforeSession, Conclude,
             ConcludePoll, ConcludeEdit, ConcludeCommand, Return, Disconnect, Goto, IInv, TypeOK
    <3> QED BY <3>1, <3>2 DEF IdleInv
  <2>2. CASE AppEdit \/ Reload \/ UNCHANGED vars
    BY <2>2 DEF AppEdit, Reload, vars, taskVars, IdleInv
  <2> QED BY <2>1, <2>2 DEF Next
<1> QED BY <1>1, <1>2, Invariance, PTL DEF Spec
-----------------------------------------------------------------------------
(* What a step of one task may do to the abstract state *)

\* The abstract state of t, after a step of it.
Shows(t, p, h, e, b) ==
    PhaseOf(t)' = p /\ HomeOf(t)' = h /\ EditOf(t)' = e /\ BaseOf(t)' = b

\* A step of t leaves the frames of the others alone.
Only(t) ==
    \A u \in Task \ {t} :
        /\ pc'[u] = pc[u] /\ home'[u] = home[u] /\ request'[u] = request[u]
        /\ before'[u] = before[u] /\ outcome'[u] = outcome[u]

LEMMA OthersShow ==
    ASSUME NEW t \in Task, Only(t), NEW u \in Task, u # t
    PROVE  PhaseOf(u)' = PhaseOf(u) /\ HomeOf(u)' = HomeOf(u) /\ EditOf(u)' = EditOf(u)
           /\ BaseOf(u)' = BaseOf(u)
BY DEF Only, PhaseOf, HomeOf, EditOf, BaseOf, IsEdit

LEMMA StepShows ==
    ASSUME NEW t \in Task, Only(t)
    PROVE  /\ [u \in Task |-> PhaseOf(u)]' = [[u \in Task |-> PhaseOf(u)] EXCEPT ![t] = PhaseOf(t)']
           /\ [u \in Task |-> HomeOf(u)]' = [[u \in Task |-> HomeOf(u)] EXCEPT ![t] = HomeOf(t)']
           /\ [u \in Task |-> EditOf(u)]' = [[u \in Task |-> EditOf(u)] EXCEPT ![t] = EditOf(t)']
           /\ [u \in Task |-> BaseOf(u)]' = [[u \in Task |-> BaseOf(u)] EXCEPT ![t] = BaseOf(t)']
BY OthersShow

\* What t does not change of the abstract state stays.
LEMMA StepKeeps ==
    ASSUME NEW t \in Task, Only(t)
    PROVE  /\ PhaseOf(t)' = PhaseOf(t) => UNCHANGED [u \in Task |-> PhaseOf(u)]
           /\ HomeOf(t)' = HomeOf(t) => UNCHANGED [u \in Task |-> HomeOf(u)]
           /\ EditOf(t)' = EditOf(t) => UNCHANGED [u \in Task |-> EditOf(u)]
           /\ BaseOf(t)' = BaseOf(t) => UNCHANGED [u \in Task |-> BaseOf(u)]
BY OthersShow

LEMMA Stutters ==
    ASSUME NEW t \in Task, Only(t), Shows(t, PhaseOf(t), HomeOf(t), EditOf(t), BaseOf(t)),
           UNCHANGED <<device, backups, status>>
    PROVE  UNCHANGED Promise!vars
BY OthersShow DEF Shows, Promise!vars

\* A step that involves no edit is none of the abstract specification.
LEMMA NoEdit ==
    ASSUME NEW t \in Task, Only(t), ~IsEdit(t), ~IsEdit(t)',
           UNCHANGED <<device, backups, status>>
    PROVE  UNCHANGED Promise!vars
BY Stutters DEF Shows, PhaseOf, HomeOf, EditOf, BaseOf

\* In its session no other edit is between its write and its verification.
LEMMA Isolation ==
    ASSUME IInv, NEW t \in Task, InSession(t)
    PROVE  \A u \in Task \ {t} : PhaseOf(u) \notin {"sent", "held"}
BY Alone DEF PhaseOf, InSession, Connected

LEMMA AppliedIsWanted ==
    ASSUME NEW t \in Task, IsEdit(t)
    PROVE  Promise!Applied(EditOf(t), before[t])
              = [before[t] EXCEPT ![request[t].letter] = Wanted(t)]
BY DEF Promise!Applied, EditOf, Wanted, Merge

\* A step of an edit that keeps its request.
SameEdit(t) == IsEdit(t) /\ Only(t) /\ UNCHANGED <<home, request>>

LEMMA SameEditShows ==
    ASSUME NEW t \in Task, SameEdit(t)
    PROVE  IsEdit(t)' /\ Shows(t, PhaseOf(t)', HomeOf(t), EditOf(t), BaseOf(t)')
BY DEF SameEdit, Shows, HomeOf, EditOf, IsEdit

\* An edit that gives up before it is held to have succeeded.
LEMMA GivesUp ==
    ASSUME NEW t \in Task, SameEdit(t), PhaseOf(t) \in {"begun", "sent", "held"},
           pc'[t] = "disconnecting", outcome'[t] # "ok",
           UNCHANGED <<device, backups, status>>
    PROVE  Promise!GiveUp(t)
<1>1. Shows(t, "over", HomeOf(t), EditOf(t), None)
  BY SameEditShows DEF Shows, PhaseOf, BaseOf
<1> QED BY <1>1, StepShows, StepKeeps DEF SameEdit, Promise!GiveUp, Promise!Moves, Shows

\* A step of an edit that means nothing to the abstract specification.
LEMMA Goes ==
    ASSUME NEW t \in Task, SameEdit(t), PhaseOf(t)' = PhaseOf(t), before'[t] = before[t],
           UNCHANGED <<device, backups, status>>
    PROVE  UNCHANGED Promise!vars
<1>1. Shows(t, PhaseOf(t), HomeOf(t), EditOf(t), BaseOf(t))
  BY SameEditShows DEF Shows, BaseOf
<1> QED BY <1>1, Stutters DEF SameEdit
-----------------------------------------------------------------------------
(* The steps of a task *)

PromiseStep == Promise!Next \/ UNCHANGED Promise!vars

LEMMA CallSteps ==
    ASSUME IInv, IdleInv, NEW t \in Task, NEW r \in Requests, Call(t, r)
    PROVE  PromiseStep
<1>1. Only(t) /\ request'[t] = r /\ home'[t] = current /\ current \in Generation /\ r \in Request
  BY DEF Call, Enter, Goto, Only, IInv, TypeOK
<1>2. ~IsEdit(t) /\ UNCHANGED <<device, backups>>
  BY DEF Call, IdleInv, IsEdit, Request
<1>3. CASE r \notin Edits
  <2>1. ~IsEdit(t)' /\ UNCHANGED status
    BY <1>1, <1>3 DEF Call, Enter, IsEdit
  <2> QED BY <1>1, <1>2, <2>1, NoEdit DEF PromiseStep
<1>4. CASE r \in Edits
  <2> DEFINE e == [letter |-> r.letter, change |-> r.change]
  <2>1. IsEdit(t)' /\ e \in Promise!Edit
    BY <1>1, <1>4 DEF IsEdit, Edits, Change, Promise!Edit
  <2>2. pc'[t] \in {"sessionWait", "opWait"}
    BY DEF Call, Enter, Goto, IInv, TypeOK
  <2>3. /\ PhaseOf(t) = "none"
        /\ Shows(t, IF pc'[t] = "opWait" THEN "queued" ELSE "begun", current, e, None)
        /\ BaseOf(t) = None
    BY <1>1, <1>2, <2>1, <2>2 DEF Shows, PhaseOf, HomeOf, EditOf, BaseOf
  <2>4. status' = IF pc'[t] = "opWait" THEN status ELSE [status EXCEPT ![current] = "writing"]
    BY <1>4 DEF Call, Enter, Goto, IInv, TypeOK
  <2> HIDE DEF e
  <2>5. /\ UNCHANGED [u \in Task |-> BaseOf(u)]
        /\ [u \in Task |-> HomeOf(u)]' = [[u \in Task |-> HomeOf(u)] EXCEPT ![t] = current]
        /\ [u \in Task |-> EditOf(u)]' = [[u \in Task |-> EditOf(u)] EXCEPT ![t] = e]
    BY <1>1, <2>3, StepShows, StepKeeps DEF Shows
  <2>6. \/ Promise!Moves(t, "queued") /\ UNCHANGED status
        \/ Promise!Moves(t, "begun") /\ status' = [status EXCEPT ![current] = "writing"]
    BY <1>1, <2>2, <2>3, <2>4, StepShows DEF Shows, Promise!Moves
  <2>7. Promise!Ask(t)
    BY <1>1, <1>2, <2>1, <2>3, <2>5, <2>6 DEF Promise!Ask
  <2> QED BY <2>7 DEF PromiseStep, Promise!Next
<1> QED BY <1>3, <1>4

LEMMA EnterOperationSteps ==
    ASSUME IInv, NEW t \in Task, EnterOperation(t)
    PROVE  PromiseStep
<1>1. Only(t) /\ UNCHANGED <<device, backups, home, request>> /\ pc[t] = "opWait"
      /\ pc'[t] = "sessionWait" /\ before'[t] = before[t]
  BY DEF EnterOperation, Enter, Goto, Only, IInv, TypeOK
<1>2. CASE ~IsEdit(t)
  <2>1. ~IsEdit(t)' /\ UNCHANGED status
    BY <1>1, <1>2 DEF EnterOperation, Enter, IsEdit
  <2> QED BY <1>1, <1>2, <2>1, NoEdit DEF PromiseStep
<1>3. CASE IsEdit(t)
  <2>1. status' = [status EXCEPT ![HomeOf(t)] = "writing"]
    BY <1>3 DEF EnterOperation, Enter, IsEdit, HomeOf
  <2>2. IsEdit(t)' /\ PhaseOf(t) = "queued" /\ BaseOf(t) = None
    BY <1>1, <1>3 DEF PhaseOf, BaseOf, IsEdit
  <2>3. Shows(t, "begun", HomeOf(t), EditOf(t), BaseOf(t))
    BY <1>1, <1>3, <2>2, SameEditShows DEF SameEdit, Shows, PhaseOf, BaseOf
  <2>4. Promise!Begin(t)
    BY <1>1, <2>1, <2>2, <2>3, StepShows, StepKeeps DEF Promise!Begin, Promise!Moves, Shows
  <2> QED BY <2>4 DEF PromiseStep, Promise!Next
<1> QED BY <1>2, <1>3

LEMMA CancelOpWaitSteps ==
    ASSUME IInv, NEW t \in Task, CancelOpWait(t)
    PROVE  PromiseStep
<1>1. /\ Only(t) /\ UNCHANGED <<device, backups, status>> /\ pc[t] = "opWait"
      /\ request'[t] = None
  BY DEF CancelOpWait, Return, Goto, ClearFrame, Only, IInv, TypeOK
<1>2. ~IsEdit(t)'
  BY <1>1 DEF IsEdit, Request
<1>3. CASE ~IsEdit(t)
  BY <1>1, <1>2, <1>3, NoEdit DEF PromiseStep
<1>4. CASE IsEdit(t)
  <2>1. PhaseOf(t) = "queued" /\ Shows(t, "none", None, None, None)
    BY <1>1, <1>2, <1>4 DEF PhaseOf, HomeOf, EditOf, BaseOf, Shows
  <2>2. Promise!Withdraw(t)
    BY <1>1, <2>1, StepShows DEF Promise!Withdraw, Promise!Forget, Promise!Moves, Shows
  <2> QED BY <2>2 DEF PromiseStep, Promise!Next
<1> QED BY <1>3, <1>4

\* The steps of a session that leave the controller and the store alone.
LEMMA SessionSteps ==
    ASSUME IInv, NEW t \in Task,
           \/ Connect(t) \/ Authenticate(t) \/ ReadState(t) \/ LoadBackups(t)
           \/ AnswerWrite(t) \/ Command(t) \/ Fail(t) \/ CancelSession(t)
    PROVE  PromiseStep
<1> USE DEF Connect, Authenticate, ReadState, LoadBackups, AnswerWrite, Command, Fail,
            CancelSession, Disconnect, Goto
<1>1. Only(t) /\ UNCHANGED <<device, backups, status, home, request, before>>
  BY DEF Only, coordVars, IInv, TypeOK
<1>2. CASE ~IsEdit(t)
  <2>1. ~IsEdit(t)'
    BY <1>1, <1>2 DEF IsEdit
  <2> QED BY <1>1, <1>2, <2>1, NoEdit DEF PromiseStep
<1>3. CASE IsEdit(t)
  <2>1. SameEdit(t) /\ IsEdit(t)'
    BY <1>1, <1>3, SameEditShows DEF SameEdit
  <2>2. CASE Connect(t) \/ Authenticate(t) \/ LoadBackups(t) \/ ReadState(t)
    <3>1. PhaseOf(t)' = PhaseOf(t)
      BY <1>3, <2>1, <2>2 DEF PhaseOf, IInv, TypeOK
    <3> QED BY <1>1, <2>1, <3>1, Goes DEF PromiseStep
  <2>3. CASE AnswerWrite(t) /\ pc'[t] = "verifying"
    <3>1. PhaseOf(t)' = PhaseOf(t)
      BY <1>3, <2>1, <2>3 DEF PhaseOf
    <3> QED BY <1>1, <2>1, <3>1, Goes DEF PromiseStep
  <2>4. CASE (AnswerWrite(t) /\ pc'[t] # "verifying") \/ Fail(t) \/ CancelSession(t)
    <3>1. pc'[t] = "disconnecting" /\ outcome'[t] # "ok"
      BY <2>4 DEF FailureOf, IInv, TypeOK
    <3>2. CASE PhaseOf(t) \in {"begun", "sent", "held"}
      BY <1>1, <2>1, <3>1, <3>2, GivesUp DEF PromiseStep, Promise!Next
    <3>3. CASE PhaseOf(t) \notin {"begun", "sent", "held"}
      <4>1. PhaseOf(t) = "over"
        BY <1>3, <2>4, <3>3 DEF PhaseOf, Connected
      <4>2. PhaseOf(t)' = "over"
        BY <2>1, <3>1 DEF PhaseOf
      <4> QED BY <1>1, <2>1, <4>1, <4>2, Goes DEF PromiseStep
    <3> QED BY <3>2, <3>3
  <2>5. ~Command(t)
    BY <1>3 DEF IInv, EditInv, KnowsDevice
  <2> QED BY <2>2, <2>3, <2>4, <2>5
<1> QED BY <1>2, <1>3

LEMMA ReadAllSteps ==
    ASSUME IInv, NEW t \in Task, ReadAll(t)
    PROVE  PromiseStep
<1> USE DEF ReadAll, Disconnect, Goto
<1>1. /\ Only(t) /\ UNCHANGED <<device, backups, status, home, request>>
      /\ before'[t] = device /\ pc[t] = "reading"
  BY DEF Only, coordVars, IInv, TypeOK
<1>2. CASE ~IsEdit(t)
  <2>1. ~IsEdit(t)'
    BY <1>1, <1>2 DEF IsEdit
  <2> QED BY <1>1, <1>2, <2>1, NoEdit DEF PromiseStep
<1>3. CASE IsEdit(t)
  <2>1. SameEdit(t) /\ IsEdit(t)'
    BY <1>1, <1>3, SameEditShows DEF SameEdit
  <2>2. PhaseOf(t) = "begun"
    BY <1>1, <1>3 DEF PhaseOf
  <2>3. CASE pc'[t] = "disconnecting"
    <3>1. outcome'[t] # "ok"
      BY <2>3 DEF IInv, TypeOK
    <3>2. Promise!GiveUp(t)
      BY <1>1, <2>1, <2>2, <2>3, <3>1, GivesUp
    <3> QED BY <3>2 DEF PromiseStep, Promise!Next
  <2>4. CASE pc'[t] = "loading"
    <3>1. Shows(t, PhaseOf(t), HomeOf(t), EditOf(t), BaseOf(t))
      BY <2>1, <2>2, <2>4, SameEditShows DEF Shows, PhaseOf, BaseOf
    <3> QED BY <1>1, <3>1, Stutters DEF PromiseStep
  <2>5. CASE pc'[t] = "stating"
    <3>1. /\ request[t].letter \in Letter /\ device \in Programs
          /\ Merge(request[t].change, device[request[t].letter]) = device[request[t].letter]
      BY <1>3, <2>5 DEF IsEdit, Edits, IInv, TypeOK
    <3>2. device = Promise!Applied(EditOf(t), device)
      BY <1>3, <3>1 DEF Promise!Applied, EditOf, Merge, Programs
    <3>3. Shows(t, "held", HomeOf(t), EditOf(t), device)
      BY <1>1, <2>1, <2>5, SameEditShows DEF Shows, PhaseOf, BaseOf
    <3>4. ~Promise!Isolated
      BY <1>1, <2>2, Isolation DEF Promise!Isolated, InSession, Connected
    <3>5. Promise!Hold(t)
      BY <1>1, <2>2, <3>2, <3>3, <3>4, StepShows, StepKeeps
         DEF Promise!Hold, Promise!Moves, Shows
    <3> QED BY <3>5 DEF PromiseStep, Promise!Next
  <2> QED BY <2>3, <2>4, <2>5 DEF IInv, TypeOK
<1> QED BY <1>2, <1>3

LEMMA SaveBackupSteps ==
    ASSUME IInv, NEW t \in Task, SaveBackup(t)
    PROVE  PromiseStep
<1>1. /\ IsEdit(t) /\ before[t] = device /\ loaded[t] = backups
      /\ pc[t] = "saving" /\ pc'[t] = "writing"
  BY DEF SaveBackup, Goto, IInv, TypeOK, EditInv, KnowsDevice, KnowsBackups, EditSteps
<1>2. /\ SameEdit(t) /\ UNCHANGED <<device, status, before>>
      /\ backups' = [backups EXCEPT ![EditOf(t).letter] = device[EditOf(t).letter]]
  BY <1>1 DEF SaveBackup, BackupOf, Goto, SameEdit, Only, EditOf, coordVars, IInv, TypeOK
<1>3. PhaseOf(t) = "begun" /\ Shows(t, "begun", HomeOf(t), EditOf(t), BaseOf(t))
  BY <1>1, <1>2, SameEditShows DEF Shows, PhaseOf, BaseOf
<1>4. Promise!Save(t)
  BY <1>2, <1>3, StepShows, StepKeeps DEF Promise!Save, Shows, SameEdit
<1> QED BY <1>4 DEF PromiseStep, Promise!Next

LEMMA DeliverWriteSteps ==
    ASSUME IInv, NEW t \in Task, DeliverWrite(t)
    PROVE  PromiseStep
<1>1. /\ IsEdit(t) /\ before[t] = device /\ pc[t] = "writing" /\ pc'[t] = "acking"
      /\ backups[request[t].letter] = device[request[t].letter]
  BY DEF DeliverWrite, Goto, IInv, TypeOK, EditInv, KnowsDevice, KnowsBackups, EditSteps
<1>2. /\ SameEdit(t) /\ UNCHANGED <<backups, status, before>>
      /\ \E p \in Program : device' = [device EXCEPT ![EditOf(t).letter] = p]
  BY <1>1 DEF DeliverWrite, Goto, SameEdit, Only, EditOf, IInv, TypeOK
<1>3. PhaseOf(t) = "begun" /\ Shows(t, "sent", HomeOf(t), EditOf(t), device)
  BY <1>1, <1>2, SameEditShows DEF Shows, PhaseOf, BaseOf
<1>4. ~Promise!Isolated
  BY <1>1, <1>3, Isolation DEF Promise!Isolated, InSession, Connected
<1>5. backups[EditOf(t).letter] = device[EditOf(t).letter]
  BY <1>1 DEF EditOf
<1>6. Promise!Write(t)
  BY <1>2, <1>3, <1>4, <1>5, StepShows, StepKeeps
     DEF Promise!Write, Promise!Moves, Promise!Program, Program, Shows, SameEdit
<1> QED BY <1>6 DEF PromiseStep, Promise!Next

LEMMA ReadBackSteps ==
    ASSUME IInv, NEW t \in Task, ReadBack(t)
    PROVE  PromiseStep
<1> USE DEF ReadBack, Disconnect, Goto
<1>1. /\ IsEdit(t) /\ pc[t] = "verifying"
      /\ before[t] \in Programs /\ request[t].letter \in Letter
      /\ \A l \in Letter \ {request[t].letter} : device[l] = before[t][l]
  BY DEF IInv, EditInv, KnowsDevice, EditSteps, IsEdit, Edits
<1>2. SameEdit(t) /\ UNCHANGED <<device, backups, status, before>>
  BY <1>1 DEF SameEdit, Only, coordVars, IInv, TypeOK
<1>3. PhaseOf(t) = "sent"
  BY <1>1 DEF PhaseOf
<1>4. CASE Matches(t)
  <2>1. pc'[t] = "confirming"
    BY <1>4 DEF IInv, TypeOK
  <2>2. device = Promise!Applied(EditOf(t), before[t])
    BY <1>1, <1>4, AppliedIsWanted DEF Matches, Programs, IInv, TypeOK
  <2>3. BaseOf(t) = before[t] /\ Shows(t, "held", HomeOf(t), EditOf(t), BaseOf(t))
    BY <1>2, <1>3, <2>1, SameEditShows DEF Shows, PhaseOf, BaseOf
  <2>4. Promise!Hold(t)
    BY <1>2, <1>3, <2>2, <2>3, StepShows, StepKeeps
       DEF Promise!Hold, Promise!Moves, Shows, SameEdit
  <2> QED BY <2>4 DEF PromiseStep, Promise!Next
<1>5. CASE ~Matches(t)
  <2>1. pc'[t] = "disconnecting" /\ outcome'[t] # "ok"
    BY <1>5 DEF IInv, TypeOK
  <2>2. Promise!GiveUp(t)
    BY <1>2, <1>3, <2>1, GivesUp
  <2> QED BY <2>2 DEF PromiseStep, Promise!Next
<1> QED BY <1>4, <1>5

\* However a task ends: an edit that does is reported on.
LEMMA EndSteps ==
    ASSUME IInv, NEW t \in Task, Disconnected(t) \/ ConnectFails(t) \/ CancelBeforeSession(t)
    PROVE  PromiseStep
<1>1. PICK result \in Outcome :
         /\ Conclude(t, result)
         /\ result \in {"ok", "invalid"} => pc[t] = "disconnecting" /\ outcome[t] = result
         /\ pc[t] = "disconnecting" => result = outcome[t]
         /\ pc[t] \in {"sessionWait", "connecting", "disconnecting"}
  BY DEF Disconnected, ConnectFails, CancelBeforeSession, IInv, TypeOK, Outcome
<1>2. Only(t) /\ UNCHANGED <<device, backups>>
  BY <1>1 DEF Conclude, ConcludePoll, ConcludeEdit, ConcludeCommand, Return, Goto, ClearFrame, Only,
              IInv, TypeOK
<1>3. ~IsEdit(t)'
  <2>1. request'[t] \in {None, Poll}
    BY <1>1 DEF Conclude, ConcludePoll, ConcludeEdit, ConcludeCommand, Return, IInv, TypeOK
  <2> QED BY <2>1 DEF IsEdit, Edits, Poll, Request
<1>4. CASE ~IsEdit(t)
  <2>1. UNCHANGED status
    BY <1>1, <1>4 DEF Conclude, ConcludePoll, ConcludeEdit, ConcludeCommand
  <2> QED BY <1>2, <1>3, <1>4, <2>1, NoEdit DEF PromiseStep
<1>5. CASE IsEdit(t)
  <2>1. ConcludeEdit(t, result)
    BY <1>1, <1>5, CommandsAreNoEdits
       DEF Conclude, ConcludePoll, ConcludeCommand, IsEdit, Edits, Poll
  <2>2. status' = [status EXCEPT ![HomeOf(t)] = Verdict(result)]
    BY <1>5, <2>1 DEF ConcludeEdit, HomeOf
  <2>3. Shows(t, "none", None, None, None)
    BY <1>3 DEF Shows, PhaseOf, HomeOf, EditOf, BaseOf
  <2>4. Promise!Forget(t)
    BY <1>2, <2>3, StepShows DEF Promise!Forget, Promise!Moves, Shows
  <2>5. CASE result = "ok"
    <3>1. PhaseOf(t) = "held" /\ BaseOf(t) = before[t]
      BY <1>1, <1>5, <2>5 DEF PhaseOf, BaseOf
    <3>2. device = Promise!Applied(EditOf(t), BaseOf(t))
      BY <1>1, <1>5, <2>5, <3>1, AppliedIsWanted DEF IInv, EditInv, KnowsDevice
    <3>3. Verdict(result) = "verified"
      BY <2>5 DEF Verdict
    <3> QED BY <2>2, <2>4, <3>1, <3>2, <3>3 DEF Promise!Report, PromiseStep, Promise!Next
  <2>6. CASE result # "ok"
    <3>1. PhaseOf(t) \in {"begun", "over"}
      BY <1>1, <1>5, <2>6 DEF PhaseOf
    <3>2. Verdict(result) \in {"unverified", "failed"}
      BY <2>6 DEF Verdict
    <3> QED BY <2>2, <2>4, <3>1, <3>2 DEF Promise!Report, PromiseStep, Promise!Next
  <2> QED BY <2>5, <2>6
<1> QED BY <1>4, <1>5
-----------------------------------------------------------------------------
LEMMA WorldSteps == ASSUME IInv, AppEdit \/ Reload \/ UNCHANGED vars PROVE PromiseStep
<1>1. UNCHANGED <<backups, status, pc, home, request, before, outcome>>
  BY DEF AppEdit, Reload, vars, coordVars, taskVars
<1>2. /\ [u \in Task |-> PhaseOf(u)]' = [u \in Task |-> PhaseOf(u)]
      /\ [u \in Task |-> HomeOf(u)]' = [u \in Task |-> HomeOf(u)]
      /\ [u \in Task |-> EditOf(u)]' = [u \in Task |-> EditOf(u)]
      /\ [u \in Task |-> BaseOf(u)]' = [u \in Task |-> BaseOf(u)]
  BY <1>1 DEF PhaseOf, HomeOf, EditOf, BaseOf, IsEdit
<1>3. CASE AppEdit
  <2>1. ~Promise!Isolated
    BY <1>3 DEF AppEdit, Promise!Isolated, PhaseOf, Connected
  <2>2. device' \in Promise!Programs
    BY <1>3 DEF AppEdit, IInv, TypeOK, Programs, Program, Promise!Programs, Promise!Program
  <2> QED BY <1>1, <1>2, <2>1, <2>2 DEF Promise!Outside, PromiseStep, Promise!Next
<1>4. CASE Reload \/ UNCHANGED vars
  BY <1>1, <1>2, <1>4 DEF Reload, vars, PromiseStep, Promise!vars
<1> QED BY <1>3, <1>4

LEMMA StepSimulation == IInv /\ IdleInv /\ [Next]_vars => [Promise!Next]_(Promise!vars)
<1> SUFFICES ASSUME IInv, IdleInv, [Next]_vars PROVE PromiseStep
  BY DEF PromiseStep
<1>1. ASSUME NEW t \in Task, Progress(t) \/ Cancel(t) PROVE PromiseStep
  BY <1>1, EnterOperationSteps, CancelOpWaitSteps, SessionSteps, ReadAllSteps, SaveBackupSteps,
     DeliverWriteSteps, ReadBackSteps, EndSteps DEF Progress, Cancel
<1> QED BY <1>1, CallSteps, WorldSteps DEF Next

\* Every behaviour of the integration is one that ProgramEdits allows: an edit is
\* written at most once, over a saved program, verified in isolation and reported
\* truthfully, across failures, cancellations, app edits and reloads (async_set_program,
\* HunterNodeSession.set_program, _with_session).
THEOREM PromiseKept == Spec => ImplementsPromise
<1>1. Init => Promise!Init
  BY DEF Init, Promise!Init, Promise!Programs, Promise!Program, Programs, Program, PhaseOf, HomeOf,
         EditOf, BaseOf, IsEdit, Request
<1> QED BY <1>1, StepSimulation, Invariance, IdleInvariance, PTL
           DEF Spec, ImplementsPromise, Promise!Spec
=============================================================================
