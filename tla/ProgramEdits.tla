---------------------------- MODULE ProgramEdits ----------------------------
(***************************************************************************)
(* What the integration promises of program edits, without locks, sessions *)
(* or messages: an edit writes the controller at most once, only over a    *)
(* program that has been backed up, nobody else changes the controller     *)
(* between its write and its verification, and "verified" is said only of  *)
(* a controller that holds the edit and is otherwise as it was.            *)
(***************************************************************************)
CONSTANTS Task, Generation, Letter, Field, Value, Keep, None

Program  == [Field -> Value]
Programs == [Letter -> Program]
Edit     == [letter : Letter, change : [Field -> Value \cup {Keep}]]

\* queued behind other edits, begun, sent to the controller, held by it, or over
Phase == {"none", "queued", "begun", "sent", "held", "over"}

VARIABLES device, backups,
          status,    \* of each generation of the coordinator
          phase, home, edit,
          base       \* what the controller held before a sent or held edit

vars == <<device, backups, status, phase, home, edit, base>>

Applied(e, programs) ==
    [programs EXCEPT ![e.letter] =
        [f \in Field |-> IF e.change[f] = Keep THEN @[f] ELSE e.change[f]]]

\* Between its write and its verification an edit has the controller to itself.
Isolated == \E t \in Task : phase[t] \in {"sent", "held"}

Init ==
    /\ device \in Programs
    /\ backups = [l \in Letter |-> None]
    /\ status = [c \in Generation |-> "not_requested"]
    /\ phase = [t \in Task |-> "none"]
    /\ home = [t \in Task |-> None]
    /\ edit = [t \in Task |-> None]
    /\ base = [t \in Task |-> None]

Moves(t, p) == phase' = [phase EXCEPT ![t] = p]

Ask(t) ==
    /\ phase[t] = "none"
    /\ \E c \in Generation, e \in Edit :
          /\ home' = [home EXCEPT ![t] = c]
          /\ edit' = [edit EXCEPT ![t] = e]
          /\ \/ Moves(t, "queued") /\ UNCHANGED status
             \/ Moves(t, "begun") /\ status' = [status EXCEPT ![c] = "writing"]
    /\ UNCHANGED <<device, backups, base>>

Begin(t) ==
    /\ phase[t] = "queued"
    /\ Moves(t, "begun")
    /\ status' = [status EXCEPT ![home[t]] = "writing"]
    /\ UNCHANGED <<device, backups, home, edit, base>>

Save(t) ==
    /\ phase[t] = "begun"
    /\ backups' = [backups EXCEPT ![edit[t].letter] = device[edit[t].letter]]
    /\ UNCHANGED <<device, status, phase, home, edit, base>>

Write(t) ==
    /\ phase[t] = "begun"
    /\ backups[edit[t].letter] = device[edit[t].letter]
    /\ ~Isolated
    /\ \E p \in Program : device' = [device EXCEPT ![edit[t].letter] = p]
    /\ base' = [base EXCEPT ![t] = device]
    /\ Moves(t, "sent")
    /\ UNCHANGED <<backups, status, home, edit>>

\* The controller is found to hold the edit, written or already there.
Hold(t) ==
    /\ \/ phase[t] = "sent" /\ device = Applied(edit[t], base[t])
       \/ phase[t] = "begun" /\ ~Isolated /\ device = Applied(edit[t], device)
    /\ Moves(t, "held")
    /\ base' = [base EXCEPT ![t] = IF phase[t] = "sent" THEN @ ELSE device]
    /\ UNCHANGED <<device, backups, status, home, edit>>

GiveUp(t) ==
    /\ phase[t] \in {"begun", "sent", "held"}
    /\ Moves(t, "over")
    /\ base' = [base EXCEPT ![t] = None]
    /\ UNCHANGED <<device, backups, status, home, edit>>

Forget(t) ==
    /\ Moves(t, "none")
    /\ home' = [home EXCEPT ![t] = None]
    /\ edit' = [edit EXCEPT ![t] = None]
    /\ base' = [base EXCEPT ![t] = None]
    /\ UNCHANGED <<device, backups>>

Report(t) ==
    /\ \/ /\ phase[t] = "held"
          /\ device = Applied(edit[t], base[t])
          /\ status' = [status EXCEPT ![home[t]] = "verified"]
       \/ /\ phase[t] \in {"begun", "over"}
          /\ \E s \in {"unverified", "failed"} : status' = [status EXCEPT ![home[t]] = s]
    /\ Forget(t)

Withdraw(t) ==
    /\ phase[t] = "queued"
    /\ UNCHANGED status
    /\ Forget(t)

\* Somebody else edits the controller.
Outside ==
    /\ ~Isolated
    /\ device' \in Programs
    /\ UNCHANGED <<backups, status, phase, home, edit, base>>

Next ==
    \/ \E t \in Task : \/ Ask(t) \/ Begin(t) \/ Save(t) \/ Write(t) \/ Hold(t)
                       \/ GiveUp(t) \/ Report(t) \/ Withdraw(t)
    \/ Outside

Spec == Init /\ [][Next]_vars
=============================================================================
