----------------------- MODULE CoordinatorRefinement -----------------------
(* Coordinator implements ProgramEdits: how far an edit has come is read off *)
(* the point its task has reached.                                           *)
EXTENDS Coordinator

PhaseOf(t) ==
    IF ~IsEdit(t) THEN "none"
    ELSE IF pc[t] = "opWait" THEN "queued"
    ELSE IF pc[t] \in {"acking", "verifying"} THEN "sent"
    ELSE IF \/ pc[t] \in {"confirming", "stating"}
            \/ pc[t] = "disconnecting" /\ outcome[t] = "ok" THEN "held"
    ELSE IF pc[t] = "disconnecting" THEN "over"
    ELSE "begun"

HomeOf(t) == IF IsEdit(t) THEN home[t] ELSE None
EditOf(t) == IF IsEdit(t)
             THEN [letter |-> request[t].letter, change |-> request[t].change] ELSE None
BaseOf(t) == IF PhaseOf(t) \in {"sent", "held"} THEN before[t] ELSE None

Promise == INSTANCE ProgramEdits WITH
    phase <- [t \in Task |-> PhaseOf(t)],
    home  <- [t \in Task |-> HomeOf(t)],
    edit  <- [t \in Task |-> EditOf(t)],
    base  <- [t \in Task |-> BaseOf(t)]

\* Every behaviour of the integration is one that ProgramEdits allows: one write per
\* edit, only over a saved program, verified in isolation (async_set_program,
\* HunterNodeSession.set_program, _with_session).
ImplementsPromise == Promise!Spec
=============================================================================
