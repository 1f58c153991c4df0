--------------------------- MODULE MCCoordinator ---------------------------
(* Instances of Coordinator for TLC: one or two program letters of two      *)
(* two-valued fields, so that every edit has a field it must leave alone.   *)
EXTENDS Coordinator, TLC

Ed(l, f, v) == [kind |-> "program", letter |-> l,
                change |-> [g \in Field |-> IF g = f THEN v ELSE Keep]]

\* Every edit of one field.
OneFieldEdits == {Ed(l, f, v) : l \in Letter, f \in Field, v \in Value}

AllRequests == {Poll, Start, Stop} \cup OneFieldEdits

\* One edit per program, each with a value the controller may or may not hold.
EditEachProgram == {Ed(l, CHOOSE f \in Field : TRUE, 1) : l \in Letter}
EditOrPoll == EditEachProgram \cup {Poll}

Symmetry == Permutations(Task)
=============================================================================
