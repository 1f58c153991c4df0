---------------------------- MODULE MCRefinement ----------------------------
(* An instance of CoordinatorRefinement for TLC: edits of the one field of a  *)
(* program, to a value the controller may hold already, polls and starts.     *)
EXTENDS CoordinatorRefinement

EditRuntimes(l) == [kind |-> "program", letter |-> l, change |-> [f \in Field |-> 1]]

EditStartPoll == {EditRuntimes(l) : l \in Letter} \cup {Start, Poll}
=============================================================================
