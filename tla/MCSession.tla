----------------------------- MODULE MCSession -----------------------------
(* Instances of Session for TLC: the four transactions of a program edit,   *)
(* with a Read All that just fits into the response buffer.                 *)
EXTENDS Session

EditScript == <<"all", "status", "all", "state">>
Lengths == [all |-> 3, status |-> 1, state |-> 2, refused |-> 1, noise |-> 4]
=============================================================================
