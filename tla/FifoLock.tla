------------------------------ MODULE FifoLock ------------------------------
(***************************************************************************)
(* asyncio.Lock, the one synchronisation primitive of the integration, as  *)
(* a record: the task that holds it and the tasks that wait, in order.     *)
(* `async with lock` appends the caller behind every earlier waiter and a  *)
(* release hands the lock to the first of them, so a newcomer never        *)
(* overtakes; a cancelled waiter leaves the queue, and one that had just   *)
(* been handed the lock passes it on.                                      *)
(***************************************************************************)
EXTENDS SequencesExt, Naturals

CONSTANTS Task,     \* asyncio tasks that may contend for a lock
          Nobody    \* the owner of a free lock

ASSUME NobodyIsNoTask == Nobody \notin Task

Lock == [owner : Task \cup {Nobody}, waiters : Seq(Task)]

FreeLock == [owner |-> Nobody, waiters |-> <<>>]

Acquire(l, t) ==
    IF l.owner = Nobody THEN [l EXCEPT !.owner = t]
                        ELSE [l EXCEPT !.waiters = Append(@, t)]

Release(l) ==
    IF l.waiters = <<>>
    THEN FreeLock
    ELSE [owner |-> Head(l.waiters), waiters |-> Tail(l.waiters)]

Position(l, t) == CHOOSE i \in DOMAIN l.waiters : l.waiters[i] = t

\* The cancellation of a task that waits for l.
Leave(l, t) ==
    IF l.owner = t THEN Release(l)
                   ELSE [l EXCEPT !.waiters = RemoveAt(@, Position(l, t))]
=============================================================================
