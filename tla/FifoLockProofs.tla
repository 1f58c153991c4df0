--------------------------- MODULE FifoLockProofs ---------------------------
(***************************************************************************)
(* What the operations on a lock preserve: its type, its owner while       *)
(* others queue or leave, and every waiting task's place in the queue.     *)
(***************************************************************************)
EXTENDS FifoLock, SequenceTheorems, TLAPS

Queued(l, t) == \E i \in 1..Len(l.waiters) : l.waiters[i] = t

\* t holds l or will be handed it.
Waits(l, t) == l.owner = t \/ Queued(l, t)

\* A task that asks for a lock holds it or is queued; nobody else loses a place and
\* an owner stays the owner.
LEMMA AcquireLemma ==
    ASSUME NEW l \in Lock, NEW t \in Task
    PROVE  /\ Acquire(l, t) \in Lock
           /\ Waits(Acquire(l, t), t)
           /\ \A u \in Task : Waits(l, u) => Waits(Acquire(l, t), u)
           /\ \A u \in Task : l.owner = u => Acquire(l, t).owner = u
<1> DEFINE a == Acquire(l, t)
<1>1. CASE l.owner = Nobody
  <2>1. a = [owner |-> t, waiters |-> l.waiters]
    BY <1>1 DEF Acquire, Lock
  <2> QED
    BY <1>1, <2>1, NobodyIsNoTask DEF Lock, Waits, Queued
<1>2. CASE l.owner # Nobody
  <2>1. a = [owner |-> l.owner, waiters |-> Append(l.waiters, t)]
    BY <1>2 DEF Acquire, Lock
  <2>2. a \in Lock
    BY <2>1 DEF Lock
  <2>3. Queued(a, t)
    <3>1. /\ Len(l.waiters) + 1 \in 1..Len(a.waiters)
          /\ a.waiters[Len(l.waiters) + 1] = t
      BY <2>1 DEF Lock
    <3> QED BY <3>1 DEF Queued
  <2>4. \A u \in Task : Queued(l, u) => Queued(a, u)
    <3>1. \A i \in 1..Len(l.waiters) : i \in 1..Len(a.waiters) /\ a.waiters[i] = l.waiters[i]
      BY <2>1 DEF Lock
    <3> QED BY <3>1 DEF Queued
  <2>5. \A u \in Task : l.owner = u => a.owner = u
    BY <2>1
  <2> QED
    BY <2>2, <2>3, <2>4, <2>5 DEF Waits
<1> QED BY <1>1, <1>2

\* A release hands the lock to the first in the queue and loses no other place.
LEMMA ReleaseLemma ==
    ASSUME NEW l \in Lock
    PROVE  /\ Release(l) \in Lock
           /\ \A u \in Task : Queued(l, u) => Waits(Release(l), u)
<1>1. CASE l.waiters = <<>>
  BY <1>1 DEF Release, FreeLock, Lock, Queued
<1>2. CASE l.waiters # <<>>
  <2> DEFINE r == Release(l)
  <2>1. r = [owner |-> Head(l.waiters), waiters |-> Tail(l.waiters)]
    BY <1>2 DEF Release
  <2>2. r \in Lock
    BY <1>2, <2>1 DEF Lock
  <2>3. ASSUME NEW u \in Task, NEW i \in 1..Len(l.waiters), l.waiters[i] = u
        PROVE  Waits(r, u)
    <3>1. CASE i = 1
      BY <2>1, <2>3, <3>1 DEF Waits, Lock
    <3>2. CASE i # 1
      <4>1. i - 1 \in 1..Len(r.waiters) /\ r.waiters[i - 1] = u
        BY <1>2, <2>1, <2>3, <3>2 DEF Lock
      <4> QED BY <4>1 DEF Waits, Queued
    <3> QED BY <3>1, <3>2
  <2> QED BY <2>2, <2>3 DEF Queued
<1> QED BY <1>1, <1>2

\* A cancelled waiter takes only itself out of the queue.
LEMMA LeaveLemma ==
    ASSUME NEW l \in Lock, NEW t \in Task, Waits(l, t)
    PROVE  /\ Leave(l, t) \in Lock
           /\ \A u \in Task \ {t} : Waits(l, u) => Waits(Leave(l, t), u)
           /\ \A u \in Task \ {t} : l.owner = u => Leave(l, t).owner = u
<1>1. CASE l.owner = t
  BY <1>1, ReleaseLemma DEF Leave, Waits
<1>2. CASE l.owner # t
  <2> DEFINE k == Position(l, t)
             v == Leave(l, t)
             n == Len(l.waiters)
             left == SubSeq(l.waiters, 1, k - 1)
             right == SubSeq(l.waiters, k + 1, n)
  <2>1. k \in 1..n /\ l.waiters[k] = t
    BY <1>2 DEF Waits, Queued, Position, Lock
  <2>2. v = [owner |-> l.owner, waiters |-> RemoveAt(l.waiters, k)]
    BY <1>2 DEF Leave, Lock
  <2>3. RemoveAt(l.waiters, k) = left \o right
    BY DEF RemoveAt
  <2>4. l.waiters \in Seq(Task) /\ n \in Nat /\ k \in Nat
    BY <2>1 DEF Lock
  <2>5. /\ left \in Seq(Task) /\ Len(left) = k - 1
        /\ \A i \in 1..k - 1 : left[i] = l.waiters[i]
    <3> HIDE DEF k, n
    <3>1. 1 \in 1..n + 1 /\ k - 1 \in 0..n
      BY <2>1, <2>4
    <3>2. \A i \in 1..k - 1 : 1 + i - 1 = i
      OBVIOUS
    <3> QED BY <2>1, <2>4, <3>1, <3>2, SubSeqProperties DEF n
  <2>6. /\ right \in Seq(Task) /\ Len(right) = n - k
        /\ \A i \in 1..n - k : right[i] = l.waiters[k + i]
    <3> HIDE DEF k, n
    <3>1. k + 1 \in 1..n + 1 /\ n \in 0..n
      BY <2>1, <2>4
    <3>2. \A i \in 1..n - k : (k + 1) + i - 1 = k + i
      BY <2>4
    <3> QED BY <2>1, <2>4, <3>1, <3>2, SubSeqProperties DEF n
  <2> HIDE DEF k, n, left, right
  <2>7. /\ left \o right \in Seq(Task) /\ Len(left \o right) = n - 1
        /\ \A i \in 1..n - 1 :
              (left \o right)[i] = IF i < k THEN l.waiters[i] ELSE l.waiters[i + 1]
    <3>1. /\ left \o right \in Seq(Task) /\ Len(left \o right) = (k - 1) + (n - k)
          /\ \A i \in 1..(k - 1) + (n - k) :
                (left \o right)[i] = IF i <= k - 1 THEN left[i] ELSE right[i - (k - 1)]
      <4>1. left \in Seq(Task) /\ right \in Seq(Task)
        BY <2>5, <2>6
      <4>2. /\ left \o right \in Seq(Task) /\ Len(left \o right) = Len(left) + Len(right)
            /\ \A i \in 1..Len(left) + Len(right) :
                  (left \o right)[i] = IF i <= Len(left) THEN left[i] ELSE right[i - Len(left)]
        BY <4>1, ConcatProperties
      <4>3. Len(left) = k - 1 /\ Len(right) = n - k
        BY <2>5, <2>6
      <4> QED BY <4>2, <4>3
    <3>2. (k - 1) + (n - k) = n - 1
      BY <2>4
    <3>3. ASSUME NEW i \in 1..n - 1
          PROVE  (left \o right)[i] = IF i < k THEN l.waiters[i] ELSE l.waiters[i + 1]
      <4>1. CASE i < k
        BY <2>4, <2>5, <3>1, <3>2, <4>1
      <4>2. CASE ~(i < k)
        <5>1. ~(i <= k - 1) /\ i - (k - 1) \in 1..n - k /\ k + (i - (k - 1)) = i + 1
          BY <2>1, <2>4, <4>2
        <5> QED BY <2>6, <3>1, <3>2, <4>2, <5>1
      <4> QED BY <4>1, <4>2
    <3> QED BY <3>1, <3>2, <3>3
  <2>8. v \in Lock
    BY <2>2, <2>3, <2>7 DEF Lock
  <2>9. ASSUME NEW u \in Task \ {t}, NEW i \in 1..Len(l.waiters), l.waiters[i] = u
        PROVE  Queued(v, u)
    <3>1. i \in 1..n /\ i # k
      BY <2>1, <2>9 DEF n
    <3>2. v.waiters = left \o right
      BY <2>2, <2>3
    <3>3. CASE i < k
      <4>1. i \in 1..n - 1 /\ (left \o right)[i] = u
        BY <2>1, <2>4, <2>7, <2>9, <3>1, <3>3
      <4> QED BY <2>7, <3>2, <4>1 DEF Queued
    <3>4. CASE i > k
      <4>1. i - 1 \in 1..n - 1 /\ ~(i - 1 < k) /\ (i - 1) + 1 = i
        BY <2>1, <2>4, <3>1, <3>4
      <4>2. (left \o right)[i - 1] = u
        BY <2>7, <2>9, <4>1
      <4> QED BY <2>7, <3>2, <4>1, <4>2 DEF Queued
    <3> QED BY <2>1, <2>4, <3>1, <3>3, <3>4
  <2> QED BY <1>2, <2>2, <2>8, <2>9 DEF Waits, Queued
<1> QED BY <1>1, <1>2
=============================================================================
