----------------------------- MODULE MCEntries -----------------------------
(* An instance of Entries for TLC: two controllers with different PINs, whose *)
(* serial numbers may differ or both be unknown, and two users.              *)
EXTENDS Entries, TLC

Pins == {"0000", "1234"}
PinOfEach == [a \in Address |-> IF a = "a1" THEN "0000" ELSE "1234"]
Grants == [u \in User |-> IF u = "owner" THEN Entity ELSE {"text"}]

Symmetry == Permutations(Flow)
=============================================================================
