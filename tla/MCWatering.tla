----------------------------- MODULE MCWatering -----------------------------
(* An instance of Watering for TLC: two callers beside the poller.            *)
EXTENDS Watering
=============================================================================
