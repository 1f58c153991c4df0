----------------------------- MODULE MCStartup -----------------------------
(* An instance of Startup for TLC: three platforms, two setups.                *)
EXTENDS Startup
=============================================================================
