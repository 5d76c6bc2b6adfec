---------------------------- MODULE MCStateCache -----------------------------
(* Instances of StateCache for TLC. *)
EXTENDS StateCache
==============================================================================
