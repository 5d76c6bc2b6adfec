------------------------------- MODULE Owners --------------------------------
(* The sequences that may hold KV blocks, for KVOwnership and for the block *)
(* manager that implements it.                                              *)
EXTENDS FiniteSets

CONSTANT Owner

ASSUME OwnershipAssumption == IsFiniteSet(Owner)
==============================================================================
