-------------------------- MODULE MCWritePipeline --------------------------
(* WritePipeline on small instances, for TLC. *)
EXTENDS WriteOrder

UserSymmetry == Permutations(Users)
=============================================================================
