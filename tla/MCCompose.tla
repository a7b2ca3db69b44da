----------------------------- MODULE MCCompose -----------------------------
(***************************************************************************)
(* Instances of Compose for TLC: two interchangeable services.             *)
(***************************************************************************)
EXTENDS Compose, TLC

Alike == Permutations(Services)
=============================================================================
