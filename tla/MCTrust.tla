------------------------------- MODULE MCTrust -------------------------------
(* Trust for TLC: clients differ only in what happens to them. *)
EXTENDS Trust, TLC

Symmetry == Permutations(Client)
=============================================================================
