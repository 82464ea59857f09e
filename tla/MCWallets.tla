----------------------------- MODULE MCWallets ------------------------------
(* Instances of Wallets: a few requests of each sort, in every order. *)
EXTENDS Wallets, TLC

Symmetry ==
  UNION {Permutations(S) : S \in {Ids, Starts, Stops, Uses, Reloads}}
=============================================================================
