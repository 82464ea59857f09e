---------------------------- MODULE MCFireblocks ----------------------------
(* Sends of a Fireblocks wallet: one UTXO at address 0, one at address 1; one
   hash without a caller, one whose caller is at address 1. *)
EXTENDS Fireblocks, TLC

CONSTANTS u1, u2, x1, x2

MCAddressOf == (u1 :> 0) @@ (u2 :> 1)
MCCallerOf == (x1 :> NoCaller) @@ (x2 :> 1)
=============================================================================
