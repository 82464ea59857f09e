------------------------------ MODULE MCSendTx ------------------------------
(* Instances of SendTx: every request of one wallet, in every order.  A
   behaviour has requests that take the SEND_TX lock, or sends next to the
   requests that mark, lease, unmark and reserve UTXOs without it. *)
EXTENDS SendTx, TLC

Sends == {"simple", "sendTx", "push", "buildTemplate", "unlockInputs"}
Proposals ==
  {"simple", "push", "buildSwap", "buildP2sh", "markInputs", "leaseInputs", "unmarkInputs"}
AllKinds == Sends \cup Proposals

MCInit ==
  /\ Init
  /\ \E kinds \in {Sends, Proposals} : \A r \in Requests : kind[r] \in kinds
MCSpec == MCInit /\ [][Next]_vars

Symmetry == Permutations(Requests) \cup Permutations(Utxos) \cup Permutations(Timers)
=============================================================================
