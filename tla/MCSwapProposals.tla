--------------------------- MODULE MCSwapProposals ---------------------------
(* One wallet id, one proposal, two Locks: the id's first and its second.
   Requests are alike, so their kinds are taken in one order only; handlers
   that take the lock and handlers that call the service share no state. *)
EXTENDS SwapProposals

CONSTANTS r1, r2, r3

Rank == [create |-> 1, update |-> 2, fetch |-> 3, register |-> 4, delete |-> 5,
         push |-> 6, unlock |-> 7]

MCMixes ==
  {m \in [Requests -> Kinds \ Locking] \cup [Requests -> Locking] :
     Rank[m[r1]] <= Rank[m[r2]] /\ Rank[m[r2]] <= Rank[m[r3]]}
=============================================================================
