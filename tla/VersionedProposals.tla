------------------------- MODULE VersionedProposals -------------------------
(***************************************************************************)
(* What the participants of a swap are promised, wherever they run: a      *)
(* shared proposal is a register with a history, an update takes effect at *)
(* most once and only on the version its author had seen, and nobody is    *)
(* told "success" of an update that did not take effect.                   *)
(***************************************************************************)
EXTENDS Naturals, Sequences

CONSTANTS
  Requests,  \* calls made through the headless wallet
  Proposals, \* identifiers the swap service gives
  Outsider,  \* a participant who uses another client
  Unasked    \* not a pair of a proposal and a version

VARIABLES
  history, \* history[p]: who wrote each version of p
  asked,   \* asked[r]: the proposal and the version r updates, or Unasked
  outcome  \* outcome[r]: "none", "ok" or "failed"

registerVars == <<history, asked, outcome>>

RegisterInit ==
  /\ history = [p \in Proposals |-> << >>]
  /\ asked = [r \in Requests |-> Unasked]
  /\ outcome = [r \in Requests |-> "none"]

(* Which version of its proposal r wrote, if any. *)
Wrote(r) ==
  /\ asked[r] # Unasked
  /\ LET p == asked[r][1]  v == asked[r][2] IN
     v < Len(history[p]) /\ history[p][v + 1] = r

Ask(r) ==
  /\ asked[r] = Unasked /\ outcome[r] = "none"
  /\ asked'[r] \in Proposals \X Nat
  /\ asked' = [asked EXCEPT ![r] = asked'[r]]
  /\ UNCHANGED <<history, outcome>>

(* The update of r takes effect on the version it names. *)
TakeEffect(r) ==
  /\ asked[r] # Unasked /\ ~Wrote(r) /\ outcome[r] = "none"
  /\ LET p == asked[r][1] IN
     /\ asked[r][2] = Len(history[p])
     /\ history' = [history EXCEPT ![p] = Append(@, r)]
  /\ UNCHANGED <<asked, outcome>>

OutsiderWrites(p) ==
  /\ history' = [history EXCEPT ![p] = Append(@, Outsider)]
  /\ UNCHANGED <<asked, outcome>>

(* A failure is no promise: the update may have taken effect. *)
Settle(r) ==
  /\ outcome[r] = "none"
  /\ \E a \in {"ok", "failed"} :
       /\ outcome' = [outcome EXCEPT ![r] = a]
       /\ asked[r] # Unasked /\ a = "ok" => Wrote(r)
  /\ UNCHANGED <<history, asked>>

RegisterNext ==
  \/ \E r \in Requests : Ask(r) \/ TakeEffect(r) \/ Settle(r)
  \/ \E p \in Proposals : OutsiderWrites(p)

RegisterSpec == RegisterInit /\ [][RegisterNext]_registerVars
=============================================================================
