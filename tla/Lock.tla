-------------------------------- MODULE Lock --------------------------------
(***************************************************************************)
(* class Lock of src/src/lock.js: an in-memory mutex with a safety timer.  *)
(*                                                                         *)
(* `lock(type)` refuses when the type is taken; otherwise it takes it and  *)
(* arms a two-minute Node timer whose callback is `this.unlock(type)`.     *)
(* `unlock(type)` frees the type whoever took it: the class keeps no       *)
(* owner.  A slot below is one (Lock object, lock type) pair; the timer's  *)
(* delay is abstracted: a pending timer may fire at any moment.            *)
(***************************************************************************)
EXTENDS Naturals, FiniteSets

CONSTANTS
  Slots,    \* (Lock object, lock type) pairs
  Timers,   \* handles returned by setTimeout
  NoTimer   \* null

ASSUME TimersAssumption == NoTimer \notin Timers

VARIABLES
  lockStatus,     \* lockStatus[l]: is slot l taken
  setTimeoutLock, \* setTimeoutLock[l]: the handle remembered for slot l, or null
  pending         \* pending[l]: the armed timers of Node whose callback frees slot l

lockVars == <<lockStatus, setTimeoutLock, pending>>

LockTypeOK ==
  /\ lockStatus \in [Slots -> BOOLEAN]
  /\ setTimeoutLock \in [Slots -> Timers \cup {NoTimer}]
  /\ pending \in [Slots -> SUBSET Timers]

LockInit ==
  /\ lockStatus = [l \in Slots |-> FALSE]
  /\ setTimeoutLock = [l \in Slots |-> NoTimer]
  /\ pending = [l \in Slots |-> {}]

(* setTimeout returns a handle that no armed timer has. *)
Fresh(t) == \A l \in Slots : t \notin pending[l]

(* Slip: unlock forgets clearTimeout. *)
UnlockWithKeepsTimer(l, armed) ==
  /\ lockStatus' = [lockStatus EXCEPT ![l] = FALSE]
  /\ setTimeoutLock' = [setTimeoutLock EXCEPT ![l] = NoTimer]
  /\ pending' = [pending EXCEPT ![l] = armed]

(* unlock(type), where `armed` are the slot's armed timers when it runs. *)
UnlockWith(l, armed) ==
  /\ lockStatus' = [lockStatus EXCEPT ![l] = FALSE]
  /\ setTimeoutLock' = [setTimeoutLock EXCEPT ![l] = NoTimer]
  /\ pending' = [pending EXCEPT ![l] = armed \ {setTimeoutLock[l]}]

Unlock(l) == UnlockWith(l, pending[l])

(* lock(type) on a taken slot: returns false and changes nothing. *)
LockRefused(l) == lockStatus[l] /\ UNCHANGED lockVars

(* Slip: lock arms no timer. *)
LockTakenNoTimer(l) ==
  /\ ~lockStatus[l]
  /\ lockStatus' = [lockStatus EXCEPT ![l] = TRUE]
  /\ UNCHANGED <<setTimeoutLock, pending>>

(* lock(type) on a free slot: clears a leftover timer and arms a new one. *)
LockTaken(l) ==
  /\ ~lockStatus[l]
  /\ lockStatus' = [lockStatus EXCEPT ![l] = TRUE]
  /\ \E t \in Timers :
       /\ Fresh(t)
       /\ setTimeoutLock' = [setTimeoutLock EXCEPT ![l] = t]
       /\ pending' = [pending EXCEPT ![l] = (@ \ {setTimeoutLock[l]}) \cup {t}]

(* The safety timer fires: Node forgets the timer, its callback unlocks. *)
TimerFires(l) == \E t \in pending[l] : UnlockWith(l, pending[l] \ {t})

-----------------------------------------------------------------------------
(* The class on its own: any caller may lock or unlock any slot at any time *)
(* and the timers fire when they like.                                      *)

LockNext ==
  \E l \in Slots : LockRefused(l) \/ LockTaken(l) \/ Unlock(l) \/ TimerFires(l)

LockSpec ==
  LockInit /\ [][LockNext]_lockVars /\ \A l \in Slots : WF_lockVars(TimerFires(l))

(***************************************************************************)
(* A taken slot has exactly one armed timer, the remembered one, and a     *)
(* free slot has none: no lock outlives its timer, and a timer armed for   *)
(* an acquisition that is over never frees a later acquisition.            *)
(* (lock.js:37-69, the clearTimeout of both methods.)                      *)
(***************************************************************************)
OneTimerPerAcquisition ==
  \A l \in Slots :
    pending[l] = IF lockStatus[l] THEN {setTimeoutLock[l]} ELSE {}
=============================================================================
