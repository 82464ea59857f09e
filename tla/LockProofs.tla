----------------------------- MODULE LockProofs -----------------------------
(***************************************************************************)
(* What the methods of class Lock do to a well-formed lock, and that every *)
(* acquisition has its own timer, for any number of slots.                 *)
(***************************************************************************)
EXTENDS Lock, TLAPS

LockInv == LockTypeOK /\ OneTimerPerAcquisition

(* A lock nobody has used yet is well formed (the constructor). *)
LEMMA LockInitInv == LockInit => LockInv
BY DEF LockInit, LockInv, LockTypeOK, OneTimerPerAcquisition

(* unlock frees its slot, leaves the others alone, and keeps no timer. *)
LEMMA UnlockInv ==
  ASSUME LockInv, NEW l \in Slots, Unlock(l)
  PROVE  LockInv' /\ lockStatus' = [lockStatus EXCEPT ![l] = FALSE]
BY TimersAssumption
   DEF LockInv, LockTypeOK, OneTimerPerAcquisition, Unlock, UnlockWith

(* A successful lock takes a free slot and arms exactly one timer for it. *)
LEMMA LockTakenInv ==
  ASSUME LockInv, NEW l \in Slots, LockTaken(l)
  PROVE  LockInv' /\ ~lockStatus[l] /\ lockStatus' = [lockStatus EXCEPT ![l] = TRUE]
<1>1. PICK t \in Timers :
        /\ setTimeoutLock' = [setTimeoutLock EXCEPT ![l] = t]
        /\ pending' = [pending EXCEPT ![l] = (@ \ {setTimeoutLock[l]}) \cup {t}]
  BY DEF LockTaken
<1>2. ~lockStatus[l] /\ lockStatus' = [lockStatus EXCEPT ![l] = TRUE]
  BY DEF LockTaken
<1>3. pending[l] = {}
  BY <1>2 DEF LockInv, OneTimerPerAcquisition
<1> QED
  BY <1>1, <1>2, <1>3 DEF LockInv, LockTypeOK, OneTimerPerAcquisition

(* A timer that fires belongs to the current acquisition, and ends it. *)
LEMMA TimerFiresInv ==
  ASSUME LockInv, NEW l \in Slots, TimerFires(l)
  PROVE  /\ LockInv'
         /\ lockStatus[l]
         /\ lockStatus' = [lockStatus EXCEPT ![l] = FALSE]
<1>1. PICK t \in pending[l] : UnlockWith(l, pending[l] \ {t})
  BY DEF TimerFires
<1>2. lockStatus[l] /\ pending[l] = {t}
  BY <1>1 DEF LockInv, LockTypeOK, OneTimerPerAcquisition
<1> QED
  BY <1>1, <1>2, TimersAssumption
     DEF LockInv, LockTypeOK, OneTimerPerAcquisition, UnlockWith

(* Steps of others do not disturb a lock. *)
LEMMA LockUnchangedInv ==
  ASSUME LockInv, UNCHANGED lockVars
  PROVE  LockInv'
BY DEF LockInv, LockTypeOK, OneTimerPerAcquisition, lockVars

(***************************************************************************)
(* For any slots and callers, a taken slot has exactly its own timer armed *)
(* and a free slot none: no acquisition is ended by the timer of an        *)
(* earlier one.                                                            *)
(***************************************************************************)
THEOREM TimersAreExact == LockSpec => []OneTimerPerAcquisition
<1>1. LockInit => LockInv
  BY LockInitInv
<1>2. LockInv /\ [LockNext]_lockVars => LockInv'
  <2> SUFFICES ASSUME LockInv, [LockNext]_lockVars
               PROVE  LockInv'
    OBVIOUS
  <2>1. CASE UNCHANGED lockVars
    BY <2>1, LockUnchangedInv
  <2>2. ASSUME NEW l \in Slots, LockRefused(l)
        PROVE  LockInv'
    BY <2>2, LockUnchangedInv DEF LockRefused
  <2>3. ASSUME NEW l \in Slots, LockTaken(l)
        PROVE  LockInv'
    BY <2>3, LockTakenInv
  <2>4. ASSUME NEW l \in Slots, Unlock(l)
        PROVE  LockInv'
    BY <2>4, UnlockInv
  <2>5. ASSUME NEW l \in Slots, TimerFires(l)
        PROVE  LockInv'
    BY <2>5, TimerFiresInv
  <2> QED
    BY <2>1, <2>2, <2>3, <2>4, <2>5 DEF LockNext
<1>3. LockInv => OneTimerPerAcquisition
  BY DEF LockInv
<1> QED
  BY <1>1, <1>2, <1>3, PTL DEF LockSpec
=============================================================================
