-------------------------- MODULE HsmSessionProofs --------------------------
(***************************************************************************)
(* Proofs about HsmSession, for any number of sessions and root keys.      *)
(***************************************************************************)
EXTENDS HsmSession, LockProofs

TypeInv == TypeOK /\ OneTimerPerAcquisition

USE DEF AtWork, Levels

LEMMA TypeInvLock == TypeInv => LockInv
BY DEF TypeInv, TypeOK, LockInv

(* Every use the sessions make of the lock keeps it well formed. *)
LEMMA LockStep ==
  ASSUME TypeInv,
         \/ UNCHANGED lockVars
         \/ Unlock(HsmLock)
         \/ LockTaken(HsmLock)
         \/ TimerFires(HsmLock)
  PROVE  LockTypeOK' /\ OneTimerPerAcquisition'
<1>1. LockInv
  BY TypeInvLock
<1>2. LockInv'
  BY <1>1, HsmAssumption, LockUnchangedInv, UnlockInv, LockTakenInv, TimerFiresInv
<1> QED
  BY <1>2 DEF LockInv

LEMMA SessionType ==
  ASSUME TypeInv, NEW s \in Sessions, Session(s)
  PROVE  TypeInv'
<1> USE LockStep DEF TypeInv, TypeOK, Goto, Report, Abandon, hsmVars
<1>1. CASE NotConfigured(s)
  BY <1>1 DEF NotConfigured
<1>2. CASE ConnectBusy(s)
  BY <1>2 DEF ConnectBusy, LockRefused
<1>3. CASE ConnectBegins(s)
  BY <1>3 DEF ConnectBegins
<1>4. CASE Connected(s)
  BY <1>4 DEF Connected
<1>5. CASE ConnectFails(s)
  BY <1>5 DEF ConnectFails
<1>6. CASE KeyValidated(s)
  BY <1>6 DEF KeyValidated
<1>7. CASE AccountDerived(s)
  BY <1>7 DEF AccountDerived
<1>8. CASE ChangeDerived(s)
  BY <1>8 DEF ChangeDerived
<1>9. CASE XPubRead(s)
  BY <1>9 DEF XPubRead
<1>10. CASE StartFails(s)
  BY <1>10 DEF StartFails
<1>11. CASE Signed(s)
  BY <1>11 DEF Signed
<1>12. CASE SignFails(s)
  BY <1>12 DEF SignFails
<1>13. CASE Disconnected(s)
  BY <1>13 DEF Disconnected
<1>14. CASE DisconnectFails(s)
  BY <1>14 DEF DisconnectFails
<1>15. CASE ConfigUnavailable(s)
  BY <1>15 DEF ConfigUnavailable
<1> QED
  BY <1>1, <1>2, <1>3, <1>4, <1>5, <1>6, <1>7, <1>8,
     <1>9, <1>10, <1>11, <1>12, <1>13, <1>14, <1>15 DEF Session

LEMMA TypeInductive == TypeInv /\ [Next]_vars => TypeInv'
<1> SUFFICES ASSUME TypeInv, [Next]_vars
             PROVE  TypeInv'
  OBVIOUS
<1>1. CASE HsmLockTimesOut
  BY <1>1, LockStep DEF TypeInv, TypeOK, HsmLockTimesOut, Working, sessionVars, hsmVars
<1>2. CASE UNCHANGED vars
  BY <1>2, LockStep DEF TypeInv, TypeOK, vars, sessionVars, hsmVars
<1> QED
  BY <1>1, <1>2, SessionType DEF Next, Quiet

LEMMA TypeInitial == Init => TypeInv
<1> SUFFICES ASSUME Init
             PROVE  TypeInv
  OBVIOUS
<1>1. LockTypeOK /\ OneTimerPerAcquisition
  BY LockInitInv DEF Init, LockInv
<1> QED
  BY <1>1 DEF Init, TypeInv, TypeOK

(***************************************************************************)
(* Every variable keeps its type and every acquisition its own timer.      *)
(***************************************************************************)
LEMMA TypeInvHolds == Spec => []TypeInv
BY TypeInitial, TypeInductive, PTL DEF Spec

(***************************************************************************)
(* The type invariant the runs check, for every value of the constants.    *)
(***************************************************************************)
THEOREM HsmTypeCorrect == Spec => []TypeOK
<1>1. TypeInv => TypeOK
  BY DEF TypeInv
<1> QED
  BY <1>1, TypeInvHolds, PTL

-----------------------------------------------------------------------------
(* The connection. *)

(* OwnConnection is not inductive: it rests on the exclusion of the lock    *)
(* and on every session closing its connection before it frees the lock.    *)
ConnectionInv ==
  Undisturbed =>
    /\ \A s, t \in Working : s = t
    /\ Working # {} => lockStatus[HsmLock]
    /\ connections \subseteq {current}
    /\ \A s \in Sessions :
         pc[s] \in AtWork \ {"connect", "disconnect"} => current = s
    /\ \A s \in Sessions : pc[s] = "connect" => connections = {}
    /\ Working = {} => connections = {}

LEMMA SessionConnection ==
  ASSUME TypeInv, ConnectionInv, NEW s \in Sessions, Session(s)
  PROVE  ConnectionInv'
<1> USE DEF TypeInv, TypeOK, LockTypeOK, ConnectionInv, Undisturbed, Working, Goto, lockVars, hsmVars
<1> USE HsmAssumption
<1>1. CASE NotConfigured(s)
  BY <1>1 DEF NotConfigured
<1>2. CASE ConnectBusy(s)
  BY <1>2 DEF ConnectBusy, LockRefused
<1>3. CASE ConnectBegins(s)
  BY <1>3 DEF ConnectBegins, LockTaken
<1>4. CASE Connected(s)
  BY <1>4 DEF Connected
<1>5. CASE ConnectFails(s)
  BY <1>5 DEF ConnectFails, Abandon
<1>6. CASE KeyValidated(s)
  BY <1>6 DEF KeyValidated
<1>7. CASE AccountDerived(s)
  BY <1>7 DEF AccountDerived
<1>8. CASE ChangeDerived(s)
  BY <1>8 DEF ChangeDerived
<1>9. CASE XPubRead(s)
  BY <1>9 DEF XPubRead
<1>10. CASE StartFails(s)
  BY <1>10 DEF StartFails
<1>11. CASE Signed(s)
  BY <1>11 DEF Signed
<1>12. CASE SignFails(s)
  BY <1>12 DEF SignFails, Abandon
<1>13. CASE Disconnected(s)
  BY <1>13 DEF Disconnected, Unlock, UnlockWith
<1>14. CASE DisconnectFails(s)
  BY <1>14 DEF DisconnectFails, Abandon
<1>15. CASE ConfigUnavailable(s)
  BY <1>15 DEF ConfigUnavailable
<1> QED
  BY <1>1, <1>2, <1>3, <1>4, <1>5, <1>6, <1>7, <1>8,
     <1>9, <1>10, <1>11, <1>12, <1>13, <1>14, <1>15 DEF Session

LEMMA ConnectionInductive ==
  ASSUME TypeInv, ConnectionInv, [Next]_vars
  PROVE  ConnectionInv'
<1>1. CASE HsmLockTimesOut
  BY <1>1 DEF HsmLockTimesOut, ConnectionInv, Undisturbed, Working, sessionVars, hsmVars
<1>2. CASE UNCHANGED vars
  BY <1>2 DEF ConnectionInv, Undisturbed, Working, vars, lockVars, sessionVars, hsmVars
<1> QED
  BY <1>1, <1>2, SessionConnection DEF Next, Quiet

(***************************************************************************)
(* For any number of sessions: until one is abandoned or outlives the      *)
(* lock, at most one connection is open and it belongs to the session at   *)
(* work.                                                                   *)
(***************************************************************************)
THEOREM ConnectionIsOwn == Spec => []OwnConnection
<1>1. Init => ConnectionInv
  BY DEF Init, ConnectionInv, Working
<1>2. TypeInv /\ ConnectionInv /\ [Next]_vars => ConnectionInv'
  BY ConnectionInductive
<1>3. ConnectionInv => OwnConnection
  BY DEF ConnectionInv, OwnConnection
<1> QED
  BY <1>1, <1>2, <1>3, TypeInvHolds, PTL DEF Spec

-----------------------------------------------------------------------------
(* The keys. *)

KeysInv ==
  \A s \in Sessions :
    /\ pc[s] = "sign" => role[s] = "sign"
    /\ pc[s] = "change" => <<root[s], "acct">> \in derived
    /\ pc[s] = "xpub" => {root[s]} \X Levels \subseteq derived
    /\ role[s] = "start" /\ outcome[s] = "ok" => {root[s]} \X Levels \subseteq derived

LEMMA SessionKeys ==
  ASSUME TypeInv, KeysInv, NEW s \in Sessions, Session(s)
  PROVE  KeysInv'
<1> USE DEF TypeInv, TypeOK, KeysInv, Goto, Report, Abandon, hsmVars
<1>1. CASE NotConfigured(s)
  BY <1>1 DEF NotConfigured
<1>2. CASE ConnectBusy(s)
  BY <1>2 DEF ConnectBusy
<1>3. CASE ConnectBegins(s)
  BY <1>3 DEF ConnectBegins
<1>4. CASE Connected(s)
  BY <1>4 DEF Connected
<1>5. CASE ConnectFails(s)
  BY <1>5 DEF ConnectFails
<1>6. CASE KeyValidated(s)
  BY <1>6 DEF KeyValidated
<1>7. CASE AccountDerived(s)
  BY <1>7 DEF AccountDerived
<1>8. CASE ChangeDerived(s)
  BY <1>8 DEF ChangeDerived
<1>9. CASE XPubRead(s)
  BY <1>9 DEF XPubRead
<1>10. CASE StartFails(s)
  BY <1>10 DEF StartFails
<1>11. CASE Signed(s)
  BY <1>11 DEF Signed
<1>12. CASE SignFails(s)
  BY <1>12 DEF SignFails
<1>13. CASE Disconnected(s)
  BY <1>13 DEF Disconnected
<1>14. CASE DisconnectFails(s)
  BY <1>14 DEF DisconnectFails
<1>15. CASE ConfigUnavailable(s)
  BY <1>15 DEF ConfigUnavailable
<1> QED
  BY <1>1, <1>2, <1>3, <1>4, <1>5, <1>6, <1>7, <1>8,
     <1>9, <1>10, <1>11, <1>12, <1>13, <1>14, <1>15 DEF Session

(***************************************************************************)
(* A start that succeeds finds the account and the change key on the HSM,  *)
(* whatever starts of the same root key failed before it.                  *)
(***************************************************************************)
THEOREM StartsLeaveKeys == Spec => []StartedWithKeys
<1>1. Init => KeysInv
  BY DEF Init, KeysInv
<1>2. TypeInv /\ KeysInv /\ [Next]_vars => KeysInv'
  <2> SUFFICES ASSUME TypeInv, KeysInv, [Next]_vars
               PROVE  KeysInv'
    OBVIOUS
  <2>1. CASE \E s \in Sessions : Session(s)
    BY <2>1, SessionKeys
  <2>2. CASE UNCHANGED <<sessionVars, hsmVars>>
    BY <2>2 DEF KeysInv, sessionVars, hsmVars
  <2> QED
    BY <2>1, <2>2 DEF Next, HsmLockTimesOut, Quiet, vars
<1>3. KeysInv => StartedWithKeys
  BY DEF KeysInv, StartedWithKeys
<1> QED
  BY <1>1, <1>2, <1>3, TypeInvHolds, PTL DEF Spec
=============================================================================
