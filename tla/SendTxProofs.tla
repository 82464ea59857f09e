---------------------------- MODULE SendTxProofs ----------------------------
(***************************************************************************)
(* Proofs about SendTx, for any number of requests, UTXOs, lock slots and  *)
(* timers, and any mix of request kinds; then about Fireblocks, for any    *)
(* number of raw transactions and polls, which implements SendTx.          *)
(***************************************************************************)
EXTENDS Fireblocks, LockProofs

(* The control a request can be in, given its kind. *)
KindOK ==
  \A r \in Requests :
    /\ pc[r] = "funds" => kind[r] = "sendTx"
    /\ pc[r] = "prepare" => kind[r] \in LockingKinds \ {"unlockInputs"}
    /\ pc[r] \in {"mark", "mine"} => kind[r] \in SendingKinds
    /\ pc[r] = "unmark" => kind[r] \in {"unlockInputs", "unmarkInputs"}
    /\ pc[r] \in {"choose", "reserve"} => kind[r] \notin LockingKinds
    /\ pc[r] \in {"idle", "funds"} => source[r] = "nobody"

TypeInv == TypeOK /\ OneTimerPerAcquisition

USE DEF LockingKinds, SendingKinds, BuildingKinds, MarkingKinds, Kinds, PC, Answers

LEMMA TypeInvLock == TypeInv => LockInv
BY DEF TypeInv, TypeOK, LockInv

(* What each kind of lock use leaves of the lock. *)
LEMMA LockStep ==
  ASSUME TypeInv,
         \/ UNCHANGED lockVars
         \/ Unlock(SendLock)
         \/ LockTaken(SendLock)
         \/ TimerFires(SendLock)
  PROVE  LockTypeOK' /\ OneTimerPerAcquisition'
<1>1. LockInv
  BY TypeInvLock
<1>2. LockInv'
  BY <1>1, SendTxAssumption, LockUnchangedInv, UnlockInv, LockTakenInv, TimerFiresInv
<1> QED
  BY <1>2 DEF LockInv

LEMMA ReleaseOnceType ==
  ASSUME TypeInv, NEW r \in Requests, ReleaseOnce(r)
  PROVE  /\ LockTypeOK' /\ OneTimerPerAcquisition'
         /\ released' \in [Requests -> BOOLEAN]
<1>1. CASE released[r]
  BY <1>1, LockStep DEF ReleaseOnce, TypeInv, TypeOK
<1>2. CASE ~released[r]
  BY <1>2, LockStep DEF ReleaseOnce, TypeInv, TypeOK
<1> QED
  BY <1>1, <1>2

(* A handler's step keeps the types. *)
LEMMA HandlerType ==
  ASSUME TypeInv, NEW r \in Requests, Handler(r)
  PROVE  TypeInv'
<1> USE DEF TypeInv, TypeOK, Respond, Goto, Choose, reqVars, utxoVars
<1>1. CASE Busy(r)
  BY <1>1, LockStep DEF Busy, LockRefused
<1>2. CASE Start(r)
  BY <1>2, LockStep DEF Start
<1>3. CASE FundsFound(r)
  BY <1>3, LockStep DEF FundsFound, Available
<1>4. CASE FundsMissing(r)
  BY <1>4, ReleaseOnceType DEF FundsMissing
<1>5. CASE FundsThrow(r)
  BY <1>5, LockStep DEF FundsThrow
<1>6. CASE Prepared(r)
  BY <1>6, LockStep DEF Prepared, Available
<1>7. CASE PrepareFails(r)
  BY <1>7, ReleaseOnceType DEF PrepareFails
<1>8. CASE TemplateBuilt(r)
  BY <1>8, ReleaseOnceType DEF TemplateBuilt
<1>9. CASE InputsMarked(r)
  BY <1>9, ReleaseOnceType DEF InputsMarked, MarkUtxos
<1>10. CASE MarkFails(r)
  BY <1>10, ReleaseOnceType DEF MarkFails, MarkUtxos
<1>11. CASE Sent(r)
  BY <1>11, LockStep DEF Sent
<1>12. CASE SendFails(r)
  BY <1>12, ReleaseOnceType DEF SendFails, UnmarkUtxos
<1>13. CASE UnlockInputsStarts(r)
  BY <1>13, LockStep DEF UnlockInputsStarts
<1>14. CASE MarkingStarts(r)
  BY <1>14, LockStep DEF MarkingStarts
<1>15. CASE UnmarkNext(r)
  BY <1>15, LockStep DEF UnmarkNext, UnmarkUtxos
<1>16. CASE UnmarkEnds(r)
  BY <1>16, LockStep DEF UnmarkEnds
<1>17. CASE ReserveNext(r)
  BY <1>17, LockStep DEF ReserveNext, MarkUtxos
<1>18. CASE ReserveEnds(r)
  BY <1>18, LockStep DEF ReserveEnds
<1>19. CASE BuildStarts(r)
  BY <1>19, LockStep DEF BuildStarts
<1>20. CASE ProposalChooses(r)
  BY <1>20, LockStep DEF ProposalChooses, Available
<1>21. CASE ProposalUnreserved(r)
  BY <1>21, LockStep DEF ProposalUnreserved
<1> QED
  BY <1>1, <1>2, <1>3, <1>4, <1>5, <1>6, <1>7, <1>8, <1>9, <1>10, <1>11, <1>12,
     <1>13, <1>14, <1>15, <1>16, <1>17, <1>18, <1>19, <1>20, <1>21 DEF Handler

(* The timer, the end of a lease and the final stuttering keep the types. *)
LEMMA EnvironmentType ==
  ASSUME TypeInv, SendLockTimesOut \/ (\E u \in Utxos : LeaseEnds(u)) \/ Quiet
  PROVE  TypeInv'
<1> USE DEF TypeInv, TypeOK, reqVars, utxoVars
<1>1. CASE SendLockTimesOut
  BY <1>1, LockStep DEF SendLockTimesOut, InSection
<1>2. ASSUME NEW u \in Utxos, LeaseEnds(u)
      PROVE  TypeInv'
  BY <1>2, LockStep DEF LeaseEnds
<1>3. CASE Quiet
  BY <1>3, LockStep DEF Quiet, vars
<1> QED
  BY <1>1, <1>2, <1>3

(***************************************************************************)
(* Every variable keeps its type and every acquisition its own timer.      *)
(***************************************************************************)
LEMMA TypeInvHolds == Spec => []TypeInv
<1>1. Init => TypeInv
  <2> SUFFICES ASSUME Init PROVE TypeInv
    OBVIOUS
  <2>1. LockTypeOK /\ OneTimerPerAcquisition
    BY LockInitInv DEF Init, LockInv
  <2>2. kind \in [Requests -> Kinds]
    BY SendTxAssumption DEF Init
  <2> QED
    BY <2>1, <2>2 DEF Init, TypeInv, TypeOK
<1>2. TypeInv /\ [Next]_vars => TypeInv'
  <2> SUFFICES ASSUME TypeInv, [Next]_vars
               PROVE  TypeInv'
    OBVIOUS
  <2>1. CASE UNCHANGED vars
    BY <2>1, LockStep DEF TypeInv, TypeOK, vars, reqVars, utxoVars
  <2> QED
    BY <2>1, HandlerType, EnvironmentType DEF Next
<1> QED
  BY <1>1, <1>2, PTL DEF Spec

(***************************************************************************)
(* The type invariant the runs check, for every value of the constants.    *)
(***************************************************************************)
THEOREM TypeCorrect == Spec => []TypeOK
<1>1. TypeInv => TypeOK
  BY DEF TypeInv
<1> QED
  BY <1>1, TypeInvHolds, PTL

-----------------------------------------------------------------------------
(* The control of a request: kinds, answers and the released flag. *)

(* A request is answered once, when its handler is done with it. *)
AnswerOK == \A r \in Requests : answer[r] # "none" => pc[r] = "done"

(* lockReleased is set exactly by the release that leaves the section. *)
ReleasedOK ==
  \A r \in Requests :
    /\ pc[r] \in {"idle", "funds", "prepare", "mark"} => ~released[r]
    /\ pc[r] = "mine" => released[r]

ControlInv == KindOK /\ AnswerOK /\ ReleasedOK

LEMMA HandlerControl ==
  ASSUME TypeInv, ControlInv, NEW r \in Requests, Handler(r)
  PROVE  ControlInv'
<1> USE DEF TypeInv, TypeOK, ControlInv, KindOK, AnswerOK, ReleasedOK, Respond, Goto, Choose, ReleaseOnce, utxoVars
<1>1. CASE Busy(r)
  BY <1>1 DEF Busy
<1>2. CASE Start(r)
  BY <1>2 DEF Start
<1>3. CASE FundsFound(r)
  BY <1>3 DEF FundsFound
<1>4. CASE FundsMissing(r)
  BY <1>4 DEF FundsMissing
<1>5. CASE FundsThrow(r)
  BY <1>5 DEF FundsThrow
<1>6. CASE Prepared(r)
  BY <1>6 DEF Prepared
<1>7. CASE PrepareFails(r)
  BY <1>7 DEF PrepareFails
<1>8. CASE TemplateBuilt(r)
  BY <1>8 DEF TemplateBuilt
<1>9. CASE InputsMarked(r)
  BY <1>9 DEF InputsMarked
<1>10. CASE MarkFails(r)
  BY <1>10 DEF MarkFails
<1>11. CASE Sent(r)
  BY <1>11 DEF Sent
<1>12. CASE SendFails(r)
  BY <1>12 DEF SendFails
<1>13. CASE UnlockInputsStarts(r)
  BY <1>13 DEF UnlockInputsStarts
<1>14. CASE MarkingStarts(r)
  BY <1>14 DEF MarkingStarts
<1>15. CASE UnmarkNext(r)
  BY <1>15 DEF UnmarkNext
<1>16. CASE UnmarkEnds(r)
  BY <1>16 DEF UnmarkEnds
<1>17. CASE ReserveNext(r)
  BY <1>17 DEF ReserveNext
<1>18. CASE ReserveEnds(r)
  BY <1>18 DEF ReserveEnds
<1>19. CASE BuildStarts(r)
  BY <1>19 DEF BuildStarts
<1>20. CASE ProposalChooses(r)
  BY <1>20 DEF ProposalChooses
<1>21. CASE ProposalUnreserved(r)
  BY <1>21 DEF ProposalUnreserved
<1> QED
  BY <1>1, <1>2, <1>3, <1>4, <1>5, <1>6, <1>7, <1>8, <1>9, <1>10, <1>11,
     <1>12, <1>13, <1>14, <1>15, <1>16, <1>17, <1>18, <1>19, <1>20, <1>21 DEF Handler

LEMMA ControlInductive ==
  ASSUME TypeInv, ControlInv, [Next]_vars
  PROVE  ControlInv'
<1>1. CASE \E r \in Requests : Handler(r)
  BY <1>1, HandlerControl
<1>2. CASE UNCHANGED reqVars
  BY <1>2 DEF ControlInv, KindOK, AnswerOK, ReleasedOK, reqVars
<1>3. UNCHANGED reqVars \/ \E r \in Requests : Handler(r)
  BY DEF Next, SendLockTimesOut, LeaseEnds, Quiet, vars, reqVars
<1> QED
  BY <1>1, <1>2, <1>3

-----------------------------------------------------------------------------
(* The section. *)

(* How a handler's step moves the section and the lock. *)
Enters(r) == /\ ~lockStatus[SendLock] /\ lockStatus'[SendLock]
             /\ InSection' = InSection \cup {r}

Leaves(r) == /\ ~lockStatus'[SendLock]
             /\ r \in InSection /\ InSection' = InSection \ {r}

Crashes(r) == /\ lockStatus'[SendLock] = lockStatus[SendLock]
              /\ r \in InSection /\ InSection' = InSection \ {r}
              /\ answer'[r] = "crash"

Stays == /\ lockStatus'[SendLock] = lockStatus[SendLock]
         /\ InSection' = InSection

(* Every step of a handler is one of the four; no step of the code both    *)
(* leaves the section and keeps the lock, except the crash of send-tx.     *)
LEMMA SectionStep ==
  ASSUME TypeInv, ControlInv, NEW r \in Requests, Handler(r)
  PROVE  Enters(r) \/ Leaves(r) \/ Crashes(r) \/ Stays
<1> USE DEF TypeInv, TypeOK, LockTypeOK, InSection, Respond, Goto, Stays, lockVars
<1> USE SendTxAssumption
<1>1. CASE Busy(r)
  BY <1>1 DEF Busy, LockRefused
<1>2. CASE Start(r)
  <2>1. ~lockStatus[SendLock] /\ lockStatus'[SendLock]
    BY <1>2 DEF Start, LockTaken
  <2>2. InSection' = InSection \cup {r}
    BY <1>2 DEF Start
  <2> QED
    BY <2>1, <2>2 DEF Enters
<1>3. CASE FundsFound(r)
  BY <1>3 DEF FundsFound, ControlInv, KindOK
<1>4. CASE FundsMissing(r)
  BY <1>4 DEF FundsMissing, Leaves, ReleaseOnce, Unlock, UnlockWith, ControlInv, KindOK, ReleasedOK
<1>5. CASE FundsThrow(r)
  BY <1>5 DEF FundsThrow, Crashes, ControlInv, KindOK
<1>6. CASE Prepared(r)
  BY <1>6 DEF Prepared, ControlInv, KindOK
<1>7. CASE PrepareFails(r)
  BY <1>7 DEF PrepareFails, Leaves, ReleaseOnce, Unlock, UnlockWith, ControlInv, KindOK, ReleasedOK
<1>8. CASE TemplateBuilt(r)
  BY <1>8 DEF TemplateBuilt, Leaves, ReleaseOnce, Unlock, UnlockWith, ControlInv, KindOK, ReleasedOK
<1>9. CASE InputsMarked(r)
  BY <1>9 DEF InputsMarked, Leaves, ReleaseOnce, Unlock, UnlockWith, ControlInv, KindOK, ReleasedOK
<1>10. CASE MarkFails(r)
  BY <1>10 DEF MarkFails, Leaves, ReleaseOnce, Unlock, UnlockWith, ControlInv, KindOK, ReleasedOK
<1>11. CASE Sent(r)
  BY <1>11 DEF Sent
<1>12. CASE SendFails(r)
  BY <1>12 DEF SendFails, ReleaseOnce, ControlInv, KindOK, ReleasedOK
<1>13. CASE UnlockInputsStarts(r)
  <2>1. ~lockStatus[SendLock] /\ lockStatus'[SendLock]
    BY <1>13 DEF UnlockInputsStarts, LockTaken
  <2>2. InSection' = InSection \cup {r}
    BY <1>13 DEF UnlockInputsStarts
  <2> QED
    BY <2>1, <2>2 DEF Enters
<1>14. CASE MarkingStarts(r)
  BY <1>14 DEF MarkingStarts
<1>15. CASE UnmarkNext(r)
  BY <1>15 DEF UnmarkNext
<1>16. CASE UnmarkEnds(r)
  BY <1>16 DEF UnmarkEnds, Leaves, Unlock, UnlockWith, ControlInv, KindOK
<1>17. CASE ReserveNext(r)
  BY <1>17 DEF ReserveNext
<1>18. CASE ReserveEnds(r)
  BY <1>18 DEF ReserveEnds
<1>19. CASE BuildStarts(r)
  BY <1>19 DEF BuildStarts
<1>20. CASE ProposalChooses(r)
  BY <1>20 DEF ProposalChooses
<1>21. CASE ProposalUnreserved(r)
  BY <1>21 DEF ProposalUnreserved
<1> QED
  BY <1>1, <1>2, <1>3, <1>4, <1>5, <1>6, <1>7, <1>8, <1>9, <1>10, <1>11,
     <1>12, <1>13, <1>14, <1>15, <1>16, <1>17, <1>18, <1>19, <1>20, <1>21 DEF Handler

(* The timer takes the lock away; the requests in the section stay there.  *)
LEMMA SectionEnvironment ==
  ASSUME TypeInv, [Next]_vars, ~\E r \in Requests : Handler(r)
  PROVE  /\ InSection' = InSection /\ answer' = answer
         /\ \/ overrun' = overrun /\ lockStatus' = lockStatus
            \/ overrun' = overrun \cup InSection /\ ~lockStatus'[SendLock]
<1>1. CASE SendLockTimesOut
  <2>1. ~lockStatus'[SendLock]
    BY <1>1, TypeInvLock, TimerFiresInv, SendTxAssumption
       DEF SendLockTimesOut, LockInv, LockTypeOK
  <2> QED
    BY <1>1, <2>1 DEF SendLockTimesOut, InSection, reqVars
<1>2. ASSUME NEW u \in Utxos, LeaseEnds(u)
      PROVE  /\ InSection' = InSection /\ answer' = answer
             /\ overrun' = overrun /\ lockStatus' = lockStatus
  BY <1>2 DEF LeaseEnds, InSection, reqVars, lockVars
<1>3. CASE UNCHANGED vars
  BY <1>3 DEF InSection, vars, reqVars, lockVars
<1>4. SendLockTimesOut \/ (\E u \in Utxos : LeaseEnds(u)) \/ UNCHANGED vars
  BY DEF Next, Quiet
<1> QED
  BY <1>1, <1>2, <1>3, <1>4

LEMMA OverrunOnlyByTimer ==
  ASSUME NEW r \in Requests, Handler(r)
  PROVE  overrun' = overrun
BY DEF Handler, Busy, Start, FundsFound, FundsMissing, FundsThrow, Prepared, PrepareFails,
       TemplateBuilt, InputsMarked, MarkFails, Sent, SendFails, UnlockInputsStarts,
       MarkingStarts, UnmarkNext, UnmarkEnds, ReserveNext, ReserveEnds, BuildStarts,
       ProposalChooses, ProposalUnreserved

(* MutualExclusion alone is not inductive: it needs the lock to be taken   *)
(* while somebody is in the section.                                       *)
SectionInv ==
  overrun = {} => /\ \A r, q \in InSection : r = q
                  /\ InSection # {} => lockStatus[SendLock]

LEMMA SectionInductive ==
  ASSUME TypeInv, ControlInv, SectionInv, [Next]_vars
  PROVE  SectionInv'
<1>1. ASSUME NEW r \in Requests, Handler(r)
      PROVE  SectionInv'
  <2>1. overrun' = overrun
    BY <1>1, OverrunOnlyByTimer
  <2>2. Enters(r) \/ Leaves(r) \/ Crashes(r) \/ Stays
    BY <1>1, SectionStep
  <2>3. CASE Enters(r)
    BY <2>1, <2>3 DEF Enters, SectionInv
  <2>4. CASE Leaves(r)
    BY <2>1, <2>4 DEF Leaves, SectionInv
  <2>5. CASE Crashes(r)
    BY <2>1, <2>5 DEF Crashes, SectionInv
  <2>6. CASE Stays
    BY <2>1, <2>6 DEF Stays, SectionInv
  <2> QED
    BY <2>2, <2>3, <2>4, <2>5, <2>6
<1>2. ASSUME ~\E r \in Requests : Handler(r)
      PROVE  SectionInv'
  BY <1>2, SectionEnvironment DEF SectionInv
<1> QED
  BY <1>1, <1>2

(***************************************************************************)
(* For any number of requests of any kinds: as long as no handler outlived *)
(* the lock's timer, at most one of them is between taking and releasing   *)
(* the wallet's lock.                                                      *)
(***************************************************************************)
THEOREM SendsAreExclusive == Spec => []MutualExclusion
<1>1. Init => ControlInv /\ SectionInv
  BY DEF Init, ControlInv, KindOK, AnswerOK, ReleasedOK, SectionInv, InSection
<1>2. TypeInv /\ ControlInv /\ SectionInv /\ [Next]_vars => ControlInv' /\ SectionInv'
  BY ControlInductive, SectionInductive
<1>3. SectionInv => MutualExclusion
  BY DEF SectionInv, MutualExclusion
<1> QED
  BY <1>1, <1>2, <1>3, TypeInvHolds, PTL DEF Spec

(* An answer is final. *)
LEMMA CrashIsFinal ==
  ASSUME TypeInv, ControlInv, NEW r \in Requests, Handler(r), NEW q \in Requests,
         answer[q] = "crash"
  PROVE  answer'[q] = "crash"
<1> USE DEF TypeInv, TypeOK
<1>1. pc[q] = "done"
  BY DEF ControlInv, AnswerOK
<1>2. answer' = answer \/ (pc[r] # "done" /\ \E a \in Answers : answer' = [answer EXCEPT ![r] = a])
  BY DEF Handler, Busy, Start, FundsFound, FundsMissing, FundsThrow, Prepared, PrepareFails,
         TemplateBuilt, InputsMarked, MarkFails, Sent, SendFails, UnlockInputsStarts,
         MarkingStarts, UnmarkNext, UnmarkEnds, ReserveNext, ReserveEnds, BuildStarts,
         ProposalChooses, ProposalUnreserved, Respond, Goto
<1> QED
  BY <1>1, <1>2

(***************************************************************************)
(* The only way the code leaves the lock taken with nobody at work is a    *)
(* send-tx whose prepareTxFunds rejected.                                  *)
(***************************************************************************)
THEOREM LockIsForWork == Spec => []LockTakenOnlyForWork
<1>1. Init => ControlInv /\ LockTakenOnlyForWork
  BY SendTxAssumption
     DEF Init, LockInit, ControlInv, KindOK, AnswerOK, ReleasedOK, LockTakenOnlyForWork
<1>2. TypeInv /\ ControlInv /\ LockTakenOnlyForWork /\ [Next]_vars
      => ControlInv' /\ LockTakenOnlyForWork'
  <2> SUFFICES ASSUME TypeInv, ControlInv, LockTakenOnlyForWork, [Next]_vars
               PROVE  LockTakenOnlyForWork'
    BY ControlInductive
  <2>1. ASSUME NEW r \in Requests, Handler(r)
        PROVE  LockTakenOnlyForWork'
    <3>1. \A q \in Requests : answer[q] = "crash" => answer'[q] = "crash"
      BY <2>1, CrashIsFinal
    <3>2. Enters(r) \/ Leaves(r) \/ Crashes(r) \/ Stays
      BY <2>1, SectionStep
    <3> QED
      BY <3>1, <3>2 DEF Enters, Leaves, Crashes, Stays, LockTakenOnlyForWork
  <2>2. ASSUME ~\E r \in Requests : Handler(r)
        PROVE  LockTakenOnlyForWork'
    BY <2>2, SectionEnvironment DEF LockTakenOnlyForWork
  <2> QED
    BY <2>1, <2>2
<1> QED
  BY <1>1, <1>2, TypeInvHolds, PTL DEF Spec

-----------------------------------------------------------------------------
(* What the marks guarantee after the lock is released. *)

(* UTXOs no later choice of the wallet may take, or that somebody let go. *)
Covered == marked \cup spent \cup freed

MarksOf(q) ==
  /\ pc[q] \in {"idle", "choose"} => inputs[q] = {}
  /\ kind[q] \in SendingKinds /\ pc[q] = "mine" => inputs[q] \subseteq Covered
  /\ kind[q] \in SendingKinds /\ answer[q] = "ok" => inputs[q] \subseteq spent
  /\ kind[q] \in BuildingKinds /\ pc[q] = "reserve" => inputs[q] \ todo[q] \subseteq Covered
  /\ Proposed(q) => inputs[q] \subseteq Covered

MarksInv == \A q \in Requests : MarksOf(q)

(* A handler touches its own request only. *)
LEMMA OthersUntouched ==
  ASSUME TypeInv, NEW r \in Requests, Handler(r), NEW q \in Requests, q # r
  PROVE  /\ kind'[q] = kind[q] /\ pc'[q] = pc[q] /\ answer'[q] = answer[q]
         /\ source'[q] = source[q] /\ inputs'[q] = inputs[q] /\ todo'[q] = todo[q]
<1> USE DEF TypeInv, TypeOK, Respond, Goto, Choose
<1>1. CASE Busy(r)
  BY <1>1 DEF Busy
<1>2. CASE Start(r)
  BY <1>2 DEF Start
<1>3. CASE FundsFound(r)
  BY <1>3 DEF FundsFound
<1>4. CASE FundsMissing(r)
  BY <1>4 DEF FundsMissing
<1>5. CASE FundsThrow(r)
  BY <1>5 DEF FundsThrow
<1>6. CASE Prepared(r)
  BY <1>6 DEF Prepared
<1>7. CASE PrepareFails(r)
  BY <1>7 DEF PrepareFails
<1>8. CASE TemplateBuilt(r)
  BY <1>8 DEF TemplateBuilt
<1>9. CASE InputsMarked(r)
  BY <1>9 DEF InputsMarked
<1>10. CASE MarkFails(r)
  BY <1>10 DEF MarkFails
<1>11. CASE Sent(r)
  BY <1>11 DEF Sent
<1>12. CASE SendFails(r)
  BY <1>12 DEF SendFails
<1>13. CASE UnlockInputsStarts(r)
  BY <1>13 DEF UnlockInputsStarts
<1>14. CASE MarkingStarts(r)
  BY <1>14 DEF MarkingStarts
<1>15. CASE UnmarkNext(r)
  BY <1>15 DEF UnmarkNext
<1>16. CASE UnmarkEnds(r)
  BY <1>16 DEF UnmarkEnds
<1>17. CASE ReserveNext(r)
  BY <1>17 DEF ReserveNext
<1>18. CASE ReserveEnds(r)
  BY <1>18 DEF ReserveEnds
<1>19. CASE BuildStarts(r)
  BY <1>19 DEF BuildStarts
<1>20. CASE ProposalChooses(r)
  BY <1>20 DEF ProposalChooses
<1>21. CASE ProposalUnreserved(r)
  BY <1>21 DEF ProposalUnreserved
<1> QED
  BY <1>1, <1>2, <1>3, <1>4, <1>5, <1>6, <1>7, <1>8, <1>9, <1>10, <1>11,
     <1>12, <1>13, <1>14, <1>15, <1>16, <1>17, <1>18, <1>19, <1>20, <1>21 DEF Handler

(* Marks others rely on are let go only on the record. *)
LEMMA CoverKept ==
  ASSUME TypeInv, NEW r \in Requests, Handler(r),
         NEW u \in Covered, ReliedOn(u, Requests \ {r})
  PROVE  u \in Covered'
<1> USE DEF TypeInv, TypeOK, Covered, utxoVars
<1>1. CASE Busy(r)
  BY <1>1 DEF Busy
<1>2. CASE Start(r)
  BY <1>2 DEF Start
<1>3. CASE FundsFound(r)
  BY <1>3 DEF FundsFound
<1>4. CASE FundsMissing(r)
  BY <1>4 DEF FundsMissing
<1>5. CASE FundsThrow(r)
  BY <1>5 DEF FundsThrow
<1>6. CASE Prepared(r)
  BY <1>6 DEF Prepared
<1>7. CASE PrepareFails(r)
  BY <1>7 DEF PrepareFails
<1>8. CASE TemplateBuilt(r)
  BY <1>8 DEF TemplateBuilt
<1>9. CASE InputsMarked(r)
  BY <1>9 DEF InputsMarked, MarkUtxos
<1>10. CASE MarkFails(r)
  BY <1>10 DEF MarkFails, MarkUtxos
<1>11. CASE Sent(r)
  BY <1>11 DEF Sent
<1>12. CASE SendFails(r)
  BY <1>12 DEF SendFails, UnmarkUtxos
<1>13. CASE UnlockInputsStarts(r)
  BY <1>13 DEF UnlockInputsStarts
<1>14. CASE MarkingStarts(r)
  BY <1>14 DEF MarkingStarts
<1>15. CASE UnmarkNext(r)
  BY <1>15 DEF UnmarkNext, UnmarkUtxos
<1>16. CASE UnmarkEnds(r)
  BY <1>16 DEF UnmarkEnds
<1>17. CASE ReserveNext(r)
  BY <1>17 DEF ReserveNext, MarkUtxos
<1>18. CASE ReserveEnds(r)
  BY <1>18 DEF ReserveEnds
<1>19. CASE BuildStarts(r)
  BY <1>19 DEF BuildStarts
<1>20. CASE ProposalChooses(r)
  BY <1>20 DEF ProposalChooses
<1>21. CASE ProposalUnreserved(r)
  BY <1>21 DEF ProposalUnreserved
<1> QED
  BY <1>1, <1>2, <1>3, <1>4, <1>5, <1>6, <1>7, <1>8, <1>9, <1>10, <1>11,
     <1>12, <1>13, <1>14, <1>15, <1>16, <1>17, <1>18, <1>19, <1>20, <1>21 DEF Handler

LEMMA SpentKept ==
  ASSUME NEW r \in Requests, Handler(r)
  PROVE  spent \subseteq spent' /\ freed \subseteq freed'
<1> USE DEF utxoVars
<1>1. CASE Busy(r)
  BY <1>1 DEF Busy
<1>2. CASE Start(r)
  BY <1>2 DEF Start
<1>3. CASE FundsFound(r)
  BY <1>3 DEF FundsFound
<1>4. CASE FundsMissing(r)
  BY <1>4 DEF FundsMissing
<1>5. CASE FundsThrow(r)
  BY <1>5 DEF FundsThrow
<1>6. CASE Prepared(r)
  BY <1>6 DEF Prepared
<1>7. CASE PrepareFails(r)
  BY <1>7 DEF PrepareFails
<1>8. CASE TemplateBuilt(r)
  BY <1>8 DEF TemplateBuilt
<1>9. CASE InputsMarked(r)
  BY <1>9 DEF InputsMarked
<1>10. CASE MarkFails(r)
  BY <1>10 DEF MarkFails
<1>11. CASE Sent(r)
  BY <1>11 DEF Sent
<1>12. CASE SendFails(r)
  BY <1>12 DEF SendFails, UnmarkUtxos
<1>13. CASE UnlockInputsStarts(r)
  BY <1>13 DEF UnlockInputsStarts
<1>14. CASE MarkingStarts(r)
  BY <1>14 DEF MarkingStarts
<1>15. CASE UnmarkNext(r)
  BY <1>15 DEF UnmarkNext, UnmarkUtxos
<1>16. CASE UnmarkEnds(r)
  BY <1>16 DEF UnmarkEnds
<1>17. CASE ReserveNext(r)
  BY <1>17 DEF ReserveNext
<1>18. CASE ReserveEnds(r)
  BY <1>18 DEF ReserveEnds
<1>19. CASE BuildStarts(r)
  BY <1>19 DEF BuildStarts
<1>20. CASE ProposalChooses(r)
  BY <1>20 DEF ProposalChooses
<1>21. CASE ProposalUnreserved(r)
  BY <1>21 DEF ProposalUnreserved
<1> QED
  BY <1>1, <1>2, <1>3, <1>4, <1>5, <1>6, <1>7, <1>8, <1>9, <1>10, <1>11,
     <1>12, <1>13, <1>14, <1>15, <1>16, <1>17, <1>18, <1>19, <1>20, <1>21 DEF Handler

LEMMA OthersMarks ==
  ASSUME TypeInv, MarksInv, NEW r \in Requests, Handler(r), NEW q \in Requests, q # r
  PROVE  MarksOf(q)'
<1>1. MarksOf(q)
  BY DEF MarksInv
<1>2. \A u \in Covered : ReliedOn(u, Requests \ {r}) => u \in Covered'
  BY CoverKept
<1>3. \A u \in inputs[q] :
        \/ kind[q] \in SendingKinds /\ pc[q] = "mine"
        \/ kind[q] \in BuildingKinds /\ (pc[q] = "reserve" \/ answer[q] = "ok")
        => ReliedOn(u, Requests \ {r})
  BY DEF ReliedOn, InFlight, Proposed
<1>4. spent \subseteq spent'
  BY SpentKept
<1> QED
  BY <1>1, <1>2, <1>3, <1>4, OthersUntouched DEF MarksOf, Proposed

(* The step of a handler establishes what its own request relies on. *)
LEMMA OwnMarks ==
  ASSUME TypeInv, ControlInv, MarksInv, NEW r \in Requests, Handler(r)
  PROVE  MarksOf(r)'
<1> USE DEF TypeInv, TypeOK, ControlInv, KindOK, AnswerOK, MarksInv, MarksOf, Covered,
            Proposed, Respond, Goto, Choose, utxoVars
<1>1. CASE Busy(r)
  BY <1>1 DEF Busy
<1>2. CASE Start(r)
  BY <1>2 DEF Start
<1>3. CASE FundsFound(r)
  BY <1>3 DEF FundsFound
<1>4. CASE FundsMissing(r)
  BY <1>4 DEF FundsMissing
<1>5. CASE FundsThrow(r)
  BY <1>5 DEF FundsThrow
<1>6. CASE Prepared(r)
  BY <1>6 DEF Prepared
<1>7. CASE PrepareFails(r)
  BY <1>7 DEF PrepareFails
<1>8. CASE TemplateBuilt(r)
  BY <1>8 DEF TemplateBuilt
<1>9. CASE InputsMarked(r)
  BY <1>9 DEF InputsMarked, MarkUtxos
<1>10. CASE MarkFails(r)
  BY <1>10 DEF MarkFails, MarkUtxos
<1>11. CASE Sent(r)
  BY <1>11 DEF Sent
<1>12. CASE SendFails(r)
  BY <1>12 DEF SendFails, UnmarkUtxos
<1>13. CASE UnlockInputsStarts(r)
  BY <1>13 DEF UnlockInputsStarts
<1>14. CASE MarkingStarts(r)
  BY <1>14 DEF MarkingStarts
<1>15. CASE UnmarkNext(r)
  BY <1>15 DEF UnmarkNext, UnmarkUtxos
<1>16. CASE UnmarkEnds(r)
  BY <1>16 DEF UnmarkEnds
<1>17. CASE ReserveNext(r)
  BY <1>17 DEF ReserveNext, MarkUtxos
<1>18. CASE ReserveEnds(r)
  BY <1>18 DEF ReserveEnds
<1>19. CASE BuildStarts(r)
  BY <1>19 DEF BuildStarts
<1>20. CASE ProposalChooses(r)
  BY <1>20 DEF ProposalChooses
<1>21. CASE ProposalUnreserved(r)
  BY <1>21 DEF ProposalUnreserved
<1> QED
  BY <1>1, <1>2, <1>3, <1>4, <1>5, <1>6, <1>7, <1>8, <1>9, <1>10, <1>11,
     <1>12, <1>13, <1>14, <1>15, <1>16, <1>17, <1>18, <1>19, <1>20, <1>21 DEF Handler

LEMMA MarksInductive ==
  ASSUME TypeInv, ControlInv, MarksInv, [Next]_vars
  PROVE  MarksInv'
<1>1. ASSUME NEW r \in Requests, Handler(r)
      PROVE  MarksInv'
  BY <1>1, OthersMarks, OwnMarks DEF MarksInv
<1>2. CASE SendLockTimesOut
  BY <1>2 DEF SendLockTimesOut, MarksInv, MarksOf, Covered, Proposed, reqVars, utxoVars
<1>3. ASSUME NEW u \in Utxos, LeaseEnds(u), NEW q \in Requests
      PROVE  MarksOf(q)'
  <2>1. \A v \in Covered : v \in Covered' \/ (v = u /\ ~ReliedOn(u, Requests))
    BY <1>3 DEF LeaseEnds, Covered
  <2>2. \A v \in inputs[q] :
          \/ kind[q] \in SendingKinds /\ pc[q] = "mine"
          \/ kind[q] \in BuildingKinds /\ (pc[q] = "reserve" \/ answer[q] = "ok")
          => ReliedOn(v, Requests)
    BY DEF ReliedOn, InFlight, Proposed
  <2> QED
    BY <1>3, <2>1, <2>2 DEF LeaseEnds, MarksInv, MarksOf, Proposed, reqVars
<1>4. CASE UNCHANGED vars
  BY <1>4 DEF MarksInv, MarksOf, Covered, Proposed, vars, reqVars, utxoVars
<1> QED
  BY <1>1, <1>2, <1>3, <1>4 DEF Next, Quiet, MarksInv

(***************************************************************************)
(* The inputs of a proposal handed out as reserved are marked or spent     *)
(* unless a mark was cleared while the proposal relied on it.              *)
(***************************************************************************)
THEOREM ProposalsStayReserved == Spec => []ProposalStaysReserved
<1>1. Init => ControlInv /\ MarksInv
  BY DEF Init, ControlInv, KindOK, AnswerOK, ReleasedOK, MarksInv, MarksOf, Proposed
<1>2. TypeInv /\ ControlInv /\ MarksInv /\ [Next]_vars => ControlInv' /\ MarksInv'
  BY ControlInductive, MarksInductive
<1>3. MarksInv => ProposalStaysReserved
  BY DEF MarksInv, MarksOf, Covered, ProposalStaysReserved
<1> QED
  BY <1>1, <1>2, <1>3, TypeInvHolds, PTL DEF Spec

-----------------------------------------------------------------------------
(* Two sends never choose the same UTXO. *)

(* The wallet has chosen inputs for a send that is not over. *)
Picked(r) ==
  /\ kind[r] \in SendingKinds /\ source[r] = "wallet"
  /\ pc[r] \in {"prepare", "mark", "mine"} \/ answer[r] = "ok"

ChoiceInv ==
  overrun = {} =>
    \A r, q \in Requests :
      r # q /\ Picked(r) /\ Picked(q) => inputs[r] \cap inputs[q] \subseteq freed

(* A step of r leaves its choice alone, drops it, or makes a fresh one from *)
(* UTXOs that are neither marked nor spent, inside the section.             *)
LEMMA ChoiceStep ==
  ASSUME TypeInv, ControlInv, NEW r \in Requests, Handler(r), Picked(r)'
  PROVE  \/ Picked(r) /\ inputs'[r] = inputs[r]
         \/ r \in InSection /\ inputs'[r] \cap (marked \cup spent) = {}
<1> USE DEF TypeInv, TypeOK, ControlInv, KindOK, AnswerOK, Picked, Respond, Goto, Choose
<1>1. CASE Busy(r)
  BY <1>1 DEF Busy
<1>2. CASE Start(r)
  BY <1>2 DEF Start
<1>3. CASE FundsFound(r)
  BY <1>3 DEF FundsFound, Available, InSection
<1>4. CASE FundsMissing(r)
  BY <1>4 DEF FundsMissing
<1>5. CASE FundsThrow(r)
  BY <1>5 DEF FundsThrow
<1>6. CASE Prepared(r)
  BY <1>6 DEF Prepared, Available, InSection
<1>7. CASE PrepareFails(r)
  BY <1>7 DEF PrepareFails
<1>8. CASE TemplateBuilt(r)
  BY <1>8 DEF TemplateBuilt
<1>9. CASE InputsMarked(r)
  BY <1>9 DEF InputsMarked
<1>10. CASE MarkFails(r)
  BY <1>10 DEF MarkFails
<1>11. CASE Sent(r)
  BY <1>11 DEF Sent
<1>12. CASE SendFails(r)
  BY <1>12 DEF SendFails
<1>13. CASE UnlockInputsStarts(r)
  BY <1>13 DEF UnlockInputsStarts
<1>14. CASE MarkingStarts(r)
  BY <1>14 DEF MarkingStarts
<1>15. CASE UnmarkNext(r)
  BY <1>15 DEF UnmarkNext
<1>16. CASE UnmarkEnds(r)
  BY <1>16 DEF UnmarkEnds
<1>17. CASE ReserveNext(r)
  BY <1>17 DEF ReserveNext
<1>18. CASE ReserveEnds(r)
  BY <1>18 DEF ReserveEnds
<1>19. CASE BuildStarts(r)
  BY <1>19 DEF BuildStarts
<1>20. CASE ProposalChooses(r)
  BY <1>20 DEF ProposalChooses
<1>21. CASE ProposalUnreserved(r)
  BY <1>21 DEF ProposalUnreserved
<1> QED
  BY <1>1, <1>2, <1>3, <1>4, <1>5, <1>6, <1>7, <1>8, <1>9, <1>10, <1>11,
     <1>12, <1>13, <1>14, <1>15, <1>16, <1>17, <1>18, <1>19, <1>20, <1>21 DEF Handler

LEMMA ChoiceInductive ==
  ASSUME TypeInv, ControlInv, SectionInv, MarksInv, ChoiceInv, [Next]_vars
  PROVE  ChoiceInv'
<1>1. ASSUME NEW r \in Requests, Handler(r), overrun = {},
             NEW q \in Requests, q # r, Picked(q), Picked(r)'
      PROVE  inputs'[r] \cap inputs[q] \subseteq freed'
  <2>1. freed \subseteq freed'
    BY <1>1, SpentKept
  <2>2. CASE Picked(r) /\ inputs'[r] = inputs[r]
    BY <1>1, <2>1, <2>2 DEF ChoiceInv
  <2>3. CASE r \in InSection /\ inputs'[r] \cap (marked \cup spent) = {}
    <3>1. q \notin InSection
      BY <1>1, <2>3 DEF SectionInv
    <3>2. pc[q] = "mine" \/ answer[q] = "ok"
      BY <1>1, <3>1 DEF Picked, InSection
    <3>3. inputs[q] \subseteq Covered
      BY <1>1, <3>2 DEF Picked, MarksInv, MarksOf, Covered
    <3> QED
      BY <2>1, <2>3, <3>3 DEF Covered
  <2> QED
    BY <1>1, <2>2, <2>3, ChoiceStep
<1>2. ASSUME NEW r \in Requests, Handler(r)
      PROVE  ChoiceInv'
  <2>1. overrun' = overrun /\ freed \subseteq freed'
    BY <1>2, OverrunOnlyByTimer, SpentKept
  <2>2. \A q \in Requests : q # r => (Picked(q)' <=> Picked(q)) /\ inputs'[q] = inputs[q]
    BY <1>2, OthersUntouched DEF Picked
  <2>3. ASSUME overrun = {}, NEW p \in Requests, NEW q \in Requests,
               p # q, Picked(p)', Picked(q)'
        PROVE  inputs'[p] \cap inputs'[q] \subseteq freed'
    <3>1. CASE p # r /\ q # r
      BY <2>1, <2>2, <2>3, <3>1 DEF ChoiceInv
    <3>2. CASE p = r
      BY <1>1, <1>2, <2>2, <2>3, <3>2
    <3>3. CASE q = r
      BY <1>1, <1>2, <2>2, <2>3, <3>3
    <3> QED
      BY <3>1, <3>2, <3>3
  <2> QED
    BY <2>1, <2>3 DEF ChoiceInv
<1>3. ASSUME ~\E r \in Requests : Handler(r)
      PROVE  ChoiceInv'
  <2>1. UNCHANGED reqVars /\ freed \subseteq freed' /\ overrun \subseteq overrun'
    BY <1>3 DEF Next, Quiet, SendLockTimesOut, LeaseEnds, vars, reqVars
  <2> QED
    BY <2>1 DEF ChoiceInv, Picked, reqVars
<1> QED
  BY <1>2, <1>3

(***************************************************************************)
(* For any number of requests, UTXOs and failures: two sends whose inputs  *)
(* the wallet chose share none, as long as no handler outlived the lock    *)
(* and nobody cleared a mark that was relied on.  It takes the exclusion   *)
(* of the section up to the marking, and the marks after it.               *)
(***************************************************************************)
THEOREM SendsDoNotShareInputs == Spec => []NoDoubleSelection
<1>1. Init => ControlInv /\ SectionInv /\ MarksInv /\ ChoiceInv
  BY DEF Init, ControlInv, KindOK, AnswerOK, ReleasedOK, SectionInv, InSection,
         MarksInv, MarksOf, Proposed, ChoiceInv, Picked
<1>2. /\ TypeInv /\ ControlInv /\ SectionInv /\ MarksInv /\ ChoiceInv /\ [Next]_vars
      => ControlInv' /\ SectionInv' /\ MarksInv' /\ ChoiceInv'
  BY ControlInductive, SectionInductive, MarksInductive, ChoiceInductive
<1>3. ChoiceInv => NoDoubleSelection
  BY DEF ChoiceInv, Picked, NoDoubleSelection, InFlight
<1> QED
  BY <1>1, <1>2, <1>3, TypeInvHolds, PTL DEF Spec

-----------------------------------------------------------------------------
(* Fireblocks *)

(* A rejected signing is a marking that failed before its first mark. *)
LEMMA RejectionIsAFailedMark ==
  ASSUME TypeOK, NEW r \in Requests, SigningRejects(r), inputs[r] # {}
  PROVE  MarkFails(r)
<1>1. MarkUtxos({}, FALSE)
  BY DEF SigningRejects, MarkUtxos, utxoVars
<1>2. \E us \in SUBSET inputs[r] : us # inputs[r] /\ MarkUtxos(us, FALSE)
  BY <1>1
<1> QED
  BY <1>2 DEF SigningRejects, MarkFails, utxoVars

(* What a request is doing, when its transaction is signed or being signed. *)
Stage(r) ==
  /\ pc[r] \in {"mark", "mine"} => kind[r] \in SendingKinds /\ inputs[r] # {}
  /\ sign[r] = "no" => pc[r] \notin {"mark", "mine"} /\ (kind[r] \in SendingKinds => answer[r] # "ok")
  /\ sign[r] # "no" => kind[r] \in SendingKinds /\ inputs[r] # {} /\ fbInputs[raw[r]] = inputs[r]
  /\ sign[r] \in {"post", "poll"} => pc[r] = "mark"
  /\ sign[r] = "poll" => fbStatus[raw[r]] # "none"
  /\ sign[r] = "signed" =>
       /\ pc[r] \in {"mark", "mine", "done"}
       /\ fbStatus[raw[r]] = "COMPLETED"
       /\ sigs[r] = IndicesToSign(raw[r], inputs[r])
       /\ sigs[r] \subseteq fbIndices[raw[r]]

FbInv == TypeInv /\ ControlInv /\ FbTypeOK /\ \A r \in Requests : Stage(r)

(* Every step of FbNext is a step of SendTx or changes none of its variables. *)
LEMMA StepIsASend == ASSUME FbInv, [FbNext]_allVars PROVE [Next]_vars
<1>1. ASSUME NEW r \in Requests, SigningStarts(r) PROVE Next
  BY <1>1 DEF SigningStarts, Next, Handler
<1>2. ASSUME NEW r \in Requests, Signer(r) PROVE [Next]_vars
  <2>1. CASE Posted(r) \/ Polled(r) \/ Signed(r)
    BY <2>1 DEF Posted, Polled, Signed
  <2>2. CASE PostFails(r) \/ PollFails(r)
    <3>1. SigningRejects(r) /\ pc[r] = "mark"
      BY <2>2 DEF PostFails, PollFails, SigningRejects, Respond, Goto
    <3>2. TypeOK /\ inputs[r] # {}
      BY <3>1 DEF FbInv, TypeInv, Stage
    <3>3. MarkFails(r)
      BY <3>1, <3>2, RejectionIsAFailedMark
    <3> QED
      BY <3>3 DEF Next, Handler
  <2> QED
    BY <1>2, <2>1, <2>2 DEF Signer
<1>3. ASSUME NEW x \in RawTxs, FireblocksDecides(x) PROVE UNCHANGED vars
  BY <1>3 DEF FireblocksDecides
<1>4. ASSUME NEW r \in Requests, BeforeSigning(r) \/ AfterSigning(r) \/ Marking(r) PROVE Next
  BY <1>4 DEF BeforeSigning, AfterSigning, Marking, Next, Handler
<1>5. CASE UNCHANGED allVars
  BY <1>5 DEF allVars
<1> QED
  BY <1>1, <1>2, <1>3, <1>4, <1>5 DEF FbNext, Next

(* A request whose own state and signing are left alone keeps its stage. *)
Still(q) ==
  /\ kind'[q] = kind[q] /\ pc'[q] = pc[q] /\ answer'[q] = answer[q] /\ inputs'[q] = inputs[q]
  /\ sign'[q] = sign[q] /\ raw'[q] = raw[q] /\ sigs'[q] = sigs[q]

(* What Fireblocks knows of a hash never shrinks while it is being signed. *)
FbKept ==
  \A x \in RawTxs :
    /\ fbInputs[x] # {} => fbInputs'[x] = fbInputs[x]
    /\ fbStatus[x] # "none" => fbStatus'[x] # "none" /\ fbIndices'[x] = fbIndices[x]
    /\ fbStatus[x] = "COMPLETED" => fbStatus'[x] = "COMPLETED"

LEMMA StillKeepsStage ==
  ASSUME FbInv, FbKept, NEW q \in Requests, Still(q)
  PROVE  Stage(q)'
<1>1. Stage(q) /\ raw[q] \in RawTxs /\ sign[q] \in {"no", "post", "poll", "signed"}
  BY DEF FbInv, FbTypeOK
<1>2. sigs'[q] = sigs[q] /\ IndicesToSign(raw[q], inputs[q])' = IndicesToSign(raw'[q], inputs'[q])
  BY DEF Still, IndicesToSign, CallerToSign
<1>3. IndicesToSign(raw'[q], inputs'[q]) = IndicesToSign(raw[q], inputs[q])
  BY DEF Still
<1> QED
  BY <1>1, <1>2, <1>3 DEF Stage, Still, FbKept

(* Requests before or outside signing. *)
LEMMA UnsignedKeepsStage ==
  ASSUME FbInv, UNCHANGED <<signVars, fbVars>>, NEW r \in Requests,
         BeforeSigning(r) \/ Marking(r)
  PROVE  \A q \in Requests : Stage(q)'
<1>0. TypeInv /\ ControlInv /\ Stage(r) /\ Handler(r)
  BY DEF FbInv, BeforeSigning, Marking, Handler
<1>1. FbKept
  BY DEF fbVars, FbKept
<1>2. ASSUME NEW q \in Requests, q # r PROVE Stage(q)'
  BY <1>0, <1>1, <1>2, OthersUntouched, StillKeepsStage DEF Still, signVars
<1>3. /\ pc[r] \in {"idle", "funds", "prepare", "unmark", "reserve"}
      /\ pc'[r] \notin {"mark", "mine"} /\ kind'[r] = kind[r]
      /\ answer'[r] = "ok" => kind[r] \notin SendingKinds
  <2> USE <1>0 DEF TypeInv, TypeOK, ControlInv, KindOK, AnswerOK, Respond, Goto
  <2>1. CASE BeforeSigning(r)
    BY <2>1 DEF BeforeSigning, Busy, Start, FundsFound, FundsMissing, FundsThrow, PrepareFails
  <2>2. CASE Marking(r)
    BY <2>2 DEF Marking, MarkingStarts, UnmarkNext, UnmarkEnds, ReserveNext, ReserveEnds
  <2> QED
    BY <2>1, <2>2
<1>4. sign[r] = "no" /\ sign'[r] = "no"
  BY <1>0, <1>3 DEF FbInv, FbTypeOK, Stage, signVars
<1>5. Stage(r)'
  BY <1>3, <1>4 DEF Stage
<1> QED
  BY <1>2, <1>5

(* Sending what is signed. *)
LEMMA SignedKeepsStage ==
  ASSUME FbInv, UNCHANGED <<signVars, fbVars>>, NEW r \in Requests, AfterSigning(r)
  PROVE  \A q \in Requests : Stage(q)'
<1>0. TypeInv /\ ControlInv /\ Stage(r) /\ Handler(r)
  BY DEF FbInv, AfterSigning, Handler
<1>1. FbKept
  BY DEF fbVars, FbKept
<1>2. ASSUME NEW q \in Requests, q # r PROVE Stage(q)'
  BY <1>0, <1>1, <1>2, OthersUntouched, StillKeepsStage DEF Still, signVars
<1>3. /\ kind'[r] = kind[r] /\ inputs'[r] = inputs[r] /\ sign[r] = "signed"
      /\ pc[r] \in {"mark", "mine"} /\ pc'[r] \in {"mine", "done"}
  <2>1. /\ kind' = kind /\ inputs' = inputs
        /\ pc[r] \in {"mark", "mine"} /\ pc'[r] \in {"mine", "done"}
        /\ sign[r] = "signed" \/ pc[r] = "mine"
    BY <1>0 DEF TypeInv, TypeOK, Respond, Goto, AfterSigning, InputsMarked, MarkFails,
         Sent, SendFails
  <2>2. sign[r] \in {"no", "post", "poll", "signed"}
    BY DEF FbInv, FbTypeOK
  <2> QED
    BY <1>0, <2>1, <2>2 DEF Stage
<1>4. /\ sign' = sign /\ raw' = raw /\ sigs' = sigs
      /\ fbStatus' = fbStatus /\ fbInputs' = fbInputs /\ fbIndices' = fbIndices
  BY DEF signVars, fbVars
<1>5. IndicesToSign(raw[r], inputs[r])' = IndicesToSign(raw[r], inputs[r])
  BY <1>3, <1>4 DEF IndicesToSign, CallerToSign
<1>6. Stage(r)'
  BY <1>0, <1>3, <1>4, <1>5 DEF Stage
<1> QED
  BY <1>2, <1>6

(* The signer's own steps. *)
LEMMA SignerKeepsStage ==
  ASSUME FbInv, NEW r \in Requests, SigningStarts(r) \/ Signer(r)
  PROVE  \A q \in Requests : Stage(q)'
<1>0. TypeInv /\ ControlInv /\ Stage(r) /\ raw[r] \in RawTxs
  BY DEF FbInv, FbTypeOK
<1>1. FbKept
  <2> USE DEF FbKept, FbInv, FbTypeOK
  <2>1. CASE SigningStarts(r)
    BY <2>1 DEF SigningStarts, HashOf
  <2>2. CASE Posted(r) \/ PostFails(r)
    BY <2>2 DEF Posted, PostFails, RawTransaction, fbVars
  <2>3. CASE Polled(r) \/ PollFails(r) \/ Signed(r)
    BY <2>3 DEF Polled, PollFails, Signed, fbVars
  <2> QED
    BY <2>1, <2>2, <2>3 DEF Signer
<1>2. \A q \in Requests \ {r} : Still(q)
  <2> USE DEF Still, FbInv, FbTypeOK, TypeInv, TypeOK
  <2>1. CASE SigningStarts(r)
    BY <2>1 DEF SigningStarts, Prepared, Goto, Choose
  <2>2. CASE SigningRejects(r)
    BY <2>2 DEF SigningRejects, Respond, Goto
  <2>3. CASE Posted(r) \/ Polled(r) \/ Signed(r)
    BY <2>3 DEF Posted, Polled, Signed, vars, reqVars
  <2> QED
    BY <2>1, <2>2, <2>3 DEF Signer, PostFails, PollFails
<1>3. ASSUME NEW q \in Requests, q # r PROVE Stage(q)'
  BY <1>1, <1>2, <1>3, StillKeepsStage
<1>4. Stage(r)'
  <2> USE <1>0 DEF TypeInv, TypeOK
  <2>1. CASE SigningStarts(r)
    <3>1. /\ sign'[r] = "post" /\ pc'[r] = "mark" /\ kind'[r] \in SendingKinds
          /\ fbInputs'[raw'[r]] = inputs'[r]
      BY <2>1 DEF SigningStarts, Prepared, Goto, FbInv, FbTypeOK
    <3>2. ASSUME NEW us, NEW who, us # {}, Choose(r, who, us) PROVE inputs'[r] # {}
      BY <3>2 DEF Choose
    <3>3. \/ \E us \in (SUBSET Utxos) \ {{}} : Choose(r, "caller", us)
          \/ \E us \in (SUBSET Available) \ {{}} : Choose(r, "wallet", us)
          \/ inputs[r] # {} /\ UNCHANGED inputs
      BY <2>1 DEF SigningStarts, Prepared
    <3>4. inputs'[r] # {}
      BY <3>2, <3>3
    <3> QED
      BY <3>1, <3>4 DEF Stage
  <2>2. CASE SigningRejects(r)
    BY <2>2 DEF SigningRejects, Respond, Goto, FbInv, FbTypeOK, Stage
  <2>3. CASE Posted(r)
    <3>1. fbStatus'[raw'[r]] # "none" /\ UNCHANGED <<fbInputs, raw, vars>>
      BY <2>3 DEF Posted, RawTransaction, fbVars, FbInv, FbTypeOK
    <3>2. sign[r] = "post" /\ sign'[r] = "poll"
      BY <2>3 DEF Posted, FbInv, FbTypeOK
    <3> QED
      BY <3>1, <3>2 DEF Stage, vars, reqVars
  <2>4. CASE Polled(r)
    BY <2>4 DEF Polled, Stage, fbVars, vars, reqVars
  <2>5. CASE Signed(r)
    <3>1. /\ sign[r] = "poll" /\ sign'[r] = "signed" /\ UNCHANGED <<vars, raw, fbVars>>
          /\ fbStatus[raw[r]] = "COMPLETED"
          /\ sigs'[r] = IndicesToSign(raw[r], inputs[r])
          /\ IndicesToSign(raw[r], inputs[r]) \subseteq fbIndices[raw[r]]
      BY <2>5 DEF Signed, FbInv, FbTypeOK
    <3>2. IndicesToSign(raw[r], inputs[r])' = IndicesToSign(raw[r], inputs[r])
      BY <3>1 DEF IndicesToSign, CallerToSign, vars, reqVars
    <3> QED
      BY <3>1, <3>2 DEF Stage, vars, reqVars, fbVars
  <2> QED
    BY <2>1, <2>2, <2>3, <2>4, <2>5 DEF Signer, PostFails, PollFails
<1> QED
  BY <1>3, <1>4

LEMMA FbTypeInductive ==
  ASSUME FbInv, FireblocksAssumption, [FbNext]_allVars
  PROVE  FbTypeOK'
<1> USE DEF FbInv, FbTypeOK
<1>1. ASSUME NEW r \in Requests, SigningStarts(r) PROVE FbTypeOK'
  <2>1. inputs'[r] \in SUBSET Utxos
    <3>1. TypeInv'
      BY <1>1, HandlerType DEF SigningStarts, Handler
    <3> QED
      BY <3>1 DEF TypeInv, TypeOK
  <2>2. PICK x \in RawTxs : /\ raw' = [raw EXCEPT ![r] = x]
                            /\ fbInputs' = [fbInputs EXCEPT ![x] = inputs'[r]]
    BY <1>1 DEF SigningStarts
  <2>3. /\ raw' \in [Requests -> RawTxs] /\ fbInputs' \in [RawTxs -> SUBSET Utxos]
        /\ sign' \in [Requests -> {"no", "post", "poll", "signed"}]
    BY <1>1, <2>1, <2>2 DEF SigningStarts
  <2> QED
    BY <1>1, <2>3 DEF SigningStarts
<1>2. ASSUME NEW r \in Requests, Posted(r) \/ PostFails(r) PROVE FbTypeOK'
  <2>1. IndicesToSign(raw[r], inputs[r]) \subseteq Indices
    BY DEF IndicesToSign, CallerToSign, Indices, TypeInv, TypeOK
  <2> QED
    BY <1>2, <2>1 DEF Posted, PostFails, SigningRejects, RawTransaction, fbVars
<1>3. ASSUME NEW r \in Requests, Polled(r) PROVE FbTypeOK'
  BY <1>3, FireblocksAssumption DEF Polled, fbVars, FireblocksAssumption
<1>4. ASSUME NEW r \in Requests, PollFails(r) \/ Signed(r) PROVE FbTypeOK'
  <2>1. IndicesToSign(raw[r], inputs[r]) \subseteq Indices
    BY DEF IndicesToSign, CallerToSign, Indices, TypeInv, TypeOK
  <2> QED
    BY <1>4, <2>1 DEF PollFails, SigningRejects, Signed, fbVars
<1>5. ASSUME NEW x \in RawTxs, FireblocksDecides(x) PROVE FbTypeOK'
  BY <1>5 DEF FireblocksDecides, signVars
<1>6. CASE UNCHANGED <<signVars, fbVars>>
  BY <1>6 DEF signVars, fbVars
<1> QED
  BY <1>1, <1>2, <1>3, <1>4, <1>5, <1>6 DEF FbNext, Signer, allVars

LEMMA FbInvInductive == ASSUME FbInv, [FbNext]_allVars PROVE FbInv'
<1>1. TypeInv /\ ControlInv /\ [Next]_vars
  BY StepIsASend DEF FbInv
<1>2. TypeInv'
  <2>1. CASE UNCHANGED vars
    BY <1>1, <2>1, LockStep DEF TypeInv, TypeOK, vars, reqVars, utxoVars
  <2> QED
    BY <1>1, <2>1, HandlerType, EnvironmentType DEF Next
<1>3. ControlInv'
  BY <1>1, ControlInductive
<1>4. FbTypeOK'
  BY FbTypeInductive, FireblocksAssumption
<1>5. \A q \in Requests : Stage(q)'
  <2>1. ASSUME NEW x \in RawTxs, FireblocksDecides(x) PROVE \A q \in Requests : Stage(q)'
    <3>1. FbKept
      BY <2>1 DEF FireblocksDecides, FbKept, FbInv, FbTypeOK
    <3>2. \A q \in Requests : Still(q)
      BY <2>1 DEF FireblocksDecides, Still, vars, reqVars, signVars
    <3> QED
      BY <3>1, <3>2, StillKeepsStage
  <2>2. CASE /\ UNCHANGED <<signVars, fbVars>>
             /\ UNCHANGED reqVars
    <3>1. FbKept
      BY <2>2 DEF FbKept, fbVars
    <3>2. \A q \in Requests : Still(q)
      BY <2>2 DEF Still, reqVars, signVars
    <3> QED
      BY <3>1, <3>2, StillKeepsStage
  <2>3. CASE \E r \in Requests : SigningStarts(r) \/ Signer(r)
    BY <2>3, SignerKeepsStage
  <2>4. CASE /\ UNCHANGED <<signVars, fbVars>>
             /\ \E r \in Requests : BeforeSigning(r) \/ AfterSigning(r) \/ Marking(r)
    BY <2>4, UnsignedKeepsStage, SignedKeepsStage
  <2>5. SendLockTimesOut \/ (\E u \in Utxos : LeaseEnds(u)) \/ Quiet \/ UNCHANGED vars => UNCHANGED reqVars
    BY DEF SendLockTimesOut, LeaseEnds, Quiet, vars
  <2> QED
    BY <2>1, <2>2, <2>3, <2>4, <2>5 DEF FbNext, allVars
<1> QED
  BY <1>2, <1>3, <1>4, <1>5 DEF FbInv

LEMMA FbInvHolds == FbSpec => []FbInv
<1>1. FbInit => FbInv
  <2> SUFFICES ASSUME FbInit PROVE FbInv
    OBVIOUS
  <2>1. Init /\ LockInit
    BY DEF FbInit, Init
  <2>2. TypeInv
    <3>1. LockTypeOK /\ OneTimerPerAcquisition
      BY <2>1, LockInitInv DEF LockInv
    <3>2. kind \in [Requests -> Kinds]
      BY <2>1, SendTxAssumption DEF Init
    <3> QED
      BY <2>1, <3>1, <3>2 DEF Init, TypeInv, TypeOK
  <2>3. ControlInv
    BY <2>1 DEF Init, ControlInv, KindOK, AnswerOK, ReleasedOK
  <2>4. FbTypeOK
    <3>1. (CHOOSE x \in RawTxs : TRUE) \in RawTxs
      BY FireblocksAssumption DEF FireblocksAssumption
    <3>2. raw \in [Requests -> RawTxs]
      BY <3>1 DEF FbInit
    <3> QED
      BY <3>2, FireblocksAssumption DEF FbInit, FbTypeOK, FireblocksAssumption
  <2>5. \A r \in Requests : Stage(r)
    BY <2>1 DEF FbInit, Init, Stage
  <2> QED
    BY <2>2, <2>3, <2>4, <2>5 DEF FbInv
<1> QED
  BY <1>1, FbInvInductive, PTL DEF FbSpec

(***************************************************************************)
(* A transaction that may reach the network carries, for each of its       *)
(* inputs, a signature Fireblocks made of that very hash.                  *)
(***************************************************************************)
THEOREM SentIsSigned == FbSpec => []SignedAsNeeded
<1>1. FbInv => SignedAsNeeded
  <2> SUFFICES ASSUME FbInv, NEW r \in Requests, kind[r] \in SendingKinds,
                      pc[r] = "mine" \/ answer[r] = "ok"
               PROVE  LET x == raw[r] IN
                      /\ fbStatus[x] = "COMPLETED" /\ fbInputs[x] = inputs[r]
                      /\ {AddressOf[u] : u \in inputs[r]} \subseteq sigs[r] \cap fbIndices[x]
                      /\ CallerOf[x] \notin {NoCaller, 0} => CallerOf[x] \in sigs[r]
    BY DEF SignedAsNeeded
  <2>1. Stage(r) /\ sign[r] \in {"no", "post", "poll", "signed"}
    BY DEF FbInv, FbTypeOK
  <2>2. answer[r] = "ok" => pc[r] = "done"
    BY DEF FbInv, ControlInv, AnswerOK
  <2>3. sign[r] = "signed"
    BY <2>1, <2>2 DEF Stage
  <2> QED
    BY <2>1, <2>3 DEF Stage, IndicesToSign, CallerToSign
<1> QED
  BY <1>1, FbInvHolds, PTL

(***************************************************************************)
(* Fireblocks' sends implement SendTx: what is proved of SendTx for every  *)
(* wallet holds of a Fireblocks wallet.                                    *)
(***************************************************************************)
THEOREM SigningImplementsSends == FbSpec => Spec
<1>1. FbInit => Init
  BY DEF FbInit
<1>2. FbInv /\ [FbNext]_allVars => [Next]_vars
  BY StepIsASend
<1> QED
  BY <1>1, <1>2, FbInvHolds, PTL DEF FbSpec, Spec

(***************************************************************************)
(* The module's own statement of that refinement.                          *)
(***************************************************************************)
THEOREM FireblocksRefinesSends == FbSpec => SendsAreImplemented
<1>1. Init => Sends!Init
  BY DEF Init, Sends!Init, LockInit, Sends!LockInit
<1>2. ASSUME NEW r \in Requests, Busy(r) PROVE Sends!Busy(r)
  BY <1>2 DEF Busy, Sends!Busy, LockingKinds, Sends!LockingKinds, LockRefused,
       Sends!LockRefused, lockVars, Sends!lockVars, Respond, Sends!Respond, Goto,
       Sends!Goto, utxoVars, Sends!utxoVars
<1>3. ASSUME NEW r \in Requests, Start(r) PROVE Sends!Start(r)
  BY <1>3 DEF Start, Sends!Start, LockingKinds, Sends!LockingKinds, LockTaken,
       Sends!LockTaken, Fresh, Sends!Fresh, Goto, Sends!Goto, utxoVars, Sends!utxoVars
<1>4. ASSUME NEW r \in Requests, FundsFound(r) PROVE Sends!FundsFound(r)
  BY <1>4 DEF FundsFound, Sends!FundsFound, Goto, Sends!Goto, Available,
       Sends!Available, Choose, Sends!Choose, lockVars, Sends!lockVars, utxoVars,
       Sends!utxoVars
<1>5. ASSUME NEW r \in Requests, FundsMissing(r) PROVE Sends!FundsMissing(r)
  BY <1>5 DEF FundsMissing, Sends!FundsMissing, Respond, Sends!Respond, Goto,
       Sends!Goto, ReleaseOnce, Sends!ReleaseOnce, lockVars, Sends!lockVars, Unlock,
       Sends!Unlock, UnlockWith, Sends!UnlockWith, utxoVars, Sends!utxoVars
<1>6. ASSUME NEW r \in Requests, FundsThrow(r) PROVE Sends!FundsThrow(r)
  BY <1>6 DEF FundsThrow, Sends!FundsThrow, Respond, Sends!Respond, Goto, Sends!Goto,
       lockVars, Sends!lockVars, utxoVars, Sends!utxoVars
<1>7. ASSUME NEW r \in Requests, Prepared(r) PROVE Sends!Prepared(r)
  BY <1>7 DEF Prepared, Sends!Prepared, SendingKinds, Sends!SendingKinds, Goto,
       Sends!Goto, Choose, Sends!Choose, Available, Sends!Available, lockVars,
       Sends!lockVars, utxoVars, Sends!utxoVars
<1>8. ASSUME NEW r \in Requests, PrepareFails(r) PROVE Sends!PrepareFails(r)
  BY <1>8 DEF PrepareFails, Sends!PrepareFails, Respond, Sends!Respond, Goto,
       Sends!Goto, ReleaseOnce, Sends!ReleaseOnce, lockVars, Sends!lockVars, Unlock,
       Sends!Unlock, UnlockWith, Sends!UnlockWith, utxoVars, Sends!utxoVars
<1>9. ASSUME NEW r \in Requests, TemplateBuilt(r) PROVE Sends!TemplateBuilt(r)
  BY <1>9 DEF TemplateBuilt, Sends!TemplateBuilt, Respond, Sends!Respond, Goto,
       Sends!Goto, ReleaseOnce, Sends!ReleaseOnce, lockVars, Sends!lockVars, Unlock,
       Sends!Unlock, UnlockWith, Sends!UnlockWith, utxoVars, Sends!utxoVars
<1>10. ASSUME NEW r \in Requests, InputsMarked(r) PROVE Sends!InputsMarked(r)
  BY <1>10 DEF InputsMarked, Sends!InputsMarked, Goto, Sends!Goto, MarkUtxos,
       Sends!MarkUtxos, ReleaseOnce, Sends!ReleaseOnce, lockVars, Sends!lockVars,
       Unlock, Sends!Unlock, UnlockWith, Sends!UnlockWith
<1>11. ASSUME NEW r \in Requests, MarkFails(r) PROVE Sends!MarkFails(r)
  BY <1>11 DEF MarkFails, Sends!MarkFails, Respond, Sends!Respond, Goto, Sends!Goto,
       MarkUtxos, Sends!MarkUtxos, ReleaseOnce, Sends!ReleaseOnce, lockVars,
       Sends!lockVars, Unlock, Sends!Unlock, UnlockWith, Sends!UnlockWith
<1>12. ASSUME NEW r \in Requests, Sent(r) PROVE Sends!Sent(r)
  BY <1>12 DEF Sent, Sends!Sent, Respond, Sends!Respond, Goto, Sends!Goto, lockVars,
       Sends!lockVars
<1>13. ASSUME NEW r \in Requests, SendFails(r) PROVE Sends!SendFails(r)
  BY <1>13 DEF SendFails, Sends!SendFails, Respond, Sends!Respond, Goto, Sends!Goto,
       UnmarkUtxos, Sends!UnmarkUtxos, ReliedOn, Sends!ReliedOn, InFlight,
       Sends!InFlight, SendingKinds, Sends!SendingKinds, Proposed, Sends!Proposed,
       BuildingKinds, Sends!BuildingKinds, ReleaseOnce, Sends!ReleaseOnce, lockVars,
       Sends!lockVars, Unlock, Sends!Unlock, UnlockWith, Sends!UnlockWith
<1>14. ASSUME NEW r \in Requests, UnlockInputsStarts(r) PROVE Sends!UnlockInputsStarts(r)
  BY <1>14 DEF UnlockInputsStarts, Sends!UnlockInputsStarts, LockTaken, Sends!LockTaken,
       Fresh, Sends!Fresh, Goto, Sends!Goto, Choose, Sends!Choose, utxoVars,
       Sends!utxoVars
<1>15. ASSUME NEW r \in Requests, MarkingStarts(r) PROVE Sends!MarkingStarts(r)
  BY <1>15 DEF MarkingStarts, Sends!MarkingStarts, MarkingKinds, Sends!MarkingKinds,
       Goto, Sends!Goto, Choose, Sends!Choose, lockVars, Sends!lockVars, utxoVars,
       Sends!utxoVars
<1>16. ASSUME NEW r \in Requests, UnmarkNext(r) PROVE Sends!UnmarkNext(r)
  BY <1>16 DEF UnmarkNext, Sends!UnmarkNext, UnmarkUtxos, Sends!UnmarkUtxos, ReliedOn,
       Sends!ReliedOn, InFlight, Sends!InFlight, SendingKinds, Sends!SendingKinds,
       Proposed, Sends!Proposed, BuildingKinds, Sends!BuildingKinds, lockVars,
       Sends!lockVars
<1>17. ASSUME NEW r \in Requests, UnmarkEnds(r) PROVE Sends!UnmarkEnds(r)
  BY <1>17 DEF UnmarkEnds, Sends!UnmarkEnds, Respond, Sends!Respond, Goto, Sends!Goto,
       Unlock, Sends!Unlock, UnlockWith, Sends!UnlockWith, lockVars, Sends!lockVars,
       utxoVars, Sends!utxoVars
<1>18. ASSUME NEW r \in Requests, ReserveNext(r) PROVE Sends!ReserveNext(r)
  BY <1>18 DEF ReserveNext, Sends!ReserveNext, MarkUtxos, Sends!MarkUtxos, lockVars,
       Sends!lockVars
<1>19. ASSUME NEW r \in Requests, ReserveEnds(r) PROVE Sends!ReserveEnds(r)
  BY <1>19 DEF ReserveEnds, Sends!ReserveEnds, Respond, Sends!Respond, Goto, Sends!Goto,
       lockVars, Sends!lockVars, utxoVars, Sends!utxoVars
<1>20. ASSUME NEW r \in Requests, BuildStarts(r) PROVE Sends!BuildStarts(r)
  BY <1>20 DEF BuildStarts, Sends!BuildStarts, BuildingKinds, Sends!BuildingKinds, Goto,
       Sends!Goto, lockVars, Sends!lockVars, utxoVars, Sends!utxoVars
<1>21. ASSUME NEW r \in Requests, ProposalChooses(r) PROVE Sends!ProposalChooses(r)
  BY <1>21 DEF ProposalChooses, Sends!ProposalChooses, Goto, Sends!Goto, Available,
       Sends!Available, Choose, Sends!Choose, lockVars, Sends!lockVars, utxoVars,
       Sends!utxoVars
<1>22. ASSUME NEW r \in Requests, ProposalUnreserved(r) PROVE Sends!ProposalUnreserved(r)
  BY <1>22 DEF ProposalUnreserved, Sends!ProposalUnreserved, Respond, Sends!Respond,
       Goto, Sends!Goto, lockVars, Sends!lockVars, utxoVars, Sends!utxoVars
<1>23. SendLockTimesOut => Sends!SendLockTimesOut
  BY DEF SendLockTimesOut, Sends!SendLockTimesOut, TimerFires, Sends!TimerFires,
       UnlockWith, Sends!UnlockWith, InSection, Sends!InSection, LockingKinds,
       Sends!LockingKinds, reqVars, Sends!reqVars, utxoVars, Sends!utxoVars
<1>24. Quiet => Sends!Quiet
  BY DEF Quiet, Sends!Quiet, vars, Sends!vars, lockVars, Sends!lockVars, reqVars,
       Sends!reqVars, utxoVars, Sends!utxoVars
<1>25. ASSUME NEW u \in Utxos, LeaseEnds(u) PROVE Sends!LeaseEnds(u)
  BY <1>25 DEF LeaseEnds, Sends!LeaseEnds, ReliedOn, Sends!ReliedOn, InFlight,
       Sends!InFlight, SendingKinds, Sends!SendingKinds, Proposed, Sends!Proposed,
       BuildingKinds, Sends!BuildingKinds, lockVars, Sends!lockVars, reqVars,
       Sends!reqVars
<1>26. UNCHANGED vars => UNCHANGED Sends!vars
  BY DEF vars, Sends!vars, lockVars, Sends!lockVars, reqVars, Sends!reqVars, utxoVars,
       Sends!utxoVars
<1>27. ASSUME NEW r \in Requests, Handler(r) PROVE Sends!Handler(r)
  BY <1>27, <1>2, <1>3, <1>4, <1>5, <1>6, <1>7, <1>8, <1>9, <1>10, <1>11, <1>12, <1>13,
       <1>14, <1>15, <1>16, <1>17, <1>18, <1>19, <1>20, <1>21, <1>22 DEF Handler,
       Sends!Handler
<1>28. [Next]_vars => [Sends!Next]_Sends!vars
  BY <1>23, <1>24, <1>25, <1>26, <1>27 DEF Next, Sends!Next
<1> QED
  BY <1>1, <1>28, SigningImplementsSends, PTL DEF Spec, Sends!Spec, SendsAreImplemented

=============================================================================
