SPECIFICATION MCSpec
CONSTANTS
  Slots = {sendTx}
  SendLock = sendTx
  Timers = {t1, t2}
  NoTimer = NoTimer
  Requests = {r1, r2, r3}
  Utxos = {u1, u2}
  KindsUsed <- AllKinds
SYMMETRY Symmetry
INVARIANTS
  MutualExclusion
  NoDoubleSelection
  LockTakenOnlyForWork
  ProposalStaysReserved
