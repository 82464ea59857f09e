SPECIFICATION FbSpec
CONSTANTS
  Slots = {sendTx}
  SendLock = sendTx
  Timers = {t1, t2}
  NoTimer = NoTimer
  Requests = {r1, r2}
  u1 = u1
  u2 = u2
  x1 = x1
  x2 = x2
  Utxos = {u1, u2}
  RawTxs = {x1, x2}
  AddressOf <- MCAddressOf
  CallerOf <- MCCallerOf
  NoCaller = NoCaller
  MaxPolls = 2
  KindsUsed = {"simple", "unmarkInputs"}
INVARIANTS
  OneTimerPerAcquisition
  SignedAsNeeded
PROPERTIES
  SendsAreImplemented
  SigningEnds
