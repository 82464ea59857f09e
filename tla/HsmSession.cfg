SPECIFICATION FairSpec
CONSTANTS
  Slots = {hsm}
  HsmLock = hsm
  Timers = {t1, t2}
  NoTimer = NoTimer
  Sessions = {s1, s2}
  Roots = {k1, k2}
  Nobody = Nobody
INVARIANTS
  TypeOK
  OwnConnection
  StartedWithKeys
PROPERTIES
  HsmLockRecovers
