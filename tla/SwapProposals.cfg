SPECIFICATION Spec
CONSTANTS
  Slots = {l1, l2}
  Timers = {t1, t2}
  NoTimer = NoTimer
  r1 = r1
  r2 = r2
  r3 = r3
  Requests = {r1, r2, r3}
  Wallets = {w1}
  Proposals = {p1}
  Passwords = {good, bad}
  NoPassword = NoPassword
  Outsider = Outsider
  MaxVersion = 2
  Mixes <- MCMixes
CHECK_DEADLOCK FALSE
INVARIANTS
  TypeOK
  ListenedPasswordIsRight
  OneInside
PROPERTIES
  RegisterImplemented
  ForgottenForReason
  CallsAreAnswered
