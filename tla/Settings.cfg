SPECIFICATION Spec
CONSTANTS
  None = None
  a = a
  b = b
  w1 = w1
  w2 = w2
  bad = bad
  p1 = p1
  p2 = p2
  Configs <- MCConfigs
  Boot <- MCBoot
  WalletIds = {i1}
  Keys = {a, b}
  Words = {w1, w2}
  DefaultMining = "m0"
  SwapMainnet = "x-main"
  SwapTestnet = "x-test"
INVARIANTS
  WalletsMatchConfig
  LibMatchesConfig
  AppMatchesConfig
  HealthIsTold
CHECK_DEADLOCK FALSE
