SPECIFICATION ServiceSpec
CONSTANTS
  None = None
  Configs <- MCConfigs
  Boot <- MCBoot
  WalletIds = {}
  Keys = {}
  Words = {}
  DefaultMining = "m0"
  SwapMainnet = "x-main"
  SwapTestnet = "x-test"
  HttpApiKey = TRUE
  ConfirmFirstAddress = TRUE
  Deviations = 1

  
PROPERTIES
  EveryRequestIsAnswered
  RequestsAreServed
CHECK_DEADLOCK FALSE
