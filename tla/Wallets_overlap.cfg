SPECIFICATION Spec
CONSTANTS
  Ids = {id1}
  Starts = {s1, s2}
  Stops = {}
  Uses = {}
  Reloads = {}
  StartKinds = {"plain"}
  Boot = Boot
  Null = Null
INVARIANTS
  OneWalletPerId
