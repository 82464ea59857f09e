SPECIFICATION Spec
CONSTANTS
  Ids = {id1}
  Starts = {s1, s2}
  Stops = {p1}
  Uses = {u1, u2}
  Reloads = {r1}
  StartKinds = {"plain", "hsm"}
  Boot = Boot
  Null = Null
SYMMETRY Symmetry
INVARIANTS
  HsmFlagIsRight
  NewWalletHasFreshLock
  ListsOwnProposals
