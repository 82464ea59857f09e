SPECIFICATION FairSpec
CONSTANTS
  Ids = {id1, id2}
  Starts = {s1, s2}
  Stops = {p1}
  Uses = {}
  Reloads = {r1, r2}
  StartKinds = {"hsm", "fireblocks"}
  Boot = Boot
  Null = Null
INVARIANTS
  TypeOK
  NoOrphan
  CurrentConfig
  OneReloadAtATime
PROPERTIES
  ConfigComesBack
