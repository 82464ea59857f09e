SPECIFICATION FairSpec
CONSTANTS
  Ids = {id1}
  Starts = {s1}
  Stops = {p1}
  Uses = {u1}
  Reloads = {r1}
  StartKinds = {"plain"}
  Boot = Boot
  Null = Null
PROPERTIES
  OnlyReloadsExit
