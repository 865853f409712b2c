SPECIFICATION FairSpec
CONSTANTS
  Nil = Nil
  c1 = c1
  c2 = c2
  Claims = {c1, c2}
  Classes = {"s1", "s2"}
  StorageClasses <- TwoClasses
  MaxVolumes = 2
  MaxChanges = 0
CHECK_DEADLOCK FALSE
PROPERTIES
  FirstClaimDecides
