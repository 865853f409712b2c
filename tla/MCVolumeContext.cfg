SPECIFICATION FairSpec
CONSTANTS
  Nil = Nil
  c1 = c1
  c2 = c2
  Claims = {c1, c2}
  Classes = {"s1", "s2"}
  StorageClasses <- TwoClasses
  MaxVolumes = 3
  MaxChanges = 2
CHECK_DEADLOCK FALSE
PROPERTIES
  WalkFindsContext
  DecisionIsCreated
