SPECIFICATION Spec
CONSTANTS
  Nil = Nil
  u1 = u1
  u2 = u2
  k1 = k1
  e1 = e1
  e2 = e2
  v1 = v1
  UIDs = {u1}
  Names = {k1}
  EventIds = {e1}
  VolumeContexts = {}
  Text <- Strings
  TicksPerSecond = 2
  NameOf <- OneName
  Nodes = {"n1"}
  FailureMessages = {"m1"}
  FirstConditions = {"None"}
  EventReasons = {"Scheduled"}
  EventClocks = {"micro"}
  Lags = {0}
  EventsExpire = TRUE
  EventsOutrunPods = TRUE
  RetentionWindow = 0
  DefaultRetentionWindow = 4
  MaxAttempts = 4
  MaxTime = 3
  MaxNews = 4
  MaxDisturbances = 1
CHECK_DEADLOCK FALSE
INVARIANTS
  NoAdjacentDuplicates
