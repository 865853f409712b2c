SPECIFICATION FairSpec
CONSTANTS
  Nil = Nil
  u1 = u1
  u2 = u2
  k1 = k1
  e1 = e1
  e2 = e2
  v1 = v1
  UIDs = {u1}
  Names = {k1}
  EventIds = {}
  VolumeContexts = {}
  Text <- Strings
  TicksPerSecond = 1
  NameOf <- OneName
  Nodes = {"n1"}
  FailureMessages = {"m1", "m2"}
  FirstConditions = {"None"}
  EventReasons = {}
  EventClocks = {"second"}
  Lags = {0}
  EventsExpire = FALSE
  EventsOutrunPods = TRUE
  RetentionWindow = 0
  DefaultRetentionWindow = 4
  MaxAttempts = 4
  MaxTime = 2
  MaxNews = 4
  MaxDisturbances = 0
CHECK_DEADLOCK FALSE
PROPERTIES
  Converges
