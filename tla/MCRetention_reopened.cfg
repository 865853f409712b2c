SPECIFICATION RetentionSpec
CONSTANTS
  Nil = Nil
  u1 = u1
  u2 = u2
  k1 = k1
  k2 = k2
  s1 = s1
  UIDs = {u1}
  Names = {k1}
  EventIds = {}
  VolumeContexts = {}
  Text <- Strings
  TicksPerSecond = 1
  NameOf <- OwnNames
  Nodes = {"n1"}
  FailureMessages = {}
  FirstConditions = {"None"}
  EventReasons = {}
  EventClocks = {"second"}
  Lags = {0}
  EventsExpire = TRUE
  EventsOutrunPods = TRUE
  RetentionWindow = 1
  DefaultRetentionWindow = 4
  MaxAttempts = 2
  MaxTime = 3
  MaxNews = 2
  MaxDisturbances = 1
  Sweepers = {s1}
  Legacy = {}
CHECK_DEADLOCK FALSE
INVARIANTS
  CreatedOncePerPod
