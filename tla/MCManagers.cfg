SPECIFICATION ManagersSpec
CONSTANTS
  Nil = Nil
  u1 = u1
  k1 = k1
  e1 = e1
  m2 = m2
  UIDs = {u1}
  Names = {k1}
  EventIds = {e1}
  VolumeContexts = {}
  Text <- Strings
  TicksPerSecond = 1
  NameOf <- OneName
  Nodes = {"n1"}
  FailureMessages = {"m1"}
  FirstConditions = {"None"}
  EventReasons = {}
  EventClocks = {}
  Lags = {0}
  EventsExpire = FALSE
  EventsOutrunPods = TRUE
  RetentionWindow = 0
  DefaultRetentionWindow = 4
  MaxAttempts = 2
  MaxTime = 2
  Others = {m2}
  MaxNews = 3
  MaxDisturbances = 1
CHECK_DEADLOCK FALSE
PROPERTIES
  ImplementsAuditLog
  SuccessMeansRecorded
