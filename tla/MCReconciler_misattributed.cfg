SPECIFICATION Spec
CONSTANTS
  Nil = Nil
  u1 = u1
  u2 = u2
  k1 = k1
  e1 = e1
  e2 = e2
  v1 = v1
  UIDs = {u1, u2}
  Names = {k1}
  EventIds = {e1}
  VolumeContexts = {}
  Text <- Strings
  TicksPerSecond = 1
  NameOf <- OneName
  Nodes = {"n1"}
  FailureMessages = {}
  FirstConditions = {"None"}
  EventReasons = {"Scheduled", "Preempted"}
  EventClocks = {"second"}
  Lags = {0}
  EventsExpire = TRUE
  EventsOutrunPods = FALSE
  RetentionWindow = 0
  DefaultRetentionWindow = 4
  MaxAttempts = 4
  MaxTime = 2
  MaxNews = 5
  MaxDisturbances = 0
CHECK_DEADLOCK FALSE
INVARIANTS
  EventsAreOfThePod
