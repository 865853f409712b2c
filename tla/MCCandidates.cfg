SPECIFICATION CandidatesSpec
CONSTANTS
  Nil = Nil
  u1 = u1
  k1 = k1
  UIDs = {u1}
  Names = {k1}
  EventIds = {1, 2}
  VolumeContexts = {}
  Text <- Strings
  TicksPerSecond = 2
  NameOf <- OneName
  n1 = n1
  n2 = n2
  Nodes = {n1, n2}
  FailureMessages = {}
  FirstConditions = {"None"}
  EventReasons = {}
  EventClocks = {}
  Lags = {0}
  EventsExpire = FALSE
  EventsOutrunPods = TRUE
  RetentionWindow = 0
  DefaultRetentionWindow = 4
  MaxAttempts = 2
  MaxTime = 5
  MaxNews = 3
  MaxDisturbances = 0
  OtherArgs <- OddRequests
  HTTPTimeout = 1
  Backoff = 2
  MaxCalls = 2
SYMMETRY AnyNode
CHECK_DEADLOCK FALSE
INVARIANTS
  NeverFiltersOut
  NewestEventIsOfNewestCall
  ChosenNodeWasConsidered
