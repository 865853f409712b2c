SPECIFICATION FairSpec
CONSTANTS
  Nil = Nil
  Lists <- History
  Slots = {1, 2}
  OutcomeChoices = {"Scheduled"}
  SearchWords = {"n1"}
  MaxFailures = 1
INVARIANTS
  PageShowsItsState
  PanelsAgree
PROPERTIES
  PageCatchesUp
