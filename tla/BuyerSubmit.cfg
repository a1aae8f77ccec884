SPECIFICATION FairSpec
CONSTANTS
  BuyTerms <- Buys
  SubTerms <- Subscriptions
  Skews <- Clocks
  Lag = 1
  MaxSubmits = 2
  MaxTime = 3
  MaxCrashes = 2
INVARIANTS
  MoneyRecorded
  RecordIsItsOwn
PROPERTIES
  EndedRecordsClose
CHECK_DEADLOCK FALSE
