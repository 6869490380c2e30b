SPECIFICATION FairSpec
CONSTANTS
  Exchange = {"upbit"}
  Offered = {"orders", "portfolio"}
  Poll = {1, 2}
  MaxVersion = 1
  Recent = 1
  MaxKnown = 1
  MaxSubs = 2
PROPERTIES CaughtUp
CHECK_DEADLOCK FALSE
