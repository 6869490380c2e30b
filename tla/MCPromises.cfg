SPECIFICATION FairSumSpec
CONSTANTS
  MaxUsers = 7
  Client <- MCClient
  Legacy <- MCLegacy
  Nobody = Nobody
  Connection = {"c1", "c2"}
  Price = {1}
  MaxStamp = 2
  TickerGap = 2
  TradeGap = 1
  TradeLimit = 1
  HistoryLimit = 1
  TrendLimit = 1
  MaxFlight = 2
INVARIANTS NobodyLeftOpen NothingForgotten
PROPERTIES AccountsStay EveryoneSignsIn KeepsPromise WorkEnds
CHECK_DEADLOCK FALSE
