SPECIFICATION FairSpec
CONSTANTS
  Client = {c1, c2}
  Market = {m}
  Timeframe = {1}
  Price = {1, 2}
  Poll = {p1, p2}
  MaxPerClient = 1
  MaxTime = 1
INVARIANTS PollsIffSubscribed
PROPERTIES FeedMonotone EverySubscriberFed
CHECK_DEADLOCK FALSE
