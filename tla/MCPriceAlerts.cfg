SPECIFICATION FairSpec
CONSTANTS
  Alert = {a1}
  Token = {k1}
  Tick = {t1, t2}
  Request = {r1}
  Nothing = Nothing
  Cooldown = 2
  MaxId = 2
  MaxTime = 2
INVARIANTS TicksAreSound
PROPERTIES PushesAreDue DueIsDelivered
