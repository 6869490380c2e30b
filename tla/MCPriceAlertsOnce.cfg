SPECIFICATION Spec
CONSTANTS
  Alert = {a1}
  Token = {k1}
  Tick = {t1}
  Request = {r1}
  Nothing = Nothing
  Cooldown = 2
  MaxId = 1
  MaxTime = 1
PROPERTIES
  OnceIsDeactivated
CHECK_DEADLOCK FALSE
