SPECIFICATION Spec
CONSTANTS
  User = {u1}
  Session = {s1}
  Call = {c1, c2, c3}
  Lifetime = 2
  MaxTokens = 3
  MaxTime = 2
  Nobody = Nobody
INVARIANT LogoutRevokesSession
CHECK_DEADLOCK FALSE
