SPECIFICATION Spec
CONSTANTS
  User = {u1}
  Session = {s1, s2}
  Call = {c1, c2, c3, c4}
  Lifetime = 1
  MaxTokens = 3
  MaxTime = 1
  Nobody = Nobody
INVARIANTS TokensSound
PROPERTIES SessionsStayClosed
CHECK_DEADLOCK FALSE
