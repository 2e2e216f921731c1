\* Two logins of one pilot at once.
CONSTANTS
  p1 = p1  p2 = p2  s1 = s1  s2 = s2
  Token <- Tokens2
  Grants <- Nested
  Proc <- Workers
  Serves <- Logins
  MaxGen = 1
  MaxRejects = 0
  Nobody = Nobody
SPECIFICATION Spec
\* The system may stop: keys run out and every request is optional.
CHECK_DEADLOCK FALSE
PROPERTY PrunedOnlyIfCovered
