\* Both workers log in, refresh, unlink and may die; one of them also sweeps,
\* disconnects and detaches.
CONSTANTS
  p1 = p1  p2 = p2  s1 = s1  s2 = s2
  Token <- Tokens2
  Grants <- Nested
  Proc <- Workers
  Serves <- Everything
  MaxGen = 1
  MaxRejects = 1
  Nobody = Nobody
SPECIFICATION Spec
\* The system may stop: keys run out and every request is optional.
CHECK_DEADLOCK FALSE
INVARIANT SecretCurrent
PROPERTY ErasedStaysErased
