SPECIFICATION LifeSpec
\* The client may rest for ever, closed or with no handle left.
CHECK_DEADLOCK FALSE
CONSTANTS
  c1 = c1
  Callers = {c1}
  MaxAttempts = 2
  TokenOutcomes = {}
  HandshakeErrors = {"token_expired", "temporary", "permanent"}
  TokenValues = {TRUE}
  BatchUse = "anytime"
INVARIANT HandshakeGoesOut
