SPECIFICATION LifeSpec
\* The client may rest for ever, closed or with no handle left.
CHECK_DEADLOCK FALSE
CONSTANTS
  c1 = c1
  Callers = {c1}
  MaxAttempts = 2
  TokenOutcomes = {"ok", "unauthorized", "error"}
  HandshakeErrors = {"token_expired", "temporary", "permanent"}
  TokenValues = {TRUE, FALSE}
  BatchUse = "connected"
INVARIANT ConnectionWanted
