SPECIFICATION FairLifeSpec
\* The client may rest for ever, closed or with no handle left.
CHECK_DEADLOCK FALSE
CONSTANTS
  c1 = c1
  c2 = c2
  Callers = {c1, c2}
  MaxAttempts = 2
  TokenOutcomes = {"ok", "unauthorized", "error"}
  HandshakeErrors = {"token_expired", "temporary", "permanent"}
  TokenValues = {TRUE, FALSE}
  BatchUse = "connected"
PROPERTIES
  AlwaysHeardAgain
  ConnectAnswered
