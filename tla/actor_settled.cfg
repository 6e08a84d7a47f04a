SPECIFICATION ActorSpec
\* The client may rest for ever, closed or with no handle left.
CHECK_DEADLOCK FALSE
CONSTANTS
  c1 = c1
  r1 = r1
  ch1 = ch1
  Callers = {c1}
  MaxAttempts = 1
  TokenOutcomes = {"ok", "unauthorized", "error"}
  HandshakeErrors = {"token_expired", "permanent"}
  TokenValues = {TRUE}
  BatchUse = "connected"
  Channels = {ch1}
  Requesters = {r1}
  Ids = {1, 2}
  MaxTimers = 1
  MaxInbox = 1
  SubErrors = {"token_expired", "temporary", "permanent"}
  SubTokenOutcomes = {"ok", "error"}
  SubTokenValues = {TRUE}
  UnsubscribeAnytime = FALSE
INVARIANTS
  AgreesWithServer
