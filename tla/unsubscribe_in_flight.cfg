SPECIFICATION ActorSpec
\* The client may rest for ever, closed or with no handle left.
CHECK_DEADLOCK FALSE
CONSTANTS
  c1 = c1
  r1 = r1
  ch1 = ch1
  Callers = {c1}
  MaxAttempts = 1
  TokenOutcomes = {}
  HandshakeErrors = {"temporary"}
  TokenValues = {TRUE}
  BatchUse = "never"
  Channels = {ch1}
  Requesters = {r1}
  Ids = {1, 2}
  MaxTimers = 1
  MaxInbox = 0
  SubErrors = {}
  SubTokenOutcomes = {}
  SubTokenValues = {TRUE}
  UnsubscribeAnytime = TRUE
PROPERTY UnsubscribeHolds
