SPECIFICATION ActorSpec
\* The client may rest for ever, closed or with no handle left.
CHECK_DEADLOCK FALSE
CONSTANTS
  c1 = c1
  r1 = r1
  r2 = r2
  ch1 = ch1
  Callers = {c1}
  MaxAttempts = 1
  TokenOutcomes = {}
  HandshakeErrors = {"temporary"}
  TokenValues = {TRUE}
  BatchUse = "never"
  Channels = {ch1}
  Requesters = {r1, r2}
  Ids = {1, 2}
  MaxTimers = 1
  MaxInbox = 1
  SubErrors = {"temporary", "permanent"}
  SubTokenOutcomes = {"ok", "unauthorized", "error"}
  SubTokenValues = {FALSE}
  UnsubscribeAnytime = TRUE
INVARIANTS
  ActorTypeOK
  PendingOnlyWhileConnected
  CallersOwned
  SubscribedHasNoWaiters
  
SYMMETRY RequesterSymmetry
