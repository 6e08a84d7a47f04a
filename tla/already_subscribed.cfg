SPECIFICATION Spec
CHECK_DEADLOCK FALSE
CONSTANTS
  ClientChannels = {"news"}
  ServerChannels = {}
  Epochs = 1
  Payload <- MCPayload
  JsonProtocol = FALSE
  WantsDelta = TRUE
  HistorySize = 2
  UnsubscribeCodes = {2500}
  Refusals <- MCRefusals
  MaxPubs = 3
  MaxLosses = 1
  MaxWire = 1
  PatientApplication = TRUE
  PromptResubscribes = FALSE
INVARIANT PublicationsIntact
