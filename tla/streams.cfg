SPECIFICATION FairSpec
\* A disconnected client rests for ever.
CHECK_DEADLOCK FALSE
CONSTANTS
  ClientChannels = {"news"}
  ServerChannels = {"alerts"}
  Epochs = 2
  Payload <- MCPayload
  JsonProtocol = TRUE
  WantsDelta = TRUE
  HistorySize = 2
  UnsubscribeCodes = {2000, 2500}
  Refusals <- MCRefusals
  MaxPubs = 3
  MaxLosses = 2
  MaxWire = 1
  PatientApplication = TRUE
  PromptResubscribes = TRUE
INVARIANTS
  TypeOK
  NoSilentGap
  NoRepetition
  PublicationsIntact
  RecoversFromWhatWasShown
  AppKnowsServerSubs
PROPERTIES
  CatchesUp
  AttemptsEnd
