SPECIFICATION FairSpec
\* A closed connection rests for ever.
CHECK_DEADLOCK FALSE
CONSTANTS
  Capacity = 1
  SocketCapacity = 1
  MaxCommands = 4
  MaxFrames = 4
  CloseReasons <- MCCloseReasons
INVARIANTS
  TypeOK
  CommandsInOrder
  FramesInOrder
  GivesUpOnlyWhenTold
PROPERTIES
  SendReturns
  LossNoticed
  SocketReleased
