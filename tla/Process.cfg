SPECIFICATION Spec
CONSTANTS
  MaxArgs = 3
  Letters = {"s", "d", "x"}
  MaxFormat = 5
  MILLI = 2
  MILLIS = 4
  FRAME = 3
  CONNECTION_TIMEOUT = 4
  ATTEMPTS = 2
  USECONDS = 24
  Settings <- MCSettings
  MaxWork = 11
  MaxAddresses = 2
INVARIANTS
  LastOptionWins
  PrintsArgumentsInPlace
  TimeIsElapsed
  NoFasterThanMaxFps
  SleepsTheRest
  HearsItsAnswers
  AsksFromOneAddress
PROPERTIES
  RetriesAfterTimeout
CHECK_DEADLOCK FALSE
