CONSTANTS
  N = 1
  Feeds <- OnlyFirst
  Captures <- OnlyFirst
  InputLen = 3
  OutputLen = 3
  PipeCap = 2
  Arrays <- OneArray
  IoErrors = TRUE
  HostReaps <- OnlyFirst
  Interrupts = TRUE
  Calls = {"send_stdin", "receive_output", "poll", "kill", "wait", "cleanup"}
  Paired <- TwoInArrays
  Windows <- TwoOnWindows
SPECIFICATION SpecAny
CHECK_DEADLOCK FALSE
INVARIANTS
  TypeOK
  PidNamesOwnChild
  CleanupLeavesNothing
  DrainAfterExitComplete
  WaitContract
  WaitContracts
  WindowsSound
PROPERTIES
  BuffersHeldForKernel
  AllCallsReturn
