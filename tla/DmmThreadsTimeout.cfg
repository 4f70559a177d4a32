\* Callbacks in threads of their own, and a READ? whose measurement may time out.
CONSTANTS
  BufLen = 2
  MaxDelay = 0
  IntMod = 65536
  CountArgs <- One
  DelayArgs <- NoDelay
  AutoArgs = {TRUE}
  Threads = TRUE
  Commands = {"READ"}
  MaxCmds = 1
  Retunes = FALSE
  StartOutcomes = {"async"}
  Kinds = {"NUM"}
  Prompt = FALSE
  MaxPending = 1
  ClockFails = FALSE
  HardwareFails = FALSE
  TimeMod = 2
  MeasurementTimeout = 1
  CountMod = 65536
  MaxOut = 4
SPECIFICATION Spec
PROPERTIES
  UnexpectedValueIgnored
