\* Every wait ends, although answers are lost: time passes, the main loop runs,
\* and nothing is asked of the hardware or of the external trigger.
CONSTANTS
  BufLen = 2
  MaxDelay = 0
  IntMod = 65536
  CountArgs <- OneOrInfinite
  DelayArgs <- NoDelay
  AutoArgs = {TRUE}
  Threads = FALSE
  Commands = {"INIT", "READ", "FETCH", "OPC", "TRG", "RST", "CONF", "MEAS"}
  MaxCmds = 2
  Retunes = TRUE
  StartOutcomes = {"async", "lost"}
  Kinds = {"NUM"}
  Prompt = FALSE
  MaxPending = 1
  ClockFails = FALSE
  HardwareFails = FALSE
  TimeMod = 2
  MeasurementTimeout = 1
  CountMod = 65536
  MaxOut = 4
SPECIFICATION FairSpec
PROPERTIES
  ResetAnswered
  QueryAnswered
