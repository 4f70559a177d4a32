\* Callbacks in threads of their own (whose steps include those of interrupt
\* handlers), a prompt hardware, and no command that ends an acquisition from
\* outside.
CONSTANTS
  BufLen = 2
  MaxDelay = 1
  IntMod = 65536
  CountArgs <- OneOrTwo
  DelayArgs <- UpToTwo
  AutoArgs = {TRUE}
  Threads = TRUE
  Commands = {"INIT", "READ", "FETCH", "OPC", "TRG"}
  MaxCmds = 3
  Retunes = FALSE
  StartOutcomes = {"async"}
  Kinds = {"NUM"}
  Prompt = TRUE
  MaxPending = 1
  ClockFails = FALSE
  HardwareFails = FALSE
  TimeMod = 4
  MeasurementTimeout = 2
  CountMod = 65536
  MaxOut = 4
SPECIFICATION Spec
INVARIANTS
  TypeOK
  DataInOrder
PROPERTIES
  TimersExact
