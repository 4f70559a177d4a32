\* Interrupt handlers; a hardware that answers in time but may refuse to be
\* configured; a SENSe command of any kind at any time.
CONSTANTS
  BufLen = 2
  MaxDelay = 0
  IntMod = 65536
  CountArgs <- OneOrTwo
  DelayArgs <- NoDelay
  AutoArgs = {TRUE}
  Threads = FALSE
  Commands = {"INIT", "READ", "FETCH", "TRG", "RST", "CONF", "MEAS"}
  MaxCmds = 3
  Retunes = FALSE
  StartOutcomes = {"async"}
  Kinds = {"NUM"}
  Prompt = TRUE
  MaxPending = 1
  ClockFails = FALSE
  HardwareFails = TRUE
  TimeMod = 3
  MeasurementTimeout = 2
  CountMod = 65536
  MaxOut = 4
  Modes = {"DCV", "DCC"}
  Ranges <- TwoRanges
  Overruns <- TwoOverruns
  Resolutions <- TwoResolutions
  NPLCs <- OneNPLC
  Delta = 10
  RangeArgs <- RangeValues
  ResolutionArgs <- Amounts
  NplcArgs <- Amounts
  Configuring <- Configurations
  Selecting <- SenseCommands
  MaxSenses = 1
SPECIFICATION MultimeterSpec
INVARIANTS
  ReadingsOfFunction
  DataInOrder
PROPERTIES
  ChosenBetweenMeasurements
  MeasuresWhatItNamed
