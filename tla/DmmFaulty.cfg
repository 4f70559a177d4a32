\* Interrupt handlers; answers may be late, lost, refused or an overload, and the
\* clock, the impedance switch and set_mode may report errors.
CONSTANTS
  BufLen = 2
  MaxDelay = 0
  IntMod = 65536
  CountArgs <- OneOrTwo
  DelayArgs <- NoDelay
  AutoArgs = {TRUE}
  Threads = FALSE
  Commands = {"INIT", "READ", "FETCH", "OPC", "TRG", "RST", "CONF", "MEAS"}
  MaxCmds = 2
  Retunes = FALSE
  StartOutcomes = {"async", "lost", "fail"}
  Kinds = {"NUM", "NAN"}
  Prompt = FALSE
  MaxPending = 2
  ClockFails = TRUE
  HardwareFails = TRUE
  TimeMod = 2
  MeasurementTimeout = 1
  CountMod = 65536
  MaxOut = 4
SPECIFICATION Spec
INVARIANTS
  ErrorImpliesIdle
  DataGenuine
  AdmittedFits
PROPERTIES
  LegalTransitions
  NoSilentError
  ResponseOwned
  ReadComplete
  FetchComplete
  ImplementsAcquisition
