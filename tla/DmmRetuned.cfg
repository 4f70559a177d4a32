\* The hardware answers inside start_measure or never, and the client changes the
\* counts and the trigger source at any time, to INFinity and back.
CONSTANTS
  BufLen = 2
  MaxDelay = 0
  IntMod = 65536
  CountArgs <- OneTwoOrInfinite
  DelayArgs <- NoDelay
  AutoArgs = {TRUE}
  Threads = FALSE
  Commands = {"INIT", "READ", "FETCH", "OPC", "TRG", "RST", "CONF", "MEAS"}
  MaxCmds = 4
  Retunes = TRUE
  StartOutcomes = {"sync", "lost"}
  Kinds = {"NUM"}
  Prompt = FALSE
  MaxPending = 1
  ClockFails = FALSE
  HardwareFails = FALSE
  TimeMod = 2
  MeasurementTimeout = 1
  CountMod = 65536
  MaxOut = 4
SPECIFICATION Spec
INVARIANTS
  ReadNeverWaitsForBus
  BufferBounded
  CountersLive
  HandlerInv
