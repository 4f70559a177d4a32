\* The same where int has 16 bits, as on the AVR.
CONSTANTS
  BufLen = 512
  MaxDelay = 3600
  IntMod = 65536
  CountArgs <- CountArguments
  DelayArgs <- DelayArguments
  AutoArgs = {TRUE, FALSE}
  QueryTypes = {"MISSING", "DEF", "MIN", "MAX", "INF", "NUMBER"}
  InfiniteAnswer = 99000
SPECIFICATION QueriesSpec
INVARIANTS
  AdmissionExact
