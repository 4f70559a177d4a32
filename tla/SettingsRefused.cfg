\* A refused TRIGger:COUNt after an infinite one.
CONSTANTS
  BufLen = 512
  MaxDelay = 3600
  IntMod = 1048576
  CountArgs <- CountArguments
  DelayArgs <- DelayArguments
  AutoArgs = {TRUE, FALSE}
  QueryTypes = {"MISSING", "DEF", "MIN", "MAX", "INF", "NUMBER"}
  InfiniteAnswer = 99000
SPECIFICATION QueriesSpec
INVARIANTS
  FiniteCountPositive
