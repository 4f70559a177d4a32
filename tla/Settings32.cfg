\* The sizes of the library, where int has 32 bits.  TLC has no number 2^32:
\* 2^20 exceeds every product of two counts too.  For the same reason
\* INF_TRIGGER_COUNT is a number just above every count.
CONSTANTS
  BufLen = 512
  MaxDelay = 3600
  IntMod = 1048576
  CountArgs <- CountArguments
  DelayArgs <- DelayArguments
  AutoArgs = {TRUE, FALSE}
  QueryTypes = {"MISSING", "DEF", "MIN", "MAX", "INF", "NUMBER"}
  InfiniteAnswer = 99000
SPECIFICATION QueriesSpec
INVARIANTS
  SettingsTypeOK
  AdmissionExact
  AnswerRestores
  AnswersForetellAdmission
PROPERTIES
  RefusedKeepsValues
