\* A hardware that may refuse any call; a function with all SENSe commands and a
\* ratio, which has CONFigure only.
CONSTANTS
  Modes = {"DCV", "DCV_RATIO"}
  Ranges <- TwoRanges
  Overruns <- TwoOverruns
  Resolutions <- UnequalResolutions
  NPLCs <- TwoNPLCs
  Delta = 10
  RangeArgs <- Limits
  ResolutionArgs <- Finenesses
  NplcArgs <- Times
  HardwareFails = TRUE
SPECIFICATION Spec
INVARIANTS
  SenseTypeOK
  AnswersFromTables
PROPERTIES
  SearchesAgree
  RangeHoldsValue
  ResolutionAchieved
  IntegrationLongEnough
  OnlyRangeStrandsResolution
  RefusedKeepsSelection
