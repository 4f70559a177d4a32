\* The words of SENSe:ZERO:AUTO; any optional function present or not, and any
\* call refused.  TLC has no number 2^64: 2^16 is size_t of the AVR.
CONSTANTS
  TextLengths <- Lengths
  DisplayLen = 12
  SizeMod = 65536
  ZeroArgs = {"ON", "OFF", "ONCE", "OTHER", "MISSING"}
  HardwareFails = TRUE
SPECIFICATION Spec
INVARIANTS
  PanelTypeOK
  HardwareAsAsked
  ZeroAsAsked
  DisplayAsAsked
PROPERTIES
  LockOnlyInRemote
