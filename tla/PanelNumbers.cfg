\* A number among the arguments of SENSe:ZERO:AUTO, as the test of the
\* repository gives it, on a hardware that refuses nothing.
CONSTANTS
  TextLengths <- Lengths
  DisplayLen = 12
  SizeMod = 65536
  ZeroArgs = {"ON", "OFF", "0.0"}
  HardwareFails = FALSE
SPECIFICATION Spec
INVARIANTS
  ZeroAsAsked
