---------------------------- MODULE MCMultimeter -----------------------------
(***************************************************************************)
(* Two functions of two ranges.                                            *)
(***************************************************************************)
EXTENDS MultimeterProperties, DmmProperties

Number(n) == [type |-> "NUMBER", value |-> n]
One == {Number(10)}
OneOrTwo == {Number(10), Number(20)}
NoDelay == {Number(0)}

TwoRanges == <<10, 100>>
TwoOverruns == <<12, 12>>
TwoResolutions == <<<<1>>, <<10>>>>
OneNPLC == <<10>>

\* The default, a value in the second range, and a value outside both.
Default == [type |-> "MISSING", value |-> 0, unit |-> "NONE"]
Amount(v) == [type |-> "NUMBER", value |-> v, unit |-> "NONE"]
RangeValues == {Default, Amount(100), Amount(121)}
Amounts == {Default, Amount(10)}

\* CONFigure chooses the first range of a function, or finds none.
Configurations ==
  {S!Command("CONF", f, Default, Default) : f \in {"DCV", "DCC"}}
    \union {S!Command("CONF", "DCC", Amount(121), Default)}

\* One SENSe command of each kind, of the function that is selected first.
SenseCommands ==
  {S!Command("FUNC", "DCC", S!NoArg, S!NoArg), S!Command("AUTO", "DCV", S!NoArg, S!NoArg),
   S!Command("RANG", "DCV", Amount(100), S!NoArg),
   S!Command("RES", "DCV", Amount(10), S!NoArg), S!Command("NPLC", "DCV", Amount(10), S!NoArg)}
=============================================================================
