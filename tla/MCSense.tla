------------------------------ MODULE MCSense -------------------------------
(***************************************************************************)
(* A small hardware: two ranges, whose resolution tables differ in length, *)
(* and arguments at and around the limits of the tables.                   *)
(***************************************************************************)
EXTENDS SenseProperties

TwoRanges == <<10, 100>>
TwoOverruns == <<12, 12>>
UnequalResolutions == <<<<1, 5, 10>>, <<10, 50>>>>
TwoNPLCs == <<10, 100>>

Number(v) == [type |-> "NUMBER", value |-> v, unit |-> "NONE"]
Word(w) == [type |-> w, value |-> 0, unit |-> "NONE"]

Words == {Word(w) : w \in ArgTypes \ {"NUMBER"}}
WithUnit(v, u) == [type |-> "NUMBER", value |-> v, unit |-> u]

Limits == Words \union {Number(v) : v \in {12, 13, 120, 121}}
                \union {WithUnit(12, "VOLT"), WithUnit(12, "OHM")}

\* Delta is 10: 4 and 10 are 5 and 11 but for the tolerance, 5 and 10 exact.
Finenesses == Words \union {Number(v) : v \in {0, 4, 5, 9, 10, 50}}
                    \union {WithUnit(5, "AMPER")}

Times == Words \union {Number(v) : v \in {10, 11, 12, 111, 112}}
=============================================================================
