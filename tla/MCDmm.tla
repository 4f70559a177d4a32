------------------------------- MODULE MCDmm --------------------------------
(***************************************************************************)
(* Small instances of the measurement state machine for TLC.               *)
(***************************************************************************)
EXTENDS DmmProperties

Number(n) == [type |-> "NUMBER", value |-> n]
Infinity == [type |-> "INF", value |-> 0]

\* Counts, in tenths.
One == {Number(10)}
OneOrTwo == {Number(10), Number(20)}
OneOrInfinite == {Number(10), Infinity}
OneTwoOrInfinite == {Number(10), Number(20), Infinity}

\* Delays, in clock units; where MaxDelay is 1, the last is refused.
NoDelay == {Number(0)}
UpToTwo == {Number(0), Number(1), Number(2)}
=============================================================================
