----------------------------- MODULE MCSettings -----------------------------
(***************************************************************************)
(* The arguments of the settings commands that lie at and around their     *)
(* limits, and around the limits of the product INITiate computes.         *)
(***************************************************************************)
EXTENDS SettingsQueries

Number(n) == [type |-> "NUMBER", value |-> n]
Words == {Word(w) : w \in ParamTypes \ {"NUMBER"}}

\* In tenths: -1, 0, 0.9, 1, 2, 128, 256, 512, 512.9 and 513.
CountArguments ==
  Words \union {Number(n) : n \in {-10, 0, 9, 10, 20, 1280, 2560, 5120, 5129, 5130}}

DelayArguments == Words \union {Number(n) : n \in {-1, 0, 3600, 3601}}
=============================================================================
