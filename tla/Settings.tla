------------------------------ MODULE Settings ------------------------------
(***************************************************************************)
(* The acquisition settings of the multimeter: the SAMPle and TRIGger      *)
(* command groups (sample.c, trigger.c), the defaults that                 *)
(* SCPIMM_measure_preset restores, and the test by which INITiate decides  *)
(* whether the acquisition they describe fits the reading memory (dmm.c).  *)
(*                                                                         *)
(* Only the main program touches these fields, one command at a time, so   *)
(* every command handler is a single action.                               *)
(***************************************************************************)
EXTENDS Integers

CONSTANTS
  BufLen,      \* SCPIMM_BUF_LEN, also MAX_SAMPLE_COUNT and MAX_TRIGGER_COUNT
  MaxDelay,    \* TRIGGER_DELAY_MAX
  IntMod,      \* 2^w for the type in which uint16_t * uint16_t is computed
  CountArgs,   \* the arguments offered to SAMPle:COUNt and TRIGger:COUNt
  DelayArgs,   \* the arguments offered to TRIGger:DELay
  AutoArgs     \* the arguments offered to TRIGger:DELay:AUTO

ParamTypes == {"MIN", "MAX", "DEF", "INF", "NUMBER", "MISSING"}

\* A NUMBER carries its value; counts are given in tenths, because the code
\* truncates a real number to an integer.  Every other type ignores the value.
Param == [type : ParamTypes, value : Int]

ASSUME SettingsAssumption ==
  /\ BufLen \in Nat \ {0}
  /\ MaxDelay \in Nat
  /\ IntMod \in Nat \ {0}
  /\ CountArgs \subseteq Param
  /\ DelayArgs \subseteq Param
  /\ AutoArgs \subseteq BOOLEAN

VARIABLES
  sample_count_num, trigger_count_num, infinite_trigger_count,
  trigger_src, trigger_delay, trigger_auto_delay,
  result       \* the error the last command pushed, "OK" when it succeeded

counts == <<sample_count_num, trigger_count_num, infinite_trigger_count>>
trigger == <<trigger_src, trigger_delay, trigger_auto_delay>>
settings == <<counts, trigger>>

Sources == {"BUS", "IMM", "EXT"}

-----------------------------------------------------------------------------
\* (long) num.value: C truncates towards zero.
Truncate(tenths) ==
  IF tenths >= 0 THEN tenths \div 10 ELSE -((-tenths) \div 10)

\* The integer a count argument stands for; INF stands for a stored zero.
CountOf(a) ==
  IF a.type = "MIN" THEN 1
  ELSE IF a.type = "MAX" THEN BufLen
  ELSE IF a.type = "INF" THEN 0
  ELSE Truncate(a.value)

BugInCountRange(n) == n <= BufLen

InCountRange(n) == 1 <= n /\ n <= BufLen

\* The count is stored before its range is examined.
BugSCPIMM_sample_count(a) ==
  /\ sample_count_num' = CountOf(a)
  /\ result' = IF InCountRange(CountOf(a)) THEN "OK" ELSE "DATA_OUT_OF_RANGE"
  /\ UNCHANGED <<trigger_count_num, infinite_trigger_count, trigger>>

\* SAMPle:COUNt: a refused argument changes nothing.
SCPIMM_sample_count(a) ==
  /\ \/ /\ a.type \in {"MIN", "MAX", "NUMBER"}
        /\ InCountRange(CountOf(a))
        /\ sample_count_num' = CountOf(a)
        /\ result' = "OK"
     \/ /\ a.type \in {"MIN", "MAX", "NUMBER"}
        /\ ~InCountRange(CountOf(a))
        /\ result' = "DATA_OUT_OF_RANGE"
        /\ UNCHANGED sample_count_num
     \/ /\ a.type \in {"DEF", "INF"}
        /\ result' = "ILLEGAL_PARAMETER_VALUE"
        /\ UNCHANGED sample_count_num
     \/ /\ a.type = "MISSING"
        /\ result' = "MISSING_PARAMETER"
        /\ UNCHANGED sample_count_num
  /\ UNCHANGED <<trigger_count_num, infinite_trigger_count, trigger>>

\* TRIGger:COUNt: the infinite flag is written while the argument is decoded,
\* before the range of the number is examined.
SCPIMM_trigger_count(a) ==
  /\ \/ /\ a.type = "INF"
        /\ infinite_trigger_count' = TRUE
        /\ trigger_count_num' = CountOf(a)
        /\ result' = "OK"
     \/ /\ a.type \in {"MIN", "MAX", "NUMBER"}
        /\ infinite_trigger_count' = FALSE
        /\ IF InCountRange(CountOf(a))
             THEN /\ trigger_count_num' = CountOf(a)
                  /\ result' = "OK"
             ELSE /\ result' = "DATA_OUT_OF_RANGE"
                  /\ UNCHANGED trigger_count_num
     \/ /\ a.type = "DEF"
        /\ result' = "ILLEGAL_PARAMETER_VALUE"
        /\ UNCHANGED <<infinite_trigger_count, trigger_count_num>>
     \/ /\ a.type = "MISSING"
        /\ result' = "MISSING_PARAMETER"
        /\ UNCHANGED <<infinite_trigger_count, trigger_count_num>>
  /\ UNCHANGED <<sample_count_num, trigger>>

\* TRIGger:SOURce.  The parser refuses a word that is not in the list itself.
SCPIMM_trigger_source(src) ==
  /\ trigger_src' = src
  /\ result' = "OK"
  /\ UNCHANGED <<counts, trigger_delay, trigger_auto_delay>>

DelayOf(a) ==
  IF a.type = "MIN" THEN 0 ELSE IF a.type = "MAX" THEN MaxDelay ELSE a.value

BugInDelayRange(d) == d >= 0

InDelayRange(d) == 0 <= d /\ d <= MaxDelay

\* TRIGger:DELay.
SCPIMM_trigger_delay(a) ==
  /\ \/ /\ a.type \in {"MIN", "MAX", "NUMBER"}
        /\ InDelayRange(DelayOf(a))
        /\ trigger_delay' = DelayOf(a)
        /\ result' = "OK"
     \/ /\ a.type = "NUMBER"
        /\ ~InDelayRange(DelayOf(a))
        /\ result' = "DATA_OUT_OF_RANGE"
        /\ UNCHANGED trigger_delay
     \/ /\ a.type \in {"DEF", "INF"}
        /\ result' = "ILLEGAL_PARAMETER_VALUE"
        /\ UNCHANGED trigger_delay
     \/ /\ a.type = "MISSING"
        /\ result' = "MISSING_PARAMETER"
        /\ UNCHANGED trigger_delay
  /\ UNCHANGED <<counts, trigger_src, trigger_auto_delay>>

\* TRIGger:DELay:AUTO stores a flag that no other code reads.
SCPIMM_trigger_delay_auto(b) ==
  /\ trigger_auto_delay' = b
  /\ result' = "OK"
  /\ UNCHANGED <<counts, trigger_src, trigger_delay>>

\* The settings part of SCPIMM_measure_preset, run by *RST, CONFigure and
\* MEASure; the caller decides the result.
PresetSettings ==
  /\ sample_count_num' = 1
  /\ trigger_count_num' = 1
  /\ infinite_trigger_count' = FALSE
  /\ trigger_src' = "IMM"
  /\ trigger_delay' = 0
  /\ trigger_auto_delay' = TRUE

\* Each factor is tested instead of the product.
BugInitAdmits ==
  /\ ~infinite_trigger_count
  /\ sample_count_num <= BufLen /\ trigger_count_num <= BufLen

\* INITiate's admission test.  The product is computed in unsigned arithmetic
\* of the width of int: 2^32 on a PC (no wrap: the factors fit 16 bits) and
\* 2^16 on an AVR.
InitAdmits ==
  /\ ~infinite_trigger_count
  /\ (sample_count_num * trigger_count_num) % IntMod <= BufLen

-----------------------------------------------------------------------------
SettingsCommand ==
  \/ \E a \in CountArgs : SCPIMM_sample_count(a)
  \/ \E a \in CountArgs : SCPIMM_trigger_count(a)
  \/ \E src \in Sources : SCPIMM_trigger_source(src)
  \/ \E a \in DelayArgs : SCPIMM_trigger_delay(a)
  \/ \E b \in AutoArgs : SCPIMM_trigger_delay_auto(b)

SettingsInit ==
  /\ sample_count_num = 1
  /\ trigger_count_num = 1
  /\ infinite_trigger_count = FALSE
  /\ trigger_src = "IMM"
  /\ trigger_delay = 0
  /\ trigger_auto_delay = TRUE
  /\ result = "OK"

SettingsNext ==
  \/ SettingsCommand
  \/ PresetSettings /\ result' = "OK"

SettingsSpec == SettingsInit /\ [][SettingsNext]_<<settings, result>>
=============================================================================
