------------------------- MODULE SettingsProperties -------------------------
(***************************************************************************)
(* What the settings commands and INITiate's admission test must do.       *)
(***************************************************************************)
EXTENDS Settings

SettingsErrors == {"OK", "DATA_OUT_OF_RANGE", "ILLEGAL_PARAMETER_VALUE",
                   "MISSING_PARAMETER"}

InLimits ==
  /\ sample_count_num \in 1 .. BufLen
  /\ trigger_count_num \in 0 .. BufLen
  /\ trigger_src \in Sources
  /\ trigger_delay \in 0 .. MaxDelay
  /\ result \in SettingsErrors

\* The settings stay inside the limits the library announces, whatever the
\* arguments; a trigger count of zero is the one TRIGger:COUNt INF stores.
SettingsTypeOK ==
  /\ InLimits
  /\ infinite_trigger_count \in BOOLEAN /\ trigger_auto_delay \in BOOLEAN

\* INITiate admits an acquisition exactly when its readings, counted in
\* unbounded arithmetic, fit the reading memory.
AdmissionExact ==
  InitAdmits <=>
    /\ ~infinite_trigger_count
    /\ sample_count_num * trigger_count_num <= BufLen

\* A refused command changes no count, source or delay.
RefusedKeepsValues ==
  [][ result' # "OK" =>
        UNCHANGED <<sample_count_num, trigger_count_num, trigger_src,
                    trigger_delay, trigger_auto_delay>> ]_<<settings, result>>

\* A trigger count of zero is refused, so a finite one is positive.
FiniteCountPositive == ~infinite_trigger_count => trigger_count_num >= 1
=============================================================================
