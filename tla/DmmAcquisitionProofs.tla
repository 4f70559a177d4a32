------------------------ MODULE DmmAcquisitionProofs ------------------------
(***************************************************************************)
(* Proofs that an acquisition of a meter with interrupt handlers delivers  *)
(* the readings asked for: its counters never wrap, those delivered and    *)
(* those due make up what was asked for, what a query or the buffer holds  *)
(* in the end is complete, and the state machine implements the abstract   *)
(* acquisition.                                                            *)
(***************************************************************************)
EXTENDS DmmHandlerProofs

-----------------------------------------------------------------------------
(* The paths through the program.                                          *)

\* One program step keeps PathInv.
LEMMA ProgramPath ==
  ASSUME ~Threads, HandlerInv, OwnedInv, PathInv, Program
  PROVE  PathInv'
<1> USE DEF PathInv, OwnedInv, Before, Stopping, HandlerInv, PlaceInv, CallbackInv,
            At, MainRuns, Goto, Fail, Reply, Wait, YieldReturns, Returns, Handle,
            ClockRead, tally, shared, callbacks, clock, reading, pulse_reading,
            settings, trigger, history
<1>1. CASE Poll \/ get_milliseconds
  BY <1>1 DEF Poll, get_milliseconds, control
<1>2. CASE initiate
  BY <1>2 DEF initiate
<1>3. CASE init_trigger
  BY <1>3 DEF init_trigger, TriggerDeadlock
<1>4. CASE stamp_delay
  BY <1>4 DEF stamp_delay
<1>5. CASE enter_delay
  BY <1>5 DEF enter_delay
<1>6. CASE init_fail
  BY <1>6 DEF init_fail
<1>7. CASE trg
  BY <1>7 DEF trg
<1>8. CASE wait_for_idle
  BY <1>8 DEF wait_for_idle, Finished
<1>9. CASE idle_reply
  BY <1>9 DEF idle_reply, Finished
<1>10. CASE yield
  BY <1>10 DEF yield
<1>11. CASE check_trigger_delay
  BY <1>11 DEF check_trigger_delay
<1>12. CASE start_measurement
  BY <1>12 DEF start_measurement
<1>13. CASE stamp_measuring
  BY <1>13 DEF stamp_measuring
<1>14. CASE enter_measuring
  BY <1>14 DEF enter_measuring
<1>15. CASE start_measure
  BY <1>15 DEF start_measure
<1>16. CASE in_hardware
  BY <1>16 DEF in_hardware
<1>17. CASE check_measuring_timeout
  BY <1>17 DEF check_measuring_timeout
<1>18. CASE take_type
  BY <1>18 DEF take_type
<1>19. CASE take
  BY <1>19 DEF take, countdown
<1>20. CASE finish
  BY <1>20 DEF finish
<1>21. CASE yield_fail
  BY <1>21 DEF yield_fail
<1>22. CASE stop_measurement
  BY <1>22 DEF stop_measurement, StopPlace
<1>23. CASE stop_check
  BY <1>23 DEF stop_check
<1>24. CASE stop_idle
  BY <1>24 DEF stop_idle
<1>25. CASE measure_preset
  BY <1>25 DEF measure_preset, PresetSettings
<1>26. QED
  BY <1>1, <1>2, <1>3, <1>4, <1>5, <1>6, <1>7, <1>8, <1>9, <1>10, <1>11, <1>12,
     <1>13, <1>14, <1>15, <1>16, <1>17, <1>18, <1>19, <1>20, <1>21, <1>22,
     <1>23, <1>24, <1>25 DEF Program

\* A command begins at its own place, with an empty response.
LEMMA ClientPath ==
  ASSUME ~Threads, OwnedInv, PathInv, Client
  PROVE  PathInv'
<1> USE DEF PathInv, OwnedInv, Before, Stopping, At, MainRuns, tally, shared,
     settings, trigger
<1>1. CASE Retune
  BY <1>1 DEF Retune
<1>2. ASSUME NEW c \in Commands, Receive(c)
      PROVE  PathInv'
  <2>1. c \in AllCommands
    BY DmmAssumption
  <2>2. /\ pc' \in {"initiate", "wait", "trg", "stop"}
        /\ pc' = "stop" => c \in {"RST", "CONF", "MEAS"}
    BY <1>2, <2>1 DEF Receive, Entry, AllCommands
  <2>3. QED
    BY <1>2, <2>2 DEF Receive
<1>3. QED
  BY <1>1, <1>2 DEF Client

\* A handler and the clock leave the place in the program alone.
LEMMA HandlerPath ==
  ASSUME ~Threads, HandlerInv, PathInv,
         answer \/ ReadValue \/ pulse \/ ExternalTrigger \/ Tick \/ UNCHANGED vars
  PROVE  PathInv'
<1> USE DEF PathInv, Before, Stopping, HandlerInv, PlaceInv, CallbackInv,
            ReadValueAt, ReadValueGoes, ExternalTriggerAt, ClockRead, tally,
            control, settings, trigger, shared
<1>1. CASE answer \/ Tick \/ UNCHANGED vars
  BY <1>1 DEF answer, Tick, vars
<1>2. CASE ReadValue
  BY <1>2 DEF ReadValue, write_type, write_value, check_expected, commit
<1>3. CASE pulse \/ ExternalTrigger
  BY <1>3 DEF ExternalTrigger, pulse, pulse_clock, pulse_stamp, pulse_enter
<1>4. QED
  BY <1>1, <1>2, <1>3

\* Each command keeps to its own path through dmm.c: who executes the preset and
\* the triggers, whose response is open, where an error is on its way.
THEOREM PathInvariant == ASSUME ~Threads PROVE Spec => []PathInv
<1>1. Init => PathInv
  BY DEF Init, PathInv, Before, Stopping
<1>2. HandlerInv /\ OwnedInv /\ PathInv /\ [Next]_vars => PathInv'
  BY ProgramPath, ClientPath, HandlerPath DEF Next
<1>3. QED
  BY <1>1, <1>2, HandlerInvariant, QueryOwnsAcquisition, PTL DEF Spec

-----------------------------------------------------------------------------
(* The counters.                                                           *)

\* A count above zero is counted down by one.
LEMMA DecrementDown ==
  ASSUME BufLen < CountMod, NEW n \in 1 .. BufLen
  PROVE  Decrement(n) = n - 1
<1>1. CountMod \in Nat \ {0} /\ BufLen \in Nat
  BY Moduli, SettingsAssumption
<1>2. n - 1 \in 0 .. CountMod - 1
  BY <1>1
<1>3. n + CountMod - 1 = 1 * CountMod + (n - 1)
  BY <1>1
<1>4. (1 * CountMod + (n - 1)) % CountMod = n - 1
  BY <1>1, <1>2
<1>5. QED
  BY <1>3, <1>4 DEF Decrement

\* The settings after a settings command.
LEMMA SettingsLive ==
  ASSUME CountsSafe, LiveInv, SettingsCommand
  PROVE  /\ sample_count_num' \in 1 .. BufLen
         /\ infinite_trigger_count' \/ trigger_count_num' \in 1 .. BufLen
         /\ infinite_trigger_count' => \E a \in CountArgs : a.type = "INF"
<1> USE SettingsAssumption DEF LiveInv, trigger, counts
<1>1. ASSUME NEW a \in CountArgs, SCPIMM_sample_count(a)
      PROVE  sample_count_num' \in 1 .. BufLen
  BY <1>1 DEF SCPIMM_sample_count, InCountRange, CountOf, Truncate, Param
<1>2. ASSUME NEW a \in CountArgs, SCPIMM_sample_count(a)
      PROVE  UNCHANGED <<trigger_count_num, infinite_trigger_count>>
  BY <1>2 DEF SCPIMM_sample_count
<1>3. ASSUME NEW a \in CountArgs, SCPIMM_trigger_count(a)
      PROVE  /\ infinite_trigger_count' \/ trigger_count_num' \in 1 .. BufLen
             /\ infinite_trigger_count' => \E b \in CountArgs : b.type = "INF"
             /\ UNCHANGED sample_count_num
  <2>1. CountOf(a) \in Int
    BY DEF CountOf, Truncate, Param
  <2>2. QED
    BY <1>3, <2>1 DEF SCPIMM_trigger_count, InCountRange, CountsSafe
<1>4. ASSUME NEW src \in Sources, SCPIMM_trigger_source(src)
      PROVE  UNCHANGED counts
  BY <1>4 DEF SCPIMM_trigger_source
<1>5. ASSUME NEW a \in DelayArgs, SCPIMM_trigger_delay(a)
      PROVE  UNCHANGED counts
  BY <1>5 DEF SCPIMM_trigger_delay
<1>6. ASSUME NEW b \in AutoArgs, SCPIMM_trigger_delay_auto(b)
      PROVE  UNCHANGED counts
  BY <1>6 DEF SCPIMM_trigger_delay_auto
<1>7. QED
  BY <1>1, <1>2, <1>3, <1>4, <1>5, <1>6 DEF SettingsCommand

\* The countdown leaves both counters above zero unless it has ended.
LEMMA CountdownLive ==
  ASSUME BufLen < CountMod, LiveInv, Acquiring, pc # "finish", countdown,
         UNCHANGED <<counts, dst>>
  PROVE  pc' # "finish" => /\ sample_count' \in 1 .. BufLen
                           /\ \/ trigger_count' \in 1 .. BufLen
                              \/ infinite_trigger_count' /\ dst' = "OUT"
<1>1. sample_count \in 1 .. BufLen /\ Decrement(sample_count) = sample_count - 1
  BY DecrementDown DEF LiveInv
<1>2. trigger_count \in 1 .. BufLen => Decrement(trigger_count) = trigger_count - 1
  BY DecrementDown
<1>3. QED
  BY <1>1, <1>2, SettingsAssumption DEF LiveInv, countdown, counts, Goto

\* A step of the program.
LEMMA ProgramLive ==
  ASSUME ~Threads, BufLen < CountMod, HandlerInv, OwnedInv, LiveInv, Program
  PROVE  LiveInv'
<1> USE DEF LiveInv, Acquiring, HandlerInv, PlaceInv, CallbackInv,
            At, MainRuns, Goto, Fail, Reply, Wait, YieldReturns, Returns, Handle,
            ClockRead, tally, shared, callbacks, clock, reading, pulse_reading,
            settings, counts, history
<1>1. CASE Poll \/ get_milliseconds
  BY <1>1 DEF Poll, get_milliseconds, control
<1>2. CASE initiate
  BY <1>2 DEF initiate, InitAdmits
<1>3. CASE init_trigger
  BY <1>3 DEF init_trigger, TriggerDeadlock
<1>4. CASE stamp_delay
  BY <1>4 DEF stamp_delay
<1>5. CASE enter_delay
  BY <1>5 DEF enter_delay
<1>6. CASE init_fail
  BY <1>6 DEF init_fail
<1>7. CASE trg
  BY <1>7 DEF trg
<1>8. CASE wait_for_idle
  BY <1>8 DEF wait_for_idle, Finished
<1>9. CASE idle_reply
  BY <1>9 DEF idle_reply, Finished
<1>10. CASE yield
  BY <1>10 DEF yield
<1>11. CASE check_trigger_delay
  BY <1>11 DEF check_trigger_delay
<1>12. CASE start_measurement
  BY <1>12 DEF start_measurement
<1>13. CASE stamp_measuring
  BY <1>13 DEF stamp_measuring
<1>14. CASE enter_measuring
  BY <1>14 DEF enter_measuring
<1>15. CASE start_measure
  BY <1>15 DEF start_measure
<1>16. CASE in_hardware
  BY <1>16 DEF in_hardware
<1>17. CASE check_measuring_timeout
  BY <1>17 DEF check_measuring_timeout
<1>18. CASE take_type
  BY <1>18 DEF take_type
<1>19. CASE take
  BY <1>19, CountdownLive DEF take
<1>20. CASE finish
  BY <1>20 DEF finish
<1>21. CASE yield_fail
  BY <1>21 DEF yield_fail
<1>22. CASE stop_measurement
  BY <1>22 DEF stop_measurement, StopPlace
<1>23. CASE stop_check
  BY <1>23 DEF stop_check
<1>24. CASE stop_idle
  BY <1>24 DEF stop_idle
<1>25. CASE measure_preset
  BY <1>25, SettingsAssumption DEF measure_preset, PresetSettings
<1>26. QED
  BY <1>1, <1>2, <1>3, <1>4, <1>5, <1>6, <1>7, <1>8, <1>9, <1>10, <1>11, <1>12,
     <1>13, <1>14, <1>15, <1>16, <1>17, <1>18, <1>19, <1>20, <1>21, <1>22,
     <1>23, <1>24, <1>25 DEF Program

\* A settings command leaves counts that an acquisition can start from.
LEMMA ClientLive ==
  ASSUME ~Threads, CountsSafe, OwnedInv, PathInv, LiveInv, Client
  PROVE  LiveInv'
<1> USE DEF Acquiring, At
<1>1. CASE Retune
  <2>1. Acquiring' = Acquiring /\ pc = "ready" /\ pc' = pc
    BY <1>1 DEF Retune, shared
  <2>2. UNCHANGED <<sample_count, trigger_count, dst>>
    BY <1>1 DEF Retune, tally
  <2>3. Acquiring => trigger_count \in 1 .. BufLen
    BY <2>1 DEF OwnedInv, Before, Stopping, LiveInv
  <2>4. QED
    BY <1>1, <2>1, <2>2, <2>3, SettingsLive DEF Retune, LiveInv
<1>2. ASSUME NEW c \in Commands, Receive(c)
      PROVE  LiveInv'
  <2>1. pc' \in {"initiate", "wait", "trg", "stop"}
    BY <1>2, DmmAssumption DEF Receive, Entry, AllCommands
  <2>2. /\ UNCHANGED <<state, sample_count, trigger_count, dst>>
        /\ UNCHANGED counts /\ pc = "ready"
    BY <1>2 DEF Receive, shared, tally, settings
  <2>3. QED
    BY <2>1, <2>2 DEF LiveInv, counts
<1>3. QED
  BY <1>1, <1>2 DEF Client

\* A handler and the clock leave the counts alone.
LEMMA HandlerLive ==
  ASSUME ~Threads, HandlerInv, LiveInv,
         answer \/ ReadValue \/ pulse \/ ExternalTrigger \/ Tick \/ UNCHANGED vars
  PROVE  LiveInv'
<1> USE DEF LiveInv, Acquiring, HandlerInv, PlaceInv, CallbackInv,
            ReadValueAt, ReadValueGoes, ExternalTriggerAt, ClockRead, tally,
            control, settings, counts, shared
<1>1. CASE answer \/ Tick \/ UNCHANGED vars
  BY <1>1 DEF answer, Tick, vars
<1>2. CASE ReadValue
  BY <1>2 DEF ReadValue, write_type, write_value, check_expected, commit
<1>3. CASE pulse \/ ExternalTrigger
  BY <1>3 DEF ExternalTrigger, pulse, pulse_clock, pulse_stamp, pulse_enter
<1>4. QED
  BY <1>1, <1>2, <1>3

\* No acquisition starts from a count of zero, or meets it before its end
\* (SCPIMM_trigger_countQ and check_measured_value).
THEOREM LiveInvariant ==
  ASSUME ~Threads, CountsSafe, BufLen < CountMod
  PROVE  Spec => []LiveInv
<1>1. Init => LiveInv
  BY SettingsAssumption DEF Init, SettingsInit, LiveInv, Acquiring
<1>2. HandlerInv /\ OwnedInv /\ PathInv /\ LiveInv /\ [Next]_vars => LiveInv'
  BY ProgramLive, ClientLive, HandlerLive DEF Next
<1>3. QED
  BY <1>1, <1>2, HandlerInvariant, QueryOwnsAcquisition, PathInvariant, PTL DEF Spec

\* The uint16_t countdowns of check_measured_value never wrap, whatever the
\* client changes while readings are taken (dmm.c).
THEOREM CountersStayLive ==
  ASSUME ~Threads, CountsSafe, BufLen < CountMod
  PROVE  Spec => []CountersLive
<1>1. LiveInv => CountersLive
  BY DEF LiveInv, Acquiring, CountersLive
<1>2. QED
  BY <1>1, LiveInvariant, PTL

-----------------------------------------------------------------------------
(* How many readings are due.                                              *)

\* The callbacks are interrupt handlers, settings are changed before the first
\* acquisition, none is refused for its range, and the counts fit their types:
\* uint16_t the counts, int their product, the record of a response the
\* readings.
Steady ==
  /\ ~Threads /\ ~Retunes /\ CountsSafe
  /\ BufLen < CountMod /\ BufLen * BufLen < IntMod /\ BufLen * BufLen <= MaxOut

\* Two counts within a bound have a product within its square.
LEMMA SquareBound ==
  ASSUME NEW n \in Nat, NEW a \in 0 .. n, NEW b \in 0 .. n
  PROVE  a * b \in 0 .. n * n
<1>1. a * b <= n * b /\ n * b <= n * n
  OBVIOUS
<1>2. QED
  BY <1>1

\* The product that INITiate admits is that of the counts, not a remainder.
LEMMA AdmittedProduct ==
  ASSUME Steady, LiveInv, InitAdmits
  PROVE  sample_count_num * trigger_count_num <= BufLen
<1> DEFINE p == sample_count_num * trigger_count_num
<1>1. sample_count_num \in 0 .. BufLen /\ trigger_count_num \in 0 .. BufLen
  BY SettingsAssumption DEF LiveInv, InitAdmits
<1>2. p \in 0 .. BufLen * BufLen
  BY <1>1, SquareBound, SettingsAssumption
<1>3. BufLen * BufLen \in Nat /\ IntMod \in Nat \ {0}
  BY SettingsAssumption
<1>4. p \in 0 .. IntMod - 1
  BY <1>2, <1>3 DEF Steady
<1>5. p % IntMod = p
  BY <1>3, <1>4
<1>6. p % IntMod <= BufLen
  BY Zenon DEF InitAdmits
<1>7. QED
  BY <1>5, <1>6

\* One more reading lessens those due by one.
LEMMA CountdownDue ==
  ASSUME Steady, LiveInv, DueInv, Acquiring, pc = "take",
         ~infinite_trigger_count, countdown, UNCHANGED counts
  PROVE  /\ Due' = Due - 1
         /\ sample_count' <= sample_count_num
<1>1. /\ sample_count \in 1 .. BufLen /\ Decrement(sample_count) = sample_count - 1
      /\ trigger_count \in 1 .. BufLen /\ Decrement(trigger_count) = trigger_count - 1
  BY DecrementDown DEF LiveInv, Steady
<1>2. /\ sample_count_num \in 1 .. BufLen /\ BufLen \in Nat
      /\ sample_count <= sample_count_num
  BY SettingsAssumption DEF LiveInv, DueInv
<1>3. CASE sample_count # 1
  BY <1>1, <1>2, <1>3 DEF countdown, Due, Goto, counts
<1>4. CASE sample_count = 1 /\ trigger_count # 1
  <2>1. /\ sample_count' = sample_count_num /\ trigger_count' = trigger_count - 1
        /\ pc' = "init_trigger"
    BY <1>1, <1>2, <1>4 DEF countdown, Goto
  <2>2. (trigger_count - 1 - 1) * sample_count_num + sample_count_num
          = (trigger_count - 1) * sample_count_num
    BY <1>1, <1>2
  <2>3. Due' = (trigger_count - 1 - 1) * sample_count_num + sample_count_num
    BY <2>1 DEF Due, counts
  <2>4. Due = (trigger_count - 1) * sample_count_num + 1
    BY <1>4 DEF Due
  <2>5. (trigger_count - 1) * sample_count_num \in Int
    BY <1>1, <1>2
  <2>6. QED
    BY <1>2, <2>1, <2>2, <2>3, <2>4, <2>5
<1>5. CASE sample_count = 1 /\ trigger_count = 1
  BY <1>1, <1>2, <1>5 DEF countdown, Due, Goto, counts
<1>6. QED
  BY <1>3, <1>4, <1>5

\* Some reading is due until the countdown has ended, and there is room for it.
LEMMA ReadingDue ==
  ASSUME Steady, TypeOK, LiveInv, DueInv, Acquiring, ~infinite_trigger_count
  PROVE  /\ requested \in 1 .. BufLen * BufLen
         /\ pc # "finish" => Due \in Nat \ {0} /\ Len(Delivered) < requested
<1>1. Len(buf) \in Nat /\ Len(output) \in Nat
  BY LenProperties DEF TypeOK, DataType
<1>2. sample_count_num \in 1 .. BufLen /\ trigger_count_num \in 1 .. BufLen
  BY DEF LiveInv
<1>3. requested = sample_count_num * trigger_count_num
  BY DEF DueInv
<1>4. requested \in 0 .. BufLen * BufLen
  BY <1>2, <1>3, SquareBound, SettingsAssumption
<1>5. requested # 0
  BY <1>2, <1>3, SettingsAssumption
<1>6. ASSUME pc # "finish"
      PROVE  Due \in Nat \ {0}
  <2>1. sample_count \in 1 .. BufLen /\ trigger_count \in 1 .. BufLen
    BY <1>6 DEF LiveInv
  <2>2. (trigger_count - 1) * sample_count_num \in Nat
    <3>1. trigger_count - 1 \in Nat /\ sample_count_num \in Nat
      BY <1>2, <2>1, SettingsAssumption
    <3>2. QED
      BY <3>1, ProductType
  <2>3. QED
    BY <1>6, <2>1, <2>2, SettingsAssumption DEF Due
<1>7. Len(Delivered) \in Nat
  BY <1>1 DEF Delivered
<1>8. requested = Len(Delivered) + Due
  BY DEF DueInv
<1>9. QED
  BY <1>4, <1>5, <1>6, <1>7, <1>8

\* The value taken is added to those delivered.
LEMMA TakeDelivers ==
  ASSUME Steady, TypeOK, LiveInv, DueInv, Acquiring, ~infinite_trigger_count, take
  PROVE  /\ Delivered' = Append(Delivered, Value)
         /\ countdown /\ UNCHANGED <<dst, requested>> /\ UNCHANGED counts
<1>1. Len(Delivered) < requested /\ requested \in 1 .. BufLen * BufLen
  BY ReadingDue DEF take, At
<1>2. BufLen \in Nat /\ BufLen * BufLen \in Nat /\ MaxOut \in Nat
  BY SettingsAssumption, DmmAssumption
<1>3. Len(buf) \in Nat /\ Len(output) \in Nat
  BY LenProperties DEF TypeOK, DataType
<1>4. UNCHANGED counts /\ UNCHANGED <<dst, requested>>
  BY DEF take, settings
<1>5. CASE dst = "BUF"
  <2>1. Len(buf) < BufLen
    BY <1>1, <1>2, <1>3, <1>5 DEF Delivered, DueInv
  <2>2. QED
    BY <1>4, <1>5, <2>1 DEF take, BufferHasRoom, Delivered
<1>6. CASE dst = "OUT"
  <2>1. Len(output) < MaxOut
    BY <1>1, <1>2, <1>3, <1>6 DEF Delivered, Steady
  <2>2. QED
    BY <1>4, <1>6, <2>1 DEF take, Delivered
<1>7. QED
  BY <1>5, <1>6 DEF take

\* A reading taken.
LEMMA TakeDue ==
  ASSUME Steady, TypeOK, HandlerInv, LiveInv, DueInv, take
  PROVE  DueInv'
<1>1. pc = "take" /\ state' = state /\ state # "IDLE" /\ Acquiring
  BY DEF take, At, shared, HandlerInv, PlaceInv, Acquiring
<1>2. cmds' = cmds /\ op' = op /\ cmds # 0
  <2>1. UNCHANGED <<cmds, op>>
    BY DEF take, history, countdown, Goto, Fail
  <2>2. QED
    BY <1>1, <2>1 DEF DueInv
<1>3. UNCHANGED <<dst, requested>> /\ UNCHANGED counts
  BY DEF take, settings
<1>4. CASE infinite_trigger_count
  <2>1. requested = 0 /\ dst = "OUT"
    BY <1>1, <1>4 DEF DueInv
  <2>2. pc' \in {"stamp_delay", "init_trigger"}
    BY <1>4, <2>1 DEF take, countdown, Goto
  <2>3. QED
    BY <1>2, <1>3, <1>4, <2>1, <2>2 DEF DueInv, counts
<1>5. CASE ~infinite_trigger_count
  <2>1. Delivered' = Append(Delivered, Value) /\ countdown
    BY <1>1, <1>5, TakeDelivers
  <2>2. Due' = Due - 1 /\ sample_count' <= sample_count_num
    BY <1>1, <1>3, <1>5, <2>1, CountdownDue
  <2>3. Len(Delivered') = Len(Delivered) + 1 /\ Len(Delivered) \in Nat
    <3>1. Delivered \in Seq(Readings)
      BY DEF TypeOK, DataType, Delivered
    <3>2. Value \in Readings
      BY DEF TypeOK, SharedType, Value, SCPIMM_OVERFLOW, Readings
    <3>3. QED
      BY <2>1, <3>1, <3>2, AppendProperties, LenProperties
  <2>4. Due \in Nat
    BY <1>1, <1>5, ReadingDue
  <2>5. pc' # "yield_fail"
    BY <2>1 DEF countdown, Goto
  <2>6. requested' = Len(Delivered') + Due'
    BY <1>1, <1>3, <1>5, <2>2, <2>3, <2>4 DEF DueInv
  <2>7. QED
    BY <1>1, <1>2, <1>3, <1>5, <2>2, <2>5, <2>6 DEF DueInv, counts
<1>6. QED
  BY <1>4, <1>5

\* An acquisition begins with all its readings due; a refused one changes nothing.
LEMMA InitiateDue ==
  ASSUME Steady, TypeOK, OwnedInv, PathInv, LiveInv, DueInv, initiate
  PROVE  DueInv'
<1>1. /\ pc = "initiate" /\ cmds' = cmds /\ cmds # 0
      /\ UNCHANGED <<state, output>> /\ UNCHANGED counts
  BY DEF initiate, At, shared, settings, DueInv, OwnedInv
<1>2. output = <<>>
  BY <1>1 DEF PathInv, Before, Stopping
<1>3. CASE op' = "none"
  <2>1. state' = state /\ pc' = "ready" /\ UNCHANGED tally
    BY <1>1, <1>3 DEF initiate, Reply, OwnedInv
  <2>2. QED
    BY <1>1, <2>1 DEF DueInv, Acquiring, Due, Delivered, tally, counts
<1>4. CASE op' # "none"
  <2>1. /\ state = "IDLE" /\ pc' = "init_trigger"
        /\ dst' = (IF op = "INIT" THEN "BUF" ELSE "OUT") /\ buf' = <<>>
        /\ sample_count' = sample_count_num /\ trigger_count' = trigger_count_num
        /\ requested' = IF infinite_trigger_count THEN 0
                          ELSE sample_count_num * trigger_count_num
        /\ op = "INIT" => InitAdmits
    BY <1>4 DEF initiate, Reply
  <2>2. Len(Delivered') = 0
    BY <1>1, <1>2, <2>1 DEF Delivered
  <2>3. ~infinite_trigger_count =>
          (trigger_count_num - 1) * sample_count_num + sample_count_num
            = sample_count_num * trigger_count_num
    BY SettingsAssumption DEF LiveInv
  <2>4. op = "INIT" => /\ ~infinite_trigger_count
                       /\ sample_count_num * trigger_count_num <= BufLen
    BY <2>1, AdmittedProduct DEF InitAdmits
  <2>5. ~infinite_trigger_count => requested' = Len(Delivered') + Due'
    <3>1. Due' = (trigger_count_num - 1) * sample_count_num + sample_count_num
      BY <1>1, <2>1 DEF Due, counts
    <3>2. ~infinite_trigger_count =>
            (trigger_count_num - 1) * sample_count_num + sample_count_num \in Int
      BY SettingsAssumption DEF LiveInv
    <3>3. QED
      BY <2>1, <2>2, <2>3, <3>1, <3>2
  <2>6. sample_count' <= sample_count_num'
    BY <1>1, <2>1, SettingsAssumption DEF LiveInv, counts
  <2>7. QED
    BY <1>1, <2>1, <2>4, <2>5, <2>6 DEF DueInv, counts
<1>5. QED
  BY <1>3, <1>4

\* A step that neither counts nor delivers.
LEMMA SameDue ==
  ASSUME DueInv,
         UNCHANGED <<sample_count_num, trigger_count_num, infinite_trigger_count,
                     dst, sample_count, trigger_count, buf, requested, cmds>>,
         Acquiring' => Acquiring /\ UNCHANGED output,
         pc # "finish", pc' # "finish",
         cmds = 0 => op' \in {"none", "yield"},
         pc' = "yield_fail" => err' # "INSUFFICIENT_MEMORY"
  PROVE  DueInv'
<1>1. Acquiring' => Delivered' = Delivered /\ Due' = Due
  BY DEF Delivered, Due
<1>2. QED
  BY <1>1 DEF DueInv

\* A step of the program.
LEMMA ProgramDue ==
  ASSUME Steady, TypeOK, HandlerInv, OwnedInv, PathInv, LiveInv, DueInv, Program
  PROVE  DueInv'
<1> DEFINE Simple ==
      /\ UNCHANGED <<sample_count_num, trigger_count_num, infinite_trigger_count,
                     dst, sample_count, trigger_count, buf, requested, cmds>>
      /\ Acquiring' => Acquiring /\ UNCHANGED output
      /\ pc # "finish" /\ pc' # "finish"
      /\ cmds = 0 => op' \in {"none", "yield"}
      /\ pc' = "yield_fail" => err' # "INSUFFICIENT_MEMORY"
<1>0. Simple => DueInv'
  BY SameDue
<1>1. cmds = 0 => ~Acquiring /\ op \in {"none", "yield"}
  BY DEF DueInv
<1>2. pc = "yield_fail" => err # "INSUFFICIENT_MEMORY"
  BY DEF DueInv
<1> USE DEF Acquiring, HandlerInv, PlaceInv, CallbackInv, OwnedInv, Before, Stopping,
            At, MainRuns, Goto, Fail, Reply, Wait, YieldReturns, Returns, Handle,
            ClockRead, tally, shared, callbacks, clock, reading, pulse_reading,
            settings, counts, history
<1>3. CASE Poll \/ get_milliseconds
  BY <1>0, <1>1, <1>2, <1>3 DEF Poll, get_milliseconds, ClockPlaces, control
<1>4. CASE init_trigger
  BY <1>0, <1>1, <1>2, <1>4 DEF init_trigger, TriggerDeadlock
<1>5. CASE stamp_delay
  BY <1>0, <1>1, <1>2, <1>5 DEF stamp_delay
<1>6. CASE enter_delay
  BY <1>0, <1>1, <1>2, <1>6 DEF enter_delay
<1>7. CASE init_fail
  BY <1>0, <1>1, <1>2, <1>7 DEF init_fail
<1>8. CASE trg
  BY <1>0, <1>1, <1>2, <1>8 DEF trg
<1>9. CASE wait_for_idle
  BY <1>0, <1>1, <1>2, <1>9 DEF wait_for_idle, Finished
<1>10. CASE idle_reply
  BY <1>0, <1>1, <1>2, <1>10 DEF idle_reply, Finished
<1>11. CASE yield
  BY <1>0, <1>1, <1>2, <1>11 DEF yield
<1>12. CASE check_trigger_delay
  BY <1>0, <1>1, <1>2, <1>12 DEF check_trigger_delay
<1>13. CASE start_measurement
  BY <1>0, <1>1, <1>2, <1>13 DEF start_measurement
<1>14. CASE stamp_measuring
  BY <1>0, <1>1, <1>2, <1>14 DEF stamp_measuring
<1>15. CASE enter_measuring
  BY <1>0, <1>1, <1>2, <1>15 DEF enter_measuring
<1>16. CASE start_measure
  BY <1>0, <1>1, <1>2, <1>16 DEF start_measure
<1>17. CASE in_hardware
  BY <1>0, <1>1, <1>2, <1>17 DEF in_hardware
<1>18. CASE check_measuring_timeout
  BY <1>0, <1>1, <1>2, <1>18 DEF check_measuring_timeout
<1>19. CASE take_type
  BY <1>0, <1>1, <1>2, <1>19 DEF take_type
<1>20. CASE yield_fail
  BY <1>0, <1>1, <1>2, <1>20 DEF yield_fail
<1>21. CASE stop_measurement
  BY <1>0, <1>1, <1>2, <1>21 DEF stop_measurement, StopPlace
<1>22. CASE stop_check
  BY <1>0, <1>1, <1>2, <1>22 DEF stop_check
<1>23. CASE stop_idle
  BY <1>0, <1>1, <1>2, <1>23 DEF stop_idle
<1>24. CASE finish \/ measure_preset
  <2>1. /\ ~Acquiring' /\ cmds' = cmds /\ pc' # "yield_fail"
        /\ cmds = 0 => op' \in {"none", "yield"}
    BY <1>1, <1>24 DEF finish, measure_preset, PathInv
  <2>2. QED
    BY <2>1 DEF DueInv
<1>25. CASE initiate \/ take
  BY <1>25, InitiateDue, TakeDue
<1>26. QED
  BY <1>3, <1>4, <1>5, <1>6, <1>7, <1>8, <1>9, <1>10, <1>11, <1>12, <1>13,
     <1>14, <1>15, <1>16, <1>17, <1>18, <1>19, <1>20, <1>21, <1>22, <1>23,
     <1>24, <1>25 DEF Program

\* Before the first command settings are changed, and nothing is acquired.
LEMMA ClientDue ==
  ASSUME Steady, TypeOK, OwnedInv, PathInv, DueInv, Client
  PROVE  DueInv'
<1>1. CASE Retune
  <2>1. /\ cmds = 0 /\ cmds' = 0 /\ ~Acquiring /\ op \in {"none", "yield"}
        /\ UNCHANGED <<op, state>> /\ pc = "ready" /\ pc' = "ready"
    BY <1>1 DEF Retune, Steady, At, shared, DueInv
  <2>2. QED
    BY <2>1 DEF DueInv, Acquiring
<1>2. ASSUME NEW c \in Commands, Receive(c)
      PROVE  DueInv'
  <2>1. pc' \in {"initiate", "wait", "trg", "stop"} /\ pc = "ready" /\ cmds' # 0
    BY <1>2, DmmAssumption DEF Receive, Entry, AllCommands, At, TypeOK, HistoryType
  <2>2. UNCHANGED <<state, sample_count_num, trigger_count_num, infinite_trigger_count,
                    dst, sample_count, trigger_count, buf, requested>>
    BY <1>2 DEF Receive, shared, tally, settings, counts
  <2>3. Acquiring' = Acquiring
    BY <2>1, <2>2 DEF Acquiring
  <2>4. Acquiring => Delivered' = Delivered /\ Due' = Due
    BY <2>1, <2>2, <2>3
    DEF Delivered, Due, OwnedInv, Before, Stopping, Acquiring, DueInv, TypeOK, DataType
  <2>5. QED
    BY <2>1, <2>2, <2>3, <2>4 DEF DueInv
<1>3. QED
  BY <1>1, <1>2 DEF Client

\* A handler and the clock leave the countdown alone.
LEMMA HandlerDue ==
  ASSUME ~Threads, HandlerInv, DueInv,
         answer \/ ReadValue \/ pulse \/ ExternalTrigger \/ Tick \/ UNCHANGED vars
  PROVE  DueInv'
<1>1. UNCHANGED <<sample_count_num, trigger_count_num, infinite_trigger_count, dst,
                  sample_count, trigger_count, buf, requested, cmds, output, op,
                  pc, err>>
  BY DEF answer, ReadValue, pulse, ExternalTrigger, Tick, vars, write_type, write_value,
     check_expected, commit, pulse_clock, pulse_stamp, pulse_enter, ReadValueAt,
     ExternalTriggerAt,
     settings, counts, tally, control, history
<1>2. Acquiring' = Acquiring
  BY <1>1
  DEF answer, ReadValue, pulse, ExternalTrigger, Tick, vars, write_type,
      write_value,
     check_expected, commit, pulse_clock, pulse_stamp, pulse_enter, ReadValueAt,
     ExternalTriggerAt,
     shared, Acquiring, HandlerInv, CallbackInv
<1>3. Delivered' = Delivered /\ Due' = Due
  BY <1>1 DEF Delivered, Due
<1>4. QED
  BY <1>1, <1>2, <1>3 DEF DueInv

\* What has been delivered and what check_measured_value still counts down make
\* up sample_count * trigger_count, or are without end (dmm.c).
THEOREM DueInvariant == ASSUME Steady PROVE Spec => []DueInv
<1>1. Init => DueInv
  BY DEF Init, DueInv, Acquiring
<1>2. /\ TypeOK /\ HandlerInv /\ OwnedInv /\ PathInv /\ LiveInv /\ DueInv
      /\ [Next]_vars
      => DueInv'
  BY ProgramDue, ClientDue, HandlerDue DEF Next, Steady
<1>3. ~Threads /\ CountsSafe /\ BufLen < CountMod
  BY DEF Steady
<1>4. Spec => []LiveInv
  BY <1>3, LiveInvariant
<1>5. Spec => []HandlerInv /\ []OwnedInv /\ []PathInv
  BY <1>3, HandlerInvariant, QueryOwnsAcquisition, PathInvariant
<1>6. QED
  BY <1>1, <1>2, <1>4, <1>5, TypeCorrect, PTL DEF Spec

\* store_value_in_buffer never fails in an acquisition that INITiate admitted
\* (dmm.c).
THEOREM AdmittedAcquisitionsFit == ASSUME Steady PROVE Spec => []AdmittedFits
<1>1. DueInv => AdmittedFits
  BY DEF DueInv, AdmittedFits
<1>2. QED
  BY <1>1, DueInvariant, PTL

-----------------------------------------------------------------------------
(* What is complete.                                                       *)

\* What a step has to show of the acquisitions that are over.
DoneStepOK ==
  /\ DoneInv'
  /\ op \in {"READ", "MEAS"} /\ op' = "none" /\ result' = "OK"
       => Len(output') = requested
  /\ op = "FETCH" /\ op' = "none" /\ result' = "OK"
       => Len(output') = requested \/ reported

\* A step of the program: finish alone ends an acquisition without an error.
LEMMA ProgramDone ==
  ASSUME Steady, HandlerInv, OwnedInv, PathInv, DueInv, DoneInv, Program
  PROVE  DoneStepOK
<1>0. ~Threads
  BY DEF Steady
<1> USE <1>0 DEF DoneStepOK, DoneInv, Acquiring, PathInv, OwnedInv, Before, Stopping,
            HandlerInv, PlaceInv, CallbackInv, ErrorImpliesIdle,
            At, MainRuns, Goto, Fail, Reply, Wait, YieldReturns, Returns, Handle,
            ClockRead, tally, shared, callbacks, clock, reading, pulse_reading,
            settings, trigger, history
<1>1. CASE Poll \/ get_milliseconds
  BY <1>1 DEF Poll, get_milliseconds, control
<1>2. CASE initiate
  BY <1>2 DEF initiate
<1>3. CASE init_trigger
  BY <1>3 DEF init_trigger, TriggerDeadlock
<1>4. CASE stamp_delay
  BY <1>4 DEF stamp_delay
<1>5. CASE enter_delay
  BY <1>5 DEF enter_delay
<1>6. CASE init_fail
  BY <1>6 DEF init_fail
<1>7. CASE trg
  BY <1>7 DEF trg
<1>8. CASE wait_for_idle
  BY <1>8 DEF wait_for_idle, Finished
<1>9. CASE idle_reply
  BY <1>9 DEF idle_reply, Finished
<1>10. CASE yield
  BY <1>10 DEF yield
<1>11. CASE check_trigger_delay
  BY <1>11 DEF check_trigger_delay
<1>12. CASE start_measurement
  BY <1>12 DEF start_measurement
<1>13. CASE stamp_measuring
  BY <1>13 DEF stamp_measuring
<1>14. CASE enter_measuring
  BY <1>14 DEF enter_measuring
<1>15. CASE start_measure
  BY <1>15 DEF start_measure
<1>16. CASE in_hardware
  BY <1>16 DEF in_hardware
<1>17. CASE check_measuring_timeout
  BY <1>17 DEF check_measuring_timeout
<1>18. CASE take_type
  BY <1>18 DEF take_type
<1>19. CASE take
  BY <1>19 DEF take, countdown
<1>20. CASE finish
  BY <1>20 DEF finish, DueInv, Due, Delivered
<1>21. CASE yield_fail
  BY <1>21 DEF yield_fail
<1>22. CASE stop_measurement
  BY <1>22 DEF stop_measurement, StopPlace
<1>23. CASE stop_check
  BY <1>23 DEF stop_check
<1>24. CASE stop_idle
  BY <1>24 DEF stop_idle
<1>25. CASE measure_preset
  BY <1>25 DEF measure_preset, PresetSettings
<1>26. QED
  BY <1>1, <1>2, <1>3, <1>4, <1>5, <1>6, <1>7, <1>8, <1>9, <1>10, <1>11, <1>12,
     <1>13, <1>14, <1>15, <1>16, <1>17, <1>18, <1>19, <1>20, <1>21, <1>22,
     <1>23, <1>24, <1>25 DEF Program

\* A command takes nothing away from the acquisition that is over.
LEMMA ClientDone ==
  ASSUME Steady, DueInv, DoneInv, Client
  PROVE  DoneStepOK
<1> USE DEF DoneStepOK, DoneInv, Acquiring, Before, Stopping, At, tally, shared
<1>1. CASE Retune
  BY <1>1 DEF Retune, DueInv, history
<1>2. ASSUME NEW c \in Commands, Receive(c)
      PROVE  DoneStepOK
  <2>1. c \in AllCommands
    BY DmmAssumption
  <2>2. /\ pc' \in {"initiate", "wait", "trg", "stop"}
        /\ c \in {"READ", "MEAS"} => pc' \in Before
    BY <1>2, <2>1 DEF Receive, Entry, AllCommands
  <2>3. op' # "none"
    BY <1>2, <2>1 DEF Receive, AllCommands
  <2>4. QED
    BY <1>2, <2>2, <2>3 DEF Receive
<1>3. QED
  BY <1>1, <1>2 DEF Client

\* A handler ends no acquisition.
LEMMA HandlerDone ==
  ASSUME Steady, HandlerInv, DoneInv,
         answer \/ ReadValue \/ pulse \/ ExternalTrigger \/ Tick \/ UNCHANGED vars
  PROVE  DoneStepOK
<1>0. ~Threads
  BY DEF Steady
<1> USE <1>0 DEF DoneStepOK, DoneInv, Acquiring, Before, Stopping, HandlerInv, PlaceInv,
            CallbackInv,
            ReadValueAt, ReadValueGoes, ExternalTriggerAt, ClockRead, tally,
            control, shared, history
<1>1. CASE answer \/ Tick \/ UNCHANGED vars
  BY <1>1 DEF answer, Tick, vars
<1>2. CASE ReadValue
  BY <1>2 DEF ReadValue, write_type, write_value, check_expected, commit
<1>3. CASE pulse \/ ExternalTrigger
  BY <1>3 DEF ExternalTrigger, pulse, pulse_clock, pulse_stamp, pulse_enter
<1>4. QED
  BY <1>1, <1>2, <1>3

\* Every step.
LEMMA NextDone ==
  ASSUME Steady, HandlerInv, OwnedInv, PathInv, DueInv, DoneInv, [Next]_vars
  PROVE  DoneStepOK
  BY ProgramDone, ClientDone, HandlerDone DEF Next

\* When an acquisition is over without an error, what it asked for is in its
\* response or in the buffer, and stays there (dmm.c).
THEOREM DoneInvariant == ASSUME Steady PROVE Spec => []DoneInv
<1>1. Init => DoneInv
  BY DEF Init, DoneInv, Acquiring
<1>2. HandlerInv /\ OwnedInv /\ PathInv /\ DueInv /\ DoneInv /\ [Next]_vars => DoneInv'
  BY NextDone DEF DoneStepOK
<1>3. ~Threads
  BY DEF Steady
<1>4. Spec => []HandlerInv /\ []OwnedInv /\ []PathInv
  BY <1>3, HandlerInvariant, QueryOwnsAcquisition, PathInvariant
<1>5. QED
  BY <1>1, <1>2, <1>4, DueInvariant, PTL DEF Spec

\* A READ? or MEASure? that reports no error has sent as many readings as were
\* asked for (SCPIMM_read, measure.c).
THEOREM ReadsAreComplete == ASSUME Steady PROVE Spec => ReadComplete
<1> DEFINE Complete == op \in {"READ", "MEAS"} /\ op' = "none" /\ result' = "OK"
                         => Len(output') = requested
<1>1. ~Threads
  BY DEF Steady
<1>2. HandlerInv /\ OwnedInv /\ PathInv /\ DueInv /\ DoneInv /\ [Next]_vars
        => [Complete]_vars
  BY NextDone DEF DoneStepOK
<1>3. Spec => []HandlerInv /\ []OwnedInv /\ []PathInv
  BY <1>1, HandlerInvariant, QueryOwnsAcquisition, PathInvariant
<1>4. QED
  BY <1>2, <1>3, DueInvariant, DoneInvariant, PTL DEF Spec, ReadComplete

\* A FETCh? that reports no error sends as many readings as were asked for, or
\* an earlier query has told why not (SCPIMM_fetch).
THEOREM FetchesAreComplete == ASSUME Steady PROVE Spec => FetchComplete
<1> DEFINE Complete == op = "FETCH" /\ op' = "none" /\ result' = "OK"
                         => Len(output') = requested \/ reported
<1>1. ~Threads
  BY DEF Steady
<1>2. HandlerInv /\ OwnedInv /\ PathInv /\ DueInv /\ DoneInv /\ [Next]_vars
        => [Complete]_vars
  BY NextDone DEF DoneStepOK
<1>3. Spec => []HandlerInv /\ []OwnedInv /\ []PathInv
  BY <1>1, HandlerInvariant, QueryOwnsAcquisition, PathInvariant
<1>4. QED
  BY <1>2, <1>3, DueInvariant, DoneInvariant, PTL DEF Spec, FetchComplete

-----------------------------------------------------------------------------
(* The abstract acquisition.                                               *)

\* A step of the state machine, seen from the abstract acquisition.
AbstractStep == Abstract!Next \/ UNCHANGED Abstract!vars

\* The abstract acquisition starts idle, too.
LEMMA InitAbstract == Init => Abstract!Init
  BY DEF Init, Abstract!Init, Phase, Delivered, Failed, Stopping

\* Until the countdown is over, a reading is missing.
LEMMA ReadingMissing ==
  ASSUME Steady, TypeOK, LiveInv, DueInv, Acquiring, pc # "finish"
  PROVE  requested = 0 \/ Len(Delivered) < requested
  BY ReadingDue DEF DueInv

\* When the countdown is over, none is.
LEMMA LastDelivered ==
  ASSUME Steady, TypeOK, LiveInv, DueInv, Acquiring, pc = "finish"
  PROVE  requested # 0 /\ Len(Delivered) = requested
<1>1. ~infinite_trigger_count
  BY DEF DueInv
<1>2. requested \in 1 .. BufLen * BufLen
  BY <1>1, ReadingDue
<1>3. requested = Len(Delivered) + 0
  BY <1>1 DEF DueInv, Due
<1>4. Len(Delivered) \in Nat
  BY LenProperties DEF TypeOK, DataType, Delivered
<1>5. QED
  BY <1>2, <1>3, <1>4, SettingsAssumption

\* INITiate, READ? and MEASure? start the abstract acquisition.
LEMMA InitiateStarts ==
  ASSUME PathInv, LiveInv, initiate
  PROVE  AbstractStep
<1>1. pc = "initiate" /\ output' = output /\ output = <<>> /\ state' = state
  BY DEF initiate, At, PathInv, Before, Stopping, shared
<1>2. CASE pc' = "init_trigger"
  <2>1. /\ state = "IDLE" /\ frame' = "initiate"
        /\ measurement_error' = "OK" /\ buf' = <<>>
        /\ requested' = IF infinite_trigger_count THEN 0
                        ELSE sample_count_num * trigger_count_num
    BY <1>2 DEF initiate, Reply
  <2>2. requested' \in Nat
    <3>1. CASE infinite_trigger_count
      BY <2>1, <3>1
    <3>2. CASE ~infinite_trigger_count
      <4>1. sample_count_num \in Nat /\ trigger_count_num \in Nat
        BY <3>2, SettingsAssumption DEF LiveInv
      <4>2. QED
        BY <2>1, <3>2, <4>1, ProductType
    <3>3. QED
      BY <3>1, <3>2
  <2>3. QED
    BY <1>1, <1>2, <2>1, <2>2
    DEF AbstractStep, Abstract!Next, Abstract!Start, Phase, Delivered, Failed,
        Stopping, PathInv
<1>3. CASE pc' # "init_trigger"
  BY <1>1, <1>3
  DEF initiate, Reply, AbstractStep, Abstract!vars, Phase, Delivered, Failed,
      Stopping, PathInv, tally
<1>4. QED
  BY <1>2, <1>3

\* What Append adds, and what it keeps.
LEMMA AppendOne ==
  ASSUME NEW S, NEW s \in Seq(S), NEW e \in S
  PROVE  Len(Append(s, e)) = Len(s) + 1 /\ SubSeq(Append(s, e), 1, Len(s)) = s
  OBVIOUS

\* check_measured_value delivers one reading.
LEMMA TakeAdds ==
  ASSUME Steady, TypeOK, HandlerInv, PathInv, LiveInv, DueInv, take
  PROVE  AbstractStep
<1>1. /\ pc = "take" /\ state' = state /\ state = "MEASURED" /\ Acquiring
      /\ measurement_error' = measurement_error /\ requested' = requested /\ dst' = dst
  BY DEF take, At, shared, HandlerInv, PlaceInv, Acquiring
<1>2. /\ Phase = "busy" /\ Phase' = "busy" /\ Failed' = Failed
      /\ pc \notin Stopping /\ pc' \notin Stopping
  <2>1. frame = "yield" /\ frame' = "yield"
          /\ pc' \in {"stamp_delay", "init_trigger", "finish", "yield_fail"}
    BY <1>1 DEF take, countdown, Goto, Fail, HandlerInv, PlaceInv
  <2>2. QED
    BY <1>1, <2>1 DEF Phase, Failed, Stopping
<1>3. Delivered \in Seq(Readings) /\ Value \in Readings
  BY DEF TypeOK, DataType, SharedType, Delivered, Value, SCPIMM_OVERFLOW, Readings
<1>4. CASE Delivered' = Append(Delivered, Value)
  <2>1. requested = 0 \/ Len(Delivered) < requested
    BY <1>1, ReadingMissing
  <2>2. QED
    BY <1>1, <1>2, <1>3, <1>4, <2>1, AppendOne
    DEF AbstractStep, Abstract!Next, Abstract!Deliver, Abstract!Missing
<1>5. CASE Delivered' = Delivered
  BY <1>1, <1>2, <1>5 DEF AbstractStep, Abstract!vars
<1>6. QED
  BY <1>4, <1>5 DEF take, Delivered

\* A step of the program.
LEMMA ProgramRefines ==
  ASSUME Steady, TypeOK, HandlerInv, OwnedInv, PathInv, LiveInv, DueInv, Program
  PROVE  AbstractStep
<1>0. ~Threads
  BY DEF Steady
<1> USE <1>0 DEF AbstractStep, Abstract!Next, Abstract!vars,
            Abstract!Pull, Abstract!Arm, Abstract!Missing, Abstract!Complete,
            Abstract!Fault, Abstract!Refuse, Abstract!Break, Abstract!Abort,
            Abstract!Stopped, Abstract!Forget, Abstract!Report,
            Phase, Delivered, Failed, Stopping, Before, Acquiring, PathInv,
            HandlerInv, PlaceInv,
            CallbackInv, ErrorImpliesIdle,
            At, MainRuns, Goto, Fail, Reply, Wait, YieldReturns, Returns, Handle,
            ClockRead, tally, shared, callbacks, clock, reading, pulse_reading,
            settings, trigger, history
<1>1. CASE Poll \/ get_milliseconds
  BY <1>1 DEF Poll, get_milliseconds, control
<1>2. CASE initiate
  BY <1>2, InitiateStarts
<1>3. CASE init_trigger
  BY <1>3, ReadingMissing DEF init_trigger, TriggerDeadlock
<1>4. CASE stamp_delay
  BY <1>4 DEF stamp_delay
<1>5. CASE enter_delay
  BY <1>5 DEF enter_delay
<1>6. CASE init_fail
  BY <1>6 DEF init_fail
<1>7. CASE trg
  BY <1>7 DEF trg
<1>8. CASE wait_for_idle
  BY <1>8 DEF wait_for_idle, Finished
<1>9. CASE idle_reply
  BY <1>9 DEF idle_reply, Finished
<1>10. CASE yield
  BY <1>10 DEF yield
<1>11. CASE check_trigger_delay
  BY <1>11 DEF check_trigger_delay
<1>12. CASE start_measurement
  BY <1>12 DEF start_measurement
<1>13. CASE stamp_measuring
  BY <1>13 DEF stamp_measuring
<1>14. CASE enter_measuring
  BY <1>14 DEF enter_measuring
<1>15. CASE start_measure
  BY <1>15 DEF start_measure
<1>16. CASE in_hardware
  BY <1>16 DEF in_hardware
<1>17. CASE check_measuring_timeout
  BY <1>17 DEF check_measuring_timeout
<1>18. CASE take_type
  BY <1>18 DEF take_type
<1>19. CASE take
  BY <1>19, TakeAdds
<1>20. CASE finish
  BY <1>20, LastDelivered DEF finish
<1>21. CASE yield_fail
  BY <1>21 DEF yield_fail
<1>22. CASE stop_measurement
  BY <1>22 DEF stop_measurement, StopPlace
<1>23. CASE stop_check
  BY <1>23 DEF stop_check
<1>24. CASE stop_idle
  BY <1>24 DEF stop_idle
<1>25. CASE measure_preset
  BY <1>25 DEF measure_preset, PresetSettings
<1>26. QED
  BY <1>1, <1>2, <1>3, <1>4, <1>5, <1>6, <1>7, <1>8, <1>9, <1>10, <1>11, <1>12,
     <1>13, <1>14, <1>15, <1>16, <1>17, <1>18, <1>19, <1>20, <1>21, <1>22,
     <1>23, <1>24, <1>25 DEF Program

\* A command opens its response, and may forget the last one.
LEMMA ClientRefines ==
  ASSUME Steady, TypeOK, OwnedInv, PathInv, DueInv, Client
  PROVE  AbstractStep
<1> USE DEF AbstractStep, Abstract!Next, Abstract!vars, Abstract!Forget,
            Abstract!Stop, Phase, Delivered, Failed, At, tally, shared, PathInv,
            OwnedInv, Before, Stopping
<1>1. CASE Retune
  BY <1>1 DEF Retune
<1>2. ASSUME NEW c \in Commands, Receive(c)
      PROVE  AbstractStep
  <2>1. pc' \in {"initiate", "wait", "trg", "stop"}
    BY <1>2, DmmAssumption DEF Receive, Entry, AllCommands
  <2>2. dst \in {"BUF", "OUT"}
    BY DEF TypeOK, DataType
  <2>3. QED
    BY <1>2, <2>1, <2>2 DEF Receive
<1>3. QED
  BY <1>1, <1>2 DEF Client

\* A handler pulls the trigger, or is not seen.
LEMMA HandlerRefines ==
  ASSUME Steady, HandlerInv,
         answer \/ ReadValue \/ pulse \/ ExternalTrigger \/ Tick \/ UNCHANGED vars
  PROVE  AbstractStep
<1>0. ~Threads
  BY DEF Steady
<1> USE <1>0 DEF AbstractStep, Abstract!Next, Abstract!vars, Abstract!Pull,
            Phase, Delivered, Failed, Stopping, HandlerInv, PlaceInv, CallbackInv,
            ReadValueAt, ReadValueGoes, ExternalTriggerAt, ClockRead, tally,
            control, shared
<1>1. CASE answer \/ Tick \/ UNCHANGED vars
  BY <1>1 DEF answer, Tick, vars
<1>2. CASE ReadValue
  BY <1>2 DEF ReadValue, write_type, write_value, check_expected, commit
<1>3. CASE pulse \/ ExternalTrigger
  BY <1>3 DEF ExternalTrigger, pulse, pulse_clock, pulse_stamp, pulse_enter
<1>4. QED
  BY <1>1, <1>2, <1>3

\* The state machine, its callbacks and its wait loops implement the abstract
\* acquisition: it ends with every reading there, with an error that is kept for
\* the client, or because the client asked for it (*RST, CONFigure, MEASure?), and
\* in no other way; a READ? of TRIGger:COUNt INFinity is never complete (dmm.c).
THEOREM AcquisitionRefined == ASSUME Steady PROVE Spec => ImplementsAcquisition
<1>1. Init => Abstract!Init
  BY InitAbstract
<1>2. /\ TypeOK /\ HandlerInv /\ OwnedInv /\ PathInv /\ LiveInv /\ DueInv
      /\ [Next]_vars
      => [Abstract!Next]_(Abstract!vars)
  BY ProgramRefines, ClientRefines, HandlerRefines DEF Next, AbstractStep
<1>3. ~Threads /\ CountsSafe /\ BufLen < CountMod
  BY DEF Steady
<1>4. Spec => []LiveInv
  BY <1>3, LiveInvariant
<1>5. Spec => []HandlerInv /\ []OwnedInv /\ []PathInv
  BY <1>3, HandlerInvariant, QueryOwnsAcquisition, PathInvariant
<1>6. QED
  BY <1>1, <1>2, <1>4, <1>5, TypeCorrect, DueInvariant, PTL
  DEF Spec, ImplementsAcquisition, Abstract!Spec
=============================================================================
