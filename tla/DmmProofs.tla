----------------------------- MODULE DmmProofs ------------------------------
(***************************************************************************)
(* Proofs, for every value of the constants, of the type invariant of the  *)
(* measurement state machine and of the properties of its state and its    *)
(* error that do not depend on how the hardware behaves.                   *)
(***************************************************************************)
EXTENDS DmmProperties, SequenceTheorems, TLAPS

-----------------------------------------------------------------------------
(* Arithmetic.                                                             *)

\* The clock and the counters have a modulus.
LEMMA Moduli == TimeMod \in Nat \ {0} /\ CountMod \in Nat \ {0}
  BY DmmAssumption

\* A remainder is a number below its divisor.
LEMMA Remainder ==
  ASSUME NEW a \in Nat, NEW b \in Nat \ {0}
  PROVE  a % b \in 0 .. b - 1
  OBVIOUS

\* A countdown in uint16_t yields a number, at zero too.
LEMMA DecrementType == ASSUME NEW n \in Nat PROVE Decrement(n) \in Nat
<1>1. n + CountMod - 1 \in Nat
  BY Moduli
<1>2. QED
  BY <1>1, Moduli, Remainder DEF Decrement

\* The number of readings asked for is a number.
LEMMA ProductType == ASSUME NEW a \in Nat, NEW b \in Nat PROVE a * b \in Nat
  OBVIOUS

-----------------------------------------------------------------------------
(* Type correctness.                                                       *)

\* The zeroed context, and the settings of SCPIMM_init.
LEMMA InitTypes == Init => TypeOK
<1> SUFFICES ASSUME Init PROVE TypeOK
  OBVIOUS
<1> USE DEF Init
<1>1. SettingsType
  BY SettingsAssumption DEF SettingsType, SettingsInit, Sources
<1>2. ControlType
  BY DEF ControlType, SettingsInit, Places, Errors
<1>3. SharedType
  BY DmmAssumption DEF SharedType, States, Types, Unset, Readings
<1>4. DataType
  BY DEF DataType, Errors, Types
<1>5. CallbackType
  BY DEF CallbackType, NoAnswer, Unset, Readings
<1>6. ClockType
  BY DmmAssumption DEF ClockType, NotRead
<1>7. HistoryType
  BY DEF HistoryType
<1>8. FlagType
  BY DEF FlagType, SettingsInit
<1>9. QED
  BY <1>1, <1>2, <1>3, <1>4, <1>5, <1>6, <1>7, <1>8 DEF TypeOK

\* What SAMPle, TRIGger and the preset store has the type of a setting.
LEMMA SettingsTypes ==
  ASSUME SettingsType, SettingsCommand \/ PresetSettings \/ UNCHANGED settings
  PROVE  SettingsType'
<1> USE SettingsAssumption DEF SettingsType
<1>1. CASE SettingsCommand
  <2>1. ASSUME NEW a \in CountArgs, SCPIMM_sample_count(a)
        PROVE  SettingsType'
    BY <2>1 DEF SCPIMM_sample_count, InCountRange, CountOf, trigger, Param, Truncate
  <2>2. ASSUME NEW a \in CountArgs, SCPIMM_trigger_count(a)
        PROVE  SettingsType'
    BY <2>2 DEF SCPIMM_trigger_count, InCountRange, CountOf, trigger, Param, Truncate
  <2>3. ASSUME NEW src \in Sources, SCPIMM_trigger_source(src)
        PROVE  SettingsType'
    BY <2>3 DEF SCPIMM_trigger_source, counts
  <2>4. ASSUME NEW a \in DelayArgs, SCPIMM_trigger_delay(a)
        PROVE  SettingsType'
    BY <2>4 DEF SCPIMM_trigger_delay, InDelayRange, DelayOf, counts, Param
  <2>5. ASSUME NEW b \in AutoArgs, SCPIMM_trigger_delay_auto(b)
        PROVE  SettingsType'
    BY <2>5 DEF SCPIMM_trigger_delay_auto, counts
  <2>6. QED
    BY <1>1, <2>1, <2>2, <2>3, <2>4, <2>5 DEF SettingsCommand
<1>2. CASE PresetSettings
  <2>1. sample_count_num' \in Nat /\ trigger_count_num' \in Nat
    BY <1>2 DEF PresetSettings
  <2>2. trigger_src' \in Sources /\ trigger_delay' \in 0 .. MaxDelay
    BY <1>2 DEF PresetSettings, Sources
  <2>3. QED
    BY <2>1, <2>2
<1>3. CASE UNCHANGED settings
  BY <1>3 DEF settings, counts, trigger
<1>4. QED
  BY <1>1, <1>2, <1>3

\* Only the settings commands and the preset change a setting.
LEMMA SettingsFrame ==
  ASSUME [Next]_vars
  PROVE  SettingsCommand \/ PresetSettings \/ UNCHANGED settings
  BY DEF Next, vars, Program, Client, ReadValue, ExternalTrigger, Poll,
     get_milliseconds,
     initiate, init_trigger, stamp_delay, enter_delay, init_fail, trg,
     wait_for_idle, idle_reply, yield, check_trigger_delay, start_measurement,
     stamp_measuring, enter_measuring, start_measure, in_hardware,
     check_measuring_timeout, take_type, take, finish, yield_fail,
     stop_measurement, stop_check, stop_idle, measure_preset, Retune, Receive,
     answer, ReadValueAt, write_type, write_value, check_expected, commit,
     pulse, ExternalTriggerAt, pulse_clock, pulse_stamp, pulse_enter, Tick

\* The Boolean variables, which the SMT backend wants apart from the others.
LEMMA FlagTypes == ASSUME FlagType, [Next]_vars PROVE FlagType'
<1>1. infinite_trigger_count' \in BOOLEAN /\ trigger_auto_delay' \in BOOLEAN
  <2>1. CASE SettingsCommand
    BY <2>1, SettingsAssumption
    DEF SettingsCommand, FlagType, SCPIMM_sample_count, SCPIMM_trigger_count,
        SCPIMM_trigger_source, SCPIMM_trigger_delay,
        SCPIMM_trigger_delay_auto, counts, trigger
  <2>2. CASE PresetSettings
    BY <2>2 DEF PresetSettings
  <2>3. CASE UNCHANGED settings
    BY <2>3 DEF settings, counts, trigger, FlagType
  <2>4. QED
    BY <2>1, <2>2, <2>3, SettingsFrame
<1>2. reported' \in BOOLEAN
  <2>1. CASE initiate
    BY <2>1 DEF initiate, FlagType
  <2>2. CASE idle_reply
    BY <2>2 DEF idle_reply, FlagType
  <2>3. CASE UNCHANGED reported
    BY <2>3 DEF FlagType
  <2>4. initiate \/ idle_reply \/ UNCHANGED reported
    BY DEF Next, vars, history, Program, Client, ReadValue, ExternalTrigger,
     Poll, get_milliseconds, init_trigger, stamp_delay, enter_delay, init_fail, trg,
     wait_for_idle, yield, check_trigger_delay, start_measurement,
     stamp_measuring, enter_measuring, start_measure, in_hardware,
     check_measuring_timeout, take_type, take, finish, yield_fail,
     stop_measurement, stop_check, stop_idle, measure_preset, Retune, Receive,
     answer, ReadValueAt, write_type, write_value, check_expected, commit,
     pulse, ExternalTriggerAt, pulse_clock, pulse_stamp, pulse_enter, Tick
  <2>5. QED
    BY <2>1, <2>2, <2>3, <2>4
<1>3. QED
  BY <1>1, <1>2 DEF FlagType

\* The parts of TypeOK that are not settings or flags.
MachineType == /\ ControlType /\ SharedType /\ DataType
               /\ CallbackType /\ ClockType /\ HistoryType

\* A command that changes nothing but the place, its counter and the response.
LEMMA ReceiveTypes ==
  ASSUME MachineType, NEW c \in Commands, Receive(c)
  PROVE  MachineType'
<1> USE DEF MachineType
<1>1. c \in AllCommands
  BY DmmAssumption
<1>2. Entry[c] \in Places
  BY <1>1 DEF Entry, AllCommands, Places
<1>3. ControlType'
  BY <1>1, <1>2 DEF Receive, ControlType
<1>4. (SharedType /\ DataType /\ CallbackType /\ ClockType /\ HistoryType)'
  BY DEF Receive, SharedType, DataType, CallbackType, ClockType, HistoryType,
         shared, tally, callbacks, clock, reading, pulse_reading
<1>5. QED
  BY <1>3, <1>4

\* The result of a settings command is an error the library knows.
LEMMA RetuneTypes == ASSUME MachineType, Retune PROVE MachineType'
<1> USE DEF MachineType
<1>1. result' \in Errors
  BY DEF Retune, SettingsCommand, SCPIMM_sample_count, SCPIMM_trigger_count,
         SCPIMM_trigger_source, SCPIMM_trigger_delay,
         SCPIMM_trigger_delay_auto, Errors
<1>2. ControlType'
  BY <1>1 DEF Retune, ControlType
<1>3. (SharedType /\ DataType /\ CallbackType /\ ClockType)'
  BY DEF Retune, SharedType, DataType, CallbackType, ClockType, shared, tally,
         callbacks, clock, reading, pulse_reading
<1>4. HistoryType'
  BY DEF Retune, HistoryType, tally
<1>5. QED
  BY <1>2, <1>3, <1>4

\* The acquisition starts from the settings.
LEMMA InitiateTypes ==
  ASSUME SettingsType, MachineType, initiate
  PROVE  MachineType'
<1> USE DEF MachineType
<1>1. ControlType'
  BY DEF initiate, ControlType, Reply, Places, Errors
<1>2. DataType'
  <2>1. sample_count' \in Nat /\ trigger_count' \in Nat
    BY DEF initiate, DataType, SettingsType, tally
  <2>2. buf' \in Seq(Readings) /\ output' \in Seq(Readings)
    <3>1. buf' = <<>> \/ buf' = buf
      BY DEF initiate, tally
    <3>2. output' = output
      BY DEF initiate
    <3>3. {<<>>, buf, output} \subseteq Seq(Readings)
      BY DEF DataType
    <3>4. QED
      BY <3>1, <3>2, <3>3, Zenon
  <2>3. dst' \in {"BUF", "OUT"}
    BY DEF initiate, DataType, tally, ControlType, AllCommands
  <2>4. measurement_error' \in Errors /\ got' \in Types
    BY DEF initiate, DataType, tally, Errors
  <2>5. QED
    BY <2>1, <2>2, <2>3, <2>4 DEF DataType
<1>3. HistoryType'
  BY ProductType DEF initiate, HistoryType, SettingsType, tally
<1>4. (SharedType /\ CallbackType /\ ClockType)'
  BY DEF initiate, SharedType, CallbackType, ClockType, shared, callbacks, clock,
     reading, pulse_reading
<1>5. QED
  BY <1>1, <1>2, <1>3, <1>4

\* The hardware is asked for a reading by its name.
LEMMA StartMeasureTypes == ASSUME MachineType, start_measure PROVE MachineType'
<1> USE DEF MachineType
<1>1. NextReading \in Readings
  BY DEF NextReading, Readings, Delivered, DataType, HistoryType
<1>2. hw' \in Seq(Readings)
  BY <1>1 DEF start_measure, CallbackType
<1>3. read_value' \in [pc : {"idle", "type", "value", "check", "commit"},
                       value : Readings, kind : {"NUM", "NAN"}]
  <2>1. CASE read_value' = read_value
    BY <2>1 DEF CallbackType
  <2>2. ASSUME NEW k \in Kinds,
               read_value' = [pc |-> "type", value |-> NextReading, kind |-> k]
        PROVE  read_value' \in [pc : {"idle", "type", "value", "check", "commit"},
                                value : Readings, kind : {"NUM", "NAN"}]
    <3>1. k \in {"NUM", "NAN"}
      BY DmmAssumption
    <3>2. QED
      BY <1>1, <2>2, <3>1
  <2>3. QED
    BY <2>1, <2>2 DEF start_measure
<1>4. CallbackType'
  BY <1>2, <1>3 DEF start_measure, CallbackType
<1>5. ControlType'
  BY DEF start_measure, ControlType, Goto, Fail, YieldReturns, Reply, Wait,
         Places, Errors
<1>6. (SharedType /\ DataType /\ ClockType /\ HistoryType)'
  BY DEF start_measure, SharedType, DataType, ClockType, HistoryType, shared,
         tally, clock, reading, pulse_reading, history
<1>7. QED
  BY <1>4, <1>5, <1>6

\* A reading is stored or sent and the counts go down.
LEMMA TakeTypes == ASSUME SettingsType, MachineType, take PROVE MachineType'
<1> USE DEF MachineType
<1>1. Value \in Readings
  BY DEF Value, SharedType, SCPIMM_OVERFLOW, Readings
<1>2. buf' \in Seq(Readings) /\ output' \in Seq(Readings)
  <2>1. buf' = buf \/ buf' = Append(buf, Value)
    BY DEF take
  <2>2. output' = output \/ output' = Append(output, Value)
    BY DEF take
  <2>3. {buf, output, Append(buf, Value), Append(output, Value)}
          \subseteq Seq(Readings)
    BY <1>1 DEF DataType
  <2>4. QED
    BY <2>1, <2>2, <2>3, Zenon
<1>3. sample_count' \in Nat /\ trigger_count' \in Nat
  <2>1. Decrement(sample_count) \in Nat /\ Decrement(trigger_count) \in Nat
    BY DecrementType DEF DataType
  <2>2. QED
    BY <2>1 DEF take, countdown, DataType, SettingsType
<1>4. DataType'
  BY <1>2, <1>3 DEF take, DataType, Types
<1>5. ControlType'
  BY DEF take, ControlType, countdown, Goto, Fail, Places, Errors
<1>6. (SharedType /\ CallbackType /\ ClockType /\ HistoryType)'
  BY DEF take, SharedType, CallbackType, ClockType, HistoryType, shared,
         callbacks, clock, reading, pulse_reading, history
<1>7. QED
  BY <1>4, <1>5, <1>6

\* The callback is entered with the oldest answer.
LEMMA AnswerTypes == ASSUME MachineType, answer PROVE MachineType'
<1> USE DEF MachineType
<1>1. Head(hw) \in Readings /\ Tail(hw) \in Seq(Readings)
  BY HeadTailProperties DEF answer, CallbackType
<1>2. PICK k \in Kinds :
        read_value' = [pc |-> "type", value |-> Head(hw), kind |-> k]
  BY DEF answer
<1>3. k \in {"NUM", "NAN"}
  BY DmmAssumption
<1>4. CallbackType'
  BY <1>1, <1>2, <1>3 DEF answer, CallbackType
<1>5. (ControlType /\ SharedType /\ DataType /\ ClockType /\ HistoryType)'
  BY DEF answer, ControlType, SharedType, DataType, ClockType, HistoryType,
         control, shared, tally, clock, reading, pulse_reading, history
<1>6. QED
  BY <1>4, <1>5

\* The clock stays below its modulus.
LEMMA TickTypes == ASSUME MachineType, Tick PROVE MachineType'
<1> USE DEF MachineType
<1>1. now' \in 0 .. TimeMod - 1
  <2>1. now + 1 \in Nat
    BY DEF ClockType
  <2>2. QED
    BY <2>1, Moduli, Remainder DEF Tick
<1>2. age' \in 0 .. TimeMod - 1 /\ cur_age' \in 0 .. TimeMod - 1
        /\ pulse_age' \in 0 .. TimeMod - 1
  BY Moduli DEF Tick, ClockType
<1>3. cur_time' = cur_time /\ pulse_time' = pulse_time
  BY DEF Tick
<1>4. (ControlType /\ SharedType /\ DataType /\ CallbackType /\ HistoryType)'
  BY DEF Tick, ControlType, SharedType, DataType, CallbackType, HistoryType,
         control, shared, tally, callbacks, history
<1>5. QED
  BY <1>1, <1>2, <1>3, <1>4 DEF ClockType

\* The other steps of the program.
LEMMA ProgramTypes ==
  ASSUME SettingsType, MachineType, Program
  PROVE  MachineType'
<1> USE DEF MachineType, ControlType, SharedType, DataType, CallbackType,
            ClockType, HistoryType, NotRead, At, Goto, Fail, Reply, Wait, YieldReturns,
            Returns, Handle, ClockRead, Stamp, tally, shared, callbacks, clock,
            reading, pulse_reading,
            history, Places, Errors, States, Types
<1>1. CASE Poll
  BY <1>1 DEF Poll, AllCommands
<1>2. CASE init_trigger
  BY <1>2 DEF init_trigger
<1>3. CASE stamp_delay
  BY <1>3, Moduli DEF stamp_delay
<1>4. CASE enter_delay
  BY <1>4 DEF enter_delay
<1>5. CASE init_fail
  BY <1>5 DEF init_fail
<1>6. CASE trg
  BY <1>6 DEF trg
<1>7. CASE wait_for_idle
  BY <1>7 DEF wait_for_idle
<1>8. CASE idle_reply
  BY <1>8 DEF idle_reply
<1>9. CASE yield
  BY <1>9 DEF yield
<1>10. CASE check_trigger_delay
  BY <1>10, Moduli DEF check_trigger_delay
<1>11. CASE start_measurement
  BY <1>11 DEF start_measurement
<1>12. CASE stamp_measuring
  BY <1>12, Moduli DEF stamp_measuring
<1>13. CASE enter_measuring
  BY <1>13 DEF enter_measuring
<1>14. CASE in_hardware
  BY <1>14 DEF in_hardware
<1>15. CASE check_measuring_timeout
  BY <1>15, Moduli DEF check_measuring_timeout
<1>16. CASE take_type
  BY <1>16 DEF take_type
<1>17. CASE finish
  BY <1>17 DEF finish
<1>18. CASE yield_fail
  BY <1>18 DEF yield_fail
<1>19. CASE stop_measurement
  BY <1>19 DEF stop_measurement, StopPlace
<1>20. CASE stop_check
  BY <1>20, Moduli DEF stop_check
<1>21. CASE stop_idle
  BY <1>21 DEF stop_idle
<1>22. CASE measure_preset
  BY <1>22 DEF measure_preset
<1>23. CASE initiate
  BY <1>23, InitiateTypes
<1>24. CASE start_measure
  BY <1>24, StartMeasureTypes
<1>25. CASE take
  BY <1>25, TakeTypes
<1>26. CASE get_milliseconds
  BY <1>26, Moduli DEF get_milliseconds, control
<1>27. QED
  BY <1>1, <1>2, <1>3, <1>4, <1>5, <1>6, <1>7, <1>8, <1>9, <1>10, <1>11, <1>12,
     <1>13, <1>14, <1>15, <1>16, <1>17, <1>18, <1>19, <1>20, <1>21, <1>22,
     <1>23, <1>24, <1>25, <1>26 DEF Program

\* The steps of the callbacks.
LEMMA CallbackTypes ==
  ASSUME MachineType, ReadValue \/ pulse \/ ExternalTrigger
  PROVE  MachineType'
<1> USE DEF MachineType, ControlType, SharedType, DataType, CallbackType,
            ClockType, HistoryType, NotRead, ReadValueAt, ExternalTriggerAt, ClockRead,
            Stamp, tally, control, clock, reading, pulse_reading, history, States,
            Types,
            ReadValueGoes, NoAnswer, Unset, Readings
<1>1. CASE write_type
  BY <1>1 DEF write_type
<1>2. CASE write_value
  BY <1>2 DEF write_value
<1>3. CASE check_expected
  BY <1>3 DEF check_expected
<1>4. CASE commit
  BY <1>4 DEF commit
<1>5. CASE pulse
  BY <1>5 DEF pulse
<1>6. CASE pulse_clock
  BY <1>6, Moduli DEF pulse_clock
<1>7. CASE pulse_stamp
  BY <1>7, Moduli DEF pulse_stamp
<1>8. CASE pulse_enter
  BY <1>8 DEF pulse_enter
<1>9. QED
  BY <1>1, <1>2, <1>3, <1>4, <1>5, <1>6, <1>7, <1>8 DEF ReadValue, ExternalTrigger

\* Every step keeps every variable in its type.
LEMMA NextTypes == ASSUME TypeOK, [Next]_vars PROVE TypeOK'
<1> USE DEF TypeOK
<1>1. SettingsType'
  BY SettingsTypes, SettingsFrame
<1>2. FlagType'
  BY FlagTypes
<1>3. MachineType'
  <2> MachineType
    BY DEF MachineType
  <2>1. CASE Program
    BY <2>1, ProgramTypes
  <2>2. CASE Client
    BY <2>2, RetuneTypes, ReceiveTypes DEF Client
  <2>3. CASE answer
    BY <2>3, AnswerTypes
  <2>4. CASE ReadValue \/ pulse \/ ExternalTrigger
    BY <2>4, CallbackTypes
  <2>5. CASE Tick
    BY <2>5, TickTypes
  <2>6. CASE UNCHANGED vars
    BY <2>6 DEF vars, MachineType, ControlType, SharedType, DataType,
       CallbackType, ClockType, HistoryType, control, shared, tally,
       callbacks, clock, reading, pulse_reading, history
  <2>7. QED
    BY <2>1, <2>2, <2>3, <2>4, <2>5, <2>6 DEF Next
<1>4. QED
  BY <1>1, <1>2, <1>3 DEF MachineType

\* In every reachable state the fields of the context, the control state, the
\* callbacks and the clock have their types: no handler leaves a field or a
\* place that the others do not know.
THEOREM TypeCorrect == Spec => []TypeOK
<1>1. Init => TypeOK
  BY InitTypes
<1>2. TypeOK /\ [Next]_vars => TypeOK'
  BY NextTypes
<1>3. QED
  BY <1>1, <1>2, PTL DEF Spec
-----------------------------------------------------------------------------
(* The buffer.                                                             *)

\* Of all the steps only the one that takes a measured value lets the buffer
\* grow, by one reading and under the test of store_value_in_buffer; those that
\* begin or preset an acquisition empty it.
LEMMA BufferStep ==
  ASSUME DataType, Len(buf) <= BufLen, [Next]_vars
  PROVE  Len(buf') <= BufLen
<1>1. CASE buf' = <<>>
  BY <1>1, SettingsAssumption
<1>2. CASE UNCHANGED buf
  BY <1>2
<1>3. CASE take
  <2>1. CASE BufferHasRoom /\ buf' = Append(buf, Value)
    <3>1. Len(buf') = Len(buf) + 1
      BY <2>1, AppendProperties DEF DataType
    <3>2. Len(buf) \in Nat
      BY LenProperties DEF DataType
    <3>3. QED
      BY <2>1, <3>1, <3>2, SettingsAssumption DEF BufferHasRoom
  <2>2. QED
    BY <1>2, <1>3, <2>1 DEF take
<1>4. buf' = <<>> \/ UNCHANGED buf \/ take
  BY DEF Next, vars, tally, Program, Client, ReadValue, ExternalTrigger, Poll,
     get_milliseconds,
     initiate, init_trigger, stamp_delay, enter_delay, init_fail, trg,
     wait_for_idle, idle_reply, yield, check_trigger_delay, start_measurement,
     stamp_measuring, enter_measuring, start_measure, in_hardware,
     check_measuring_timeout, take_type, finish, yield_fail,
     stop_measurement, stop_check, stop_idle, measure_preset, Retune, Receive,
     answer, ReadValueAt, write_type, write_value, check_expected, commit,
     pulse, ExternalTriggerAt, pulse_clock, pulse_stamp, pulse_enter, Tick
<1>5. QED
  BY <1>1, <1>2, <1>3, <1>4

\* In every reachable state the buffer holds no more readings than in_buffer has
\* room for, whatever the settings commands change while it is being filled.
THEOREM BufferNeverOverrun == Spec => []BufferBounded
<1>1. Init => BufferBounded
  BY SettingsAssumption DEF Init, BufferBounded
<1>2. TypeOK /\ BufferBounded /\ [Next]_vars => BufferBounded'
  BY BufferStep DEF TypeOK, BufferBounded
<1>3. QED
  BY <1>1, <1>2, TypeCorrect, PTL DEF Spec

-----------------------------------------------------------------------------
(* Time.                                                                   *)

\* A sum of two numbers below the modulus wraps at most once.
LEMMA WrapOnce ==
  ASSUME NEW m \in Nat \ {0}, NEW a \in 0 .. m - 1, NEW b \in 0 .. m - 1
  PROVE  (a + b) % m = IF a + b < m THEN a + b ELSE a + b - m
<1>1. CASE a + b < m
  BY <1>1
<1>2. CASE a + b >= m
  <2>1. a + b - m \in 0 .. m - 1
    BY <1>2
  <2>2. a + b = 1 * m + (a + b - m)
    BY <2>1
  <2>3. QED
    BY <2>1, <2>2, <1>2
<1>3. QED
  BY <1>1, <1>2

\* When the clock shows a stamp and the time since, and an earlier or equal time
\* since a reading, the difference of the two in uint32_t is the time between.
LEMMA ElapsedIsAge ==
  ASSUME ClockType, state_time \in 0 .. TimeMod - 1, cur_time # NotRead,
         now = (state_time + age) % TimeMod, now = (cur_time + cur_age) % TimeMod,
         cur_age <= age
  PROVE  Elapsed = ReadAge
<1>1. now = IF state_time + age < TimeMod THEN state_time + age
                                          ELSE state_time + age - TimeMod
  BY WrapOnce, Moduli DEF ClockType
<1>2. cur_time \in 0 .. TimeMod - 1
  BY Moduli DEF ClockType, NotRead
<1>3. now = IF cur_time + cur_age < TimeMod THEN cur_time + cur_age
                                            ELSE cur_time + cur_age - TimeMod
  BY <1>2, WrapOnce, Moduli DEF ClockType
<1>4. QED
  BY <1>1, <1>2, <1>3, Moduli DEF ClockType, Elapsed, ReadAge

\* A tick of the clock, at a wrap too.
LEMMA TickedTime ==
  ASSUME NEW t \in 0 .. TimeMod - 1, NEW a \in 0 .. TimeMod - 1, a < TimeMod - 1,
         ClockType, now = (t + a) % TimeMod, Tick
  PROVE  now' = (t + (a + 1)) % TimeMod
<1>1. now' = (now + 1) % TimeMod
  BY DEF Tick
<1>2. TimeMod \in Nat /\ TimeMod > 1
  BY DmmAssumption
<1>3. (now + 1) % TimeMod = IF now + 1 < TimeMod THEN now + 1
                                                   ELSE now + 1 - TimeMod
  <2>1. 1 \in 0 .. TimeMod - 1
    BY <1>2
  <2>2. QED
    BY <2>1, Moduli, WrapOnce DEF ClockType
<1>4. now = IF t + a < TimeMod THEN t + a ELSE t + a - TimeMod
  BY Moduli, WrapOnce
<1>5. a + 1 \in 0 .. TimeMod - 1
  BY <1>2
<1>6. (t + (a + 1)) % TimeMod = IF t + (a + 1) < TimeMod THEN t + (a + 1)
                                                       ELSE t + (a + 1) - TimeMod
  BY <1>5, Moduli, WrapOnce
<1>7. QED
  BY <1>1, <1>2, <1>3, <1>4, <1>6 DEF ClockType

\* No time waits so long that it would be taken for a later one.
LEMMA TickClock ==
  ASSUME ClockType, state_time \in 0 .. TimeMod - 1, ClockInv, Tick
  PROVE  ClockInv'
<1>1. Timed' = Timed
  BY DEF Timed, Tick, control, shared, callbacks
<1>2. UNCHANGED <<state_time, cur_time, pulse_time>>
  BY DEF Tick, shared
<1>3. Timed' \/ age' < TimeMod - 1 => now' = (state_time' + age') % TimeMod
  <2>1. CASE age < TimeMod - 1
    BY <1>2, <2>1, TickedTime DEF ClockInv, ClockType, Tick
  <2>2. CASE ~(age < TimeMod - 1)
    BY <1>1, <2>2 DEF Tick
  <2>3. QED
    BY <2>1, <2>2
<1>4. IF cur_time' = NotRead THEN cur_age' = 0
                             ELSE now' = (cur_time' + cur_age') % TimeMod
  <2>1. CASE cur_time = NotRead
    BY <1>2, <2>1 DEF Tick
  <2>2. CASE cur_time # NotRead
    <3>1. cur_time \in 0 .. TimeMod - 1
      BY <2>2, Moduli DEF ClockType, NotRead
    <3>2. cur_age < TimeMod - 1 /\ cur_age' = cur_age + 1
      BY <2>2 DEF Tick
    <3>3. now' = (cur_time + (cur_age + 1)) % TimeMod
      BY <2>2, <3>1, <3>2, TickedTime DEF ClockInv, ClockType
    <3>4. QED
      BY <1>2, <2>2, <3>2, <3>3
  <2>3. QED
    BY <2>1, <2>2
<1>5. IF pulse_time' = NotRead THEN pulse_age' = 0
                               ELSE now' = (pulse_time' + pulse_age') % TimeMod
  <2>1. CASE pulse_time = NotRead
    BY <1>2, <2>1 DEF Tick
  <2>2. CASE pulse_time # NotRead
    <3>1. pulse_time \in 0 .. TimeMod - 1
      BY <2>2, Moduli DEF ClockType, NotRead
    <3>2. pulse_age < TimeMod - 1 /\ pulse_age' = pulse_age + 1
      BY <2>2 DEF Tick
    <3>3. now' = (pulse_time + (pulse_age + 1)) % TimeMod
      BY <2>2, <3>1, <3>2, TickedTime DEF ClockInv, ClockType
    <3>4. QED
      BY <1>2, <2>2, <3>2, <3>3
  <2>3. QED
    BY <2>1, <2>2
<1>6. QED
  BY <1>3, <1>4, <1>5 DEF ClockInv

\* A step that does not tick times nothing new: it stamps a time that was read
\* before, or leaves the stamp; and it reads the clock, uses what it has read, or
\* keeps it.
Restamp ==
  \/ Stamp /\ cur_time # NotRead
  \/ state_time' = pulse_time /\ age' = pulse_age /\ pulse_time # NotRead
  \/ UNCHANGED <<state_time, age>> /\ (Timed' => Timed)

\* What becomes of the time that the program and the trigger callback have read.
Reread ==
  /\ \/ cur_time' = now /\ cur_age' = 0
     \/ cur_time' = NotRead /\ cur_age' = 0
     \/ UNCHANGED reading
  /\ \/ pulse_time' = now /\ pulse_age' = 0
     \/ pulse_time' = NotRead /\ pulse_age' = 0
     \/ UNCHANGED pulse_reading

\* Only Tick changes the clock.
LEMMA ClockFrame ==
  ASSUME Program \/ Client \/ answer \/ ReadValue \/ pulse \/ ExternalTrigger
           \/ UNCHANGED vars
  PROVE  now' = now /\ Restamp /\ Reread
<1> USE DEF Restamp, Reread, Stamp, reading, pulse_reading, clock
<1>1. CASE Poll \/ get_milliseconds \/ initiate \/ init_trigger \/ stamp_delay
             \/ enter_delay \/ init_fail \/ trg \/ wait_for_idle \/ idle_reply
  BY <1>1
  DEF Timed, At, Goto, Fail, Reply, Wait, YieldReturns, Returns, ClockRead, tally,
      shared, callbacks, control, Poll, get_milliseconds, initiate, init_trigger,
      stamp_delay, enter_delay, init_fail, trg, wait_for_idle, idle_reply
<1>2. CASE yield \/ check_trigger_delay \/ start_measurement \/ stamp_measuring
             \/ enter_measuring \/ start_measure \/ in_hardware
             \/ check_measuring_timeout
  BY <1>2
  DEF Timed, At, Goto, Fail, Reply, Wait, YieldReturns, Handle, ClockRead, tally,
      shared, callbacks, control, yield, check_trigger_delay, start_measurement,
      stamp_measuring, enter_measuring, start_measure, in_hardware,
      check_measuring_timeout
<1>3. CASE take_type \/ take \/ finish \/ yield_fail
  BY <1>3
  DEF Timed, At, Goto, Fail, Reply, Wait, YieldReturns, shared, callbacks,
      take_type, take, countdown, finish, yield_fail
<1>4. CASE stop_measurement \/ stop_check \/ stop_idle \/ measure_preset
  BY <1>4
  DEF Timed, At, Goto, Fail, Reply, Wait, YieldReturns, ClockRead, shared,
      callbacks, stop_measurement, StopPlace, stop_check, stop_idle, measure_preset
<1>5. CASE Retune
  BY <1>5 DEF Retune, Timed, At, shared, callbacks
<1>6. ASSUME NEW c \in Commands, Receive(c)
      PROVE  now' = now /\ Restamp /\ Reread
  <2>1. pc' \in {"initiate", "wait", "trg", "stop"}
    BY <1>6, DmmAssumption DEF Receive, Entry, AllCommands
  <2>2. QED
    BY <1>6, <2>1 DEF Receive, Timed, shared, callbacks
<1>7. CASE answer \/ ReadValue
  BY <1>7
  DEF Timed, shared, control, answer, ReadValue, ReadValueAt, write_type,
      write_value, check_expected, commit
<1>8. CASE pulse \/ ExternalTrigger
  BY <1>8
  DEF Timed, control, pulse, ExternalTrigger, ExternalTriggerAt, pulse_clock,
      pulse_stamp, pulse_enter
<1>9. CASE UNCHANGED vars
  BY <1>9 DEF vars, Timed, shared, callbacks, control
<1>10. QED
  BY <1>1, <1>2, <1>3, <1>4, <1>5, <1>6, <1>7, <1>8, <1>9 DEF Program, Client

\* A number below the modulus is its own remainder.
LEMMA NoTime ==
  ASSUME NEW m \in Nat \ {0}, NEW a \in 0 .. m - 1
  PROVE  (a + 0) % m = a
<1>1. a + 0 = a /\ a % m = a
  OBVIOUS
<1>2. QED
  BY <1>1

\* The two waiting places are left by their own tests of the clock only.
LEMMA Leaves ==
  ASSUME [Next]_vars, pc' # pc
  PROVE  /\ pc = "check_delay" => check_trigger_delay
         /\ pc = "check_timeout" => check_measuring_timeout
<1> USE DEF At, Goto, control, history
<1>1. ASSUME Program, ~check_trigger_delay, ~check_measuring_timeout
      PROVE  pc \notin {"check_delay", "check_timeout"}
  BY <1>1
  DEF Program, Poll, get_milliseconds, initiate, init_trigger, stamp_delay, enter_delay,
      init_fail, trg,
     wait_for_idle, idle_reply, yield, start_measurement, stamp_measuring,
     enter_measuring,
     start_measure, in_hardware, take_type, take, finish, yield_fail, stop_measurement,
     stop_check, stop_idle, measure_preset
<1>2. check_trigger_delay => pc = "check_delay"
  BY DEF check_trigger_delay
<1>3. check_measuring_timeout => pc = "check_timeout"
  BY DEF check_measuring_timeout
<1>4. Client => pc = "ready"
  BY DEF Client, Retune, Receive
<1>5. ~(answer \/ ReadValue \/ pulse \/ ExternalTrigger \/ Tick \/ UNCHANGED vars)
  BY DEF answer, ReadValue, ReadValueAt, write_type, write_value,
     check_expected, commit,
     pulse, ExternalTrigger, ExternalTriggerAt, pulse_clock, pulse_stamp,
     pulse_enter, Tick, vars
<1>6. QED
  BY <1>1, <1>2, <1>3, <1>4, <1>5 DEF Next

\* Every step keeps the clock in accord with each time that was read or stamped.
LEMMA NextClock ==
  ASSUME TypeOK, ClockInv, [Next]_vars
  PROVE  ClockInv'
<1>1. ClockType /\ state_time \in 0 .. TimeMod - 1
  BY DEF TypeOK, SharedType
<1>2. CASE Tick
  BY <1>1, <1>2, TickClock
<1>3. CASE now' = now /\ Restamp /\ Reread
  <2>1. (now + 0) % TimeMod = now /\ now # NotRead
    BY <1>1, NoTime, Moduli DEF ClockType, NotRead
  <2>2. Timed' \/ age' < TimeMod - 1 => now' = (state_time' + age') % TimeMod
    BY <1>3 DEF ClockInv, Restamp, Stamp
  <2>3. IF cur_time' = NotRead THEN cur_age' = 0
                               ELSE now' = (cur_time' + cur_age') % TimeMod
    BY <1>3, <2>1 DEF ClockInv, Reread, reading
  <2>4. IF pulse_time' = NotRead THEN pulse_age' = 0
                                 ELSE now' = (pulse_time' + pulse_age') % TimeMod
    BY <1>3, <2>1 DEF ClockInv, Reread, pulse_reading
  <2>5. QED
    BY <2>2, <2>3, <2>4 DEF ClockInv
<1>4. QED
  BY <1>2, <1>3, ClockFrame DEF Next

\* Each time that was read or stamped is what the clock showed then, as long as
\* something is going to use it: in both worlds, since it is carried from the
\* reading to the stamp of switch_to_timed_state as it is (dmm.c).
THEOREM ClockInvariant == Spec => []ClockInv
<1>1. Init => ClockInv
  BY DmmAssumption DEF Init, ClockInv
<1>2. TypeOK /\ ClockInv /\ [Next]_vars => ClockInv'
  BY NextClock
<1>3. QED
  BY <1>1, <1>2, TypeCorrect, PTL DEF Spec
=============================================================================
