--------------------------- MODULE DmmDataProofs ----------------------------
(***************************************************************************)
(* Proofs that the readings of a meter with interrupt handlers are what    *)
(* the hardware measured: in order, when it answers in time, and genuine   *)
(* and used once, however late it answers.                                 *)
(***************************************************************************)
EXTENDS DmmAcquisitionProofs

-----------------------------------------------------------------------------
(* A hardware that answers in time.                                        *)

\* The callbacks are interrupt handlers, the clock can be read, and every
\* measurement is answered before its timeout.
PromptHardware ==
  /\ ~Threads /\ Prompt /\ ~ClockFails
  /\ StartOutcomes \subseteq {"sync", "async"}

\* A place that waits for the timeout of a measurement finds it answered.
LEMMA TimeoutAnswered ==
  ASSUME TypeOK, ClockInv, ReadInv, PromptInv, cur_time # NotRead,
         pc \in {"check_timeout", "stop_check"}, TimedOut
  PROVE  ~Answering
<1>1. Elapsed = ReadAge
  BY ElapsedAtCheck
<1>2. age >= MeasurementTimeout
  BY <1>1, DmmAssumption DEF TimedOut, ReadAge, TypeOK, ClockType
<1>3. QED
  BY <1>2, DmmAssumption DEF PromptInv, TypeOK, ClockType

\* A step that delivers nothing.
LEMMA SameReading ==
  ASSUME UNCHANGED <<acq, Delivered>>
  PROVE  NextReading' = NextReading /\ DataInOrder' = DataInOrder
  BY DEF NextReading, DataInOrder

\* No reading is out of order in an empty response.
LEMMA NoReading == ASSUME Delivered' = <<>> PROVE DataInOrder'
  BY DEF DataInOrder

\* An acquisition begins when nothing is owed.
LEMMA InitiatePrompt ==
  ASSUME PromptHardware, HandlerInv, OwnedInv, PathInv, PromptInv, initiate
  PROVE  PromptInv'
<1>0. ~Threads
  BY DEF PromptHardware
<1> USE <1>0 DEF PromptInv, ValueInPlace, Answering, Taken, HandlerInv, PlaceInv,
            CallbackInv
<1>1. pc = "initiate" /\ output = <<>> /\ output' = output /\ read_value.pc = "idle"
  BY DEF initiate, At, MainRuns, PathInv, Before, Stopping
<1>2. CASE pc' = "init_trigger"
  <2>1. state = "IDLE" /\ buf' = <<>> /\ ~Answering
    BY <1>2 DEF initiate, Reply
  <2>2. DataInOrder'
    BY <1>1, <2>1, NoReading DEF Delivered
  <2>3. QED
    BY <1>1, <1>2, <2>1, <2>2 DEF initiate, shared, callbacks, clock, reading,
       pulse_reading
<1>3. CASE pc' # "init_trigger"
  <2>1. UNCHANGED <<acq, Delivered>> /\ pc' = "ready"
    BY <1>1, <1>3 DEF initiate, tally, Delivered, Reply
  <2>2. NextReading' = NextReading /\ DataInOrder' = DataInOrder
    BY <2>1, SameReading
  <2>3. QED
    BY <1>1, <2>1, <2>2 DEF initiate, shared, callbacks, clock, reading, pulse_reading
<1>4. QED
  BY <1>2, <1>3

\* A measurement starts when nothing is owed.
LEMMA StartMeasurePrompt ==
  ASSUME PromptHardware, TypeOK, HandlerInv, PromptInv, start_measure
  PROVE  PromptInv'
<1>0. ~Threads /\ ~("lost" \in StartOutcomes) /\ ~("fail" \in StartOutcomes)
  BY DEF PromptHardware
<1>1. NextReading' = NextReading /\ DataInOrder' = DataInOrder
  BY SameReading DEF start_measure, tally, history, Delivered
<1>2. Append(<<>>, NextReading) = <<NextReading>>
  OBVIOUS
<1> USE <1>0, <1>1, <1>2 DEF PromptInv, ValueInPlace, Answering, Taken, HandlerInv,
            PlaceInv, CallbackInv,
            At, MainRuns, Goto, Fail, Reply, Wait, YieldReturns, shared, clock,
            reading, pulse_reading
<1>3. /\ pc = "start_measure" /\ state = "MEASURING"
      /\ hw = <<>> /\ read_value.pc = "idle"
      /\ UNCHANGED <<state, last_measured_value, got, age>>
      /\ pc' \in {"in_hardware", "wait", "ready"}
  BY DEF start_measure
<1>4. CASE hw' = <<NextReading>> /\ read_value' = read_value
  BY <1>3, <1>4
<1>5. ASSUME NEW k \in Kinds, hw' = hw,
             read_value' = [pc |-> "type", value |-> NextReading, kind |-> k]
      PROVE  PromptInv'
  BY <1>3, <1>5
<1>6. QED
  BY <1>3, <1>4, <1>5 DEF start_measure

\* The reading taken is that of the last measurement.
LEMMA TakePrompt ==
  ASSUME PromptHardware, TypeOK, HandlerInv, PromptInv, take
  PROVE  PromptInv'
<1>0. ~Threads
  BY DEF PromptHardware
<1>1. /\ pc = "take" /\ state = "MEASURED" /\ ~Answering /\ got \in Kinds
      /\ got = "NUM" => last_measured_value.value = NextReading
  BY <1>0
  DEF take, At, MainRuns, HandlerInv, PlaceInv, PromptInv, ValueInPlace, Taken,
      Answering
<1>2. Kinds \subseteq {"NUM", "NAN"}
  BY DmmAssumption
<1>3. /\ UNCHANGED <<state, last_measured_value, acq, age, hw, read_value>>
      /\ pc' \in {"stamp_delay", "init_trigger", "finish", "yield_fail"}
      /\ pc' = "yield_fail" => UNCHANGED Delivered
  BY DEF take, countdown, Goto, Fail, shared, history, clock, reading,
     pulse_reading, callbacks, Delivered
<1>4. DataInOrder'
  <2>1. CASE UNCHANGED Delivered
    BY <1>3, <2>1, SameReading DEF PromptInv, ValueInPlace
  <2>2. CASE Delivered' = Append(Delivered, Value)
    <3>1. Delivered \in Seq(Readings) /\ Value \in Readings
      BY DEF TypeOK, DataType, SharedType, Delivered, Value, SCPIMM_OVERFLOW, Readings
    <3>2. /\ Len(Delivered') = Len(Delivered) + 1
          /\ \A i \in 1 .. Len(Delivered) : Delivered'[i] = Delivered[i]
          /\ Delivered'[Len(Delivered) + 1] = Value
      BY <2>2, <3>1
    <3>3. \/ Value = <<acq, Len(Delivered) + 1>>
          \/ Value = SCPIMM_OVERFLOW /\ "NAN" \in Kinds
      BY <1>1, <1>2 DEF Value, NextReading
    <3>4. Len(Delivered) \in Nat
      BY <3>1
    <3>5. QED
      BY <1>3, <3>2, <3>3, <3>4 DEF PromptInv, ValueInPlace, DataInOrder
  <2>3. QED
    BY <2>1, <2>2 DEF take, Delivered
<1>5. pc' = "yield_fail" => NextReading' = NextReading
  BY <1>3, SameReading
<1>6. QED
  BY <1>1, <1>3, <1>4, <1>5 DEF PromptInv, ValueInPlace, Answering, Taken

\* A step of the program: what gives a measurement up finds it answered.
LEMMA ProgramPrompt ==
  ASSUME PromptHardware, TypeOK, ClockInv, ReadInv, HandlerInv, OwnedInv, PathInv,
         PromptInv, Program
  PROVE  PromptInv'
<1>0. ~Threads /\ ~ClockFails
  BY DEF PromptHardware
<1>a. UNCHANGED <<acq, Delivered>>
        => NextReading' = NextReading /\ DataInOrder' = DataInOrder
  BY SameReading
<1>b. Delivered' = <<>> => DataInOrder'
  BY NoReading
<1>c. 0 < MeasurementTimeout
  BY DmmAssumption
<1>d. pc = "start" => cur_age = 0
  BY DEF ReadInv, ClockInv, ClockPlaces
<1> USE <1>0, <1>a, <1>b, <1>c, <1>d DEF PromptInv, ValueInPlace, Answering, Taken,
            Delivered, HandlerInv, PlaceInv, CallbackInv,
            At, MainRuns, Goto, Fail, Reply, Wait, YieldReturns, Returns, Handle,
            ClockRead, tally, shared, callbacks, clock, reading, pulse_reading,
            settings, trigger, history
<1>1. CASE Poll \/ get_milliseconds
  BY <1>1 DEF Poll, get_milliseconds, control
<1>2. CASE initiate
  BY <1>2, InitiatePrompt
<1>3. CASE init_trigger
  BY <1>3 DEF init_trigger, TriggerDeadlock
<1>4. CASE stamp_delay
  BY <1>4 DEF stamp_delay, Stamp
<1>5. CASE enter_delay
  BY <1>5 DEF enter_delay
<1>6. CASE init_fail
  BY <1>6 DEF init_fail
<1>7. CASE trg
  BY <1>7 DEF trg
<1>8. CASE wait_for_idle
  BY <1>8 DEF wait_for_idle, Finished
<1>9. CASE idle_reply
  BY <1>9 DEF PathInv, idle_reply, Finished
<1>10. CASE yield
  BY <1>10 DEF yield
<1>11. CASE check_trigger_delay
  BY <1>11 DEF check_trigger_delay
<1>12. CASE start_measurement
  BY <1>12 DEF start_measurement
<1>13. CASE stamp_measuring
  BY <1>13 DEF stamp_measuring, Stamp
<1>14. CASE enter_measuring
  BY <1>14 DEF enter_measuring
<1>15. CASE start_measure
  BY <1>15, StartMeasurePrompt
<1>16. CASE in_hardware
  BY <1>16 DEF in_hardware
<1>17. CASE check_measuring_timeout
  BY <1>17, TimeoutAnswered DEF check_measuring_timeout
<1>18. CASE take_type
  BY <1>18 DEF take_type
<1>19. CASE take
  BY <1>19, TakePrompt
<1>20. CASE finish
  BY <1>20 DEF finish
<1>21. CASE yield_fail
  BY <1>21 DEF yield_fail
<1>22. CASE stop_measurement
  BY <1>22 DEF stop_measurement, StopPlace
<1>23. CASE stop_check
  BY <1>23, TimeoutAnswered DEF stop_check
<1>24. CASE stop_idle
  BY <1>24 DEF stop_idle
<1>25. CASE measure_preset
  BY <1>25 DEF PathInv, measure_preset, PresetSettings
<1>26. QED
  BY <1>1, <1>2, <1>3, <1>4, <1>5, <1>6, <1>7, <1>8, <1>9, <1>10, <1>11, <1>12,
     <1>13, <1>14, <1>15, <1>16, <1>17, <1>18, <1>19, <1>20, <1>21, <1>22,
     <1>23, <1>24, <1>25 DEF Program

\* A command leaves the hardware alone.
LEMMA ClientPrompt ==
  ASSUME PromptHardware, TypeOK, HandlerInv, OwnedInv, PathInv, PromptInv, Client
  PROVE  PromptInv'
<1>0. ~Threads
  BY DEF PromptHardware
<1> USE <1>0 DEF PromptInv, ValueInPlace, Answering, Taken, HandlerInv, At,
            MainRuns, shared, callbacks, clock, reading, pulse_reading
<1>1. CASE Retune
  <2>1. UNCHANGED <<acq, Delivered>>
    BY <1>1 DEF Retune, tally, Delivered
  <2>2. QED
    BY <1>1, <2>1, SameReading DEF Retune
<1>2. ASSUME NEW c \in Commands, Receive(c)
      PROVE  PromptInv'
  <2>1. pc = "ready" /\ pc' \in {"initiate", "wait", "trg", "stop"}
    BY <1>2, DmmAssumption DEF Receive, Entry, AllCommands
  <2>2. CASE dst = "OUT"
    <3>1. state = "IDLE"
      BY <2>1, <2>2 DEF OwnedInv, Before, Stopping
    <3>2. DataInOrder'
      BY <1>2, <2>2, NoReading DEF Receive, Delivered, tally
    <3>3. QED
      BY <1>2, <2>1, <3>1, <3>2 DEF Receive
  <2>3. CASE dst = "BUF"
    <3>1. UNCHANGED <<acq, Delivered>>
      BY <1>2, <2>3 DEF Receive, Delivered, tally
    <3>2. QED
      BY <1>2, <2>1, <3>1, SameReading DEF Receive
  <2>4. QED
    BY <2>2, <2>3 DEF TypeOK, DataType
<1>3. QED
  BY <1>1, <1>2 DEF Client

\* The answer on its way to last_measured_value, and the clock.
LEMMA HandlerPrompt ==
  ASSUME PromptHardware, TypeOK, HandlerInv, PromptInv,
         answer \/ ReadValue \/ pulse \/ ExternalTrigger \/ Tick \/ UNCHANGED vars
  PROVE  PromptInv'
<1>0. ~Threads /\ Prompt
  BY DEF PromptHardware
<1>1. UNCHANGED <<acq, Delivered>>
  BY DEF answer, ReadValue, pulse, ExternalTrigger, Tick, vars, write_type, write_value,
     check_expected, commit, pulse_clock, pulse_stamp, pulse_enter, ReadValueAt,
     ExternalTriggerAt,
     tally, history, Delivered
<1>2. NextReading' = NextReading /\ DataInOrder' = DataInOrder
  BY <1>1, SameReading
<1>3. 0 < MeasurementTimeout
  BY DmmAssumption
<1> USE <1>0, <1>2, <1>3 DEF PromptInv, ValueInPlace, Answering, Taken, HandlerInv,
            PlaceInv, CallbackInv,
            ReadValueAt, ReadValueGoes, ExternalTriggerAt, NoAnswer, ClockRead, Stamp,
            control, shared, callbacks, clock, reading, pulse_reading
<1>4. CASE answer
  <2>1. hw = <<NextReading>> /\ hw' = <<>> /\ Head(hw) = NextReading
    BY <1>4 DEF answer
  <2>2. PICK k \in Kinds : read_value' = [pc |-> "type", value |-> Head(hw), kind |-> k]
    BY <1>4 DEF answer
  <2>3. QED
    BY <1>4, <2>1, <2>2 DEF answer
<1>5. CASE write_type
  BY <1>5 DEF write_type
<1>6. CASE write_value
  BY <1>6 DEF write_value
<1>7. CASE check_expected
  BY <1>7 DEF check_expected, Expected
<1>8. CASE commit
  BY <1>8 DEF commit
<1>9. CASE pulse \/ ExternalTrigger
  BY <1>9 DEF ExternalTrigger, pulse, pulse_clock, pulse_stamp, pulse_enter
<1>10. CASE Tick
  BY <1>10 DEF Tick, InTime, TypeOK, ClockType
<1>11. CASE UNCHANGED vars
  BY <1>11 DEF vars
<1>12. QED
  BY <1>4, <1>5, <1>6, <1>7, <1>8, <1>9, <1>10, <1>11 DEF ReadValue

\* With a hardware that answers in time, what is on its way is the answer to the
\* measurement in progress (dmm.c, SCPIMM_read_value).
THEOREM PromptInvariant == ASSUME PromptHardware PROVE Spec => []PromptInv
<1>0. ~Threads
  BY DEF PromptHardware
<1>1. Init => PromptInv
  BY DEF Init, PromptInv, Answering, Taken, NoAnswer, Delivered, DataInOrder
<1>2. /\ TypeOK /\ ClockInv /\ ReadInv /\ HandlerInv /\ OwnedInv /\ PathInv
      /\ PromptInv
      /\ [Next]_vars
      => PromptInv'
  BY ProgramPrompt, ClientPrompt, HandlerPrompt DEF Next
<1>3. Spec => []HandlerInv /\ []OwnedInv /\ []PathInv /\ []ReadInv
  BY <1>0, HandlerInvariant, QueryOwnsAcquisition, PathInvariant, ReadInvariant
<1>4. QED
  BY <1>1, <1>2, <1>3, TypeCorrect, ClockInvariant, PTL DEF Spec

\* Every reading is the answer to the measurement it is delivered for, in its
\* place, whatever is retuned meanwhile (check_measured_value).
THEOREM ReadingsInOrder == ASSUME PromptHardware PROVE Spec => []DataInOrder
<1>1. PromptInv => DataInOrder
  BY DEF PromptInv, ValueInPlace
<1>2. QED
  BY <1>1, PromptInvariant, PTL

-----------------------------------------------------------------------------
(* A hardware that answers late, or never.                                 *)

\* Steady, and no acquisition is endless: the names of readings repeat when the
\* record of a response is full.
Finite == Steady /\ \A a \in CountArgs : a.type # "INF"

\* A step of the program: start_measurement marks the field as unset.
LEMMA ProgramTypesOfAnswers ==
  ASSUME ~Threads, TypeOK, HandlerInv, TypesOfAnswers, Program
  PROVE  TypesOfAnswers'
<1>0. Kinds \subseteq {"NUM", "NAN"} /\ acq \in Nat
  BY DmmAssumption DEF TypeOK, HistoryType
<1> USE <1>0 DEF TypesOfAnswers, Acquiring, Awaited, Taken, HandlerInv, PlaceInv,
            CallbackInv,
            At, MainRuns, Goto, Fail, Reply, Wait, YieldReturns, Returns, Handle,
            ClockRead, tally, shared, callbacks, clock, reading, pulse_reading,
            settings, trigger, history
<1>1. CASE Poll \/ get_milliseconds
  BY <1>1 DEF Poll, get_milliseconds, control
<1>2. CASE initiate
  BY <1>2 DEF initiate
<1>3. CASE init_trigger
  BY <1>3 DEF init_trigger, TriggerDeadlock
<1>4. CASE stamp_delay
  BY <1>4 DEF stamp_delay
<1>5. CASE enter_delay
  BY <1>5 DEF enter_delay
<1>6. CASE init_fail
  BY <1>6 DEF init_fail
<1>7. CASE trg
  BY <1>7 DEF trg
<1>8. CASE wait_for_idle
  BY <1>8 DEF wait_for_idle, Finished
<1>9. CASE idle_reply
  BY <1>9 DEF idle_reply, Finished
<1>10. CASE yield
  BY <1>10 DEF yield
<1>11. CASE check_trigger_delay
  BY <1>11 DEF check_trigger_delay
<1>12. CASE start_measurement
  BY <1>12 DEF start_measurement
<1>13. CASE stamp_measuring
  BY <1>13 DEF stamp_measuring
<1>14. CASE enter_measuring
  BY <1>14 DEF enter_measuring
<1>15. CASE start_measure
  BY <1>15 DEF start_measure
<1>16. CASE in_hardware
  BY <1>16 DEF in_hardware
<1>17. CASE check_measuring_timeout
  BY <1>17 DEF check_measuring_timeout
<1>18. CASE take_type
  BY <1>18 DEF take_type
<1>19. CASE take
  BY <1>19 DEF take, countdown
<1>20. CASE finish
  BY <1>20 DEF finish
<1>21. CASE yield_fail
  BY <1>21 DEF yield_fail
<1>22. CASE stop_measurement
  BY <1>22 DEF stop_measurement, StopPlace
<1>23. CASE stop_check
  BY <1>23 DEF stop_check
<1>24. CASE stop_idle
  BY <1>24 DEF stop_idle
<1>25. CASE measure_preset
  BY <1>25 DEF measure_preset, PresetSettings
<1>26. QED
  BY <1>1, <1>2, <1>3, <1>4, <1>5, <1>6, <1>7, <1>8, <1>9, <1>10, <1>11, <1>12,
     <1>13, <1>14, <1>15, <1>16, <1>17, <1>18, <1>19, <1>20, <1>21, <1>22,
     <1>23, <1>24, <1>25 DEF Program

\* A command leaves the answer alone.
LEMMA ClientTypesOfAnswers ==
  ASSUME TypesOfAnswers, Client
  PROVE  TypesOfAnswers'
<1> USE DEF TypesOfAnswers, Acquiring, Awaited, Taken, At, shared, callbacks
<1>1. CASE Retune
  BY <1>1 DEF Retune
<1>2. ASSUME NEW c \in Commands, Receive(c)
      PROVE  TypesOfAnswers'
  <2>1. pc' \in {"initiate", "wait", "trg", "stop"}
    BY <1>2, DmmAssumption DEF Receive, Entry, AllCommands
  <2>2. QED
    BY <1>2, <2>1 DEF Receive
<1>3. QED
  BY <1>1, <1>2 DEF Client

\* SCPIMM_read_value sets the type before the value.
LEMMA HandlerTypesOfAnswers ==
  ASSUME ~Threads, HandlerInv, TypesOfAnswers,
         answer \/ ReadValue \/ pulse \/ ExternalTrigger \/ Tick \/ UNCHANGED vars
  PROVE  TypesOfAnswers'
<1>0. Kinds \subseteq {"NUM", "NAN"}
  BY DmmAssumption
<1> USE <1>0 DEF TypesOfAnswers, Acquiring, Awaited, Taken, HandlerInv, PlaceInv,
            CallbackInv,
            ReadValueAt, ReadValueGoes, ExternalTriggerAt, NoAnswer, ClockRead,
            control, shared, callbacks, history
<1>1. CASE answer
  <2>1. PICK k \in Kinds : read_value' = [pc |-> "type", value |-> Head(hw), kind |-> k]
    BY <1>1 DEF answer
  <2>2. QED
    BY <1>1, <2>1 DEF answer
<1>2. CASE write_type
  BY <1>2 DEF write_type
<1>3. CASE write_value
  BY <1>3 DEF write_value
<1>4. CASE check_expected
  BY <1>4 DEF check_expected, Expected
<1>5. CASE commit
  BY <1>5 DEF commit
<1>6. CASE pulse \/ ExternalTrigger
  BY <1>6 DEF ExternalTrigger, pulse, pulse_clock, pulse_stamp, pulse_enter
<1>7. CASE Tick
  BY <1>7 DEF Tick
<1>8. CASE UNCHANGED vars
  BY <1>8 DEF vars
<1>9. QED
  BY <1>1, <1>2, <1>3, <1>4, <1>5, <1>6, <1>7, <1>8 DEF ReadValue

\* A step that asks for nothing, hands nothing over and delivers nothing.
LEMMA SameAnswers ==
  ASSUME TypeOK, AnswersApart, DataGenuine, hw' = hw, acq' = acq,
         Carried' \subseteq Carried, Kept' \subseteq Kept,
         \/ /\ Delivered' = Delivered
            /\ Acquiring' => Acquiring /\ (InProgress => InProgress')
         \/ Delivered' = <<>> /\ ~Acquiring'
  PROVE  AnswersApart' /\ DataGenuine'
<1>1. Len(Delivered) \in Nat
  BY LenProperties DEF TypeOK, DataType, Delivered
<1>2. Owed' = Owed
  BY DEF Owed
<1>3. ASSUME NEW r \in Readings, AskedFor(r)
      PROVE  AskedFor(r)'
  BY <1>1, <1>3 DEF AskedFor, Readings
<1>4. Used' = Used \/ Used' = {}
  BY DEF Used
<1>5. DataGenuine'
  BY DEF DataGenuine
<1>6. /\ Owed \subseteq Readings /\ Carried \subseteq Readings
      /\ Kept \subseteq Readings /\ Used \subseteq Readings
  BY DEF TypeOK, SharedType, CallbackType, DataType, Owed, Carried, Kept, Used,
     Delivered
<1>7. /\ \A r \in Owed' \union Carried' \union Kept' : AskedFor(r)'
      /\ \A r \in Used' : AskedFor(r)' \/ r = SCPIMM_OVERFLOW
  BY <1>2, <1>3, <1>4, <1>6 DEF AnswersApart
<1>8. QED
  BY <1>2, <1>4, <1>5, <1>7 DEF AnswersApart

\* A new acquisition has asked for nothing and delivered nothing.
LEMMA InitiateApart ==
  ASSUME TypeOK, HandlerInv, PathInv, AnswersApart, DataGenuine, initiate
  PROVE  AnswersApart' /\ DataGenuine'
<1>1. /\ pc = "initiate" /\ output = <<>> /\ output' = output
      /\ UNCHANGED <<hw, read_value, last_measured_value, state, got>>
  BY DEF initiate, At, PathInv, Before, Stopping, callbacks, shared
<1>2. CASE pc' = "init_trigger"
  <2>1. /\ state = "IDLE" /\ buf' = <<>> /\ acq' = acq + 1
    BY <1>2 DEF initiate, Reply
  <2>2. Delivered' = <<>>
    BY <1>1, <2>1 DEF Delivered
  <2>3. Used' = {}
    BY <2>2 DEF Used
  <2>4. Owed' = Owed /\ Carried' = Carried /\ Kept' = {}
    BY <1>1, <1>2, <2>1 DEF Owed, Carried, Kept, Usable, Awaited
  <2>5. ASSUME NEW r \in Owed \union Carried
        PROVE  AskedFor(r)'
    <3>1. r \in Readings /\ AskedFor(r)
      BY DEF AnswersApart, TypeOK, CallbackType, Owed, Carried
    <3>2. QED
      BY <2>1, <3>1 DEF AskedFor, Readings, TypeOK, HistoryType
  <2>6. DataGenuine'
    BY <2>2 DEF DataGenuine
  <2>7. QED
    BY <1>1, <2>3, <2>4, <2>5, <2>6 DEF AnswersApart
<1>3. CASE pc' # "init_trigger"
  <2>1. acq' = acq /\ Delivered' = Delivered /\ pc' = "ready"
    BY <1>1, <1>3 DEF initiate, Reply, tally, Delivered
  <2>2. Acquiring' => Acquiring /\ (InProgress => InProgress')
    BY <1>1, <2>1 DEF Acquiring, InProgress, Taken
  <2>3. Carried' = Carried /\ Kept' \subseteq Kept
    BY <1>1, <2>1 DEF Carried, Kept, Usable, Awaited, Taken
  <2>4. QED
    BY <1>1, <2>1, <2>2, <2>3, SameAnswers
<1>4. QED
  BY <1>2, <1>3

\* What a measurement asks for has no other answer yet.
LEMMA StartMeasureApart ==
  ASSUME ~Threads, TypeOK, HandlerInv, AnswersApart, TypesOfAnswers, DataGenuine,
         start_measure
  PROVE  AnswersApart' /\ DataGenuine'
<1>1. /\ pc = "start_measure" /\ read_value.pc = "idle" /\ Acquiring /\ ~InProgress
      /\ UNCHANGED <<acq, Delivered, state, last_measured_value, got>>
      /\ pc' \in {"in_hardware", "wait", "ready", "yield_fail"}
      /\ state \in {"MEASURING", "MEASURED"}
  BY DEF start_measure, At, MainRuns, HandlerInv, PlaceInv, Acquiring,
     InProgress, history, tally, shared, Delivered,
     Goto, Fail, YieldReturns, Wait, Reply
<1>2. Acquiring' /\ InProgress'
  BY <1>1 DEF Acquiring, InProgress, Taken
<1>3. Carried = {}
  BY <1>1 DEF Carried
<1>4. Used' = Used /\ DataGenuine'
  BY <1>1 DEF Used, DataGenuine
<1>5. Kept' \subseteq Kept
  BY <1>1, DmmAssumption
  DEF Kept, Usable, Awaited, Taken, start_measure, Goto, Fail, YieldReturns,
      Wait, Reply
<1>6. Len(Delivered) \in Nat /\ acq \in Nat /\ acq # 0 /\ NextReading \in Readings
  BY <1>1, LenProperties
  DEF TypeOK, DataType, HistoryType, Delivered, TypesOfAnswers, NextReading,
      Readings
<1>7. ASSUME NEW r \in Readings, AskedFor(r)
      PROVE  AskedFor(r)' /\ r # NextReading
  BY <1>1, <1>2, <1>6, <1>7 DEF AskedFor, Readings, NextReading
<1>8. /\ \A r \in {NextReading} : AskedFor(r)'
      /\ NextReading # SCPIMM_OVERFLOW
  BY <1>1, <1>2, <1>6 DEF AskedFor, NextReading, SCPIMM_OVERFLOW
<1>9. Owed \subseteq Readings /\ Kept \subseteq Readings /\ Used \subseteq Readings
  BY <1>4 DEF TypeOK, SharedType, CallbackType, DataType, Owed, Kept, Used, Delivered
<1>10. /\ \A r \in Owed \union Kept : AskedFor(r)' /\ r # NextReading
       /\ \A r \in Used : (AskedFor(r)' \/ r = SCPIMM_OVERFLOW) /\ r # NextReading
  BY <1>3, <1>7, <1>8, <1>9 DEF AnswersApart
<1>11. CASE hw' = Append(hw, NextReading) /\ read_value' = read_value
  <2>1. hw \in Seq(Readings)
    BY DEF TypeOK, CallbackType
  <2>2. /\ Len(hw') = Len(hw) + 1 /\ Len(hw) \in Nat
        /\ \A i \in 1 .. Len(hw) : hw'[i] = hw[i]
        /\ hw'[Len(hw) + 1] = NextReading
    BY <1>6, <1>11, <2>1
  <2>3. Owed' = Owed \union {NextReading}
    BY <2>2 DEF Owed
  <2>4. \A i \in 1 .. Len(hw) : hw[i] # NextReading
    BY <1>10 DEF Owed
  <2>5. \A i, j \in 1 .. Len(hw') : i # j => hw'[i] # hw'[j]
    BY <2>2, <2>4 DEF AnswersApart
  <2>6. Carried' = {}
    BY <1>1, <1>11 DEF Carried
  <2>7. QED
    BY <1>3, <1>4, <1>5, <1>8, <1>10, <2>3, <2>5, <2>6 DEF AnswersApart
<1>12. ASSUME NEW k \in Kinds, hw' = hw,
              read_value' = [pc |-> "type", value |-> NextReading, kind |-> k]
       PROVE  AnswersApart' /\ DataGenuine'
  <2>1. Owed' = Owed /\ Carried' = {NextReading}
    BY <1>12 DEF Owed, Carried
  <2>2. QED
    BY <1>3, <1>4, <1>5, <1>8, <1>10, <1>12, <2>1 DEF AnswersApart
<1>13. CASE hw' = hw /\ read_value' = read_value
  <2>1. Owed' = Owed /\ Carried' = {}
    BY <1>3, <1>13 DEF Owed, Carried
  <2>2. QED
    BY <1>3, <1>4, <1>5, <1>10, <1>13, <2>1 DEF AnswersApart
<1>14. QED
  BY <1>11, <1>12, <1>13 DEF start_measure

\* The reading leaves last_measured_value for the response or the buffer.
LEMMA TakeApart ==
  ASSUME Finite, TypeOK, HandlerInv, LiveInv, DueInv, AnswersApart, TypesOfAnswers,
         DataGenuine, take
  PROVE  AnswersApart' /\ DataGenuine'
<1>0. ~Threads /\ Steady /\ ~infinite_trigger_count
  BY DEF Finite, Steady, LiveInv
<1>1. /\ pc = "take" /\ state = "MEASURED" /\ Acquiring /\ read_value.pc = "idle"
      /\ UNCHANGED <<acq, state, last_measured_value, hw, read_value>>
  BY <1>0
  DEF take, At, MainRuns, HandlerInv, PlaceInv, Acquiring, shared, callbacks,
      history
<1>2. Delivered' = Append(Delivered, Value) /\ countdown
  BY <1>0, <1>1, TakeDelivers
<1>3. pc' \in {"stamp_delay", "init_trigger", "finish"}
  BY <1>2 DEF countdown, Goto
<1>4. Delivered \in Seq(Readings) /\ Value \in Readings
  BY DEF TypeOK, DataType, SharedType, Delivered, Value, SCPIMM_OVERFLOW, Readings
<1>5. /\ Len(Delivered') = Len(Delivered) + 1 /\ Len(Delivered) \in Nat
      /\ \A i \in 1 .. Len(Delivered) : Delivered'[i] = Delivered[i]
      /\ Delivered'[Len(Delivered) + 1] = Value
  BY <1>2, <1>4
<1>6. Used' = Used \union {Value}
  BY <1>5 DEF Used
<1>7. Owed' = Owed /\ Carried' = {} /\ Carried = {} /\ Kept' = {}
  BY <1>1, <1>3 DEF Owed, Carried, Kept, Usable, Awaited, Taken
<1>8. \/ Value \in Kept /\ got = "NUM"
      \/ Value = SCPIMM_OVERFLOW /\ "NAN" \in Kinds
  <2>1. got \in {"NUM", "NAN"} /\ got \in Kinds
    BY <1>1, DmmAssumption DEF TypesOfAnswers
  <2>2. QED
    BY <1>1, <2>1 DEF Value, Kept, Usable, Awaited, Taken
<1>9. InProgress /\ ~InProgress'
  BY <1>1, <1>3 DEF InProgress, Taken
<1>10. ASSUME NEW r \in Readings, AskedFor(r)
       PROVE  AskedFor(r)'
  BY <1>1, <1>5, <1>9, <1>10 DEF AskedFor, Readings
<1>11. Owed \subseteq Readings /\ Kept \subseteq Readings /\ Used \subseteq Readings
  BY DEF TypeOK, SharedType, CallbackType, DataType, Owed, Kept, Used, Delivered
<1>12. \A r \in Owed \union Kept : AskedFor(r)' /\ AskedFor(r) /\ r # SCPIMM_OVERFLOW
  BY <1>10, <1>11 DEF AnswersApart, AskedFor, SCPIMM_OVERFLOW
<1>13. AnswersApart'
  <2>1. \A r \in Used' : AskedFor(r)' \/ r = SCPIMM_OVERFLOW
    BY <1>6, <1>8, <1>10, <1>11, <1>12 DEF AnswersApart
  <2>2. Owed \intersect Used' = {}
    BY <1>6, <1>8, <1>12 DEF AnswersApart
  <2>3. \A i, j \in 1 .. Len(hw') : i # j => hw'[i] # hw'[j]
    BY <1>1 DEF AnswersApart
  <2>4. QED
    BY <1>7, <1>12, <2>1, <2>2, <2>3 DEF AnswersApart
<1>14. DataGenuine'
  <2> SUFFICES ASSUME NEW i \in 1 .. Len(Delivered')
               PROVE  \/ /\ Delivered'[i][1] \in 1 .. acq'
                         /\ \A j \in 1 .. i - 1 : Delivered'[j] # Delivered'[i]
                      \/ Delivered'[i] = SCPIMM_OVERFLOW /\ "NAN" \in Kinds
    BY DEF DataGenuine
  <2>1. CASE i <= Len(Delivered)
    BY <1>1, <1>5, <2>1 DEF DataGenuine
  <2>2. CASE i = Len(Delivered) + 1 /\ Value \in Kept
    <3>1. Value[1] \in 1 .. acq
      BY <1>12, <2>2 DEF AskedFor
    <3>2. \A j \in 1 .. Len(Delivered) : Delivered[j] # Value
      BY <2>2 DEF AnswersApart, Used
    <3>3. QED
      BY <1>1, <1>5, <2>2, <3>1, <3>2
  <2>3. CASE i = Len(Delivered) + 1 /\ Value = SCPIMM_OVERFLOW /\ "NAN" \in Kinds
    BY <1>5, <2>3
  <2>4. QED
    BY <1>5, <1>8, <2>1, <2>2, <2>3
<1>15. QED
  BY <1>13, <1>14

\* A step of the program.
LEMMA ProgramApart ==
  ASSUME Finite, TypeOK, HandlerInv, OwnedInv, PathInv, LiveInv, DueInv,
         GenuineInv, Program
  PROVE  AnswersApart' /\ DataGenuine'
<1> DEFINE Same ==
      /\ hw' = hw /\ acq' = acq
      /\ Carried' \subseteq Carried /\ Kept' \subseteq Kept
      /\ \/ /\ Delivered' = Delivered
            /\ Acquiring' => Acquiring /\ (InProgress => InProgress')
         \/ Delivered' = <<>> /\ ~Acquiring'
<1>0. /\ ~Threads /\ AnswersApart /\ TypesOfAnswers /\ DataGenuine
      /\ Same => AnswersApart' /\ DataGenuine'
  BY SameAnswers DEF Finite, Steady, GenuineInv
<1> USE DEF Acquiring, InProgress, Carried, Kept, Usable, Awaited, Taken,
            Delivered, HandlerInv, PlaceInv, CallbackInv,
            At, MainRuns, Goto, Fail, Reply, Wait, YieldReturns, Returns, Handle,
            ClockRead, tally, shared, callbacks, clock, reading, pulse_reading,
            settings, trigger, history
<1>1. CASE Poll \/ get_milliseconds
  BY <1>0, <1>1 DEF Poll, get_milliseconds, control
<1>2. CASE initiate
  BY <1>2, <1>0, InitiateApart
<1>3. CASE init_trigger
  BY <1>0, <1>3 DEF init_trigger, TriggerDeadlock
<1>4. CASE stamp_delay
  BY <1>0, <1>4 DEF stamp_delay
<1>5. CASE enter_delay
  BY <1>0, <1>5 DEF enter_delay
<1>6. CASE init_fail
  BY <1>0, <1>6 DEF init_fail
<1>7. CASE trg
  BY <1>0, <1>7 DEF trg
<1>8. CASE wait_for_idle
  BY <1>0, <1>8 DEF wait_for_idle, Finished
<1>9. CASE idle_reply
  BY <1>0, <1>9 DEF idle_reply, Finished, PathInv, Delivered
<1>10. CASE yield
  BY <1>0, <1>10 DEF yield
<1>11. CASE check_trigger_delay
  BY <1>0, <1>11 DEF check_trigger_delay
<1>12. CASE start_measurement
  BY <1>0, <1>12 DEF start_measurement
<1>13. CASE stamp_measuring
  BY <1>0, <1>13 DEF stamp_measuring
<1>14. CASE enter_measuring
  BY <1>0, <1>14 DEF enter_measuring
<1>15. CASE start_measure
  BY <1>15, <1>0, StartMeasureApart
<1>16. CASE in_hardware
  BY <1>0, <1>16 DEF in_hardware
<1>17. CASE check_measuring_timeout
  BY <1>0, <1>17 DEF check_measuring_timeout
<1>18. CASE take_type
  BY <1>0, <1>18 DEF take_type
<1>19. CASE take
  BY <1>19, <1>0, TakeApart
<1>20. CASE finish
  BY <1>0, <1>20 DEF finish
<1>21. CASE yield_fail
  BY <1>0, <1>21 DEF yield_fail
<1>22. CASE stop_measurement
  BY <1>0, <1>22 DEF stop_measurement, StopPlace
<1>23. CASE stop_check
  BY <1>0, <1>23 DEF stop_check
<1>24. CASE stop_idle
  BY <1>0, <1>24 DEF stop_idle
<1>25. CASE measure_preset
  BY <1>0, <1>25 DEF measure_preset, PathInv, Delivered
<1>26. QED
  BY <1>1, <1>2, <1>3, <1>4, <1>5, <1>6, <1>7, <1>8, <1>9, <1>10, <1>11, <1>12,
     <1>13, <1>14, <1>15, <1>16, <1>17, <1>18, <1>19, <1>20, <1>21, <1>22,
     <1>23, <1>24, <1>25 DEF Program

\* A command opens an empty response.
LEMMA ClientApart ==
  ASSUME ~Threads, TypeOK, HandlerInv, OwnedInv, GenuineInv, Client
  PROVE  AnswersApart' /\ DataGenuine'
<1>0. AnswersApart /\ DataGenuine
  BY DEF GenuineInv
<1>1. /\ UNCHANGED <<hw, read_value, last_measured_value, state, got, dst, buf, acq>>
      /\ pc = "ready"
  BY DEF Client, Retune, Receive, At, tally, shared, callbacks
<1>2. pc' \in {"ready", "initiate", "wait", "trg", "stop"}
  BY <1>1, DmmAssumption DEF Client, Retune, Receive, Entry, AllCommands, At
<1>3. Carried' = Carried /\ Kept' \subseteq Kept
  BY <1>1, <1>2 DEF Carried, Kept, Usable, Awaited, Taken
<1>4. Acquiring' => Acquiring /\ (InProgress => InProgress')
  BY <1>1, <1>2 DEF Acquiring, InProgress, Taken
<1>5. CASE dst = "OUT" /\ output' = <<>>
  <2>1. ~Acquiring'
    BY <1>1, <1>2, <1>5 DEF OwnedInv, Before, Stopping, Acquiring
  <2>2. QED
    BY <1>0, <1>1, <1>3, <1>5, <2>1, SameAnswers DEF Delivered
<1>6. CASE dst # "OUT" \/ output' = output
  BY <1>0, <1>1, <1>3, <1>4, <1>6, SameAnswers DEF Delivered
<1>7. QED
  BY <1>5, <1>6 DEF Client, Retune, Receive

\* The answer moves on, and is left nowhere behind.
LEMMA HandlerApart ==
  ASSUME ~Threads, TypeOK, HandlerInv, GenuineInv,
         answer \/ ReadValue \/ pulse \/ ExternalTrigger \/ Tick \/ UNCHANGED vars
  PROVE  AnswersApart' /\ DataGenuine'
<1>0. AnswersApart /\ TypesOfAnswers /\ DataGenuine
  BY DEF GenuineInv
<1>1. UNCHANGED <<acq, dst, buf, output, pc, got>>
  BY DEF answer, ReadValue, pulse, ExternalTrigger, Tick, vars, write_type, write_value,
     check_expected, commit, pulse_clock, pulse_stamp, pulse_enter, ReadValueAt,
     ExternalTriggerAt,
     tally, history, control
<1>2. Delivered' = Delivered
  BY <1>1 DEF Delivered
<1>3. \/ state' = state
      \/ state = "WAIT_FOR_TRIGGER" /\ state' = "TRIGGER_DELAY"
      \/ state = "MEASURING" /\ state' = "MEASURED"
  BY DEF answer, ReadValue, pulse, ExternalTrigger, Tick, vars, write_type, write_value,
     check_expected, commit, pulse_clock, pulse_stamp, pulse_enter, ReadValueAt,
     ExternalTriggerAt, shared, HandlerInv, CallbackInv
<1>4. /\ Acquiring' = Acquiring /\ InProgress' = InProgress
      /\ Awaited' => Awaited
  BY <1>1, <1>3 DEF Acquiring, InProgress, Awaited, Taken
<1>5. \A r \in Readings : AskedFor(r)' <=> AskedFor(r)
  BY <1>1, <1>2, <1>4 DEF AskedFor
<1>6. /\ Owed \subseteq Readings /\ Carried \subseteq Readings
      /\ Kept \subseteq Readings /\ Used \subseteq Readings /\ Used' = Used
  BY <1>2
  DEF TypeOK, SharedType, CallbackType, DataType, Owed, Carried, Kept, Used,
      Delivered
<1>7. DataGenuine'
  BY <1>0, <1>1, <1>2 DEF DataGenuine
<1>8. CASE answer
  <2>1. PICK k \in Kinds : read_value' = [pc |-> "type", value |-> Head(hw), kind |-> k]
    BY <1>8 DEF answer
  <2>2. /\ read_value.pc = "idle" /\ hw # <<>> /\ hw' = Tail(hw)
        /\ UNCHANGED <<last_measured_value, state>>
    BY <1>8 DEF answer, shared
  <2>3. /\ Len(hw) \in Nat \ {0} /\ Len(hw') = Len(hw) - 1 /\ Head(hw) = hw[1]
        /\ \A i \in 1 .. Len(hw') : hw'[i] = hw[i + 1]
    BY <2>2 DEF TypeOK, CallbackType
  <2>4. Owed' \subseteq Owed /\ Carried' = {hw[1]} /\ hw[1] \in Owed
    BY <2>1, <2>3 DEF Owed, Carried
  <2>5. hw[1] \notin Owed'
    BY <1>0, <2>3 DEF Owed, AnswersApart
  <2>6. \A i, j \in 1 .. Len(hw') : i # j => hw'[i] # hw'[j]
    BY <1>0, <2>3 DEF AnswersApart
  <2>7. Kept' \subseteq Kept
    BY <1>1, <1>4, <2>1, <2>2 DEF Kept, Usable
  <2>8. /\ \A r \in Owed' \union Carried' \union Kept' : AskedFor(r)'
        /\ \A r \in Used' : AskedFor(r)' \/ r = SCPIMM_OVERFLOW
    BY <1>0, <1>5, <1>6, <2>4, <2>7 DEF AnswersApart
  <2>9. QED
    BY <1>0, <1>6, <1>7, <2>4, <2>5, <2>6, <2>7, <2>8 DEF AnswersApart
<1>9. CASE write_value
  <2>1. /\ read_value.pc = "value" /\ read_value'.pc = "check" /\ hw' = hw
        /\ last_measured_value'.value = read_value.value
    BY <1>9 DEF write_value, ReadValueAt, ReadValueGoes
  <2>2. Owed' = Owed /\ Carried' = {} /\ Kept' \subseteq Carried
    BY <2>1 DEF Owed, Carried, Kept
  <2>3. /\ \A r \in Owed' \union Carried' \union Kept' : AskedFor(r)'
        /\ \A r \in Used' : AskedFor(r)' \/ r = SCPIMM_OVERFLOW
    BY <1>0, <1>5, <1>6, <2>2 DEF AnswersApart
  <2>4. QED
    BY <1>0, <1>6, <1>7, <2>1, <2>2, <2>3 DEF AnswersApart
<1>10. CASE write_type \/ check_expected \/ commit
  <2>1. hw' = hw
    BY <1>10 DEF write_type, check_expected, commit, ReadValueAt
  <2>2. Carried' \subseteq Carried /\ Kept' \subseteq Kept
    BY <1>0, <1>1, <1>4, <1>10
    DEF Carried, Kept, Usable, TypesOfAnswers, write_type, check_expected,
        commit,
       ReadValueAt, ReadValueGoes, NoAnswer
  <2>3. QED
    BY <1>0, <1>1, <1>2, <1>4, <2>1, <2>2, SameAnswers
<1>11. CASE pulse \/ ExternalTrigger \/ Tick \/ UNCHANGED vars
  <2>1. UNCHANGED <<hw, read_value, last_measured_value>>
    BY <1>11
    DEF pulse, ExternalTrigger, pulse_clock, pulse_stamp, pulse_enter,
       ExternalTriggerAt,
        Tick, vars, shared,
       callbacks
  <2>2. Carried' = Carried /\ Kept' \subseteq Kept
    BY <1>1, <1>4, <2>1 DEF Carried, Kept, Usable
  <2>3. QED
    BY <1>0, <1>1, <1>2, <1>4, <2>1, <2>2, SameAnswers
<1>12. QED
  BY <1>8, <1>9, <1>10, <1>11 DEF ReadValue

\* Each answer of the hardware is in one place: owed, in SCPIMM_read_value, in
\* last_measured_value, or delivered (dmm.c).
THEOREM GenuineInvariant == ASSUME Finite PROVE Spec => []GenuineInv
<1>0. ~Threads /\ Steady /\ CountsSafe /\ BufLen < CountMod
  BY DEF Finite, Steady
<1>1. Init => GenuineInv
  BY DEF Init, GenuineInv, AnswersApart, TypesOfAnswers, DataGenuine, Acquiring,
     Awaited, Taken, NoAnswer,
     Delivered, Owed, Carried, Kept, Usable, Used
<1>2. /\ TypeOK /\ HandlerInv /\ OwnedInv /\ PathInv /\ LiveInv /\ DueInv /\ GenuineInv
      /\ [Next]_vars
      => GenuineInv'
  <2> SUFFICES ASSUME TypeOK, HandlerInv, OwnedInv, PathInv, LiveInv, DueInv,
                      GenuineInv, [Next]_vars
               PROVE  GenuineInv'
    OBVIOUS
  <2>1. TypesOfAnswers'
    BY <1>0, ProgramTypesOfAnswers, ClientTypesOfAnswers, HandlerTypesOfAnswers
    DEF Next, GenuineInv
  <2>2. AnswersApart' /\ DataGenuine'
    BY <1>0, ProgramApart, ClientApart, HandlerApart DEF Next
  <2>3. QED
    BY <2>1, <2>2 DEF GenuineInv
<1>3. Spec => []HandlerInv /\ []OwnedInv /\ []PathInv
  BY <1>0, HandlerInvariant, QueryOwnsAcquisition, PathInvariant
<1>4. Spec => []LiveInv /\ []DueInv
  BY <1>0, LiveInvariant, DueInvariant
<1>5. QED
  BY <1>1, <1>2, <1>3, <1>4, TypeCorrect, PTL DEF Spec

\* However late answers come, no reading is made up and none is delivered twice:
\* an aborted measurement's answer is used once at most (check_measured_value).
THEOREM ReadingsGenuine == ASSUME Finite PROVE Spec => []DataGenuine
<1>1. GenuineInv => DataGenuine
  BY DEF GenuineInv
<1>2. QED
  BY <1>1, GenuineInvariant, PTL
=============================================================================
