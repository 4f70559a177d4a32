-------------------------- MODULE MultimeterProofs ---------------------------
(***************************************************************************)
(* The whole meter behaves as its two parts do, so that what is proved of  *)
(* either holds of the whole, MEASure? measures what it named, and an      *)
(* acquisition measures what was selected for it.                          *)
(***************************************************************************)
EXTENDS MultimeterProperties, DmmDataProofs

\* What the state machine sees of a step of the whole meter.
LEMMA StepOfDmm == [MultimeterNext]_multimeter => [Next]_vars
<1> SUFFICES ASSUME [MultimeterNext]_multimeter PROVE [Next]_vars
  OBVIOUS
<1>1. CASE Otherwise
  BY <1>1 DEF Otherwise, ReceiveOther, Next, Client
<1>2. CASE Choose
  BY <1>2 DEF Choose, Next, Program
<1>3. CASE Sensing \/ ReceiveSense
  BY <1>3 DEF Sensing, ReceiveSense
<1>4. CASE ReceiveChoosing
  BY <1>4 DEF ReceiveChoosing, Next, Client
<1>5. CASE UNCHANGED multimeter
  BY <1>5 DEF multimeter
<1> QED BY <1>1, <1>2, <1>3, <1>4, <1>5 DEF MultimeterNext

\* The meter as a whole is a correct state machine: the SENSe commands and the
\* choice at the end of a preset are invisible to it (dmm.c).
THEOREM ImplementsDmm == MultimeterSpec => Spec
<1>1. MultimeterInit => Init
  BY DEF MultimeterInit
<1> QED BY <1>1, StepOfDmm, PTL DEF MultimeterSpec, Spec

\* What the choice of function and range sees of it.
LEMMA StepOfSense == [MultimeterNext]_multimeter => [S!Next]_(S!vars)
<1> SUFFICES ASSUME [MultimeterNext]_multimeter PROVE [S!Next]_(S!vars)
  OBVIOUS
<1>1. CASE Otherwise
  BY <1>1 DEF Otherwise, sensing, selection, S!vars, S!selection
<1>2. CASE Choose
  BY <1>2 DEF Choose, S!Next, S!Setting
<1>3. CASE Sensing
  BY <1>3 DEF Sensing, SenseSets, S!Next, S!Setting
<1>4. CASE ReceiveSense
  BY <1>4, MultimeterAssumption DEF ReceiveSense, S!Next
<1>5. CASE ReceiveChoosing
  <2>1. S!Command("RST", "DCV", S!NoArg, S!NoArg) \in S!CommandTable
    BY DEF S!CommandTable
  <2> QED BY <1>5, <2>1, MultimeterAssumption DEF ReceiveChoosing, S!Next
<1>6. CASE UNCHANGED multimeter
  BY <1>6 DEF multimeter, sensing, selection, S!vars, S!selection
<1> QED BY <1>1, <1>2, <1>3, <1>4, <1>5, <1>6 DEF MultimeterNext

\* ... and chooses function and range as Sense does: an acquisition never gets
\* in the way of a command (sense.c, configure.c).
THEOREM ImplementsSense == MultimeterSpec => S!Spec
<1>1. MultimeterInit => S!Init
  BY DEF MultimeterInit
<1> QED BY <1>1, StepOfSense, PTL DEF MultimeterSpec, S!Spec

\* With interrupt handlers, the whole meter keeps to the cycle of states and
\* loses no error, whatever is chosen while it measures.
THEOREM WholeMeterSafe ==
  ASSUME ~Threads
  PROVE  MultimeterSpec => []ErrorImpliesIdle /\ LegalTransitions /\ NoSilentError
BY ImplementsDmm, ErrorsOnlyWhenIdle, StateCycle, ErrorsReported, PTL

-----------------------------------------------------------------------------
(* MEASure? measures what it named.                                        *)

\* While the acquisition is stopped the command waits; once it is to begin, the
\* choice has been made.
MeasInv ==
  op = "MEAS" =>
    /\ pc \in Stopping => command.header = "CONF" /\ command.mode = named
    /\ pc = "initiate" => mode = named /\ outcome = "OK"

\* The program comes to these places only on the way through the preset.
LEMMA ProgramFlow ==
  ASSUME Program, pc # "preset"
  PROVE  /\ op' = "MEAS" => op = "MEAS"
         /\ op' = "MEAS" /\ pc' \in Stopping => pc \in Stopping
         /\ op' = "MEAS" => pc' # "initiate"
<1> USE DEF Stopping, At, Goto, Fail, Reply, Wait, YieldReturns, Returns, Handle,
            ClockRead
<1>1. CASE Poll \/ get_milliseconds
  BY <1>1 DEF Poll, get_milliseconds, ClockPlaces, control
<1>2. CASE initiate
  BY <1>2 DEF initiate
<1>3. CASE init_trigger
  BY <1>3 DEF init_trigger
<1>4. CASE stamp_delay
  BY <1>4 DEF stamp_delay
<1>5. CASE enter_delay
  BY <1>5 DEF enter_delay
<1>6. CASE init_fail
  BY <1>6 DEF init_fail
<1>7. CASE trg
  BY <1>7 DEF trg
<1>8. CASE wait_for_idle
  BY <1>8 DEF wait_for_idle
<1>9. CASE idle_reply
  BY <1>9 DEF idle_reply
<1>10. CASE yield
  BY <1>10 DEF yield
<1>11. CASE check_trigger_delay
  BY <1>11 DEF check_trigger_delay
<1>12. CASE start_measurement
  BY <1>12 DEF start_measurement
<1>13. CASE stamp_measuring
  BY <1>13 DEF stamp_measuring
<1>14. CASE enter_measuring
  BY <1>14 DEF enter_measuring
<1>15. CASE start_measure
  BY <1>15 DEF start_measure
<1>16. CASE in_hardware
  BY <1>16 DEF in_hardware
<1>17. CASE check_measuring_timeout
  BY <1>17 DEF check_measuring_timeout
<1>18. CASE take_type
  BY <1>18 DEF take_type
<1>19. CASE take
  BY <1>19 DEF take, countdown
<1>20. CASE finish
  BY <1>20 DEF finish
<1>21. CASE yield_fail
  BY <1>21 DEF yield_fail
<1>22. CASE stop_measurement
  BY <1>22 DEF stop_measurement, StopPlace
<1>23. CASE stop_check
  BY <1>23 DEF stop_check
<1>24. CASE stop_idle
  BY <1>24 DEF stop_idle
<1>25. CASE measure_preset
  BY <1>25 DEF measure_preset
<1> QED
  BY <1>1, <1>2, <1>3, <1>4, <1>5, <1>6, <1>7, <1>8, <1>9, <1>10, <1>11, <1>12,
     <1>13, <1>14, <1>15, <1>16, <1>17, <1>18, <1>19, <1>20, <1>21, <1>22,
     <1>23, <1>24, <1>25 DEF Program

\* The preset ends with the choice, or the command does.
LEMMA MeasChoose == ASSUME MeasInv, Choose PROVE MeasInv'
<1>1. pc = "preset" /\ pc' \in {"initiate", "ready"}
      /\ (pc' = "ready" => op' = "none") /\ (pc' = "initiate" => op = "MEAS")
  BY DEF Choose, measure_preset, At, Reply
<1>2. CASE pc' = "ready"
  BY <1>1, <1>2 DEF MeasInv
<1>3. CASE pc' = "initiate"
  <2>1. command.header = "CONF" /\ command.mode = named /\ UNCHANGED named
    BY <1>1, <1>3 DEF MeasInv, Stopping, Choose, Uncounted
  <2>2. S!configure
    BY <2>1 DEF Choose, S!reset, S!Executing
  <2>3. outcome' = "OK"
    BY <1>3 DEF Choose, Accepted
  <2>4. mode' = command.mode
    BY <2>2, <2>3
    DEF S!configure, S!Refuse, S!RefuseSearch, S!OneTooMany, S!HardwareRefuses,
        S!Reply, S!SetMode, S!m
  <2> QED BY <1>3, <2>1, <2>3, <2>4 DEF MeasInv, Stopping
<1> QED BY <1>1, <1>2, <1>3

\* Every step.
LEMMA MeasStep == MeasInv /\ [MultimeterNext]_multimeter => MeasInv'
<1> SUFFICES ASSUME MeasInv, [MultimeterNext]_multimeter PROVE MeasInv'
  OBVIOUS
<1>1. CASE Otherwise
  <2>1. UNCHANGED <<command, named, mode, outcome>>
    BY <1>1 DEF Otherwise, sensing, selection, Uncounted
  <2>2. CASE Program /\ pc # "preset"
    BY <2>1, <2>2, ProgramFlow DEF MeasInv
  <2>3. CASE ReceiveOther
    <3>1. CASE Retune
      BY <2>1, <3>1 DEF Retune, MeasInv
    <3>2. ASSUME NEW c \in Commands \ {"CONF", "MEAS", "RST"}, Receive(c)
          PROVE  op' # "MEAS"
      BY <3>2 DEF Receive
    <3> QED BY <2>3, <3>1, <3>2 DEF ReceiveOther, MeasInv
  <2>4. CASE answer \/ ReadValue \/ pulse \/ ExternalTrigger \/ Tick
    <3>1. UNCHANGED <<op, pc>>
      BY <2>4
      DEF answer, ReadValue, write_type, write_value, check_expected, commit,
          ReadValueAt, pulse, ExternalTrigger, pulse_clock, pulse_stamp, pulse_enter,
          ExternalTriggerAt, Tick, control
    <3> QED BY <2>1, <3>1 DEF MeasInv
  <2> QED BY <1>1, <2>2, <2>3, <2>4 DEF Otherwise
<1>2. CASE Choose
  BY <1>2, MeasChoose
<1>3. CASE Sensing \/ ReceiveSense
  BY <1>3 DEF Sensing, ReceiveSense, At, MeasInv, Stopping, vars, control
<1>4. CASE ReceiveChoosing
  <2>1. CASE op' = "MEAS"
    <3>1. PICK c \in Configuring : S!Receive(c) /\ named' = c.mode /\ pc' = "stop"
      BY <1>4, <2>1 DEF ReceiveChoosing, Receive, Entry
    <3>2. c.header = "CONF"
      BY MultimeterAssumption
    <3> QED BY <3>1, <3>2 DEF S!Receive, MeasInv
  <2> QED BY <2>1 DEF MeasInv
<1>5. CASE UNCHANGED multimeter
  BY <1>5 DEF multimeter, vars, control, sensing, selection, witness, MeasInv
<1> QED BY <1>1, <1>2, <1>3, <1>4, <1>5 DEF MultimeterNext

\* An acquisition begins in INITiate, READ? or MEASure? only.
LEMMA BeginsInitiates ==
  ASSUME [MultimeterNext]_multimeter, Begins PROVE pc = "initiate"
<1>1. [Next]_vars
  BY StepOfDmm
<1> USE DEF Begins, history, vars
<1>2. CASE initiate
  BY <1>2 DEF initiate, At
<1>3. CASE ~initiate /\ Program
  BY <1>3
  DEF Program, Poll, get_milliseconds, init_trigger, stamp_delay, enter_delay,
     init_fail, trg,
      wait_for_idle, idle_reply, yield, check_trigger_delay, start_measurement,
      stamp_measuring, enter_measuring, start_measure, in_hardware,
      check_measuring_timeout, take_type, take, finish, yield_fail,
      stop_measurement, stop_check, stop_idle, measure_preset
<1>4. CASE Client
  BY <1>4 DEF Client, Receive, Retune
<1>5. CASE answer \/ ReadValue \/ pulse \/ ExternalTrigger \/ Tick
  BY <1>5
  DEF answer, ReadValue, write_type, write_value, check_expected, commit,
      ReadValueAt, pulse, ExternalTrigger, pulse_clock, pulse_stamp, pulse_enter,
      ExternalTriggerAt, Tick
<1> QED BY <1>1, <1>2, <1>3, <1>4, <1>5 DEF Next

\* A MEASure? begins to measure only the function it named, after every step of
\* its configuration has succeeded (do_measure, measure.c).
THEOREM MeasureMeasuresNamed == MultimeterSpec => MeasuresWhatItNamed
<1>1. MultimeterInit => MeasInv
  BY DEF MultimeterInit, Init, MeasInv
<1>2. MeasInv /\ [MultimeterNext]_multimeter
        => [Begins /\ op = "MEAS" => mode = named /\ outcome = "OK"]_multimeter
  BY BeginsInitiates DEF MeasInv
<1> QED BY <1>1, <1>2, MeasStep, PTL DEF MultimeterSpec, MeasuresWhatItNamed

-----------------------------------------------------------------------------
(* An acquisition measures what was selected for it.                       *)

\* An idle meter is left by INITiate, READ? and MEASure? only, which count the
\* acquisition.
LEMMA ProgramBegins ==
  ASSUME ~Threads, HandlerInv, Program
  PROVE  /\ acq' = acq \/ (acq' = acq + 1 /\ state = "IDLE" /\ state' = "IDLE")
         /\ Acquiring' => Acquiring \/ acq' = acq + 1
<1> USE DEF Acquiring, HandlerInv, PlaceInv, CallbackInv,
            At, MainRuns, Goto, Fail, Reply, Wait, YieldReturns, Returns, Handle,
            ClockRead, tally, shared, callbacks, clock, reading, pulse_reading,
            settings, trigger, history
<1>1. CASE Poll \/ get_milliseconds
  BY <1>1 DEF Poll, get_milliseconds, control
<1>2. CASE initiate
  BY <1>2 DEF initiate
<1>3. CASE init_trigger
  BY <1>3 DEF init_trigger, TriggerDeadlock
<1>4. CASE stamp_delay
  BY <1>4 DEF stamp_delay
<1>5. CASE enter_delay
  BY <1>5 DEF enter_delay
<1>6. CASE init_fail
  BY <1>6 DEF init_fail
<1>7. CASE trg
  BY <1>7 DEF trg
<1>8. CASE wait_for_idle
  BY <1>8 DEF wait_for_idle, Finished
<1>9. CASE idle_reply
  BY <1>9 DEF idle_reply, Finished
<1>10. CASE yield
  BY <1>10 DEF yield
<1>11. CASE check_trigger_delay
  BY <1>11 DEF check_trigger_delay
<1>12. CASE start_measurement
  BY <1>12 DEF start_measurement
<1>13. CASE stamp_measuring
  BY <1>13 DEF stamp_measuring
<1>14. CASE enter_measuring
  BY <1>14 DEF enter_measuring
<1>15. CASE start_measure
  BY <1>15 DEF start_measure
<1>16. CASE in_hardware
  BY <1>16 DEF in_hardware
<1>17. CASE check_measuring_timeout
  BY <1>17 DEF check_measuring_timeout
<1>18. CASE take_type
  BY <1>18 DEF take_type
<1>19. CASE take
  BY <1>19 DEF take, countdown
<1>20. CASE finish
  BY <1>20 DEF finish
<1>21. CASE yield_fail
  BY <1>21 DEF yield_fail
<1>22. CASE stop_measurement
  BY <1>22 DEF stop_measurement, StopPlace
<1>23. CASE stop_check
  BY <1>23 DEF stop_check
<1>24. CASE stop_idle
  BY <1>24 DEF stop_idle
<1>25. CASE measure_preset
  BY <1>25 DEF measure_preset, PresetSettings
<1>26. QED
  BY <1>1, <1>2, <1>3, <1>4, <1>5, <1>6, <1>7, <1>8, <1>9, <1>10, <1>11, <1>12,
     <1>13, <1>14, <1>15, <1>16, <1>17, <1>18, <1>19, <1>20, <1>21, <1>22,
     <1>23, <1>24, <1>25 DEF Program

\* Every step.
LEMMA StepBegins ==
  ASSUME ~Threads, HandlerInv, [Next]_vars
  PROVE  /\ acq' = acq \/ (acq' = acq + 1 /\ state = "IDLE" /\ state' = "IDLE")
         /\ Acquiring' => Acquiring \/ acq' = acq + 1
<1>1. CASE Client
  <2>1. ASSUME NEW c \in Commands, Receive(c)
        PROVE  pc' # "init_trigger" /\ UNCHANGED <<acq, state>>
    BY <2>1, DmmAssumption DEF Receive, Entry, AllCommands, shared
  <2>2. QED
    BY <1>1, <2>1 DEF Client, Retune, shared, Acquiring
<1>2. CASE answer \/ ReadValue \/ pulse \/ ExternalTrigger \/ Tick \/ UNCHANGED vars
  <2>1. UNCHANGED <<acq, pc>>
    BY <1>2
    DEF answer, ReadValue, pulse, ExternalTrigger, Tick, vars, write_type,
        write_value,
       check_expected, commit, pulse_clock, pulse_stamp, pulse_enter, ReadValueAt,
       ExternalTriggerAt,
       control, history
  <2>2. state' # "IDLE" => state # "IDLE"
    BY <1>2
    DEF answer, ReadValue, pulse, ExternalTrigger, Tick, vars, write_type,
        write_value,
       check_expected, commit, pulse_clock, pulse_stamp, pulse_enter, ReadValueAt,
       ExternalTriggerAt,
       shared, HandlerInv, CallbackInv
  <2>3. QED
    BY <2>1, <2>2 DEF Acquiring
<1>3. QED
  BY <1>1, <1>2, ProgramBegins DEF Next

\* Function and range change only while the meter is idle, or by a SENSe command.
LEMMA WhoChooses ==
  ASSUME PathInv, [MultimeterNext]_multimeter, Setup' # Setup
  PROVE  \/ Choose /\ state = "IDLE" /\ state' = "IDLE" /\ pc' # "init_trigger"
         \/ op = "none" /\ UNCHANGED vars /\ pc = "ready"
<1> USE DEF Setup
<1>1. CASE Otherwise \/ UNCHANGED multimeter
  BY <1>1 DEF Otherwise, multimeter, sensing, selection
<1>2. CASE Choose
  BY <1>2 DEF Choose, measure_preset, At, Reply, PathInv
<1>3. CASE Sensing
  BY <1>3 DEF Sensing, At, PathInv
<1>4. CASE ReceiveSense \/ ReceiveChoosing
  BY <1>4 DEF ReceiveSense, ReceiveChoosing, S!Receive, S!selection
<1>5. QED
  BY <1>1, <1>2, <1>3, <1>4 DEF MultimeterNext

\* The history variables are kept by every step but those of the SENSe parser.
LEMMA Witnessed ==
  ASSUME [MultimeterNext]_multimeter
  PROVE  Witness \/ UNCHANGED <<vars, selection, witness>>
  BY DEF MultimeterNext, multimeter, sensing, Otherwise, Choose, Sensing,
     ReceiveChoosing,
     ReceiveSense, Uncounted

\* The only answer owed is that of the measurement in progress.
LEMMA MeasuredIsNext ==
  ASSUME PromptInv
  PROVE  /\ Measured \subseteq {NextReading}
         /\ Measured # {} => state = "MEASURING"
<1>1. hw = <<>> => {hw[i] : i \in DOMAIN hw} = {}
  OBVIOUS
<1>2. hw = <<NextReading>> => {hw[i] : i \in DOMAIN hw} = {NextReading}
  OBVIOUS
<1>3. QED
  BY <1>1, <1>2 DEF PromptInv, Answering, Measured

\* The same, of the next state.
LEMMA MeasuredIsNextThen ==
  ASSUME PromptInv'
  PROVE  /\ Measured' \subseteq {NextReading'}
         /\ Measured' # {} => state' = "MEASURING"
<1>1. hw' = <<>> => {hw'[i] : i \in DOMAIN hw'} = {}
  OBVIOUS
<1>2. hw' = <<NextReading'>> => {hw'[i] : i \in DOMAIN hw'} = {NextReading'}
  OBVIOUS
<1>3. QED
  BY <1>1, <1>2 DEF PromptInv, Answering, Measured

\* Every step.
LEMMA ChosenStep ==
  ASSUME ~Threads, TypeOK, TypeOK', HandlerInv, PathInv, PromptInv', ChosenInv,
         [MultimeterNext]_multimeter
  PROVE  ChosenInv'
<1>1. [Next]_vars
  BY StepOfDmm
<1>2. /\ acq' = acq \/ (acq' = acq + 1 /\ state = "IDLE" /\ state' = "IDLE")
      /\ Acquiring' => Acquiring \/ acq' = acq + 1
  BY <1>1, StepBegins
<1>3. acq \in Nat /\ acq' \in Nat
  BY DEF TypeOK, HistoryType
<1>4. CASE UNCHANGED <<vars, selection, witness>>
  BY <1>4 DEF ChosenInv, vars, control, shared, history, selection, witness, Setup
<1>5. CASE Witness
  <2>1. ASSUME Acquiring', ~disturbed'
        PROVE  Setup' = intended'
    <3>1. CASE Begins
      BY <1>5, <3>1 DEF Witness
    <3>2. CASE ~Begins
      <4>0. Acquiring
        BY <1>2, <1>3, <2>1, <3>2 DEF Begins
      <4>1. Acquiring /\ ~disturbed /\ ~Disturbs /\ intended' = intended
        BY <1>5, <2>1, <3>2, <4>0, Zenon DEF Witness
      <4>2. Setup = intended
        BY <4>1 DEF ChosenInv, Acquiring
      <4>3. Setup' = Setup
        BY <2>1, <4>1, WhoChooses DEF Disturbs, Acquiring
      <4>4. QED
        BY <4>1, <4>2, <4>3
    <3>3. QED
      BY <3>1, <3>2
  <2>2. ASSUME NEW r \in foreign'
        PROVE  /\ r \in Readings /\ r[1] <= acq' /\ r[2] # 0
               /\ ~disturbed' => r[1] # acq'
    <3>1. CASE r \in foreign
      <4>1. /\ r \in Readings /\ r[1] <= acq /\ r[2] # 0 /\ r[1] \in Nat
            /\ ~disturbed => r[1] # acq
        BY <3>1 DEF ChosenInv, Readings
      <4>2. ~disturbed' => Begins \/ ~disturbed
        BY <1>5 DEF Witness
      <4>3. QED
        BY <1>2, <1>3, <4>1, <4>2 DEF Begins
    <3>2. CASE r \notin foreign
      <4>1. r \in Measured' /\ Setup' # intended'
        BY <1>5, <2>2, <3>2 DEF Witness
      <4>2. r = NextReading' /\ state' = "MEASURING"
        BY <4>1, MeasuredIsNextThen
      <4>3. disturbed'
        BY <2>1, <4>1, <4>2 DEF Acquiring
      <4>4. Len(Delivered') \in Nat
        BY DEF TypeOK, DataType, Delivered
      <4>5. QED
        BY <1>3, <4>2, <4>3, <4>4 DEF NextReading, Readings
    <3>3. QED
      BY <3>1, <3>2
  <2>3. QED
    BY <2>1, <2>2 DEF ChosenInv, Acquiring
<1>6. QED
  BY <1>4, <1>5, Witnessed

\* From its beginning to its end an acquisition measures what was selected when
\* it began, unless a SENSe command changes that (dmm.c, configure.c).
THEOREM ChosenInvariant == ASSUME PromptHardware PROVE MultimeterSpec => []ChosenInv
<1>0. ~Threads
  BY DEF PromptHardware
<1>1. MultimeterInit => ChosenInv
  BY DEF MultimeterInit, Init, ChosenInv
<1>2. /\ TypeOK /\ TypeOK' /\ HandlerInv /\ PathInv /\ PromptInv' /\ ChosenInv
      /\ [MultimeterNext]_multimeter
      => ChosenInv'
  BY <1>0, ChosenStep
<1>3. Spec => []HandlerInv /\ []PathInv
  BY <1>0, HandlerInvariant, PathInvariant
<1>4. QED
  BY <1>1, <1>2, <1>3, ImplementsDmm, TypeCorrect, PromptInvariant, PTL
  DEF MultimeterSpec

\* No reading of another function, range or resolution is among those of an
\* undisturbed acquisition: CONFigure, MEASure? and *RST stop the old one first
\* (SCPIMM_stop_mesurement).
THEOREM FunctionOfReadings ==
  ASSUME PromptHardware
  PROVE  MultimeterSpec => []ReadingsOfFunction
<1>1. TypeOK /\ DataInOrder /\ ChosenInv => ReadingsOfFunction
  <2> SUFFICES ASSUME TypeOK, DataInOrder, ChosenInv, ~disturbed,
                      NEW i \in DOMAIN Delivered, Delivered[i] \in foreign
               PROVE  FALSE
    BY DEF ReadingsOfFunction
  <2>1. i \in 1 .. Len(Delivered)
    BY DEF TypeOK, DataType, Delivered
  <2>2. Delivered[i] = <<acq, i>> \/ Delivered[i] = SCPIMM_OVERFLOW
    BY <2>1 DEF DataInOrder
  <2>3. QED
    BY <2>2 DEF ChosenInv, SCPIMM_OVERFLOW
<1>2. QED
  BY <1>1, ImplementsDmm, TypeCorrect, ReadingsInOrder, ChosenInvariant, PTL

\* Only a SENSe command changes the function or the range while the hardware
\* measures; the others wait for it (SCPIMM_stop_mesurement).
THEOREM ChosenWhileIdle ==
  ASSUME PromptHardware
  PROVE  MultimeterSpec => ChosenBetweenMeasurements
<1>0. ~Threads
  BY DEF PromptHardware
<1>1. PathInv /\ PromptInv /\ [MultimeterNext]_multimeter
        => [Setup' # Setup /\ Measured # {} => op = "none"]_multimeter
  BY WhoChooses, MeasuredIsNext
<1>2. Spec => []PathInv
  BY <1>0, PathInvariant
<1>3. QED
  BY <1>1, <1>2, ImplementsDmm, PromptInvariant, PTL
  DEF MultimeterSpec, ChosenBetweenMeasurements
=============================================================================
