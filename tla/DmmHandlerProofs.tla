-------------------------- MODULE DmmHandlerProofs --------------------------
(***************************************************************************)
(* Proofs about a meter whose callbacks are interrupt handlers: it keeps   *)
(* to the cycle of states of dmm.c and never loses an error, and a query   *)
(* that sends readings out as they are measured owns the acquisition it    *)
(* waits for, whatever the client, the hardware and the clock do.  Every   *)
(* theorem assumes ~Threads.                                               *)
(***************************************************************************)
EXTENDS DmmProofs

\* What a step has to show: the invariant after it, and that it changes state
\* and measurement_error as allowed.
StepOK == /\ HandlerInv'
          /\ state' = state \/ LegalStep
          /\ measurement_error' = measurement_error \/ ErrorStep

\* Nothing runs and nothing is owed at the start.
LEMMA InitHandler == Init => HandlerInv
  BY DEF Init, HandlerInv, PlaceInv, CallbackInv, ErrorImpliesIdle, NoAnswer

\* A step that keeps what the invariant speaks of.
LEMMA SameStep ==
  ASSUME HandlerInv,
         UNCHANGED <<state, trigger_src, measurement_error, pc, frame,
                     read_value, external_trigger>>
  PROVE  StepOK
  BY DEF StepOK, HandlerInv, PlaceInv, CallbackInv, ErrorImpliesIdle

\* The program takes a step only while no handler is running, so what it found
\* in `state' at its last step can only have been advanced by a complete
\* handler: WAIT_FOR_TRIGGER to TRIGGER_DELAY, or MEASURING to MEASURED.
LEMMA ProgramStep ==
  ASSUME ~Threads, HandlerInv, Program
  PROVE  StepOK
<1> USE DEF StepOK, HandlerInv, PlaceInv, CallbackInv, ErrorImpliesIdle,
            LegalStep, ErrorStep, Edges, At, MainRuns, Goto, Fail, Reply, Wait,
            YieldReturns, Returns, Handle, ClockRead, tally, shared, callbacks,
            clock, reading, pulse_reading, settings, trigger, history
<1>1. CASE Poll \/ get_milliseconds
  BY <1>1 DEF Poll, get_milliseconds, control
<1>2. CASE initiate
  BY <1>2 DEF initiate
<1>3. CASE init_trigger
  BY <1>3 DEF init_trigger, TriggerDeadlock
<1>4. CASE stamp_delay
  BY <1>4 DEF stamp_delay
<1>5. CASE enter_delay
  BY <1>5 DEF enter_delay
<1>6. CASE init_fail
  BY <1>6 DEF init_fail
<1>7. CASE trg
  BY <1>7 DEF trg
<1>8. CASE wait_for_idle
  BY <1>8 DEF wait_for_idle, Finished
<1>9. CASE idle_reply
  BY <1>9 DEF idle_reply, Finished
<1>10. CASE yield
  BY <1>10 DEF yield
<1>11. CASE check_trigger_delay
  BY <1>11 DEF check_trigger_delay
<1>12. CASE start_measurement
  BY <1>12 DEF start_measurement
<1>13. CASE stamp_measuring
  BY <1>13 DEF stamp_measuring
<1>14. CASE enter_measuring
  BY <1>14 DEF enter_measuring
<1>15. CASE start_measure
  BY <1>15 DEF start_measure
<1>16. CASE in_hardware
  BY <1>16 DEF in_hardware
<1>17. CASE check_measuring_timeout
  BY <1>17 DEF check_measuring_timeout
<1>18. CASE take_type
  BY <1>18 DEF take_type
<1>19. CASE take
  BY <1>19 DEF take, countdown
<1>20. CASE finish
  BY <1>20 DEF finish
<1>21. CASE yield_fail
  BY <1>21 DEF yield_fail
<1>22. CASE stop_measurement
  BY <1>22 DEF stop_measurement, StopPlace
<1>23. CASE stop_check
  BY <1>23 DEF stop_check
<1>24. CASE stop_idle
  BY <1>24 DEF stop_idle
<1>25. CASE measure_preset
  BY <1>25 DEF measure_preset, PresetSettings
<1>26. QED
  BY <1>1, <1>2, <1>3, <1>4, <1>5, <1>6, <1>7, <1>8, <1>9, <1>10, <1>11, <1>12,
     <1>13, <1>14, <1>15, <1>16, <1>17, <1>18, <1>19, <1>20, <1>21, <1>22,
     <1>23, <1>24, <1>25 DEF Program

\* A command only chooses the place; a settings command is executed at a place
\* of which the invariant says nothing.
LEMMA ClientStep ==
  ASSUME ~Threads, HandlerInv, Client
  PROVE  StepOK
<1> USE DEF StepOK, HandlerInv, PlaceInv, CallbackInv, ErrorImpliesIdle, At,
            MainRuns, tally, shared, callbacks
<1>1. CASE Retune
  BY <1>1 DEF Retune
<1>2. ASSUME NEW c \in Commands, Receive(c)
      PROVE  StepOK
  <2>1. c \in AllCommands
    BY DmmAssumption
  <2>2. pc' \in {"initiate", "wait", "trg", "stop"}
    BY <1>2, <2>1 DEF Receive, Entry, AllCommands
  <2>3. QED
    BY <1>2, <2>2 DEF Receive, settings, trigger
<1>3. QED
  BY <1>1, <1>2 DEF Client

\* The handlers exclude each other, and a handler that tested the state is the
\* only one to write it.
LEMMA HandlerStep ==
  ASSUME ~Threads, HandlerInv,
         answer \/ ReadValue \/ pulse \/ ExternalTrigger
  PROVE  StepOK
<1> USE DEF StepOK, HandlerInv, PlaceInv, CallbackInv, ErrorImpliesIdle,
            LegalStep, Edges, ReadValueAt, ReadValueGoes, ExternalTriggerAt,
            ClockRead, NoAnswer, tally, control, settings, trigger, shared
<1>1. CASE answer
  BY <1>1 DEF answer
<1>2. CASE write_type
  BY <1>2 DEF write_type
<1>3. CASE write_value
  BY <1>3 DEF write_value
<1>4. CASE check_expected
  BY <1>4 DEF check_expected, Expected
<1>5. CASE commit
  BY <1>5 DEF commit
<1>6. CASE pulse
  BY <1>6 DEF pulse, PulseExpected
<1>7. CASE pulse_clock \/ pulse_stamp
  BY <1>7 DEF pulse_clock, pulse_stamp
<1>8. CASE pulse_enter
  BY <1>8 DEF pulse_enter
<1>9. QED
  BY <1>1, <1>2, <1>3, <1>4, <1>5, <1>6, <1>7, <1>8 DEF ReadValue, ExternalTrigger

\* Every step of a meter with interrupt handlers.
LEMMA NextStep == ASSUME ~Threads, HandlerInv, [Next]_vars PROVE StepOK
<1>1. CASE Tick \/ UNCHANGED vars
  BY <1>1, SameStep
  DEF Tick, vars, settings, trigger, control, shared, tally, callbacks
<1>2. QED
  BY <1>1, ProgramStep, ClientStep, HandlerStep DEF Next

\* The invariant: place and state agree, a handler acts on what still holds,
\* and an error waits only while the meter is idle.
THEOREM HandlerInvariant == ASSUME ~Threads PROVE Spec => []HandlerInv
<1>1. Init => HandlerInv
  BY InitHandler
<1>2. HandlerInv /\ [Next]_vars => HandlerInv'
  BY NextStep DEF StepOK
<1>3. QED
  BY <1>1, <1>2, PTL DEF Spec

\* The error of a failed acquisition waits only in an idle meter: nothing that
\* failed runs on.
THEOREM ErrorsOnlyWhenIdle == ASSUME ~Threads PROVE Spec => []ErrorImpliesIdle
<1>1. HandlerInv => ErrorImpliesIdle
  BY DEF HandlerInv
<1>2. QED
  BY <1>1, HandlerInvariant, PTL

\* A value or a trigger that comes late never revives an aborted acquisition,
\* and the acquisition only moves along the cycle of dmm.c.
THEOREM StateCycle == ASSUME ~Threads PROVE Spec => LegalTransitions
<1>1. HandlerInv /\ [Next]_vars => [LegalStep]_state
  BY NextStep DEF StepOK
<1>2. QED
  BY <1>1, HandlerInvariant, PTL DEF Spec, LegalTransitions

\* An error leaves measurement_error only towards the client, or when the next
\* acquisition begins; none overwrites another.
THEOREM ErrorsReported == ASSUME ~Threads PROVE Spec => NoSilentError
<1>1. HandlerInv /\ [Next]_vars => [ErrorStep]_measurement_error
  BY NextStep DEF StepOK
<1>2. QED
  BY <1>1, HandlerInvariant, PTL DEF Spec, NoSilentError

\* SCPIMM_read_value finds the measurement it answers still awaited when it
\* declares it done: an interrupt handler's test and its write are one.
THEOREM OnlyExpectedValues == ASSUME ~Threads PROVE Spec => UnexpectedValueIgnored
<1>1. HandlerInv /\ [Next]_vars
        => [read_value.pc = "commit" /\ read_value'.pc = "idle"
              => state = "MEASURING"]_vars
  BY DEF HandlerInv, CallbackInv
<1>2. QED
  BY <1>1, HandlerInvariant, PTL DEF Spec, UnexpectedValueIgnored

-----------------------------------------------------------------------------
(* Time.                                                                   *)

\* The program arrives at a comparison with no time read, leaves it with none,
\* and no stamp comes in between: a trigger callback that is to stamp has found
\* the meter waiting for a trigger, which it is at none of these places.
LEMMA ProgramRead ==
  ASSUME ~Threads, HandlerInv, ClockType, ClockInv, ReadInv, Program
  PROVE  ReadInv'
<1> USE DEF ReadInv, ClockPlaces
<1>1. CASE get_milliseconds
  BY <1>1 DEF get_milliseconds, control, callbacks, pulse_reading, ClockType
<1>2. pc \notin ClockPlaces => cur_time = NotRead /\ cur_age = 0
  BY DEF ClockInv
<1>3. age \in Nat
  BY DmmAssumption DEF ClockType
<1>4. CASE UNCHANGED <<age, reading, pulse_time, external_trigger>>
             /\ pc \notin ClockPlaces
  BY <1>2, <1>3, <1>4 DEF reading
<1>5. CASE Poll \/ initiate \/ init_trigger \/ enter_delay \/ init_fail \/ trg
             \/ wait_for_idle \/ idle_reply
  <2>1. UNCHANGED <<age, reading, pulse_time, external_trigger>>
          /\ pc \notin ClockPlaces
    BY <1>5 DEF Poll, initiate, init_trigger, enter_delay, init_fail, trg,
       wait_for_idle, idle_reply, At, clock, pulse_reading, callbacks
  <2>2. QED
    BY <1>4, <2>1
<1>6. CASE yield \/ start_measurement \/ enter_measuring \/ start_measure
             \/ in_hardware \/ take_type \/ take \/ finish \/ yield_fail
             \/ stop_measurement \/ stop_idle \/ measure_preset
  <2>1. UNCHANGED <<age, reading, pulse_time, external_trigger>>
          /\ pc \notin ClockPlaces
    BY <1>6 DEF yield, start_measurement, enter_measuring, start_measure,
       in_hardware, take_type, take, finish, yield_fail, stop_measurement,
       stop_idle, measure_preset, At, clock, pulse_reading, callbacks
  <2>2. QED
    BY <1>4, <2>1
<1>7. CASE stamp_delay \/ stamp_measuring
  BY <1>7
  DEF stamp_delay, stamp_measuring, ClockRead, Goto, Fail, Returns, Reply, Wait,
      YieldReturns, At, pulse_reading, callbacks, reading
<1>8. CASE check_trigger_delay \/ check_measuring_timeout \/ stop_check
  BY <1>3, <1>8
  DEF check_trigger_delay, check_measuring_timeout, stop_check, ClockRead, Goto,
      Fail, Reply, Wait, YieldReturns, At, pulse_reading, callbacks, reading
<1>9. QED
  BY <1>1, <1>5, <1>6, <1>7, <1>8 DEF Program

\* The other steps.
LEMMA NextRead ==
  ASSUME ~Threads, HandlerInv, ClockType, ClockInv, ReadInv, [Next]_vars
  PROVE  ReadInv'
<1> USE DEF ReadInv, ClockPlaces
<1>1. CASE Program
  BY <1>1, ProgramRead
<1>2. CASE Client
  <2>1. UNCHANGED <<age, reading, pulse_time, external_trigger>> /\ pc = "ready"
    BY <1>2 DEF Client, Retune, Receive, At, clock, pulse_reading, callbacks
  <2>2. cur_time = NotRead /\ cur_age = 0 /\ age \in Nat
    BY <2>1, DmmAssumption DEF ClockInv, ClockType
  <2>3. QED
    BY <2>1, <2>2 DEF reading
<1>3. CASE answer \/ ReadValue
  BY <1>3
  DEF answer, ReadValue, ReadValueAt, write_type, write_value, check_expected,
      commit, control, clock, reading, pulse_reading
<1>4. CASE pulse
  BY <1>4 DEF pulse, ExternalTriggerAt, control, reading, pulse_reading
<1>5. CASE ExternalTrigger
  <2>1. state = "WAIT_FOR_TRIGGER"
    BY <1>5
    DEF ExternalTrigger, pulse_clock, pulse_stamp, pulse_enter, ExternalTriggerAt,
        HandlerInv, CallbackInv
  <2>2. pc \notin {"check_delay", "check_timeout", "stop_check"}
    BY <2>1 DEF HandlerInv, PlaceInv
  <2>3. UNCHANGED <<pc, cur_time>>
    BY <1>5
    DEF ExternalTrigger, pulse_clock, pulse_stamp, pulse_enter, ExternalTriggerAt,
        control, reading
  <2>4. external_trigger' # "stamp" => pulse_time' = NotRead
    BY <1>5
    DEF ExternalTrigger, pulse_clock, pulse_stamp, pulse_enter, ExternalTriggerAt,
        pulse_reading
  <2>5. QED
    BY <2>2, <2>3, <2>4
<1>6. CASE Tick
  <2>1. UNCHANGED <<pc, cur_time, pulse_time, external_trigger>>
    BY <1>6 DEF Tick, control, callbacks
  <2>2. ASSUME pc \in {"check_delay", "check_timeout", "stop_check"}
        PROVE  cur_age' <= age'
    <3>1. age < TimeMod - 1 /\ age' = age + 1
      BY <1>6, <2>2 DEF Tick, Timed
    <3>2. cur_age' = 0 \/ cur_age' = cur_age + 1
      BY <1>6 DEF Tick
    <3>3. QED
      BY <2>2, <3>1, <3>2 DEF ClockType
  <2>3. QED
    BY <2>1, <2>2
<1>7. CASE UNCHANGED vars
  BY <1>7 DEF vars, control, clock, reading, pulse_reading, callbacks
<1>8. QED
  BY <1>1, <1>2, <1>3, <1>4, <1>5, <1>6, <1>7 DEF Next

\* With interrupt handlers no stamp comes between the reading of the clock and
\* the comparison it is for (dmm.c: check_trigger_delay, check_measuring_timeout,
\* SCPIMM_stop_mesurement).
THEOREM ReadInvariant == ASSUME ~Threads PROVE Spec => []ReadInv
<1>1. Init => ReadInv
  BY DEF Init, ReadInv, ClockPlaces
<1>2. TypeOK /\ HandlerInv /\ ClockInv /\ ReadInv /\ [Next]_vars => ReadInv'
  BY NextRead DEF TypeOK
<1>3. QED
  BY <1>1, <1>2, TypeCorrect, HandlerInvariant, ClockInvariant, PTL DEF Spec

\* The subtraction of the stamp from the time that was read gives the time from
\* the one to the other.
LEMMA ElapsedAtCheck ==
  ASSUME TypeOK, ClockInv, ReadInv, cur_time # NotRead,
         pc \in {"check_delay", "check_timeout", "stop_check"}
  PROVE  Elapsed = ReadAge
<1>1. ClockType /\ state_time \in 0 .. TimeMod - 1
  BY DEF TypeOK, SharedType
<1>2. QED
  BY <1>1, ElapsedIsAge DEF ClockInv, Timed, ReadInv

\* With interrupt handlers check_trigger_delay and check_measuring_timeout act
\* exactly when their time is over at the reading of the clock, across every
\* wrap of the millisecond counter and whatever happens between the reading and
\* its use (dmm.c).
THEOREM TimersAreExact == ASSUME ~Threads PROVE Spec => TimersExact
<1> DEFINE Started == pc = "check_delay" /\ pc' # pc /\ err' # "HARDWARE"
                        => (pc' = "start" <=> ReadAge >= trigger_delay)
           Expired == pc = "check_timeout" /\ pc' # pc /\ err' # "HARDWARE"
                        => (err' = "IO_PROCESSOR" <=> ReadAge >= MeasurementTimeout)
<1>1. ASSUME TypeOK, ClockInv, ReadInv, [Next]_vars
      PROVE  Started /\ Expired
  <2>1. pc \in {"check_delay", "check_timeout"} /\ cur_time # NotRead
          => Elapsed = ReadAge
    BY <1>1, ElapsedAtCheck
  <2>2. pc = "check_delay" /\ pc' # pc => check_trigger_delay
    BY <1>1, Leaves
  <2>3. pc = "check_timeout" /\ pc' # pc => check_measuring_timeout
    BY <1>1, Leaves
  <2>4. Started
    BY <2>1, <2>2
    DEF check_trigger_delay, ClockRead, Goto, Fail, YieldReturns, Reply, Wait
  <2>5. Expired
    BY <2>1, <2>3
    DEF check_measuring_timeout, TimedOut, ClockRead, Goto, Fail, YieldReturns,
        Reply, Wait
  <2>6. QED
    BY <2>4, <2>5
<1>2. TypeOK /\ ClockInv /\ ReadInv /\ [Next]_vars => [Started /\ Expired]_pc
  BY <1>1
<1>3. QED
  BY <1>2, TypeCorrect, ClockInvariant, ReadInvariant, PTL DEF Spec, TimersExact

-----------------------------------------------------------------------------
(* The queries that send readings out as they are measured.                *)

\* What a step has to show: who owns the acquisition after it, and where its
\* readings go.
QueryStepOK == /\ OwnedInv'
               /\ output' = output \/ ResponseStep

\* At the start the readings go to the buffer.
LEMMA InitOwned == Init => OwnedInv
  BY DEF Init, OwnedInv

\* A step that keeps what the invariant speaks of.
LEMMA SameOwner ==
  ASSUME OwnedInv,
         UNCHANGED <<state, trigger_src, dst, op, pc, frame, output>>
  PROVE  QueryStepOK
  BY DEF QueryStepOK, OwnedInv, Before, Stopping

\* A query leaves its loop, and a trigger source of the program's is refused,
\* only with the acquisition ended; while it is in its loop no other command
\* is executed.
LEMMA ProgramOwned ==
  ASSUME ~Threads, HandlerInv, OwnedInv, Program
  PROVE  QueryStepOK
<1> USE DEF QueryStepOK, ResponseStep, OwnedInv, Before, Stopping, HandlerInv, PlaceInv,
            CallbackInv,
            At, MainRuns, Goto, Fail, Reply, Wait, YieldReturns, Returns, Handle,
            ClockRead, tally, shared, callbacks, clock, reading, pulse_reading,
            settings, trigger, history
<1>1. CASE Poll \/ get_milliseconds
  BY <1>1 DEF Poll, get_milliseconds, control
<1>2. CASE initiate
  BY <1>2 DEF initiate
<1>3. CASE init_trigger
  BY <1>3 DEF init_trigger, TriggerDeadlock
<1>4. CASE stamp_delay
  BY <1>4 DEF stamp_delay
<1>5. CASE enter_delay
  BY <1>5 DEF enter_delay
<1>6. CASE init_fail
  BY <1>6 DEF init_fail
<1>7. CASE trg
  BY <1>7 DEF trg
<1>8. CASE wait_for_idle
  BY <1>8 DEF wait_for_idle, Finished
<1>9. CASE idle_reply
  BY <1>9 DEF idle_reply, Finished
<1>10. CASE yield
  BY <1>10 DEF yield
<1>11. CASE check_trigger_delay
  BY <1>11 DEF check_trigger_delay
<1>12. CASE start_measurement
  BY <1>12 DEF start_measurement
<1>13. CASE stamp_measuring
  BY <1>13 DEF stamp_measuring
<1>14. CASE enter_measuring
  BY <1>14 DEF enter_measuring
<1>15. CASE start_measure
  BY <1>15 DEF start_measure
<1>16. CASE in_hardware
  BY <1>16 DEF in_hardware
<1>17. CASE check_measuring_timeout
  BY <1>17 DEF check_measuring_timeout
<1>18. CASE take_type
  BY <1>18 DEF take_type
<1>19. CASE take
  BY <1>19 DEF take, countdown
<1>20. CASE finish
  BY <1>20 DEF finish
<1>21. CASE yield_fail
  BY <1>21 DEF yield_fail
<1>22. CASE stop_measurement
  BY <1>22 DEF stop_measurement, StopPlace
<1>23. CASE stop_check
  BY <1>23 DEF stop_check
<1>24. CASE stop_idle
  BY <1>24 DEF stop_idle
<1>25. CASE measure_preset
  BY <1>25 DEF measure_preset, PresetSettings
<1>26. QED
  BY <1>1, <1>2, <1>3, <1>4, <1>5, <1>6, <1>7, <1>8, <1>9, <1>10, <1>11, <1>12,
     <1>13, <1>14, <1>15, <1>16, <1>17, <1>18, <1>19, <1>20, <1>21, <1>22,
     <1>23, <1>24, <1>25 DEF Program

\* A settings command finds no acquisition of a query, and a command begins
\* before it has one.
LEMMA ClientOwned ==
  ASSUME ~Threads, OwnedInv, Client
  PROVE  QueryStepOK
<1> USE DEF QueryStepOK, ResponseStep, OwnedInv, Before, Stopping, At, MainRuns, tally,
            shared, settings,
            trigger
<1>1. CASE Retune
  BY <1>1 DEF Retune
<1>2. ASSUME NEW c \in Commands, Receive(c)
      PROVE  QueryStepOK
  <2>1. c \in AllCommands
    BY DmmAssumption
  <2>2. /\ pc' \in {"initiate", "wait", "trg", "stop"}
        /\ c \in {"READ", "MEAS"} => pc' \in Before
        /\ pc' = "initiate" => c \in {"INIT", "READ"}
        /\ pc' = "trg" => c = "TRG"
    BY <1>2, <2>1 DEF Receive, Entry, AllCommands
  <2>3. QED
    BY <1>2, <2>2 DEF Receive
<1>3. QED
  BY <1>1, <1>2 DEF Client

\* The handlers move an acquisition that is already running, and an external
\* trigger is not one of the bus.
LEMMA HandlerOwned ==
  ASSUME ~Threads, HandlerInv, OwnedInv,
         answer \/ ReadValue \/ pulse \/ ExternalTrigger
  PROVE  QueryStepOK
<1> USE DEF QueryStepOK, ResponseStep, OwnedInv, Before, Stopping, HandlerInv, PlaceInv,
            CallbackInv,
            ReadValueAt, ReadValueGoes, ExternalTriggerAt, ClockRead, tally,
            control, settings, trigger, shared
<1>1. CASE answer
  BY <1>1, SameOwner DEF answer
<1>2. CASE write_type \/ write_value \/ check_expected \/ pulse \/ pulse_clock \/ pulse_stamp
  BY <1>2, SameOwner DEF write_type, write_value, check_expected, pulse,
     pulse_clock, pulse_stamp
<1>3. CASE commit
  BY <1>3 DEF commit
<1>4. CASE pulse_enter
  BY <1>4 DEF pulse_enter
<1>5. QED
  BY <1>1, <1>2, <1>3, <1>4 DEF ReadValue, ExternalTrigger

\* Every step.
LEMMA NextOwned ==
  ASSUME ~Threads, HandlerInv, OwnedInv, [Next]_vars
  PROVE  QueryStepOK
<1>1. CASE Tick \/ UNCHANGED vars
  BY <1>1, SameOwner DEF Tick, vars, settings, trigger, control, shared, tally
<1>2. QED
  BY <1>1, ProgramOwned, ClientOwned, HandlerOwned DEF Next

\* An acquisition that sends its readings out belongs to the query that is
\* being executed, and such a query to such an acquisition.
THEOREM QueryOwnsAcquisition == ASSUME ~Threads PROVE Spec => []OwnedInv
<1>1. Init => OwnedInv
  BY InitOwned
<1>2. HandlerInv /\ OwnedInv /\ [Next]_vars => OwnedInv'
  BY NextOwned DEF QueryStepOK
<1>3. QED
  BY <1>1, <1>2, HandlerInvariant, PTL DEF Spec

\* No reading goes into the response of a command that did not ask for it.
THEOREM ReadingsInOwnResponse == ASSUME ~Threads PROVE Spec => ResponseOwned
<1>1. HandlerInv /\ OwnedInv /\ [Next]_vars => [ResponseStep]_output
  BY NextOwned DEF QueryStepOK
<1>2. QED
  BY <1>1, HandlerInvariant, QueryOwnsAcquisition, PTL DEF Spec, ResponseOwned

\* A READ? or MEASure? never waits for the *TRG it keeps from being parsed.
THEOREM NoTriggerDeadlock == ASSUME ~Threads PROVE Spec => []ReadNeverWaitsForBus
<1>1. OwnedInv => ReadNeverWaitsForBus
  BY DEF OwnedInv, ReadNeverWaitsForBus, Before, Stopping
<1>2. QED
  BY <1>1, QueryOwnsAcquisition, PTL
=============================================================================
