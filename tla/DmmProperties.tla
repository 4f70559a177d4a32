--------------------------- MODULE DmmProperties ----------------------------
(***************************************************************************)
(* What the measurement state machine must do, and the abstract            *)
(* acquisition it implements.                                              *)
(***************************************************************************)
EXTENDS Dmm

States == {"IDLE", "WAIT_FOR_TRIGGER", "TRIGGER_DELAY", "MEASURING", "MEASURED"}
Places == {"ready", "initiate", "init_trigger", "stamp_delay", "enter_delay",
           "init_fail", "trg", "wait", "yield", "check_delay", "start",
           "stamp_measuring", "enter_measuring", "start_measure", "in_hardware",
           "check_timeout", "take_type", "take", "finish", "yield_fail",
           "stop", "stop_check", "stop_idle", "preset"}
Errors == {"OK", "INSUFFICIENT_MEMORY", "INIT_IGNORED", "TRIGGER_DEADLOCK",
           "TRIGGER_IGNORED", "HARDWARE", "IO_PROCESSOR", "DATA_STALE",
           "DATA_OUT_OF_RANGE", "ILLEGAL_PARAMETER_VALUE", "MISSING_PARAMETER"}
Types == {"NUM", "NAN", "INF"}

SettingsType ==
  /\ sample_count_num \in Nat /\ trigger_count_num \in Nat
  /\ trigger_src \in Sources /\ trigger_delay \in 0 .. MaxDelay

ControlType ==
  /\ op \in AllCommands \union {"none", "yield"}
  /\ pc \in Places /\ frame \in {"none", "initiate", "yield", "trg"}
  /\ err \in Errors /\ result \in Errors

SharedType ==
  /\ state \in States /\ state_time \in 0 .. TimeMod - 1
  /\ last_measured_value \in [type : Types, value : Readings]

DataType ==
  /\ dst \in {"BUF", "OUT"}
  /\ sample_count \in Nat /\ trigger_count \in Nat
  /\ buf \in Seq(Readings) /\ output \in Seq(Readings)
  /\ measurement_error \in Errors /\ got \in Types

CallbackType ==
  /\ read_value \in [pc : {"idle", "type", "value", "check", "commit"},
                     value : Readings, kind : {"NUM", "NAN"}]
  /\ external_trigger \in {"idle", "stamp", "enter"}
  /\ hw \in Seq(Readings)

ClockType ==
  /\ now \in 0 .. TimeMod - 1 /\ age \in 0 .. TimeMod - 1
  /\ cur_time \in 0 .. NotRead /\ cur_age \in 0 .. TimeMod - 1
  /\ pulse_time \in 0 .. NotRead /\ pulse_age \in 0 .. TimeMod - 1

HistoryType == cmds \in Nat /\ acq \in Nat /\ requested \in Nat

FlagType ==
  /\ infinite_trigger_count \in BOOLEAN /\ trigger_auto_delay \in BOOLEAN
  /\ reported \in BOOLEAN

\* Every variable has its type: the fields of scpimm_context_t, the control
\* state of the program and of the callbacks, and the history variables.
TypeOK == /\ SettingsType /\ ControlType /\ SharedType /\ DataType
          /\ CallbackType /\ ClockType /\ HistoryType /\ FlagType

-----------------------------------------------------------------------------
(* The states of the acquisition.                                          *)

Edges == {<<"WAIT_FOR_TRIGGER", "TRIGGER_DELAY">>, <<"TRIGGER_DELAY", "MEASURING">>,
          <<"MEASURING", "MEASURED">>, <<"MEASURED", "WAIT_FOR_TRIGGER">>,
          <<"MEASURED", "TRIGGER_DELAY">>}

LegalStep ==
  \/ state' = "IDLE"
  \/ <<state, state'>> \in Edges
  \/ state = "IDLE" /\ pc = "init_trigger" /\ frame = "initiate"

\* Whoever writes `state' (the program or a callback that tested it some steps
\* before) moves the acquisition along the cycle of dmm.c or ends it, and only
\* an INITiate, READ? or MEASure? makes an idle meter leave IDLE: a late value
\* or trigger never brings an aborted acquisition back.
LegalTransitions == [][LegalStep]_state

\* SCPIMM_read_value ignores a value when "measurement is not expected now":
\* it declares the measurement done only in the state MEASURING.
UnexpectedValueIgnored ==
  [][ read_value.pc = "commit" /\ read_value'.pc = "idle"
        => state = "MEASURING" ]_vars

\* An error waits in measurement_error only while the meter is idle: no
\* acquisition runs on after it failed.
ErrorImpliesIdle == measurement_error # "OK" => state = "IDLE"

ErrorStep ==
  measurement_error # "OK" =>
    \/ op' = "none" /\ result' = measurement_error
    \/ pc = "initiate" /\ state = "IDLE"

\* The error of an acquisition leaves measurement_error only by being reported
\* to the client, or when the next acquisition begins.
NoSilentError == [][ErrorStep]_measurement_error

\* While an acquisition runs, its two uint16_t countdowns stay above zero, so
\* that neither wraps; TRIGger:COUNt INF alone, of a READ?, needs no count.
CountersLive ==
  state # "IDLE" /\ pc # "finish" =>
    /\ sample_count \in 1 .. BufLen
    /\ \/ trigger_count \in 1 .. BufLen
       \/ infinite_trigger_count /\ dst = "OUT"

\* The readings never outgrow the reading memory, whatever the client changes
\* while they are taken.
BufferBounded == Len(buf) <= BufLen

\* An acquisition that INITiate admitted does not run out of memory.
AdmittedFits == pc = "yield_fail" => err # "INSUFFICIENT_MEMORY"

\* A READ? or MEASure? never waits for the *TRG it would keep from being
\* parsed.
ReadNeverWaitsForBus ==
  ~(op \in {"READ", "MEAS"} /\ pc \in {"wait", "yield"}
      /\ state = "WAIT_FOR_TRIGGER" /\ trigger_src = "BUS")

ResponseStep ==
  output' # <<>> =>
    \/ op \in {"READ", "MEAS"}
    \/ op = "FETCH" /\ op' = "none"

\* A reading is sent in the response of the READ? or MEASure? that asked for
\* it, or of FETCh?, while it is being composed: check_measured_value sends to
\* whatever response is open, also from the yield of a later query.
ResponseOwned == [][ResponseStep]_output

\* The places of *RST, CONFigure and MEASure? until they have ended the
\* acquisition.
Stopping == {"stop", "stop_check", "stop_idle", "preset"}

\* Places of a command before it has an acquisition of its own.
Before == {"ready", "initiate", "trg"} \union Stopping

\* An acquisition that sends its readings out belongs to the query that is
\* being executed, and such a query to such an acquisition.
OwnedInv ==
  /\ dst = "OUT" /\ (state # "IDLE" \/ pc = "init_trigger") =>
       op \in {"READ", "MEAS"} /\ pc \notin Before /\ frame # "trg"
  /\ op \in {"READ", "MEAS"} /\ pc \notin Before => dst = "OUT"
  /\ dst = "OUT" /\ state = "WAIT_FOR_TRIGGER" /\ trigger_src = "BUS" =>
       pc \in {"init_fail", "yield_fail"}
  /\ pc = "initiate" => op \in {"INIT", "READ", "MEAS"}
  /\ pc = "trg" => op = "TRG"

\* Where the program is tells the state, up to what a callback may have done.
PlaceInv ==
  /\ pc \in {"check_delay", "start", "stamp_measuring", "enter_measuring"}
       => state = "TRIGGER_DELAY"
  /\ pc \in {"start_measure", "in_hardware", "check_timeout", "stop_check"}
       => state \in {"MEASURING", "MEASURED"}
  /\ pc \in {"take_type", "take", "finish"}
       => state = "MEASURED" /\ frame = "yield"
  /\ pc = "init_trigger" =>
       \/ frame = "initiate" /\ state = "IDLE" /\ measurement_error = "OK"
       \/ frame = "yield" /\ state = "MEASURED"
  /\ pc \in {"stamp_delay", "enter_delay"} =>
       \/ state = "WAIT_FOR_TRIGGER" /\ trigger_src # "EXT"
       \/ state = "MEASURED" /\ frame = "yield"
  /\ pc \in {"init_fail", "yield_fail"} => state # "IDLE"

\* What a callback found still holds when it acts on it.
CallbackInv ==
  /\ external_trigger # "idle" =>
       /\ state = "WAIT_FOR_TRIGGER" /\ trigger_src = "EXT"
       /\ read_value.pc = "idle"
  /\ read_value.pc = "commit" => state = "MEASURING"

\* Inductive when the callbacks are interrupt handlers: the program does not
\* move between a handler's test of the state and its write.
HandlerInv == PlaceInv /\ CallbackInv /\ ErrorImpliesIdle

-----------------------------------------------------------------------------
(* Inductive when the callbacks are interrupt handlers: how many readings  *)
(* are due, and how many were taken when the acquisition is over.          *)

\* An acquisition is running, or INITiate is about to arm it.
Acquiring == state # "IDLE" \/ pc = "init_trigger"

\* What the place in the program tells of the command, of what it has sent and
\* stored, and of the error on its way to its handler.
PathInv ==
  /\ pc = "ready" => frame = "none" /\ op = "none"
  /\ frame = "trg" => op = "TRG"
  /\ pc \in Stopping => op \in {"RST", "CONF", "MEAS"}
  /\ pc = "preset" => state = "IDLE"
  /\ pc \in Before \ {"ready"} => output = <<>>
  /\ frame = "initiate" => buf = <<>> /\ output = <<>>
  /\ dst = "OUT" => buf = <<>>
  /\ pc \in {"init_fail", "yield_fail"} => err # "OK"
  /\ pc = "init_fail" => frame = "initiate"
  /\ frame = "initiate" =>
       pc \in {"init_trigger", "stamp_delay", "enter_delay", "init_fail"}

\* No TRIGger:COUNt is refused for its range, or none is INFinity: a refused one
\* clears the infinite flag and leaves the zero that INFinity stored.
CountsSafe ==
  \/ \A a \in CountArgs : a.type # "INF"
  \/ \A a \in CountArgs :
       a.type \in {"MIN", "MAX", "NUMBER"} => InCountRange(CountOf(a))

\* The counts that the next acquisition starts from, and those of this one: a
\* finite countdown never meets zero before its end.
LiveInv ==
  /\ sample_count_num \in 1 .. BufLen
  /\ infinite_trigger_count \/ trigger_count_num \in 1 .. BufLen
  /\ infinite_trigger_count => \E a \in CountArgs : a.type = "INF"
  /\ Acquiring /\ pc # "finish" =>
       /\ sample_count \in 1 .. BufLen
       /\ \/ trigger_count \in 1 .. BufLen
          \/ infinite_trigger_count /\ dst = "OUT"

\* The readings still due: the samples of this trigger and those of the next.
Due == IF pc = "finish" THEN 0
       ELSE (trigger_count - 1) * sample_count_num + sample_count

\* With settings that stay what they were, the readings delivered and those
\* still due make up those asked for.
DueInv ==
  /\ cmds = 0 => ~Acquiring /\ op \in {"none", "yield"}
  /\ Acquiring =>
       IF infinite_trigger_count
         THEN requested = 0 /\ dst = "OUT" /\ pc # "finish"
         ELSE /\ requested = sample_count_num * trigger_count_num
              /\ requested = Len(Delivered) + Due
              /\ sample_count <= sample_count_num
              /\ dst = "BUF" => requested <= BufLen
  /\ pc = "yield_fail" => err # "INSUFFICIENT_MEMORY"

\* When the acquisition is over without an error, what it asked for is in the
\* response of its query or in the buffer, if it is not empty.
DoneInv ==
  ~Acquiring /\ measurement_error = "OK" =>
    /\ op \in {"READ", "MEAS"} /\ pc \notin Before => Len(output) = requested
    /\ ~reported /\ pc # "preset" => buf = <<>> \/ Len(buf) = requested

-----------------------------------------------------------------------------
(* The data.                                                               *)

\* When the hardware answers in time, the readings are its answers to this
\* acquisition's own measurements, each in its place.
DataInOrder ==
  \A i \in 1 .. Len(Delivered) :
    \/ Delivered[i] = <<acq, i>>
    \/ Delivered[i] = SCPIMM_OVERFLOW /\ "NAN" \in Kinds

\* However late the answers come, a reading is an answer of the hardware or
\* its overload, and no answer is used twice.
DataGenuine ==
  \A i \in 1 .. Len(Delivered) :
    \/ /\ Delivered[i][1] \in 1 .. acq
       /\ \A j \in 1 .. i - 1 : Delivered[j] # Delivered[i]
    \/ Delivered[i] = SCPIMM_OVERFLOW /\ "NAN" \in Kinds

\* The value of a measurement has been taken; another measurement may follow.
Taken == pc \in {"init_trigger", "stamp_delay", "enter_delay", "finish"}

\* The hardware owes an answer, or is handing one over.
Answering == hw # <<>> \/ read_value.pc # "idle"

\* A number in last_measured_value is the reading that is next to be taken.
ValueInPlace ==
  last_measured_value.type = "NUM" => last_measured_value.value = NextReading

\* Inductive when the callbacks are interrupt handlers of a hardware that
\* answers every measurement in time: the only answer under way is that of the
\* measurement in progress, which is neither aborted nor given up.
PromptInv ==
  /\ hw \in {<<>>, <<NextReading>>}
  /\ read_value.pc # "idle" =>
       hw = <<>> /\ read_value.value = NextReading /\ read_value.kind \in Kinds
  /\ Answering => state = "MEASURING" /\ pc \notin {"init_fail", "stop_idle", "yield_fail"}
  /\ pc = "start_measure" => state = "MEASURING" /\ ~Answering
  /\ Answering \/ pc \in {"enter_measuring", "start_measure"} => age < MeasurementTimeout
  /\ pc = "stamp_measuring" => cur_age < MeasurementTimeout
  /\ read_value.pc = "value" => read_value.kind = "NUM"
  /\ read_value.pc \in {"value", "check", "commit"} => last_measured_value.type \in Kinds
  /\ read_value.pc \in {"check", "commit"} => ValueInPlace
  /\ state = "MEASURED" /\ ~Taken => last_measured_value.type \in Kinds /\ ValueInPlace
  /\ pc = "take" => got = last_measured_value.type
  /\ DataInOrder

\* The answers on their way: owed, being handed over, and in the field that the
\* measurement in progress is going to read.
Owed == {hw[i] : i \in 1 .. Len(hw)}

Carried == IF read_value.pc \in {"type", "value"} THEN {read_value.value} ELSE {}

Awaited ==
  \/ pc \in {"stamp_measuring", "enter_measuring"}
  \/ state = "MEASURING" /\ pc # "yield_fail"
  \/ state = "MEASURED" /\ ~Taken /\ pc # "yield_fail"

Usable ==
  Awaited /\ \/ last_measured_value.type = "NUM" /\ read_value.pc # "value"
             \/ pc = "take" /\ got = "NUM"

Kept == IF Usable THEN {last_measured_value.value} ELSE {}

Used == {Delivered[i] : i \in 1 .. Len(Delivered)}

\* The hardware has been asked for a reading that is not among those delivered.
InProgress ==
  \/ pc = "yield_fail"
  \/ state \in {"MEASURING", "MEASURED"} /\ pc # "start_measure" /\ ~Taken

AskedFor(r) ==
  /\ r[1] \in 1 .. acq
  /\ Acquiring /\ r[1] = acq =>
       r[2] <= IF InProgress THEN Len(Delivered) + 1 ELSE Len(Delivered)

\* An answer is in one place, and when its reading is delivered in none.
AnswersApart ==
  /\ \A r \in Owed \union Carried \union Kept : AskedFor(r)
  /\ \A r \in Used : AskedFor(r) \/ r = SCPIMM_OVERFLOW
  /\ \A i, j \in 1 .. Len(hw) : i # j => hw[i] # hw[j]
  /\ Owed \intersect (Carried \union Kept \union Used) = {}
  /\ Carried \intersect (Kept \union Used) = {}
  /\ Kept \intersect Used = {}

\* What last_measured_value.type tells of the value beside it.
TypesOfAnswers ==
  /\ Acquiring => acq # 0
  /\ read_value.pc # "idle" => read_value.kind \in Kinds
  /\ read_value.pc = "value" => read_value.kind = "NUM"
  /\ last_measured_value.type \in {"INF"} \union Kinds
  /\ read_value.pc \in {"value", "check", "commit"} => last_measured_value.type # "INF"
  /\ state = "MEASURED" /\ Awaited => last_measured_value.type # "INF"
  /\ pc = "take" => got \in Kinds

\* Inductive when the callbacks are interrupt handlers and no acquisition is
\* endless: a reading that is taken was in none of the other places.
GenuineInv == AnswersApart /\ TypesOfAnswers /\ DataGenuine

-----------------------------------------------------------------------------
(* What is complete.                                                       *)

\* A READ? or MEASure? that succeeds has sent every reading asked for.
ReadComplete ==
  [][ (op \in {"READ", "MEAS"} /\ op' = "none" /\ result' = "OK")
        => (Len(output') = requested) ]_vars

\* A FETCh? that succeeds sends every reading the acquisition asked for,
\* unless an earlier query has reported why it fell short.
FetchComplete ==
  [][ op = "FETCH" /\ op' = "none" /\ result' = "OK"
        => Len(output') = requested \/ reported ]_vars

-----------------------------------------------------------------------------
(* Time.                                                                   *)

\* The clock shows each time that was read or stamped and the time since, until
\* the history variable saturates, which it does only while nothing is timed.
ClockInv ==
  /\ Timed \/ age < TimeMod - 1 => now = (state_time + age) % TimeMod
  /\ IF cur_time = NotRead THEN cur_age = 0
                           ELSE now = (cur_time + cur_age) % TimeMod
  /\ IF pulse_time = NotRead THEN pulse_age = 0
                             ELSE now = (pulse_time + pulse_age) % TimeMod

\* Inductive when the callbacks are interrupt handlers: no stamp comes between
\* the reading of the clock and its comparison with state_time.
ReadInv ==
  /\ pc \in {"check_delay", "check_timeout", "stop_check"} => cur_age <= age
  /\ pc \notin ClockPlaces => cur_time = NotRead
  /\ external_trigger # "stamp" => pulse_time = NotRead

\* The time between the stamp and the reading of the clock, which is as old as
\* cur_age.
ReadAge == age - cur_age

\* The subtraction in uint32_t measures the time from the stamp to the reading of
\* the clock, across a wrap of the clock and whatever happens between the
\* reading and its use: a measurement starts exactly when its trigger delay was
\* over at the reading and fails exactly when its timeout was.
TimersExact ==
  [][ /\ pc = "check_delay" /\ pc' # pc /\ err' # "HARDWARE"
           => (pc' = "start" <=> ReadAge >= trigger_delay)
      /\ pc = "check_timeout" /\ pc' # pc /\ err' # "HARDWARE"
           => (err' = "IO_PROCESSOR" <=> ReadAge >= MeasurementTimeout) ]_pc

\* *RST, CONFigure and MEASure? are answered, even when the hardware is silent.
ResetAnswered == op \in {"RST", "CONF", "MEAS"} ~> op = "none"

\* A query that waits for the acquisition is answered, unless the acquisition
\* waits for a trigger or a READ? has no last trigger.
QueryAnswered ==
  op \in {"READ", "FETCH", "OPC"} ~>
    \/ op = "none"
    \/ state = "WAIT_FOR_TRIGGER" /\ pc = "wait"
    \/ op = "READ" /\ infinite_trigger_count

-----------------------------------------------------------------------------
(* The abstract acquisition.                                               *)

Phase ==
  IF frame = "initiate" THEN "starting"
  ELSE IF state = "IDLE" THEN "idle"
  ELSE IF state = "WAIT_FOR_TRIGGER" THEN "armed" ELSE "busy"

\* An error that a query will report, or that INITiate is about to.
Failed == measurement_error # "OK" \/ (pc = "init_fail" /\ err # "OK")

Abstract == INSTANCE Acquisition WITH
  phase <- Phase, results <- Delivered, error <- Failed,
  stopping <- pc \in Stopping

\* The state machine, its callbacks and the wait loops implement the abstract
\* acquisition: it ends with every reading there, with an error that is kept for
\* the client, or because the client stopped it, and in no other way.
ImplementsAcquisition == Abstract!Spec
=============================================================================
