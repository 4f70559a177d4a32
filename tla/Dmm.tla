-------------------------------- MODULE Dmm ---------------------------------
(***************************************************************************)
(* The measurement state machine of dmm.c.  The main program executes the  *)
(* commands and SCPIMM_yield; two callbacks enter the library from an      *)
(* interrupt handler or from another thread: SCPIMM_read_value, with the   *)
(* answer of the hardware, and SCPIMM_external_trigger.  They share        *)
(* `state', `state_time' and `last_measured_value' with the main program,  *)
(* under no lock.                                                          *)
(*                                                                         *)
(* A step of the main program or of a callback accesses the shared fields  *)
(* once; `pc' names the place in the C code.  Reading the clock is a step, *)
(* and the access to state_time that follows it is another.                *)
(*                                                                         *)
(* A definition named Bug... is a variant of the one after it, with a      *)
(* mistake its code could contain; no specification uses it.  The          *)
(* properties are tried on these variants too.                             *)
(***************************************************************************)
EXTENDS Settings, Sequences

CONSTANTS
  Threads,         \* TRUE: the callbacks run in threads; FALSE: as interrupt
                   \* handlers, which run to completion and do not nest
  Commands,        \* the commands the client sends
  MaxCmds,         \* bound: how many commands it sends
  Retunes,         \* whether settings commands are among them
  StartOutcomes,   \* what start_measure may do
  Kinds,           \* what the hardware may answer
  Prompt,          \* whether it answers before the measurement times out
  MaxPending,      \* bound: answers the hardware owes at a time
  ClockFails,      \* whether get_milliseconds may return an error
  HardwareFails,   \* whether set_mode and the impedance switch may
  TimeMod,         \* 2^32: the clock counts milliseconds modulo TimeMod
  MeasurementTimeout,
  CountMod,        \* 2^16: sample_count and trigger_count are uint16_t
  MaxOut           \* bound: recorded length of one response

AllCommands == {"INIT", "READ", "FETCH", "OPC", "TRG", "RST", "CONF", "MEAS"}
AllOutcomes == {"sync", "async", "lost", "fail"}

ASSUME DmmAssumption ==
  /\ {Threads, Retunes, Prompt, ClockFails, HardwareFails} \subseteq BOOLEAN
  /\ Commands \subseteq AllCommands
  /\ StartOutcomes \subseteq AllOutcomes
  /\ ~({"sync", "async"} \subseteq StartOutcomes)
  /\ Kinds \subseteq {"NUM", "NAN"}
  /\ {MaxCmds, MaxPending, MaxOut} \subseteq Nat
  /\ {TimeMod, CountMod} \subseteq Nat \ {0}
  /\ MeasurementTimeout \in 1 .. TimeMod - 1
  /\ MaxDelay < TimeMod

VARIABLES
  state, state_time,             \* shared with the callbacks, as is
  last_measured_value,           \* [type, value]
  dst, sample_count, trigger_count, buf, measurement_error,
  op,          \* the command being executed, "yield" for the idle loop
  pc, frame,   \* where the main program is, and whose call it is in
  err,         \* the local `err' on the way to its handler
  got,         \* last_measured_value.type as check_measured_value read it
  output,      \* the values sent in the response of the last command
  read_value, external_trigger,  \* the two callbacks
  hw,          \* the answers the hardware owes
  now,         \* the clock
  age,         \* history: time since what state_time says, saturating
  cur_time,    \* the local `tm' or `cur_time' of the main program ...
  cur_age,     \* ... and history: time since it was read
  pulse_time,  \* the local `tm' of SCPIMM_external_trigger ...
  pulse_age,   \* ... and history: time since it was read
  cmds,        \* history: commands received
  acq,         \* history: acquisitions initiated
  requested,   \* history: readings the current acquisition asks for
  reported     \* history: its error has been reported

tally == <<dst, sample_count, trigger_count, buf, requested>>
shared == <<state, state_time, last_measured_value>>
callbacks == <<read_value, external_trigger, hw>>
reading == <<cur_time, cur_age>>
pulse_reading == <<pulse_time, pulse_age>>
clock == <<now, age, reading, pulse_reading>>
control == <<op, pc, frame, err, result>>
history == <<cmds, acq, reported>>
vars == <<settings, control, shared, tally, measurement_error, got, output,
          callbacks, clock, history>>

\* A reading is named by its acquisition and its place in it.
Readings == Nat \X Nat
SCPIMM_OVERFLOW == <<0, 0>>
Unset == <<0, 1>>

NoAnswer == [pc |-> "idle", value |-> Unset, kind |-> "NUM"]

\* No time has been read.
NotRead == TimeMod

Delivered == IF dst = "OUT" THEN output ELSE buf

Init ==
  /\ SettingsInit
  /\ state = "IDLE" /\ state_time = 0
  /\ last_measured_value = [type |-> "INF", value |-> Unset]
  /\ dst = "BUF" /\ sample_count = 0 /\ trigger_count = 0 /\ buf = <<>>
  /\ measurement_error = "OK"
  /\ op = "none" /\ pc = "ready" /\ frame = "none" /\ err = "OK"
  /\ got = "INF" /\ output = <<>>
  /\ read_value = NoAnswer /\ external_trigger = "idle" /\ hw = <<>>
  /\ now = 0 /\ age = 0
  /\ cur_time = NotRead /\ cur_age = 0 /\ pulse_time = NotRead /\ pulse_age = 0
  /\ cmds = 0 /\ acq = 0 /\ requested = 0 /\ reported = FALSE

-----------------------------------------------------------------------------
(* Control: where a step of the main program leads.                        *)

\* An interrupt handler suspends the main program until it returns.
MainRuns == Threads \/ (read_value.pc = "idle" /\ external_trigger = "idle")

At(place) == MainRuns /\ pc = place

Goto(place) == pc' = place /\ UNCHANGED <<op, frame, err, result>>

Fail(place, e) == pc' = place /\ err' = e /\ UNCHANGED <<op, frame, result>>

Reply(e) ==
  /\ op' = "none" /\ pc' = "ready" /\ frame' = "none" /\ err' = "OK"
  /\ result' = e

Wait == /\ pc' = "wait" /\ frame' = "none" /\ err' = "OK"
        /\ UNCHANGED <<op, result>>

\* SCPIMM_yield returns to the main loop or to SCPIMM_wait_for_idle.
YieldReturns == IF op = "yield" THEN Reply(result) ELSE Wait

\* trigger_pulled and init_trigger return e to initiate, to SCPIMM_yield by
\* way of check_measured_value, or to SCPIMM_trg.
Returns(e) ==
  \/ /\ frame = "initiate" /\ e # "OK"
     /\ Fail("init_fail", e)
  \/ /\ frame = "initiate" /\ e = "OK"
     /\ IF op = "INIT" THEN Reply("OK") ELSE Wait
  \/ /\ frame = "yield" /\ e # "OK"
     /\ Fail("yield_fail", e)
  \/ /\ frame = "yield" /\ e = "OK"
     /\ YieldReturns
  \/ /\ frame = "trg"
     /\ Reply(e)

-----------------------------------------------------------------------------
(* Time.                                                                   *)

BugElapsed == IF cur_time >= state_time THEN cur_time - state_time ELSE 0

\* cur_time - state_time in uint32_t.
Elapsed == IF cur_time >= state_time THEN cur_time - state_time
                                     ELSE cur_time - state_time + TimeMod

\* Where get_milliseconds gives the time that is used in the next step.
ClockPlaces == {"stamp_delay", "check_delay", "stamp_measuring", "check_timeout",
                "stop_check"}

get_milliseconds ==
  /\ MainRuns /\ pc \in ClockPlaces /\ cur_time = NotRead
  /\ cur_time' = now /\ cur_age' = 0
  /\ UNCHANGED <<settings, control, shared, tally, measurement_error, got,
                 output, callbacks, now, age, pulse_reading, history>>

\* After get_milliseconds: the time is used, or the interface gave an error.
ClockRead(onTime, onError) ==
  \/ /\ cur_time # NotRead
     /\ cur_time' = NotRead /\ cur_age' = 0
     /\ onTime
  \/ /\ ClockFails /\ cur_time = NotRead
     /\ UNCHANGED reading
     /\ onError

Stamp == state_time' = cur_time /\ age' = cur_age

\* state_time is in use, or about to be.
Timed ==
  \/ state \in {"TRIGGER_DELAY", "MEASURING"}
  \/ pc \in {"enter_delay", "enter_measuring", "check_delay", "check_timeout",
            "stop_check"}
  \/ external_trigger = "enter"

\* A prompt hardware, once started without delay, answers before the timeout.
InTime ==
  /\ (hw # <<>> \/ read_value.pc # "idle" \/ pc \in {"enter_measuring", "start_measure"})
       => age + 1 < MeasurementTimeout
  /\ pc = "stamp_measuring" => cur_age + 1 < MeasurementTimeout

\* The program is polled before the clock wraps around a pending timeout, and no
\* time that was read waits that long to be used.
Tick ==
  /\ Timed => age < TimeMod - 1
  /\ cur_age < TimeMod - 1 /\ pulse_age < TimeMod - 1
  /\ Prompt => InTime
  /\ now' = (now + 1) % TimeMod
  /\ age' = IF age < TimeMod - 1 THEN age + 1 ELSE age
  /\ cur_age' = IF cur_time = NotRead THEN 0 ELSE cur_age + 1
  /\ pulse_age' = IF pulse_time = NotRead THEN 0 ELSE pulse_age + 1
  /\ UNCHANGED <<settings, control, shared, tally, measurement_error, got,
                 output, callbacks, cur_time, pulse_time, history>>

-----------------------------------------------------------------------------
(* The client.                                                             *)

Entry == [INIT |-> "initiate", READ |-> "initiate", FETCH |-> "wait",
          OPC |-> "wait", TRG |-> "trg",
          RST |-> "stop", CONF |-> "stop", MEAS |-> "stop"]

\* A command has been parsed.
Receive(c) ==
  /\ At("ready") /\ cmds < MaxCmds
  /\ op' = c /\ pc' = Entry[c]
  /\ output' = <<>>
  /\ cmds' = cmds + 1
  /\ UNCHANGED <<settings, frame, err, result, shared, tally,
                 measurement_error, got, callbacks, clock, acq, reported>>

\* A command of the SAMPle and TRIGger groups.  Those that precede the first
\* other command are not counted; with Retunes they may come at any time.
Retune ==
  /\ At("ready")
  /\ cmds = 0 \/ (Retunes /\ cmds < MaxCmds)
  /\ cmds' = IF cmds = 0 THEN 0 ELSE cmds + 1
  /\ SettingsCommand
  /\ UNCHANGED <<op, pc, frame, err, shared, tally, measurement_error, got,
                 output, callbacks, clock, acq, reported>>

\* No input: the main loop calls SCPIMM_yield.
Poll ==
  /\ At("ready")
  /\ op' = "yield" /\ pc' = "yield"
  /\ UNCHANGED <<settings, frame, err, result, shared, tally,
                 measurement_error, got, output, callbacks, clock, history>>

-----------------------------------------------------------------------------
(* INITiate, READ?, MEASure?: an acquisition begins.                       *)

initiate ==
  /\ At("initiate")
  /\ \/ /\ op = "INIT" /\ ~InitAdmits
        /\ Reply("INSUFFICIENT_MEMORY")
        /\ UNCHANGED <<tally, measurement_error, acq, reported>>
     \/ /\ op = "INIT" => InitAdmits
        /\ state # "IDLE"
        /\ Reply("INIT_IGNORED")
        /\ UNCHANGED <<tally, measurement_error, acq, reported>>
     \/ /\ op = "INIT" => InitAdmits
        /\ state = "IDLE"
        /\ dst' = IF op = "INIT" THEN "BUF" ELSE "OUT"
        /\ buf' = <<>>
        /\ sample_count' = sample_count_num
        /\ trigger_count' = trigger_count_num
        /\ measurement_error' = "OK"
        /\ pc' = "init_trigger" /\ frame' = "initiate"
        /\ UNCHANGED <<op, err, result>>
        /\ acq' = acq + 1 /\ reported' = FALSE
        /\ requested' = IF infinite_trigger_count THEN 0
                        ELSE sample_count_num * trigger_count_num
  /\ UNCHANGED <<settings, shared, got, output, callbacks, clock, cmds>>

BugTriggerDeadlock == FALSE

\* *TRG could not be parsed while a READ? or MEASure? waits for it.
TriggerDeadlock == trigger_src = "BUS" /\ dst = "OUT"

\* init_trigger, for the first trigger of an acquisition and for the next.
init_trigger ==
  /\ At("init_trigger")
  /\ state' = "WAIT_FOR_TRIGGER"
  /\ \/ trigger_src = "IMM" /\ Goto("stamp_delay")
     \/ TriggerDeadlock /\ Returns("TRIGGER_DEADLOCK")
     \/ trigger_src # "IMM" /\ ~TriggerDeadlock /\ Returns("OK")
  /\ UNCHANGED <<settings, state_time, last_measured_value, tally,
                 measurement_error, got, output, callbacks, clock, history>>

\* trigger_pulled: the two halves of switch_to_timed_state.
stamp_delay ==
  /\ At("stamp_delay")
  /\ ClockRead(Stamp /\ Goto("enter_delay"),
               Returns("HARDWARE") /\ UNCHANGED <<state_time, age>>)
  /\ UNCHANGED <<settings, state, last_measured_value, tally, measurement_error,
                 got, output, callbacks, now, pulse_reading, history>>

enter_delay ==
  /\ At("enter_delay")
  /\ state' = "TRIGGER_DELAY"
  /\ Returns("OK")
  /\ UNCHANGED <<settings, state_time, last_measured_value, tally,
                 measurement_error, got, output, callbacks, clock, history>>

init_fail ==
  /\ At("init_fail")
  /\ state' = "IDLE"
  /\ Reply(err)
  /\ UNCHANGED <<settings, state_time, last_measured_value, tally,
                 measurement_error, got, output, callbacks, clock, history>>

\* *TRG
trg ==
  /\ At("trg")
  /\ IF state = "WAIT_FOR_TRIGGER" /\ trigger_src = "BUS"
       THEN /\ pc' = "stamp_delay" /\ frame' = "trg"
            /\ UNCHANGED <<op, err, result>>
       ELSE Reply("TRIGGER_IGNORED")
  /\ UNCHANGED <<settings, shared, tally, measurement_error, got, output,
                 callbacks, clock, history>>

-----------------------------------------------------------------------------
(* SCPIMM_wait_for_idle and the queries that end in it.                    *)

BugFinished == state \in {"IDLE", "WAIT_FOR_TRIGGER"}

Finished == state = "IDLE"

\* The parser is blocked: SCPIMM_yield is called from here.
wait_for_idle ==
  /\ At("wait") /\ ~Finished
  /\ Goto("yield")
  /\ UNCHANGED <<settings, shared, tally, measurement_error, got, output,
                 callbacks, clock, history>>

\* The error is cleared before it is read.
Bugidle_reply ==
  /\ At("wait") /\ Finished
  /\ measurement_error' = "OK"
  /\ reported' = reported
  /\ Reply("OK")
  /\ output' = IF op = "FETCH" THEN buf ELSE output
  /\ UNCHANGED <<settings, shared, tally, got, callbacks, clock, cmds, acq>>

\* The acquisition is over: READ?, MEASure? and *OPC? reply, FETCh? sends the
\* readings of the buffer.
idle_reply ==
  /\ At("wait") /\ Finished
  /\ measurement_error' = "OK"
  /\ reported' = (reported \/ measurement_error # "OK")
  /\ IF measurement_error = "OK" /\ op = "FETCH"
       THEN /\ Reply(IF buf = <<>> THEN "DATA_STALE" ELSE "OK")
            /\ output' = buf
       ELSE Reply(measurement_error) /\ UNCHANGED output
  /\ UNCHANGED <<settings, shared, tally, got, callbacks, clock, cmds, acq>>

-----------------------------------------------------------------------------
(* SCPIMM_yield.                                                           *)

Handle(place) ==
  pc' = place /\ frame' = "yield" /\ UNCHANGED <<op, err, result>>

yield ==
  /\ At("yield")
  /\ \/ state \in {"IDLE", "WAIT_FOR_TRIGGER"} /\ YieldReturns
     \/ state = "TRIGGER_DELAY" /\ Handle("check_delay")
     \/ state = "MEASURING" /\ Handle("check_timeout")
     \/ state = "MEASURED" /\ Handle("take_type")
  /\ UNCHANGED <<settings, shared, tally, measurement_error, got, output,
                 callbacks, clock, history>>

check_trigger_delay ==
  /\ At("check_delay")
  /\ ClockRead(IF Elapsed >= trigger_delay THEN Goto("start") ELSE YieldReturns,
               Fail("yield_fail", "HARDWARE"))
  /\ UNCHANGED <<settings, shared, tally, measurement_error, got, output,
                 callbacks, now, age, pulse_reading, history>>

\* start_measurement, in five steps; the time that it reads first is not used.
start_measurement ==
  /\ At("start")
  /\ last_measured_value' = [type |-> "INF", value |-> last_measured_value.value]
  /\ \/ Goto("stamp_measuring")
     \/ ClockFails /\ Fail("yield_fail", "HARDWARE")
  /\ UNCHANGED <<settings, state, state_time, tally, measurement_error, got,
                 output, callbacks, clock, history>>

stamp_measuring ==
  /\ At("stamp_measuring")
  /\ ClockRead(Stamp /\ Goto("enter_measuring"),
               Fail("yield_fail", "HARDWARE") /\ UNCHANGED <<state_time, age>>)
  /\ UNCHANGED <<settings, state, last_measured_value, tally, measurement_error,
                 got, output, callbacks, now, pulse_reading, history>>

enter_measuring ==
  /\ At("enter_measuring")
  /\ state' = "MEASURING"
  /\ Goto("start_measure")
  /\ UNCHANGED <<settings, state_time, last_measured_value, tally,
                 measurement_error, got, output, callbacks, clock, history>>

NextReading == <<acq, Len(Delivered) + 1>>

\* The hardware answers before start_measure returns, or later, or never (its
\* signal is lost), or it reports an error.
start_measure ==
  /\ At("start_measure")
  /\ \/ /\ "sync" \in StartOutcomes
        /\ Goto("in_hardware")
        /\ \E k \in Kinds : read_value' =
             [pc |-> "type", value |-> NextReading, kind |-> k]
        /\ UNCHANGED hw
     \/ /\ "async" \in StartOutcomes /\ Len(hw) < MaxPending
        /\ YieldReturns
        /\ hw' = Append(hw, NextReading)
        /\ UNCHANGED read_value
     \/ /\ "lost" \in StartOutcomes
        /\ YieldReturns
        /\ UNCHANGED <<read_value, hw>>
     \/ /\ "fail" \in StartOutcomes
        /\ Fail("yield_fail", "HARDWARE")
        /\ UNCHANGED <<read_value, hw>>
  /\ UNCHANGED <<settings, shared, tally, measurement_error, got, output,
                 external_trigger, clock, history>>

in_hardware ==
  /\ At("in_hardware") /\ read_value.pc = "idle"
  /\ YieldReturns
  /\ UNCHANGED <<settings, shared, tally, measurement_error, got, output,
                 callbacks, clock, history>>

BugTimedOut == FALSE

TimedOut == Elapsed >= MeasurementTimeout

check_measuring_timeout ==
  /\ At("check_timeout")
  /\ ClockRead(IF TimedOut THEN Fail("yield_fail", "IO_PROCESSOR") ELSE YieldReturns,
               Fail("yield_fail", "HARDWARE"))
  /\ UNCHANGED <<settings, shared, tally, measurement_error, got, output,
                 callbacks, now, age, pulse_reading, history>>

-----------------------------------------------------------------------------
(* check_measured_value.  The two fields of last_measured_value are read   *)
(* one after the other.                                                    *)

take_type ==
  /\ At("take_type")
  /\ got' = last_measured_value.type
  /\ Goto("take")
  /\ UNCHANGED <<settings, shared, tally, measurement_error, output,
                 callbacks, clock, history>>

Value == IF got = "NUM" THEN last_measured_value.value ELSE SCPIMM_OVERFLOW

Decrement(n) == (n + CountMod - 1) % CountMod

\* The samples are not counted anew for the next trigger.
Bugcountdown ==
  LET samples == Decrement(sample_count)
      triggers == Decrement(trigger_count)
  IN  /\ sample_count' = samples
      /\ trigger_count' = IF samples = 0 THEN triggers ELSE trigger_count
      /\ Goto(IF samples # 0 THEN "stamp_delay"
              ELSE IF triggers # 0 THEN "init_trigger" ELSE "finish")

\* Where the countdown of samples and triggers leads.
countdown ==
  LET samples == Decrement(sample_count)
      triggers == Decrement(trigger_count)
  IN  \/ /\ samples # 0
         /\ sample_count' = samples /\ UNCHANGED trigger_count
         /\ Goto("stamp_delay")
      \/ /\ samples = 0 /\ infinite_trigger_count
         /\ sample_count' = sample_count_num /\ UNCHANGED trigger_count
         /\ Goto("init_trigger")
      \/ /\ samples = 0 /\ ~infinite_trigger_count /\ triggers # 0
         /\ sample_count' = sample_count_num /\ trigger_count' = triggers
         /\ Goto("init_trigger")
      \/ /\ samples = 0 /\ ~infinite_trigger_count /\ triggers = 0
         /\ sample_count' = 0 /\ trigger_count' = 0
         /\ Goto("finish")

BugBufferHasRoom == Len(buf) <= BufLen

BufferHasRoom == Len(buf) < BufLen

\* store_value_in_buffer or send_value_to_out_buffer, then the countdown.
take ==
  /\ At("take")
  /\ \/ /\ dst = "BUF" /\ BufferHasRoom
        /\ buf' = Append(buf, Value)
        /\ UNCHANGED output
        /\ countdown
     \/ /\ dst = "BUF" /\ ~BufferHasRoom
        /\ Fail("yield_fail", "INSUFFICIENT_MEMORY")
        /\ UNCHANGED <<buf, output, sample_count, trigger_count>>
     \/ /\ dst = "OUT"
        /\ output' = IF Len(output) < MaxOut THEN Append(output, Value) ELSE output
        /\ UNCHANGED buf
        /\ countdown
  /\ got' = "INF"
  /\ UNCHANGED <<settings, shared, dst, requested, measurement_error,
                 callbacks, clock, history>>

finish ==
  /\ At("finish")
  /\ state' = "IDLE"
  /\ YieldReturns
  /\ UNCHANGED <<settings, state_time, last_measured_value, tally,
                 measurement_error, got, output, callbacks, clock, history>>

\* The error is recorded but the acquisition goes on.
Bugyield_fail ==
  /\ At("yield_fail")
  /\ measurement_error' = err
  /\ YieldReturns
  /\ UNCHANGED <<settings, shared, tally, got, output, callbacks, clock,
                 history>>

\* The acquisition ends but its error is not recorded.
BugSilentyield_fail ==
  /\ At("yield_fail")
  /\ state' = "IDLE"
  /\ YieldReturns
  /\ UNCHANGED <<settings, state_time, last_measured_value, tally,
                 measurement_error, got, output, callbacks, clock, history>>

yield_fail ==
  /\ At("yield_fail")
  /\ state' = "IDLE"
  /\ measurement_error' = err
  /\ YieldReturns
  /\ UNCHANGED <<settings, state_time, last_measured_value, tally,
                 got, output, callbacks, clock, history>>

-----------------------------------------------------------------------------
(* *RST, CONFigure, MEASure?: SCPIMM_stop_mesurement, then the preset.     *)

BugStopPlace == IF state = "IDLE" THEN "preset" ELSE "stop_idle"

\* A measurement in progress is waited out.
StopPlace == IF state = "IDLE" THEN "preset"
             ELSE IF state = "MEASURING" THEN "stop_check" ELSE "stop_idle"

stop_measurement ==
  /\ At("stop")
  /\ Goto(StopPlace)
  /\ UNCHANGED <<settings, shared, tally, measurement_error, got, output,
                 callbacks, clock, history>>

\* Only an error of the clock ends the loop.
Bugstop_check ==
  /\ At("stop_check")
  /\ ClockRead(Goto("stop"), Goto("stop_idle"))
  /\ UNCHANGED <<settings, shared, tally, measurement_error, got, output,
                 callbacks, now, age, pulse_reading, history>>

stop_check ==
  /\ At("stop_check")
  /\ ClockRead(Goto(IF TimedOut THEN "stop_idle" ELSE "stop"), Goto("stop_idle"))
  /\ UNCHANGED <<settings, shared, tally, measurement_error, got, output,
                 callbacks, now, age, pulse_reading, history>>

stop_idle ==
  /\ At("stop_idle")
  /\ state' = "IDLE"
  /\ Goto("preset")
  /\ UNCHANGED <<settings, state_time, last_measured_value, tally,
                 measurement_error, got, output, callbacks, clock, history>>

\* SCPIMM_measure_preset, and for CONFigure and MEASure? set_mode after it.
\* The hardware may refuse the impedance or the mode when the preset is done.
measure_preset ==
  /\ At("preset")
  /\ state' = "IDLE"
  /\ PresetSettings
  /\ buf' = <<>>
  /\ \/ IF op = "MEAS"
          THEN pc' = "initiate" /\ UNCHANGED <<op, frame, err, result>>
          ELSE Reply("OK")
     \/ HardwareFails /\ Reply("HARDWARE")
  /\ UNCHANGED <<state_time, last_measured_value, dst, sample_count,
                 trigger_count, requested, measurement_error, got, output,
                 callbacks, clock, history>>

-----------------------------------------------------------------------------
(* SCPIMM_read_value, called by the hardware; synchronously, it runs       *)
(* inside start_measure.                                                   *)

\* The hardware enters the callback with its oldest answer.
answer ==
  /\ hw # <<>> /\ read_value.pc = "idle"
  /\ Threads \/ external_trigger = "idle"
  /\ hw' = Tail(hw)
  /\ \E k \in Kinds :
       read_value' = [pc |-> "type", value |-> Head(hw), kind |-> k]
  /\ UNCHANGED <<settings, control, shared, tally, measurement_error, got,
                 output, external_trigger, clock, history>>

ReadValueGoes(place) ==
  read_value' = [pc |-> place, value |-> read_value.value, kind |-> read_value.kind]

ReadValueAt(place) ==
  /\ read_value.pc = place
  /\ Threads \/ external_trigger = "idle"
  /\ UNCHANGED <<settings, control, state_time, tally, measurement_error, got,
                 output, external_trigger, hw, clock, history>>

\* The value itself is not copied.
Bugwrite_type ==
  /\ ReadValueAt("type")
  /\ last_measured_value' =
       [type |-> read_value.kind, value |-> last_measured_value.value]
  /\ ReadValueGoes("check")
  /\ UNCHANGED state

write_type ==
  /\ ReadValueAt("type")
  /\ last_measured_value' =
       [type |-> read_value.kind, value |-> last_measured_value.value]
  /\ ReadValueGoes(IF read_value.kind = "NUM" THEN "value" ELSE "check")
  /\ UNCHANGED state

write_value ==
  /\ ReadValueAt("value")
  /\ last_measured_value' =
       [type |-> last_measured_value.type, value |-> read_value.value]
  /\ ReadValueGoes("check")
  /\ UNCHANGED state

BugExpected == TRUE

\* Otherwise "measurement is not expected now".
Expected == state = "MEASURING"

check_expected ==
  /\ ReadValueAt("check")
  /\ IF Expected THEN ReadValueGoes("commit") ELSE read_value' = NoAnswer
  /\ UNCHANGED <<state, last_measured_value>>

commit ==
  /\ ReadValueAt("commit")
  /\ state' = "MEASURED"
  /\ read_value' = NoAnswer
  /\ UNCHANGED last_measured_value

-----------------------------------------------------------------------------
(* SCPIMM_external_trigger.                                                *)

ExternalTriggerAt(place) ==
  /\ external_trigger = place
  /\ UNCHANGED <<settings, control, last_measured_value, tally, measurement_error,
                 got, output, read_value, hw, now, reading, history>>

BugPulseExpected == trigger_src = "EXT"

PulseExpected == state = "WAIT_FOR_TRIGGER" /\ trigger_src = "EXT"

\* A pulse that finds the test false leaves no trace.
pulse ==
  /\ ExternalTriggerAt("idle")
  /\ Threads \/ read_value.pc = "idle" \/ pc = "in_hardware"
  /\ PulseExpected
  /\ external_trigger' = "stamp"
  /\ UNCHANGED <<state, state_time, age, pulse_reading>>

\* get_milliseconds: a time, or an error.
pulse_clock ==
  /\ ExternalTriggerAt("stamp") /\ pulse_time = NotRead
  /\ \/ /\ pulse_time' = now /\ pulse_age' = 0
        /\ UNCHANGED external_trigger
     \/ /\ ClockFails
        /\ external_trigger' = "idle"
        /\ UNCHANGED pulse_reading
  /\ UNCHANGED <<state, state_time, age>>

pulse_stamp ==
  /\ ExternalTriggerAt("stamp") /\ pulse_time # NotRead
  /\ state_time' = pulse_time /\ age' = pulse_age
  /\ pulse_time' = NotRead /\ pulse_age' = 0
  /\ external_trigger' = "enter"
  /\ UNCHANGED state

pulse_enter ==
  /\ ExternalTriggerAt("enter")
  /\ state' = "TRIGGER_DELAY"
  /\ external_trigger' = "idle"
  /\ UNCHANGED <<state_time, age, pulse_reading>>

-----------------------------------------------------------------------------
Program ==
  \/ Poll \/ get_milliseconds \/ initiate \/ init_trigger \/ stamp_delay
  \/ enter_delay \/ init_fail \/ trg \/ wait_for_idle \/ idle_reply
  \/ yield \/ check_trigger_delay \/ start_measurement \/ stamp_measuring
  \/ enter_measuring \/ start_measure \/ in_hardware
  \/ check_measuring_timeout \/ take_type \/ take \/ finish \/ yield_fail
  \/ stop_measurement \/ stop_check \/ stop_idle \/ measure_preset

Client == Retune \/ \E c \in Commands : Receive(c)

ReadValue == write_type \/ write_value \/ check_expected \/ commit

ExternalTrigger == pulse_clock \/ pulse_stamp \/ pulse_enter

Next == Program \/ Client \/ answer \/ ReadValue \/ pulse \/ ExternalTrigger \/ Tick

Spec == Init /\ [][Next]_vars

\* The main loop runs, a callback that was entered returns and time passes.
\* Nothing obliges the client to send, the hardware to answer or anybody to
\* pulse the external trigger.
Fairness ==
  /\ WF_vars(Program) /\ WF_vars(Tick)
  /\ WF_vars(ReadValue) /\ WF_vars(ExternalTrigger)

FairSpec == Spec /\ Fairness
=============================================================================
