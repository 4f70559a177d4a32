# A verification project for SCPIMM

SCPIMM (`libscpimm/`) makes a program into a SCPI multimeter: it executes the SCPI
commands of a client on a hardware described by a table of callbacks
(`scpimm_interface_t`).  This directory holds TLA+ models of its logic, translated
from the C sources, what TLC checks of them on small instances, and what TLAPS
proves of them for every value of their parameters.  Line numbers refer to the
repository; `PROJECT.json` ties every definition to the lines it models.

    tlc -config DmmFaulty.cfg MCDmm      model-check a run
    tlapm DmmHandlerProofs.tla           check the proofs of a module

## 1. The system

### Components

| Component | State | Operations | Modules |
|---|---|---|---|
| Measurement state machine: `dmm.c` | `state`, `state_time`, `last_measured_value`, `dst`, `buf`, `buf_count`, `sample_count`, `trigger_count`, `measurement_error` | INITiate, READ?, FETCh?, `*TRG`, `SCPIMM_yield`, stop, preset, `SCPIMM_read_value`, `SCPIMM_external_trigger` | `Dmm`, `DmmProperties`, `Acquisition` |
| MEASure, `*OPC?`, `*RST`: `measure.c`, `ieee488.c`, `scpimm.c` | the above | sequences of the above | `Dmm` |
| Acquisition settings: `sample.c`, `trigger.c` | `sample_count_num`, `trigger_count_num`, `infinite_trigger_count`, `trigger_src`, `trigger_delay`, `trigger_auto_delay` | SAMPle:COUNt, TRIGger:COUNt, :SOURce, :DELay, :DELay:AUTO and their queries | `Settings`, `SettingsProperties`, `SettingsQueries` |
| Function and parameters: `configure.c`, `sense.c`, `utils.c`, `SCPIMM_set_mode` | mode; per function range, auto range, resolution, NPLC (kept by the hardware) | CONFigure, CONFigure?, SENSe commands and queries | `Sense`, `SenseProperties` |
| Hardware interface: `scpimm.h` | the hardware's | `start_measure`, `get_milliseconds`, `set_mode`, parameter calls | inside `Dmm` and `Sense` |
| Front panel: `system.c`, `display.c`, `input.c`, SENSe:ZERO:AUTO | remote, lock, beeper, display and its text, impedance, automatic zero (most of it kept by the hardware) | SYSTem, DISPlay, INPut, SENSe:ZERO:AUTO, and `*RST`'s part of them | `Panel`, `PanelProperties` |
| The whole meter | the first and the fourth | CONFigure, MEASure?, `*RST` and SENSe during an acquisition | `Multimeter`, `MultimeterProperties` |
| scpi-parser | input buffer, error queue, registers | parsing and dispatch | external |

### How they interact

The main loop of a multimeter (`README.md:79-89`) either feeds one character to
`SCPIMM_parse_in_buffer`, which executes a command when its line is complete, or
calls `SCPIMM_yield`, which moves the acquisition on.  Commands that wait (READ?,
MEASure?, FETCh?, `*OPC?`) call `SCPIMM_yield` themselves in a loop
(`dmm.c:139`): while they wait nothing is parsed.  `*RST` and CONFigure wait for
a measurement in progress in a loop that does not even yield (`dmm.c:168`), and
only then give the hardware another function.  The SENSe commands do not wait.

The interface keeps the function, the ranges and the flags of the front panel; the
library sets them one call at a time and any call may be refused.

`SCPIMM_read_value` and `SCPIMM_external_trigger` are called by the hardware,
from "another thread or an interrupt handler" (`README.md:15`), or from within
`start_measure`.  They share `state`, `state_time` and `last_measured_value` with
the main program without a lock.

### The life of an acquisition

    IDLE -> WAIT_FOR_TRIGGER -> TRIGGER_DELAY -> MEASURING -> MEASURED -+-> IDLE
                 ^                    ^                                 |
                 +---- next trigger --+------- next sample -------------+

Every state may go to IDLE, by an error or an abort.  Who makes the steps:
`init_trigger` and `trigger_pulled` the first two (a command, `SCPIMM_yield` or the
external trigger), `SCPIMM_yield` the third, `SCPIMM_read_value` the fourth,
`SCPIMM_yield` the last.

### What is hard

* Two callbacks and the main program access three shared fields in several steps.
* The answer of the hardware races the measurement timeout; late answers meet the
  next measurement.
* Waiting commands block the parser, and with it the `*TRG` they may wait for.
* Any call of the interface may fail half way through a handler.
* Settings, and the function itself, may change while an acquisition runs.
* A reading is sent into whichever response is open when it is taken.
* Commands that set two flags may be refused between them.
* `uint16_t` countdowns, `uint32_t` milliseconds, products computed in `int`.
* The searches of ranges and resolutions exist twice, with different loops.

`PROJECT.json` lists these as hazards, each at its line, with the properties that
watch them; those without a property carry the reason.

### What makes each component correct

* State machine: a reading is the answer to its own measurement and in its
  place; a query that succeeds is complete; no error is lost; an acquisition that
  was aborted stays aborted; every wait that depends on nobody else ends.
* Settings: within limits, unchanged by a refusal, and INITiate admits exactly
  what fits the memory.
* Function and parameters: the entry chosen is the one that was asked for, by
  whichever command; a refused command changes nothing.
* Front panel: the hardware is what the last successful command asked for; a
  command refused half way leaves nothing dangerous; texts fit.
* The whole: readings are of the function they were asked of.

## 2. The models

### `Settings`

One action per command, since only the main program touches the fields and one
command at a time.  An argument is a record `[type, value]` as `scpi_number_t`;
counts come in tenths because the code truncates a real number.  `InitAdmits` is
the admission test of INITiate (`dmm.c:300-301`) with its product taken modulo
`IntMod`: 2^32 or, on an AVR, 2^16.  `SettingsNext` is the component alone; `Dmm`
extends the module and takes its commands, with any of its other steps between.

### `Dmm`

The C code is cut where another thread of control could look: a step of the main
program or of a callback accesses the shared fields once.  Reading the clock is a
step of its own (`get_milliseconds`, `pulse_clock`), which keeps the time in the local
`cur_time` or `pulse_time`; the access to `state_time` that follows it is another,
and other threads, handlers and the clock may come in between.  `pc` is the place in
the main program, `op` the command it executes (`"yield"` for the idle loop), and
`frame` tells whose call of `init_trigger`/`trigger_pulled` it is in and so where
its error goes.  The callbacks have places of their own (`read_value.pc`,
`external_trigger`).

| Definition | Code |
|---|---|
| `Receive`, `Poll`, `Retune` | the main loop: a command, an idle round, a settings command |
| `initiate`, `init_trigger`, `stamp_delay`, `enter_delay`, `init_fail` | `initiate`, `init_trigger`, `trigger_pulled` (two halves of `switch_to_timed_state`), the error path |
| `trg` | `SCPIMM_trg` |
| `get_milliseconds`, `ClockRead` | the calls of `get_milliseconds` (`dmm.c:33`, 91, 105), and the use of the time or the error they give |
| `wait_for_idle`, `idle_reply` | `SCPIMM_wait_for_idle` and the replies after it |
| `yield`, `check_trigger_delay`, `start_measurement`, `stamp_measuring`, `enter_measuring`, `start_measure`, `check_measuring_timeout`, `take_type`, `take`, `finish`, `yield_fail` | `SCPIMM_yield` and what it calls, in this order |
| `stop_measurement`, `stop_check`, `stop_idle`, `measure_preset` | `SCPIMM_stop_mesurement`, `SCPIMM_measure_preset` |
| `write_type`, `write_value`, `check_expected`, `commit` | `SCPIMM_read_value` |
| `pulse`, `pulse_clock`, `pulse_stamp`, `pulse_enter` | `SCPIMM_external_trigger` |
| `answer`, `Tick` | the hardware, the clock |

`Threads` chooses between the two worlds the library documents.  As interrupt
handlers the callbacks run to completion, do not nest, and suspend the main
program (`MainRuns`); as threads they interleave with it at every step.  The code
takes no lock and its `ATOMIC_` macros are plain accesses, so the thread world also
has races C leaves undefined; the model gives each field access one outcome at a
time and the two fields of `last_measured_value` one step each.

The hardware is the one of `test/default_multimeter.c`: `start_measure` answers
before it returns, or later, or never, or fails.  A reading is the pair of its
acquisition and its place in it, so that the properties can tell whose answer a
value is.  `Prompt` restricts the hardware to answers before the timeout.

What is abstracted: values and their text, the `scpi_t` error queue (`result` is
the error a command pushed), units, `interrupt` callbacks, which the library never
calls.  `acq`, `requested`, `reported`, `age`, `cur_age`, `pulse_age` and `cmds` are
history variables: they guard nothing but the bound `MaxCmds`, the initial
configuration by `Retune`, and, for the ages, how long `Tick` may leave the program
unpolled and a time that was read unused.

### `Acquisition`

What a client is promised: started for a number of readings, or without end where
TRIGger:COUNt is INFinity (`requested` 0), armed by a trigger, readings one at a
time and never taken back.  It ends in three ways and no other: `Complete`, when no
reading is missing; `Break`, with an error that is kept for the next query (a start
that fails, by `Fault` and `Refuse`, is answered at once); and `Abort`, only after the
client has asked for it by `Stop` and with its results gone by `Stopped`.  An endless
acquisition never ends complete, and one that ends early without an error, unasked,
is no behaviour of the module.  `DmmProperties` maps `Dmm` to it: `Phase` folds the
five states and the places of the program into idle, starting, armed and busy; the
results are `output` or `buf` by `dst`; the client asks for the end while the
program is in `SCPIMM_stop_mesurement` and the preset (`Stopping`).

### `Sense`

One action per CONFigure and SENSe command.  The tables are constants, sequences
without their negative end mark; an index is that of C plus one, so `SIZE_MAX` is
0.  The searches of `utils.c` are recursive functions that walk the table as the
loops do; `range_index`, `find_greater_than` stop at the first hit.  `command` holds
the command between its arrival and its execution, with its arguments, so that
action properties can name them.  `HardwareFails` lets any call of the interface
be refused at any of a command's steps; `*RST` is here for what it resets of the
hardware.  A query takes MIN, MAX or, where the code has the case `SCPI_NUM_DEF`, no
argument; RESolution? has no such case (`sense.c:341-353`) and is refused without one,
so that it never reads the selected resolution.  The interface's setters are assumed to change nothing when they refuse.

### `SettingsQueries`

The queries of the two groups, and a client that keeps one answer and may send it
back as the argument of the command, any number of commands later.  A query has
its own switch over MIN, MAX and DEF; `SCPI_ParamNumber` makes DEF of a missing
argument.  Counts are answered as integers and whole seconds of delay pass through
float and text unchanged; fractions of a second are not modelled.
`INF_TRIGGER_COUNT` is assumed above every count that fits the memory
(`InfiniteAnswer >= 10 * (BufLen + 1)`, in tenths), in `Settings32` 9900 for 9.9E37;
sent back it does not fit a `long`, and what it is converted to is out of range.

### `Panel`

One action per command of the front panel, of INPut:IMPedance:AUTO and of
SENSe:ZERO:AUTO, the preset and `*RST`: no callback looks at this state.  The
variables are the flags of the hardware (`default_multimeter.c:504-541`), the text
it shows, and the fields of `scpimm_context_t`; `asked_...` is what the last command
that succeeded asked for, and `doubtful` holds the parts of the panel where a
refused or missing call makes that uncertain.  `fitted` chooses which of the
interface's optional functions exist.  `start_measure` is the hardware's: it makes
the zero that ONCE asked for.  A text is its length with the quotes; lengths go
down to 1 because `SCPI_ParamText` is outside the repository, and the subtraction
wraps modulo `SizeMod`.  The number of SENSe:ZERO:AUTO is read past its end
(`sense.c:432`): `Readings` lets it be anything, or nothing.

| Definition | Code |
|---|---|
| `SCPIMM_set_remote`, `Remote` | `system.c:83-91`, and the three commands that call it |
| `SCPIMM_display_text`, `Unquoted`, `Fits`, `Show` | `display.c:42-66` |
| `SCPIMM_sense_zero_auto`, `Readings`, `Once`, `set_zero_auto` | `sense.c:410-449` |
| `SCPIMM_measure_preset`, `set_impedance` | the impedance at the end of the preset |
| `reset`, `reset_by_hardware`, `reset_by_library` | `scpimm.c:293-306`, with and without a working reset of the interface |

### `Multimeter`

`Dmm` extended, and `Sense` as an instance whose `result` is `outcome`: every step is a
step of one of them or of both.  Both at once are the arrival of CONFigure, MEASure?
or `*RST`, and `Choose`: the end of the preset together with `SCPIMM_set_mode`
(`configure.c:129-145`), or with the reset of the hardware.  The two calls follow
each other in the main program; only a callback could come between them, and it
would find the state IDLE.  `Dmm`'s result HARDWARE stands for any refusal after
the preset, of which `outcome` is the real error.  Arguments that do not parse
never reach the state machine and are left to `Sense`.  A SENSe command may be
executed whenever the parser is free, also while the hardware measures.

`foreign` collects the readings measured while something else was selected than
when the acquisition began, `disturbed` tells that a SENSe command chose during it,
and `named` is the function of the last CONFigure or MEASure?.

### Variants

A definition `Bug...` is a variant of the one that follows, wrong in a way that
code could be.  No specification uses it; for each property of a passing run
there is one that violates it, so that no property is vacuous.

## 3. What is model-checked

| Run | Question | Bounds |
|---|---|---|
| `DmmFaulty` | What survives a hardware that is late, silent, refuses or overloads, and a clock and mode switch that fail? | 2 commands, 1-2 samples and triggers, 2 answers owed, timeout 1 |
| `DmmRetuned` | May settings change under a running acquisition, the hardware answering inside `start_measure`? | 4 commands, counts 1, 2, INFinity |
| `DmmLiveness` | Does every wait end? | 2 commands, counts 1, INFinity, answers lost |
| `DmmThreads` | With a prompt hardware and callbacks in threads, are the readings in order and the timers exact, when nothing is aborted? | 3 commands, 1-2 samples and triggers, delay 0 or 1, timeout 2, clock modulo 4 |
| `DmmThreadsTimeout` | And where answers may be late, is a value taken only while it is expected? It is not | 1 READ?, 1 sample, timeout 1 |
| `Settings32` | Are settings sound for any sequence of commands, can an answer be sent back, and does it tell what INITiate will say? | the library's own limits, arguments around them, every word |
| `Settings16` | And where `int` has 16 bits? The admission test is not | the same |
| `SettingsRefused` | Does a refused TRIGger:COUNt leave the settings sound? It does not | the same |
| `Panel` | Is the hardware what the last successful command asked for, with refusals anywhere? | texts at the limits of 12, the words of ZERO:AUTO, any optional functions |
| `PanelNumbers` | And with numbers for ZERO:AUTO? It is not | the words and 0.0, no refusals |
| `Multimeter` | Are the readings in order and of the function they were asked of, with aborts and SENSe commands at any time? | 3 commands, 1 SENSe command, 2 functions of 2 ranges, prompt hardware that may refuse |
| `Sense` | Do CONFigure and SENSe choose what they should? | 2 functions, 2 ranges with tables of 3 and 2 resolutions, 2 times, arguments around every entry |

Why the bounds are enough.

* Commands: two reach every interference of two operations (INITiate then any
  query or abort), three a second acquisition that meets what the first left
  behind, four, in `DmmRetuned`, INITiate, two changes of settings and a query.
* Counts: one and two samples and triggers reach every branch of the countdown
  (next sample, next trigger, last); `BufLen` is 2, so 2 x 2 is the smallest
  acquisition that does not fit and raising a count meets the full buffer.
* Clock: the timeout lies under the modulus, the wrap inside a measurement
  occurs, and `Tick` assumes what the code does, that the program is polled more
  often than the clock wraps (49 days).  `TimersExact` compares the code's
  subtraction with the difference of the saturating `age` and `cur_age`.
* Answers owed: two, one late and one of the current measurement; more of them
  behave as the second does.
* `CountMod` is the real 2^16; a countdown that wrapped would show at once.
  TLC cannot hold 2^32: in `Settings32` `IntMod` is 2^20, above every product too.
* `Panel` has no bound: its state is finite.  `SizeMod` is 2^16, as on the AVR, since
  TLC cannot hold 2^64; the proof takes any width.  Lengths 1, 2, 14 and 15 are
  the one that wraps, the empty text, the longest and the first too long.
* `Multimeter`: `MaxSenses` is 1, since one SENSe command already disturbs an
  acquisition at any of its points; three commands allow two acquisitions of
  different functions and a query.  `DmmFaulty` has the failures of the clock.
* `MaxOut` bounds the record of a READ? with TRIGger:COUNt INF only.

Deadlock is checked in every run: the main loop never stops.

Some statements hold only in the run where they stand, and why is part of what is
learnt.  `DataInOrder` needs `Prompt`: after a timeout the late answer is taken
for the answer of the next measurement, because nothing identifies an answer;
`DataGenuine` is what remains.  `ReadComplete`, `FetchComplete` and the refinement
are about settings that stay what they were at the start; `CountersLive` and
`BufferBounded` are what remains when they change.  `ChosenBetweenMeasurements`
needs `Prompt` too: CONFigure waits for a measurement only until its timeout.
`ReadingsOfFunction` is promised only without SENSe commands during the
acquisition; that they break it is found as soon as `disturbed` is dropped.
`*RST` reports success whatever became of the remote flags (`scpimm.c:297`): in
`HardwareAsAsked` and `DisplayAsAsked`, `doubtful` excepts what it left undone.
`AnswerRestores` says of an infinite count that its answer is refused: TRIGger:COUNt?
answers it by a number that TRIGger:COUNt takes as one out of range, clearing the
infinite flag as in the first finding.  Such a setting cannot be saved and restored.
`ErrorImpliesIdle` and `LegalTransitions` are checked with interrupt handlers; in
threads a timeout breaks them the way the third finding shows, and so does the end of
the acquisition by `*RST` or CONFigure, which gives a measurement up by its timeout.
`TimersExact` holds in `DmmThreads` because no command there ends an acquisition: with
CONFigure among the commands, a pulse in a thread that was tested for the old
acquisition stamps `state_time` between the reading of the clock and its use in the
new one, the difference wraps, and the measurement starts before its delay is over.

### Fairness

`FairSpec` asks for weak fairness of the program (the main loop of
`README.md:79-89` runs forever, and the waiting commands yield in a loop), of the
clock, and of a callback that was entered, which has no loop and returns.
Nothing is asked of the client, of the hardware's answers or of the external
trigger.  Therefore the timeouts must end each wait, and a query's answer is
promised only up to waiting for a trigger or for the last of infinitely many.
In `DmmLiveness` the clock works and, the program being fair, is polled.

### Findings

* `SettingsRefused`: TRIGger:COUNt INF followed by a refused TRIGger:COUNt 0 leaves
  a finite trigger count of zero (`trigger.c:177` before 185).
* `Settings16`: with a 16-bit `int`, 512 samples of 512 triggers pass INITiate's
  test (`dmm.c:301`).
* `DmmThreadsTimeout`: with callbacks in threads, a READ? times out between the test
  and the write of `SCPIMM_read_value` (`dmm.c:288`, 293): the state, IDLE by the
  error, becomes MEASURED, for a value of an acquisition that has ended.
* `PanelNumbers`: SENSe:ZERO:AUTO copies a number without terminating it
  (`sense.c:432`) and reads on into uninitialized memory, so that 0.0 may turn the
  automatic zero on.

`CountersLive` holds in `DmmRetuned` because no argument offered there is refused;
the first finding is kept to the run that shows it.

## 4. What is proved

The theorems hold for every value of the constants that the named assumptions
allow: any clock width, timeout, buffer, table, number of commands, arguments.

| Theorem | States | Assumes |
|---|---|---|
| `DmmProofs!TypeCorrect` | `Spec => []TypeOK` | |
| `DmmProofs!BufferNeverOverrun` | `Spec => []BufferBounded` | |
| `DmmProofs!ClockInvariant` | `Spec => []ClockInv` | |
| `DmmHandlerProofs!HandlerInvariant` | `Spec => []HandlerInv` | `~Threads` |
| `DmmHandlerProofs!ErrorsOnlyWhenIdle` | `Spec => []ErrorImpliesIdle` | `~Threads` |
| `DmmHandlerProofs!StateCycle` | `Spec => LegalTransitions` | `~Threads` |
| `DmmHandlerProofs!ErrorsReported` | `Spec => NoSilentError` | `~Threads` |
| `DmmHandlerProofs!OnlyExpectedValues` | `Spec => UnexpectedValueIgnored` | `~Threads` |
| `DmmHandlerProofs!ReadInvariant`, `TimersAreExact` | `Spec => []ReadInv`, `Spec => TimersExact` | `~Threads` |
| `DmmHandlerProofs!QueryOwnsAcquisition` | `Spec => []OwnedInv` | `~Threads` |
| `DmmHandlerProofs!ReadingsInOwnResponse` | `Spec => ResponseOwned` | `~Threads` |
| `DmmHandlerProofs!NoTriggerDeadlock` | `Spec => []ReadNeverWaitsForBus` | `~Threads` |
| `DmmAcquisitionProofs!PathInvariant` | `Spec => []PathInv` | `~Threads` |
| `DmmAcquisitionProofs!LiveInvariant`, `CountersStayLive` | `Spec => []LiveInv`, `Spec => []CountersLive` | `~Threads`, `CountsSafe`, `BufLen < CountMod` |
| `DmmAcquisitionProofs!DueInvariant`, `AdmittedAcquisitionsFit` | `Spec => []DueInv`, `Spec => []AdmittedFits` | `Steady` |
| `DmmAcquisitionProofs!DoneInvariant`, `ReadsAreComplete`, `FetchesAreComplete` | `Spec => []DoneInv`, `Spec => ReadComplete`, `Spec => FetchComplete` | `Steady` |
| `DmmAcquisitionProofs!AcquisitionRefined` | `Spec => ImplementsAcquisition` | `Steady` |
| `DmmDataProofs!PromptInvariant`, `ReadingsInOrder` | `Spec => []PromptInv`, `Spec => []DataInOrder` | `PromptHardware` |
| `DmmDataProofs!GenuineInvariant`, `ReadingsGenuine` | `Spec => []GenuineInv`, `Spec => []DataGenuine` | `Finite` |
| `MultimeterProofs!ImplementsDmm` | `MultimeterSpec => Spec`, that of `Dmm` | |
| `MultimeterProofs!ImplementsSense` | `MultimeterSpec => S!Spec`, that of `Sense` | |
| `MultimeterProofs!WholeMeterSafe` | `MultimeterSpec => []ErrorImpliesIdle /\ LegalTransitions /\ NoSilentError` | `~Threads` |
| `MultimeterProofs!MeasureMeasuresNamed` | `MultimeterSpec => MeasuresWhatItNamed` | |
| `MultimeterProofs!ChosenInvariant`, `FunctionOfReadings` | `MultimeterSpec => []ChosenInv`, `MultimeterSpec => []ReadingsOfFunction` | `PromptHardware` |
| `MultimeterProofs!ChosenWhileIdle` | `MultimeterSpec => ChosenBetweenMeasurements` | `PromptHardware` |
| `PanelProofs!PanelTypeCorrect` | `Spec => []PanelTypeOK`, for any width of `size_t` | |
| `PanelProofs!HardwareFollows` | `Spec => []HardwareAsAsked` | |
| `PanelProofs!NeverLocksInLocal` | `Spec => LockOnlyInRemote` | |
| `PanelProofs!ZeroFollows` | `Spec => []ZeroAsAsked` | `OnlyWords` |
| `PanelProofs!TextFollows` | `Spec => []DisplayAsAsked` | |
| `SettingsProofs!SettingsInRange` | `SettingsSpec => []SettingsTypeOK` | |
| `SettingsProofs!AdmissionIsExact` | `SettingsSpec => []AdmissionExact` | `BufLen * BufLen < IntMod` |
| `SettingsProofs!RefusalKeepsValues` | `RefusedKeepsValues`, of `SettingsSpec` and `QueriesSpec` | |
| `SettingsProofs!QueriesInvariant`, `AnswersRestore` | `QueriesSpec => [](SettingsTypeOK /\ AnswerInv)`, `QueriesSpec => []AnswerRestores` | |
| `SettingsProofs!AnswersForetell` | `QueriesSpec => [](AdmissionExact /\ AnswersForetellAdmission)` | `BufLen * BufLen < IntMod` |
| `SenseProofs!RefusalKeepsSelection` | `Spec => RefusedKeepsSelection` | |
| `SenseProofs!SelectionTyped` | `Spec => [](SenseTypeOK /\ AnswersFromTables)` | |
| `SenseProofs!OnlyRangeStrands` | `Spec => OnlyRangeStrandsResolution` | |
| `SenseProofs!ChosenRangeHolds` | `Spec => RangeHoldsValue` | |
| `SenseProofs!SearchesAlike` | `Spec => SearchesAgree` | |
| `SenseProofs!FinestAsked` | `Spec => ResolutionAchieved` | |
| `SenseProofs!TimeLongEnough` | `Spec => IntegrationLongEnough` | |

### The assumptions

Beside those each module declares of its constants:

* `~Threads`: the callbacks are interrupt handlers.  `DmmThreadsTimeout` is the
  counterexample to the other case; where it does not stand, the theorem is of both.
* `CountsSafe`: no argument of TRIGger:COUNt is refused for its range, or none is
  INFinity.  The first finding is the counterexample without it: it leaves a
  finite trigger count of zero, from which the countdown would wrap.
* `BufLen < CountMod`: a count that fits the memory fits `uint16_t`, as
  the 512 of `SCPIMM_BUF_LEN` do.  `BufLen * BufLen < IntMod`: the product of two counts fits
  `int`, what the second finding lacks.
* `Steady`: the last three and `~Threads`; `~Retunes`, settings are changed before the
  first acquisition only, because what they speak of, the number of readings asked for,
  is otherwise not one number; `BufLen * BufLen <= MaxOut`, so that the model's record
  of a response holds every finite one.  The constants of `DmmFaulty` satisfy it.
* `Finite`: `Steady`, and no count is INFinity.  The record of an endless response is
  bounded by `MaxOut`, beyond which the model gives the readings no new names, so that
  "taken twice" would be said of the model and not of the code.
* `PromptHardware`: `~Threads`, every measurement is answered and before its timeout,
  and the clock can be read.  Without it a late answer is taken for that of the next
  measurement.  The constants of `Multimeter` satisfy it.
* `OnlyWords`: SENSe:ZERO:AUTO is given words only; otherwise `PanelNumbers` refutes it.

### The arguments

`HandlerInvariant`.  `ErrorImpliesIdle` is not inductive: that an
error is recorded while the state is IDLE says nothing about who will write the
state next.  `PlaceInv` says what each place of the main program knows of the
state, and `CallbackInv` that what a callback tested still holds when it writes.
Each protects the other.  The program does not move while a handler runs, so the
test of a callback stays true; a handler moves the state only from MEASURING
to MEASURED or from WAIT_FOR_TRIGGER to TRIGGER_DELAY and, by the trigger
source, only where the program's place allows either.  The conjunction is
inductive, one step per action.  `StateCycle`, `ErrorsReported` and
`OnlyExpectedValues` follow from it step by step.

`OwnedInv` stands on it.  That a reading stays in its own response is not
inductive: it needs that an acquisition sending its readings out exists only
while the READ? or MEASure? that began it is in its loop, and conversely that
such a loop is about such an acquisition.  Both follow because the loop ends
only in IDLE, from where no callback leads.  The third conjunct, that such an
acquisition does not wait for `*TRG`, survives a change of the trigger source
because none is executed while the query is.

`ClockInv` is the arithmetic of the timers, in both worlds: the clock shows the stamp
plus the time since, and each time that was read plus the time since, modulo the
width of the clock, as long as something is timed.  Lemmas on the modulus then say
that the code's subtraction returns the time between the stamp and the reading,
across any wrap, provided the stamp is the older of the two.  That it is, is
`ReadInv` and needs `~Threads`: the only other writer of `state_time` is the external
trigger, and `HandlerInv` excludes it where a timer is being tested.

`PathInv` adds to `OwnedInv` what each place of the program knows of the command, the
response and the buffer.  `LiveInv` keeps both countdowns within `1 .. BufLen`
until `finish`, although the client changes the counts they are reloaded from: a
count is in that range whenever it is finite, which is where `CountsSafe` is
needed, and an infinite count comes only with readings that are sent out.

`DueInv` counts.  What is still due is the samples of this trigger and those of
all the next, `(trigger_count - 1) * sample_count_num + sample_count`, and
together with what was delivered it makes up what was asked for.  Each reading
takes one from it, the step to the next trigger none.  Hence the memory suffices
(`AdmittedFits`), INSUFFICIENT_MEMORY never ends an acquisition, and at `finish`
nothing is due: `DoneInv` carries this over the end of the acquisition to the query that
finds it ended without an error.

`AcquisitionRefined` is a step simulation under the mapping of `DmmProperties`, on
all of these: a step is the delivery of one reading, or changes the phase, or is a
stutter.  `Missing` where a reading is delivered and "nothing is missing" where it
ends unasked are `DueInv`; that every other end has an error to report, or is asked
for, are `PathInv` and `HandlerInv`.  The endless acquisition is covered by this proof alone: the run
that checks the refinement has finite counts.

`PromptInv` says that with a prompt hardware the only answer under way, in the
hardware or in the callback's hands, is that of the measurement in progress, and
that no measurement is given up while it is: an abort waits for it (`dmm.c:168`) and
`ClockInv` excludes the timeout.  So each value is in its place when it is taken.
`GenuineInv` is what remains with any hardware: the answers owed, the one the
callback carries, the one kept for the program and those delivered are different
measurements, so that a late answer may be taken in the wrong place but not twice.

`ImplementsDmm` and `ImplementsSense` are step simulations by projection, so that what
is proved of the parts holds of the whole; `WholeMeterSafe` spells one case out.
`MeasureMeasuresNamed` uses that a MEASure? past its preset has succeeded in both
parts and that no SENSe command is executed while it is.  `ChosenInv` says that
while nothing disturbs the acquisition what it began with is selected, and that
what was measured with another selection belongs to earlier acquisitions;
`FunctionOfReadings` combines it with `ReadingsInOrder`, `ChosenWhileIdle` with `PromptInv`.

The invariants of `Panel` are inductive as they stand, with the type invariant:
`doubtful` records exactly where a part of the hardware and of the client's belief
separate.

`AdmissionIsExact` rests on `SettingsInRange`: both factors are at most `BufLen`, so
the product does not wrap.  `AnswerRestores` is not inductive, since it speaks only of
the step that sent an answer back: `AnswerInv` says that what the client keeps is
the value of a setting, which is in range, or INFinity, or a finite zero; the last two
are refused.

The searches of `Sense` are proved for tables of any length.  Of a scan (`First`):
it returns the least hit, by well-foundedness of the natural numbers.  Of the
recursive functions `min_value_index`, `max_value_index` and `less_or_equal_index`:
`LoopDefines` proves that such a function exists and obeys its equation, and `MinValue`,
`MaxValue` and `LargestBelow` what it has computed after each round of the loop.
The induction theorems of the library take an operator as parameter, which the
installed provers cannot instantiate; `InductionUpTo` therefore states induction with
a set, the rounds for which the claim holds, and is proved from its least
counterexample.  `SelectionTyped`, `SearchesAlike`, `FinestAsked` and `TimeLongEnough`
rest on them.

### Only model-checked

* Liveness (`ResetAnswered`, `QueryAnswered`): fairness and ENABLED are out of
  the prover's reach.
* `DataInOrder` and `TimersExact` with threads (`DmmThreads`): proved with interrupt
  handlers only.  The run has no aborts, which an invariant of the thread world would have to
  carry through every place of the program.

Every other property of a passing run is stated by a theorem.

## 5. Not modelled, and why

* Parsing, dispatch, the error queue and status registers: scpi-parser, outside
  the repository.
* `*IDN?`, `*TST?`, SYSTem:VERSion?, SYSTem:ERRor?, ROUTe:TERMinals?, DATA:POINts?
  and the queries of the front panel: print or read one field.
* The text of readings, units of replies: wording.
* What a text or a number of SENSe:ZERO:AUTO says: lengths and signs only.
* The beep of the parser's error callback: it beeps at every error and changes
  nothing.
* `set_interrupt_status` of the interface: never called.

## 6. Plan

Done, in the order of importance: the state machine with its settings; the
choice of function and parameters; type correctness, the inductive invariant
and its consequences; the searches for a range; the front panel; the whole
meter, `Dmm` composed with `Sense`; the settings' queries; who owns a response;
the timers; the countdowns, the readings due and complete queries; the
refinement of `Acquisition`; the order and origin of readings; the function of the
readings of the whole meter; answers that restore settings; the recursive searches.

Next, theorems:

1. `DataInOrder` and `TimersExact` with callbacks in threads, where nothing is aborted.
2. The completeness of READ? for the whole meter, from `ImplementsDmm`, with the function
   of its readings: one theorem about what MEASure? returns.
