------------------------------- MODULE Sense --------------------------------
(***************************************************************************)
(* The measurement function and its parameters: CONFigure and the SENSe    *)
(* commands choose a range, a resolution and an integration time from      *)
(* tables of the hardware and hand their indices over (sense.c,            *)
(* configure.c, SCPIMM_set_mode in dmm.c, the searches of utils.c).        *)
(*                                                                         *)
(* The settings themselves are kept by the hardware behind                 *)
(* scpimm_interface_t; here it is the one of test/default_multimeter.c,    *)
(* whose tables are the same for every function.  A hardware that refuses  *)
(* a call is assumed to change nothing; only the test hardware, when a     *)
(* test makes it report an error, has stored the index before it does.     *)
(*                                                                         *)
(* A table is a sequence; C ends it with a negative number.  An index here *)
(* is the one of C plus one, in size_t: SIZE_MAX, and the -1 of            *)
(* find_greater_than, come out as 0.                                       *)
(***************************************************************************)
EXTENDS Integers, Sequences

CONSTANTS
  Modes,        \* the functions built in, a subset of AllModes
  Ranges,       \* the ranges of a function
  Overruns,     \* by how much each may be exceeded, in tenths
  Resolutions,  \* for each range, its table of resolutions
  NPLCs,        \* the integration times
  Delta,        \* FLOAT_DELTA is 1/Delta
  RangeArgs, ResolutionArgs, NplcArgs,  \* the arguments the client gives
  HardwareFails \* whether calls of the interface may be refused

RatioModes == {"DCV_RATIO", "ACV_RATIO"}
VoltModes == {"DCV", "ACV"} \union RatioModes
AmperModes == {"DCC", "ACC"}
OhmModes == {"RESISTANCE_2W", "RESISTANCE_4W"}
AllModes == VoltModes \union AmperModes \union OhmModes

\* SENSe commands exist for these, those of NPLCycles for the latter.
SenseModes == Modes \ RatioModes
NplcModes == Modes \intersect ({"DCV", "DCC"} \union OhmModes)

ArgTypes == {"NUMBER", "MIN", "MAX", "DEF", "AUTO", "INF", "MISSING"}
Units == {"NONE", "VOLT", "AMPER", "OHM"}
Arg == [type : ArgTypes, value : Int, unit : Units]

Tables == Seq(Nat) \ {<<>>}

ASSUME SenseAssumption ==
  /\ Modes \subseteq AllModes /\ "DCV" \in Modes
  /\ {Ranges, Overruns, NPLCs} \subseteq Tables
  /\ Len(Overruns) = Len(Ranges)
  /\ Resolutions \in Seq(Tables) /\ Len(Resolutions) = Len(Ranges)
  /\ Delta \in Nat \ {0}
  /\ {RangeArgs, ResolutionArgs, NplcArgs} \subseteq SUBSET Arg
  /\ HardwareFails \in BOOLEAN

VARIABLES
  mode,                               \* the function measured
  range, auto_range, resolution, nplc,  \* for each function: indices, a flag
  result,      \* the error the last command pushed, "OK" when it succeeded
  response,    \* what it sent: the name of a function, numbers
  command      \* the one being executed: its header, function and arguments

selection == <<mode, range, auto_range, resolution, nplc>>
vars == <<selection, result, response, command>>

NoArg == [type |-> "MISSING", value |-> 0, unit |-> "NONE"]

\* A header, the function it names, and up to two arguments.
Command(h, m, a, b) == [header |-> h, mode |-> m, arg |-> a, arg2 |-> b]

None == Command("none", "DCV", NoArg, NoArg)

Init ==
  /\ mode = "DCV"
  /\ range = [f \in Modes |-> 1] /\ resolution = [f \in Modes |-> 1]
  /\ auto_range = [f \in Modes |-> TRUE] /\ nplc = [f \in Modes |-> 1]
  /\ result = "OK" /\ response = [name |-> "none", values |-> <<>>]
  /\ command = None

-----------------------------------------------------------------------------
(* Searches in a table.                                                    *)

SIZE_MAX == 0

\* A scan that stops at the first hit.
First(hits) ==
  IF hits = {} THEN SIZE_MAX ELSE CHOOSE i \in hits : \A j \in hits : i <= j

min_value_index(t) ==
  LET best[i \in 1 .. Len(t)] ==
        IF i = 1 THEN 1
        ELSE IF t[best[i - 1]] > t[i] THEN i ELSE best[i - 1]
  IN  best[Len(t)]

\* The index after the loop instead of the one it kept.
Bugmax_value_index(t) == Len(t) + 1

max_value_index(t) ==
  LET best[i \in 1 .. Len(t)] ==
        IF i = 1 THEN 1
        ELSE IF t[best[i - 1]] < t[i] THEN i ELSE best[i - 1]
  IN  best[Len(t)]

\* The comparison with value * (1 + FLOAT_DELTA), multiplied by Delta.
LessOrEqual(x, v) == x * Delta <= v * (Delta + 1)

\* The scan stops at the first hit.
Bugless_or_equal_index(t, v) == First({i \in DOMAIN t : LessOrEqual(t[i], v)})

less_or_equal_index(t, v) ==
  LET best[i \in 0 .. Len(t)] ==
        IF i = 0 THEN SIZE_MAX
        ELSE IF /\ LessOrEqual(t[i], v)
                /\ best[i - 1] = SIZE_MAX \/ t[best[i - 1]] < t[i]
             THEN i ELSE best[i - 1]
  IN  best[Len(t)]

\* The tolerance on the wrong side.
Buggreater_or_equal_index(t, v) ==
  First({i \in DOMAIN t : t[i] * Delta >= v * (Delta + 1)})

\* The comparison with value * (1 - FLOAT_DELTA).
greater_or_equal_index(t, v) ==
  First({i \in DOMAIN t : t[i] * Delta >= v * (Delta - 1)})

BugHolds(i, v) == Ranges[i] >= v

\* A range holds a value up to its overrun.
Holds(i, v) == Ranges[i] * Overruns[i] >= 10 * v

range_index(v) == First({i \in DOMAIN Ranges : Holds(i, v)})

max_index(t) == Len(t)

find_greater_than(t, v) == First({i \in DOMAIN t : ~LessOrEqual(t[i], v)})

-----------------------------------------------------------------------------
(* Arguments and errors.                                                   *)

FirstError(errors) ==
  LET i == First({j \in DOMAIN errors : errors[j] # "OK"})
  IN  IF i = 0 THEN "OK" ELSE errors[i]

Unless(condition, e) == IF condition THEN "OK" ELSE e

\* SENSe takes MIN, MAX or a number; a number for which the search found
\* nothing is answered with e.
SenseError(a, index, e) ==
  FirstError(<<Unless(a.type # "MISSING", "MISSING_PARAMETER"),
               Unless(a.type \in {"MIN", "MAX", "NUMBER"}, "ILLEGAL_PARAMETER_VALUE"),
               Unless(a.type # "NUMBER" \/ index # SIZE_MAX, e)>>)

Reply(e, name, values) ==
  /\ result' = e
  /\ response' = [name |-> name, values |-> values]
  /\ command' = None

Done == Reply("OK", "none", <<>>)

Refuse(e) == Reply(e, "none", <<>>) /\ UNCHANGED selection

\* expectNoParams is called when the other arguments have been accepted.
OneTooMany == Refuse("PARAMETER_NOT_ALLOWED")

\* A table or a parameter is asked for before the arguments are looked at, and
\* a parameter set after them; each call may be refused.
HardwareRefuses == HardwareFails /\ Refuse("HARDWARE")

-----------------------------------------------------------------------------
(* The command being executed.                                             *)

Executing(h) == command.header = h

m == command.mode
arg == command.arg
arg2 == command.arg2

CommandTable ==
  {Command(h, f, NoArg, NoArg) : h \in {"RST", "FUNC?", "CONF?"}, f \in {"DCV"}}
    \union {Command("FUNC", f, NoArg, NoArg) : f \in AllModes}
    \union {Command("CONF", f, a, b) : f \in Modes, a \in RangeArgs, b \in ResolutionArgs}
    \union {Command(h, f, a, NoArg) : h \in {"RANG", "RANG?"}, f \in SenseModes, a \in RangeArgs}
    \union {Command(h, f, a, NoArg) : h \in {"RES", "RES?"}, f \in SenseModes, a \in ResolutionArgs}
    \union {Command(h, f, a, NoArg) : h \in {"NPLC", "NPLC?"}, f \in NplcModes, a \in NplcArgs}
    \union {Command(h, f, NoArg, NoArg) : h \in {"AUTO", "AUTO?"}, f \in SenseModes}

\* A command has been parsed.
Receive(c) ==
  /\ command = None
  /\ command' = c
  /\ result' = "OK" /\ response' = [name |-> "none", values |-> <<>>]
  /\ UNCHANGED selection

-----------------------------------------------------------------------------
(* SENSe: one parameter of one function.                                   *)

\* SENSe:FUNCtion, also for a function that is not built in.
sense_function ==
  /\ Executing("FUNC")
  /\ \/ /\ m \in Modes
        /\ mode' = m /\ Done
        /\ UNCHANGED <<range, auto_range, resolution, nplc>>
     \/ m \notin Modes /\ Refuse("DATA_OUT_OF_RANGE")
     \/ Refuse("MISSING_PARAMETER")
     \/ m \in Modes /\ HardwareRefuses

RangeIndex(a) ==
  IF a.type = "MIN" THEN min_value_index(Ranges)
  ELSE IF a.type = "MAX" THEN max_value_index(Ranges)
  ELSE range_index(a.value)

\* RANGe.  The index of the resolution stays as it is, whatever the new range.
set_range ==
  LET e == SenseError(arg, RangeIndex(arg), "DATA_OUT_OF_RANGE")
  IN  /\ Executing("RANG")
      /\ \/ /\ e = "OK"
            /\ range' = [range EXCEPT ![m] = RangeIndex(arg)]
            /\ Done /\ UNCHANGED <<mode, auto_range, resolution, nplc>>
         \/ e # "OK" /\ Refuse(e)
         \/ e = "OK" /\ OneTooMany
         \/ HardwareRefuses

ResolutionIndex(t, a) ==
  IF a.type = "MIN" THEN min_value_index(t)
  ELSE IF a.type = "MAX" THEN max_value_index(t)
  ELSE less_or_equal_index(t, a.value)

\* The table of the range before.
BugAllowedResolutions(i) == Resolutions[range[m]]

AllowedResolutions(i) == Resolutions[i]

\* RESolution searches the table of the range in force.
set_resolution ==
  LET k == ResolutionIndex(AllowedResolutions(range[m]), arg)
      e == SenseError(arg, k, "CANNOT_ACHIEVE_REQUESTED_RESOLUTION")
  IN  /\ Executing("RES")
      /\ \/ /\ e = "OK"
            /\ resolution' = [resolution EXCEPT ![m] = k]
            /\ Done /\ UNCHANGED <<mode, range, auto_range, nplc>>
         \/ e # "OK" /\ Refuse(e)
         \/ e = "OK" /\ OneTooMany
         \/ HardwareRefuses

NplcIndex(a) ==
  IF a.type = "MIN" THEN min_value_index(NPLCs)
  ELSE IF a.type = "MAX" THEN max_value_index(NPLCs)
  ELSE greater_or_equal_index(NPLCs, a.value)

\* NPLCycles: SIZE_MAX is handed over when no entry is large enough.
set_numeric_param ==
  LET e == SenseError(arg, NplcIndex(arg), "OK")
  IN  /\ Executing("NPLC")
      /\ \/ /\ e = "OK"
            /\ nplc' = [nplc EXCEPT ![m] = NplcIndex(arg)]
            /\ Done /\ UNCHANGED <<mode, range, auto_range, resolution>>
         \/ e # "OK" /\ Refuse(e)
         \/ e = "OK" /\ OneTooMany
         \/ HardwareRefuses

\* RANGe:AUTO.
set_bool_param ==
  /\ Executing("AUTO")
  /\ \/ /\ \E b \in BOOLEAN : auto_range' = [auto_range EXCEPT ![m] = b]
        /\ Done /\ UNCHANGED <<mode, range, resolution, nplc>>
     \/ Refuse("MISSING_PARAMETER") \/ OneTooMany \/ HardwareRefuses

-----------------------------------------------------------------------------
(* CONFigure: function, range and resolution at once.                      *)

detect_units ==
  IF m \in VoltModes THEN "VOLT" ELSE IF m \in AmperModes THEN "AMPER" ELSE "OHM"

Validate(a, types) ==
  FirstError(<<Unless(a.type \in types, "ILLEGAL_PARAMETER_VALUE"),
               Unless(a.type # "NUMBER" \/ a.unit \in {"NONE", detect_units},
                      "INVALID_SUFFIX")>>)

\* A missing argument is taken for DEF.
validate_range == Validate(arg, {"MIN", "MAX", "DEF", "AUTO", "NUMBER", "MISSING"})
validate_resolution == Validate(arg2, {"MIN", "MAX", "DEF", "NUMBER", "MISSING"})

ConfiguredRange(r) ==
  IF r.type = "NUMBER" THEN First({i \in DOMAIN Ranges : Holds(i, r.value)})
  ELSE IF r.type = "MAX" THEN max_index(Ranges) ELSE 1

\* The entry that is too coarse instead of the one before it.
BugConfiguredResolution(t, s) ==
  IF s.type = "NUMBER"
    THEN LET i == find_greater_than(t, s.value)
         IN  IF i = 0 THEN max_index(t) ELSE i
    ELSE IF s.type = "MAX" THEN max_index(t) ELSE 1

\* The entry before the first that is too coarse; before the first there is
\* none.
ConfiguredResolution(t, s) ==
  IF s.type = "NUMBER"
    THEN LET i == find_greater_than(t, s.value)
         IN  IF i = 0 THEN max_index(t) ELSE i - 1
    ELSE IF s.type = "MAX" THEN max_index(t) ELSE 1

\* SCPIMM_set_mode, with what its searches found.
SetMode(i, k) ==
  /\ mode' = m
  /\ range' = [range EXCEPT ![m] = i]
  /\ auto_range' = [auto_range EXCEPT ![m] = arg.type \in {"DEF", "AUTO", "MISSING"}]
  /\ resolution' = [resolution EXCEPT ![m] = k]
  /\ UNCHANGED nplc

\* The function is switched before the searches.
BugRefuseSearch(e) ==
  Reply(e, "none", <<>>) /\ mode' = m
  /\ UNCHANGED <<range, auto_range, resolution, nplc>>

RefuseSearch(e) == Refuse(e)

\* CONFigure, and the first half of MEASure?.  The acquisition is stopped and
\* preset once the arguments have been parsed, before they are searched for.
configure ==
  LET parsed == FirstError(<<validate_range, validate_resolution>>)
      i == ConfiguredRange(arg)
      k == IF i = SIZE_MAX THEN SIZE_MAX
           ELSE ConfiguredResolution(AllowedResolutions(i), arg2)
      found == FirstError(<<Unless(i # SIZE_MAX, "DATA_OUT_OF_RANGE"),
                            Unless(k # SIZE_MAX, "CANNOT_ACHIEVE_REQUESTED_RESOLUTION")>>)
  IN  /\ Executing("CONF")
      /\ \/ parsed # "OK" /\ Refuse(parsed)
         \/ parsed = "OK" /\ found # "OK" /\ RefuseSearch(found)
         \/ parsed = "OK" /\ (OneTooMany \/ HardwareRefuses)
         \/ parsed = "OK" /\ found = "OK" /\ SetMode(i, k) /\ Done

\* *RST: the interface's own reset, if there is one and it works: its result is
\* ignored.  The preset that follows may be refused.
reset ==
  /\ Executing("RST")
  /\ \/ /\ mode' = "DCV"
        /\ range' = [f \in Modes |-> 1] /\ resolution' = [f \in Modes |-> 1]
        /\ auto_range' = [f \in Modes |-> TRUE] /\ nplc' = [f \in Modes |-> 1]
     \/ HardwareFails /\ UNCHANGED selection
  /\ Done \/ (HardwareFails /\ Reply("HARDWARE", "none", <<>>))

-----------------------------------------------------------------------------
(* Queries.                                                                *)

\* What a read outside a table yields.
Outside == -1

Read(t, i) == IF i \in DOMAIN t THEN t[i] ELSE Outside

\* The smallest or the largest entry of a table, or the one selected.
Queried(t, a, index) ==
  Read(t, IF a.type = "MIN" THEN min_value_index(t)
          ELSE IF a.type = "MAX" THEN max_value_index(t) ELSE index)

Query(types, value) ==
  \/ arg.type \in types /\ Reply("OK", "none", <<value>>) /\ UNCHANGED selection
  \/ arg.type \notin types /\ Refuse("ILLEGAL_PARAMETER_VALUE")
  \/ arg.type \in types /\ OneTooMany
  \/ HardwareRefuses

query_range ==
  /\ Executing("RANG?")
  /\ Query({"MIN", "MAX", "DEF", "MISSING"}, Queried(Ranges, arg, range[m]))

query_nplc ==
  /\ Executing("NPLC?")
  /\ Query({"MIN", "MAX", "DEF", "MISSING"}, Queried(NPLCs, arg, nplc[m]))

\* A missing argument is DEF, which this query refuses too: it never comes to
\* answer the resolution that is selected.
query_resolution ==
  /\ Executing("RES?")
  /\ Query({"MIN", "MAX"},
           Queried(AllowedResolutions(range[m]), arg, resolution[m]))

query_bool_param ==
  /\ Executing("AUTO?")
  /\ \/ /\ Reply("OK", "none", <<IF auto_range[m] THEN 1 ELSE 0>>)
        /\ UNCHANGED selection
     \/ OneTooMany \/ HardwareRefuses

sense_functionQ ==
  /\ Executing("FUNC?")
  /\ \/ Reply("OK", mode, <<>>) /\ UNCHANGED selection
     \/ HardwareRefuses

configureQ ==
  /\ Executing("CONF?")
  /\ \/ /\ Reply("OK", mode,
                 <<Read(Ranges, range[mode]),
                   Read(AllowedResolutions(range[mode]), resolution[mode])>>)
        /\ UNCHANGED selection
     \/ HardwareRefuses

-----------------------------------------------------------------------------
Setting == \/ sense_function \/ set_range \/ set_resolution
           \/ set_numeric_param \/ set_bool_param \/ configure \/ reset

Asking == \/ query_range \/ query_nplc \/ query_resolution
          \/ query_bool_param \/ sense_functionQ \/ configureQ

Next == Setting \/ Asking \/ \E c \in CommandTable : Receive(c)

Spec == Init /\ [][Next]_vars
=============================================================================
