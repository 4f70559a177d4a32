-------------------------- MODULE SenseProperties ---------------------------
(***************************************************************************)
(* What the choice of function, range, resolution and integration time     *)
(* must be, whatever the tables of the hardware.                           *)
(***************************************************************************)
EXTENDS Sense

Errors == {"OK", "DATA_OUT_OF_RANGE", "CANNOT_ACHIEVE_REQUESTED_RESOLUTION",
           "ILLEGAL_PARAMETER_VALUE", "INVALID_SUFFIX", "MISSING_PARAMETER",
           "PARAMETER_NOT_ALLOWED", "HARDWARE"}

\* The indices that some table of resolutions has.
ResolutionIndices == UNION {DOMAIN Resolutions[i] : i \in DOMAIN Ranges}

\* Every variable has its type: a range is an index of the table of ranges, a
\* resolution one of a table of resolutions, though not always of the table of
\* its range, and an integration time one of its table or SIZE_MAX.
SenseTypeOK ==
  /\ mode \in Modes
  /\ range \in [Modes -> DOMAIN Ranges]
  /\ auto_range \in [Modes -> BOOLEAN]
  /\ resolution \in [Modes -> ResolutionIndices]
  /\ nplc \in [Modes -> {SIZE_MAX} \union DOMAIN NPLCs]
  /\ result \in Errors
  /\ response \in [name : Modes \union {"none"}, values : Seq(Int)]
  /\ command \in CommandTable \union {None}

Ascending(t) == \A i, j \in DOMAIN t : i < j => t[i] < t[j]

\* The tables of the test hardware are in ascending order.
TablesAscending ==
  /\ Ascending(Ranges) /\ Ascending(NPLCs)
  /\ \A i \in DOMAIN Resolutions : Ascending(Resolutions[i])
  /\ \A i, j \in DOMAIN Ranges :
       i < j => Ranges[i] * Overruns[i] < Ranges[j] * Overruns[j]

Sought == {"MIN", "MAX", "NUMBER"}

\* The command just executed, and whether it succeeded.
Succeeds(h) == Executing(h) /\ command' = None /\ result' = "OK"

ConfigureAgrees ==
  /\ arg.type \in Sought => range'[m] = RangeIndex(arg)
  /\ arg2.type \in Sought =>
       resolution'[m] = ResolutionIndex(Resolutions[range'[m]], arg2)

\* CONFigure and SENSe search the tables with loops of their own; on ascending
\* tables a CONFigure with a range and a resolution chooses what RANGe and then
\* RESolution would.
SearchesAgree ==
  [][ TablesAscending /\ Succeeds("CONF") => ConfigureAgrees ]_vars

\* A value in a range, overrun included.
Within(v, i) == 10 * v <= Ranges[i] * Overruns[i]

RangeFits ==
  /\ Within(arg.value, range'[m])
  /\ \A i \in DOMAIN Ranges :
       Ranges[i] < Ranges[range'[m]] => ~Within(arg.value, i)

\* A value asked of RANGe or CONFigure lies within the range chosen, overrun
\* included, and in no smaller one; it is refused only if it lies in none.
RangeHoldsValue ==
  [][ /\ TablesAscending /\ command.header \in {"RANG", "CONF"}
      /\ command' = None /\ arg.type = "NUMBER"
      => /\ result' = "OK" => RangeFits
         /\ result' = "DATA_OUT_OF_RANGE" =>
              \A i \in DOMAIN Ranges : ~Within(arg.value, i) ]_vars

ResolutionFits(s) ==
  LET t == Resolutions[range'[m]]
  IN  /\ LessOrEqual(t[resolution'[m]], s.value)
      /\ \A k \in DOMAIN t :
           t[k] > t[resolution'[m]] => ~LessOrEqual(t[k], s.value)

\* The resolution chosen is at least as fine as the one asked for, up to the
\* tolerance, and no coarser one of that range is.
ResolutionAchieved ==
  [][ TablesAscending =>
        /\ Succeeds("RES") /\ arg.type = "NUMBER" => ResolutionFits(arg)
        /\ Succeeds("CONF") /\ arg2.type = "NUMBER" => ResolutionFits(arg2) ]_vars

LongEnough == {i \in DOMAIN NPLCs : NPLCs[i] * Delta >= arg.value * (Delta - 1)}

\* The integration time chosen is the shortest that is long enough, up to the
\* tolerance; an index outside the table is handed over only when none is.
IntegrationLongEnough ==
  [][ TablesAscending /\ Succeeds("NPLC") /\ arg.type = "NUMBER" =>
        \/ nplc'[m] = SIZE_MAX /\ LongEnough = {}
        \/ /\ nplc'[m] \in LongEnough
           /\ \A i \in LongEnough : NPLCs[nplc'[m]] <= NPLCs[i] ]_vars

Legal(f) == resolution[f] \in DOMAIN Resolutions[range[f]]

\* Ranges may have resolution tables of different lengths.  Only RANGe can
\* leave a function with a resolution its range does not have: CONFigure and
\* RESolution choose from the table of the range they leave it in.
OnlyRangeStrandsResolution ==
  [][ (\E f \in Modes : Legal(f) /\ ~Legal(f)') => Succeeds("RANG") ]_vars

\* Two queries read outside a table: CONFigure? when the function was left with
\* such a resolution, and NPLCycles? of a function left with an integration time
\* for which there was no entry.  No other does, RESolution? in particular.
AnswersFromTables ==
  (\E i \in DOMAIN response.values : response.values[i] = Outside) =>
    \/ response.name = mode /\ ~Legal(mode)
    \/ response.name = "none" /\ \E f \in Modes : nplc[f] = SIZE_MAX

\* A CONFigure or SENSe command that is refused, at whichever of its steps,
\* leaves function and parameters as they were; only *RST may fail half done.
RefusedKeepsSelection ==
  [][ result' # "OK" /\ ~Executing("RST") => UNCHANGED selection ]_vars
=============================================================================
