------------------------ MODULE MultimeterProperties -------------------------
(***************************************************************************)
(* What the choice of function and range owes to a running acquisition,    *)
(* and the acquisition to the choice.                                      *)
(***************************************************************************)
EXTENDS Multimeter

\* The readings of an acquisition, in the buffer or in a response, were all
\* measured with the function, range, resolution and integration time that
\* were selected when it began, unless a SENSe command changed them during the
\* acquisition: neither CONFigure nor MEASure? nor *RST lets a measurement in
\* progress end up among the readings of the next function.
ReadingsOfFunction ==
  ~disturbed => \A i \in DOMAIN Delivered : Delivered[i] \notin foreign

\* Inductive with a hardware that answers in time: while nothing disturbs the
\* acquisition, what it began with is selected, and what was measured otherwise
\* belongs to earlier ones.
ChosenInv ==
  /\ (state # "IDLE" \/ pc = "init_trigger") /\ ~disturbed => Setup = intended
  /\ \A r \in foreign :
       /\ r \in Readings /\ r[1] <= acq /\ r[2] # 0
       /\ ~disturbed => r[1] # acq

\* The hardware is given another function, range or resolution while it
\* measures by a SENSe command only: CONFigure, MEASure? and *RST wait for the
\* measurement in progress before they choose.
ChosenBetweenMeasurements ==
  [][ Setup' # Setup /\ Measured # {} => op = "none" ]_multimeter

\* A MEASure? measures the function it named: when any step of its
\* configuration is refused it does not go on to measure the old one.
MeasuresWhatItNamed ==
  [][ Begins /\ op = "MEAS" => mode = named /\ outcome = "OK" ]_multimeter
=============================================================================
