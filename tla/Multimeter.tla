----------------------------- MODULE Multimeter ------------------------------
(***************************************************************************)
(* The measurement state machine and the choice of function and range put  *)
(* together: CONFigure, MEASure? and *RST stop the acquisition, preset it  *)
(* and only then choose (configure.c, scpimm.c), and the SENSe commands    *)
(* choose at any time, also while the hardware measures (sense.c).         *)
(*                                                                         *)
(* Every step is one of Dmm, one of Sense, or both at once: the end of     *)
(* SCPIMM_measure_preset and SCPIMM_set_mode after it are one step of the  *)
(* program, refused as a whole when any of their calls is.  The results of *)
(* the two are kept apart, `result' for Dmm and `outcome' for Sense.       *)
(***************************************************************************)
EXTENDS Dmm

CONSTANTS
  Modes, Ranges, Overruns, Resolutions, NPLCs, Delta,   \* those of Sense
  RangeArgs, ResolutionArgs, NplcArgs,
  Configuring,   \* what CONFigure and MEASure? are given, when it can be parsed
  Selecting,     \* the SENSe commands the client sends
  MaxSenses      \* bound: how many

VARIABLES
  mode, range, auto_range, resolution, nplc, outcome, response, command,
  intended,    \* history: what was selected when the acquisition began
  foreign,     \* history: readings measured while something else was
  disturbed,   \* history: whether a SENSe command came during the acquisition
  named,       \* history: the function the last CONFigure or MEASure? named
  senses       \* history: SENSe commands received

S == INSTANCE Sense WITH result <- outcome

ASSUME MultimeterAssumption ==
  /\ Configuring \subseteq {c \in S!CommandTable : c.header = "CONF"}
  /\ Selecting \subseteq {c \in S!CommandTable :
                        c.header \in {"FUNC", "RANG", "AUTO", "RES", "NPLC"}}
  /\ MaxSenses \in Nat

selection == <<mode, range, auto_range, resolution, nplc>>
sensing == <<selection, outcome, response, command>>
witness == <<intended, foreign, disturbed, named, senses>>
multimeter == <<vars, sensing, witness>>

\* The function measured, with its range, resolution and integration time.
Setup == <<mode, range[mode], auto_range[mode], resolution[mode], nplc[mode]>>

MultimeterInit ==
  /\ Init /\ S!Init
  /\ intended = Setup /\ foreign = {} /\ disturbed = FALSE /\ named = mode
  /\ senses = 0

-----------------------------------------------------------------------------
(* History.                                                                *)

\* The readings the hardware is at work on, or has just handed over.
Measured ==
  {hw[i] : i \in DOMAIN hw}
    \union (IF read_value.pc = "idle" THEN {} ELSE {read_value.value})

Begins == acq' # acq

\* Only a SENSe command chooses while no command of Dmm is being executed.
Disturbs == op = "none" /\ state # "IDLE" /\ Setup' # Setup

Witness ==
  /\ intended' = IF Begins THEN Setup' ELSE intended
  /\ foreign' = foreign \union {r \in Measured' : Setup' # intended'}
  /\ disturbed' = (~Begins /\ (disturbed \/ Disturbs))

Uncounted == Witness /\ UNCHANGED <<named, senses>>

-----------------------------------------------------------------------------
(* The client.                                                             *)

\* No SENSe command is being executed.
Free == pc = "ready" => command = S!None

\* The commands that run SCPIMM_do_configure or reset, their arguments parsed.
ReceiveChoosing ==
  /\ \/ \E op_ \in Commands \intersect {"CONF", "MEAS"}, c \in Configuring :
          Receive(op_) /\ S!Receive(c) /\ named' = c.mode
     \/ /\ "RST" \in Commands /\ Receive("RST")
        /\ S!Receive(S!Command("RST", "DCV", S!NoArg, S!NoArg))
        /\ UNCHANGED named
  /\ Witness /\ UNCHANGED senses

ReceiveOther ==
  \/ \E op_ \in Commands \ {"CONF", "MEAS", "RST"} : Receive(op_)
  \/ Retune

\* The state machine takes no notice of a SENSe command.
ReceiveSense ==
  /\ At("ready") /\ senses < MaxSenses
  /\ \E c \in Selecting : S!Receive(c)
  /\ senses' = senses + 1
  /\ UNCHANGED vars
  /\ Witness /\ UNCHANGED named

-----------------------------------------------------------------------------
(* The program.                                                            *)

SenseSets ==
  \/ S!sense_function \/ S!set_range \/ S!set_resolution
  \/ S!set_numeric_param \/ S!set_bool_param

\* A SENSe command is executed, whatever the acquisition is doing.
Sensing ==
  /\ At("ready") /\ SenseSets
  /\ UNCHANGED vars
  /\ Uncounted

\* The preset succeeded, and SCPIMM_set_mode after it.
Accepted == pc' = "initiate" \/ result' = "OK"

\* do_measure does not look at what the configuration returned.
BugChoose ==
  /\ measure_preset
  /\ S!configure \/ S!reset
  /\ outcome' # "PARAMETER_NOT_ALLOWED"
  /\ pc' = "initiate" \/ (Accepted <=> outcome' = "OK")
  /\ Uncounted

\* SCPIMM_do_configure, and reset, from the preset on; do_measure goes on when
\* it succeeded.
Choose ==
  /\ measure_preset
  /\ S!configure \/ S!reset
  /\ outcome' # "PARAMETER_NOT_ALLOWED"
  /\ Accepted <=> outcome' = "OK"
  /\ Uncounted

\* Every other step leaves function and range alone.
Otherwise ==
  /\ \/ Program /\ pc # "preset" /\ Free
     \/ command = S!None /\ ReceiveOther
     \/ answer \/ ReadValue \/ pulse \/ ExternalTrigger \/ Tick
  /\ UNCHANGED sensing
  /\ Uncounted

MultimeterNext ==
  Otherwise \/ Choose \/ Sensing \/ ReceiveChoosing \/ ReceiveSense

MultimeterSpec == MultimeterInit /\ [][MultimeterNext]_multimeter
=============================================================================
