--------------------------- MODULE PanelProperties ---------------------------
(***************************************************************************)
(* What the client may believe about the front panel after a sequence of   *)
(* commands some of which the hardware refused half way.                   *)
(***************************************************************************)
EXTENDS Panel

Parts == {"remote", "zero", "impedance", "text"}

PanelErrors == {"OK", "HARDWARE", "TOO_MUCH_DATA", "MISSING_PARAMETER",
                "PARAMETER_NOT_ALLOWED", "ILLEGAL_PARAMETER_VALUE"}

FlagType ==
  /\ {remote, lock, zero_auto, zero_auto_once} \subseteq BOOLEAN
  /\ {input_impedance_auto, display, beeper_state} \subseteq BOOLEAN
  /\ asked_remote \in BOOLEAN \X BOOLEAN /\ asked_impedance \in BOOLEAN

TextType ==
  /\ display_text \in 0 .. DisplayLen /\ shown \in 0 .. DisplayLen
  /\ asked_text \in TextLengths \union {2}

\* Every variable has its type; a text fits the array it is copied to with its
\* terminating zero, also when text_len -= 2 has wrapped.
PanelTypeOK ==
  /\ FlagType /\ TextType
  /\ fitted \subseteq Optional /\ doubtful \subseteq Parts
  /\ result \in PanelErrors /\ asked_zero \in ZeroWords

\* A part nobody has reason to doubt: since the last successful command about
\* it the hardware has refused no call, and *RST has told it what it did.
Trusted(part) == part \notin doubtful

\* Remote state and lock are set by two calls of SCPIMM_set_remote, and *RST
\* and CONFigure set some of the flags too: a successful command has set all
\* its flags, and nothing else changes them but a refused call.
HardwareAsAsked ==
  /\ Trusted("remote") => <<remote, lock>> = asked_remote
  /\ Trusted("impedance") => input_impedance_auto = asked_impedance

\* SYSTem:RWLock that fails half way may leave the meter remote but not locked,
\* never locked in local; SYSTem:LOCal that fails half way leaves a lock that
\* was there.
LockOnlyInRemote == [][ ~lock /\ lock' => remote' ]_vars

\* SENSe:ZERO:AUTO leaves the two flags of the hardware as its argument says:
\* ONCE zeroes one measurement and no more, whatever was asked before it.
ZeroAsAsked ==
  Trusted("zero") =>
    /\ zero_auto <=> asked_zero # "OFF"
    /\ zero_auto_once <=> asked_zero = "ONCE"

\* The text DISPlay:TEXT? answers is the last one given, without its quotes,
\* and a hardware that shows texts shows it; after *RST it may not.
DisplayAsAsked ==
  Trusted("text") =>
    /\ display_text + 2 = asked_text
    /\ "display_text" \in fitted => shown = display_text
=============================================================================
