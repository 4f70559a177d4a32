-------------------------------- MODULE Panel --------------------------------
(***************************************************************************)
(* The front panel: remote state and lock, beeper, display, input          *)
(* impedance and automatic zero (system.c, display.c, input.c, the end of  *)
(* sense.c, and what *RST and CONFigure do to them).                       *)
(*                                                                         *)
(* Most of it is kept twice: by the hardware, which the library sets one   *)
(* flag at a time and which may refuse any call, and by the client, who    *)
(* knows only which commands succeeded.  Only the main program runs these  *)
(* handlers, and the hardware reads the automatic zero when a measurement  *)
(* starts, so that each is a single action.                                *)
(*                                                                         *)
(* A text is represented by its length: there is one of each.              *)
(***************************************************************************)
EXTENDS Integers

CONSTANTS
  TextLengths,   \* lengths of the texts given, with their quotes
  DisplayLen,    \* SCPIMM_DISPLAY_LEN
  SizeMod,       \* size_t counts modulo SizeMod
  ZeroArgs,      \* the arguments given to SENSe:ZERO:AUTO
  HardwareFails  \* whether calls of the interface may be refused

ZeroWords == {"ON", "OFF", "ONCE"}
ZeroNumbers == {"1.0", "0.0"}

ASSUME PanelAssumption ==
  /\ TextLengths \subseteq Nat \ {0}
  /\ DisplayLen \in Nat /\ SizeMod \in Nat /\ DisplayLen + 2 < SizeMod
  /\ \A n \in TextLengths : n < SizeMod
  /\ ZeroArgs \subseteq ZeroWords \union ZeroNumbers \union {"OTHER", "MISSING"}
  /\ HardwareFails \in BOOLEAN

VARIABLES
  remote, lock, zero_auto, zero_auto_once,   \* the flags of the hardware
  input_impedance_auto, shown,               \* ... and the text it shows
  display, display_text, beeper_state,       \* fields of scpimm_context_t
  fitted,     \* the optional functions the interface has
  result,     \* the error of the last command, "OK" when it succeeded
  asked_remote, asked_zero, asked_impedance, asked_text,
              \* history: what the last successful command asked for
  doubtful    \* history: where a later call was refused or never made

remotes == <<remote, lock, asked_remote>>
zeroes == <<zero_auto, zero_auto_once, asked_zero>>
impedance == <<input_impedance_auto, asked_impedance>>
texts == <<display_text, shown, asked_text>>
others == <<display, beeper_state, fitted>>
vars == <<remotes, zeroes, impedance, texts, others, result, doubtful>>

Optional == {"reset", "display_text", "beep"}

\* The library has been set up: the interface's reset, if there is one, ran.
Init ==
  /\ remote = TRUE /\ lock = FALSE
  /\ zero_auto = TRUE /\ zero_auto_once = FALSE /\ input_impedance_auto = FALSE
  /\ display = TRUE /\ display_text = 0 /\ shown = 0 /\ beeper_state = FALSE
  /\ fitted \in SUBSET Optional
  /\ result = "OK"
  /\ asked_remote = <<TRUE, FALSE>> /\ asked_zero = "ON"
  /\ asked_impedance = FALSE /\ asked_text = 2
  /\ doubtful = {}

-----------------------------------------------------------------------------
(* Calls of the interface, and what the client is told.                    *)

Outcomes == {"OK"} \union (IF HardwareFails THEN {"HARDWARE"} ELSE {})

Believe(part, e) ==
  doubtful' = IF e = "OK" THEN doubtful \ {part} ELSE doubtful \union {part}

Refuse(e) ==
  result' = e /\ UNCHANGED <<remotes, zeroes, impedance, texts, others, doubtful>>

\* The lock first.
BugSCPIMM_set_remote(r, l, e) ==
  \/ e = "OK" /\ remote' = r /\ lock' = l
  \/ e = "HARDWARE" /\ lock' \in {lock, l} /\ UNCHANGED remote

\* The second result is not looked at.
BugSilentSCPIMM_set_remote(r, l, e) ==
  \/ e = "OK" /\ remote' = r
     /\ lock' \in {l} \union (IF HardwareFails THEN {lock} ELSE {})
  \/ e = "HARDWARE" /\ UNCHANGED <<remote, lock>>

\* Two calls; the first error ends it, and the first flag stays set when the
\* second is refused.
SCPIMM_set_remote(r, l, e) ==
  \/ e = "OK" /\ remote' = r /\ lock' = l
  \/ e = "HARDWARE" /\ remote' \in {remote, r} /\ UNCHANGED lock

set_impedance(b, e) ==
  input_impedance_auto' = IF e = "OK" THEN b ELSE input_impedance_auto

-----------------------------------------------------------------------------
(* SYSTem.                                                                 *)

Remote(r, l) ==
  \E e \in Outcomes :
    /\ SCPIMM_set_remote(r, l, e)
    /\ asked_remote' = IF e = "OK" THEN <<r, l>> ELSE asked_remote
    /\ result' = e /\ Believe("remote", e)
    /\ UNCHANGED <<zeroes, impedance, texts, others>>

SCPIMM_system_local == Remote(FALSE, FALSE)
SCPIMM_system_remote == Remote(TRUE, FALSE)
SCPIMM_system_rwlock == Remote(TRUE, TRUE)

SCPIMM_system_beeper ==
  \E e \in Outcomes : ("beep" \in fitted \/ e = "OK") /\ Refuse(e)

\* A flag that no other code reads: errors beep whatever it says.
SCPIMM_system_beeper_state ==
  \/ \E b \in BOOLEAN :
       /\ beeper_state' = b /\ result' = "OK"
       /\ UNCHANGED <<remotes, zeroes, impedance, texts, display, fitted, doubtful>>
  \/ Refuse("MISSING_PARAMETER")

-----------------------------------------------------------------------------
(* DISPlay.                                                                *)

SCPIMM_display ==
  \/ \E b \in BOOLEAN :
       /\ display' = b /\ result' = "OK"
       /\ UNCHANGED <<remotes, zeroes, impedance, texts, beeper_state, fitted, doubtful>>
  \/ Refuse("MISSING_PARAMETER")

\* The text is stored before the hardware, if it shows texts, is called.
Show(n, quoted) ==
  \E e \in Outcomes :
    /\ "display_text" \in fitted \/ e = "OK"
    /\ display_text' = n
    /\ shown' = IF e = "OK" /\ "display_text" \in fitted THEN n ELSE shown
    /\ asked_text' = IF e = "OK" THEN quoted ELSE asked_text
    /\ result' = e /\ Believe("text", e)
    /\ UNCHANGED <<remotes, zeroes, impedance, others>>

\* One quote is taken off.
BugUnquoted(n) == (n + SizeMod - 1) % SizeMod

\* text_len -= 2, in size_t: a text shorter than its quotes becomes longer than
\* any other.
Unquoted(n) == (n + SizeMod - 2) % SizeMod

BugFits(n) == n <= DisplayLen + 1

Fits(n) == n <= DisplayLen

SCPIMM_display_text ==
  \E n \in TextLengths :
    \/ Fits(Unquoted(n)) /\ Show(Unquoted(n), n)
    \/ ~Fits(Unquoted(n)) /\ Refuse("TOO_MUCH_DATA")

SCPIMM_display_text_clear ==
  Show(0, 2) \/ Refuse("PARAMETER_NOT_ALLOWED")

-----------------------------------------------------------------------------
(* INPut:IMPedance:AUTO and SENSe:ZERO:AUTO.                               *)

SCPIMM_input_impedance_auto ==
  \/ \E b \in BOOLEAN, e \in Outcomes :
       /\ set_impedance(b, e)
       /\ asked_impedance' = IF e = "OK" THEN b ELSE asked_impedance
       /\ result' = e /\ Believe("impedance", e)
       /\ UNCHANGED <<remotes, zeroes, texts, others>>
  \/ Refuse("MISSING_PARAMETER")

\* What is asked for: a number is on when it is positive.
Meaning(a) ==
  IF a \in ZeroWords THEN a ELSE IF a = "1.0" THEN "ON" ELSE "OFF"

\* How an argument is read.  A number is copied into a buffer of which the rest
\* is not initialized, and sscanf reads on into it: more digits or an exponent,
\* which may also be unfinished, so that nothing is read at all.
Readings(a) ==
  IF a \in ZeroWords THEN {a}
  ELSE IF a \in ZeroNumbers THEN {"ON", "OFF", "ILLEGAL_PARAMETER_VALUE"}
  ELSE IF a = "OTHER" THEN {"ILLEGAL_PARAMETER_VALUE"} ELSE {"MISSING_PARAMETER"}

\* auto_zero_once is not set back.
BugOnce(w) == w = "ONCE" \/ (zero_auto_once /\ w = "ON")

Once(w) == w = "ONCE"

\* The two flags, one after the other.
set_zero_auto(w, e) ==
  \/ e = "OK" /\ zero_auto' = (w # "OFF") /\ zero_auto_once' = Once(w)
  \/ e = "HARDWARE" /\ zero_auto' \in {zero_auto, w # "OFF"} /\ UNCHANGED zero_auto_once

SCPIMM_sense_zero_auto ==
  \E a \in ZeroArgs : \E w \in Readings(a) :
    \/ /\ w \in ZeroWords
       /\ \E e \in Outcomes :
            /\ set_zero_auto(w, e)
            /\ asked_zero' = IF e = "OK" THEN Meaning(a) ELSE asked_zero
            /\ result' = e /\ Believe("zero", e)
            /\ UNCHANGED <<remotes, impedance, texts, others>>
    \/ w \in ZeroWords /\ Refuse("PARAMETER_NOT_ALLOWED")
    \/ w \notin ZeroWords /\ Refuse(w)

\* The hardware starts a measurement, and its signal is not lost: an automatic
\* zero asked for once has been made.
start_measure ==
  /\ zero_auto' = (zero_auto /\ ~zero_auto_once)
  /\ zero_auto_once' = FALSE
  /\ asked_zero' = IF asked_zero = "ONCE" THEN "OFF" ELSE asked_zero
  /\ UNCHANGED <<remotes, impedance, texts, others, result, doubtful>>

-----------------------------------------------------------------------------
(* *RST and CONFigure.                                                     *)

\* The end of SCPIMM_measure_preset, run by CONFigure and MEASure?, and at the
\* end of *RST.
SCPIMM_measure_preset ==
  \E e \in Outcomes :
    /\ set_impedance(FALSE, e)
    /\ asked_impedance' = IF e = "OK" THEN FALSE ELSE asked_impedance
    /\ result' = e /\ Believe("impedance", e)
    /\ UNCHANGED <<remotes, zeroes, texts, others>>

\* The reset of the interface is there and works.
reset_by_hardware(g) ==
  /\ "reset" \in fitted
  /\ remote' = TRUE /\ lock' = FALSE
  /\ zero_auto' = TRUE /\ zero_auto_once' = FALSE /\ asked_zero' = "ON"
  /\ input_impedance_auto' = FALSE
  /\ doubtful' = (IF g = "OK" THEN {} ELSE {"impedance"}) \union {"text"}

\* It is missing or fails.
reset_by_library(e, g) ==
  /\ "reset" \in fitted => HardwareFails
  /\ SCPIMM_set_remote(TRUE, FALSE, e)
  /\ set_impedance(FALSE, g)
  /\ UNCHANGED zeroes
  /\ doubtful' = (doubtful \ {"remote", "impedance"})
       \union (IF e = "OK" THEN {} ELSE {"remote"})
       \union (IF g = "OK" THEN {} ELSE {"impedance"})
       \union {"text"}

\* *RST: of all these calls only the last can make it fail, and the hardware
\* is not told that the text has gone.
reset ==
  \E e, g \in Outcomes :
    /\ reset_by_hardware(g) \/ reset_by_library(e, g)
    /\ display' = TRUE /\ display_text' = 0
    /\ asked_remote' = <<TRUE, FALSE>> /\ asked_text' = 2
    /\ asked_impedance' = IF g = "OK" THEN FALSE ELSE asked_impedance
    /\ result' = g
    /\ UNCHANGED <<shown, beeper_state, fitted>>

-----------------------------------------------------------------------------
Next ==
  \/ SCPIMM_system_local \/ SCPIMM_system_remote \/ SCPIMM_system_rwlock
  \/ SCPIMM_system_beeper \/ SCPIMM_system_beeper_state
  \/ SCPIMM_display \/ SCPIMM_display_text \/ SCPIMM_display_text_clear
  \/ SCPIMM_input_impedance_auto \/ SCPIMM_sense_zero_auto
  \/ start_measure \/ SCPIMM_measure_preset \/ reset

Spec == Init /\ [][Next]_vars
=============================================================================
