----------------------------- MODULE PanelProofs -----------------------------
(***************************************************************************)
(* The front panel's properties hold for texts, display and size_t of any  *)
(* size, whichever calls the hardware refuses.  Each invariant is          *)
(* inductive as it stands, given the types.                                *)
(***************************************************************************)
EXTENDS PanelProperties, TLAPS

LEMMA OutcomesAreErrors == Outcomes \subseteq {"OK", "HARDWARE"}
BY DEF Outcomes

\* What is left of a text that passes the test is no longer than the display.
LEMMA FitsType == ASSUME NEW n \in TextLengths, Fits(Unquoted(n))
                  PROVE  Unquoted(n) \in 0 .. DisplayLen
BY PanelAssumption, SMTT(30) DEF Unquoted, Fits

\* ... and is the text without its quotes: the subtraction has not wrapped.
LEMMA FitsExact == ASSUME NEW n \in TextLengths, Fits(Unquoted(n))
                   PROVE  Unquoted(n) + 2 = n
<1>1. n \in Nat /\ n # 0 /\ n < SizeMod /\ SizeMod \in Nat /\ DisplayLen \in Nat
      /\ DisplayLen + 2 < SizeMod
  BY PanelAssumption
<1>2. CASE n = 1
  <2>1. Unquoted(n) = SizeMod - 1
    BY <1>1, <1>2, SMTT(30) DEF Unquoted
  <2> QED BY <1>1, <2>1 DEF Fits
<1>3. CASE n >= 2
  <2>1. n + SizeMod - 2 = (n - 2) + SizeMod /\ n - 2 \in 0 .. SizeMod - 1
    BY <1>1, <1>3
  <2>2. (n + SizeMod - 2) % SizeMod = n - 2
    BY <1>1, <2>1, SMTT(30)
  <2> QED BY <1>1, <2>2 DEF Unquoted
<1> QED BY <1>1, <1>2, <1>3

-----------------------------------------------------------------------------
(* Types.                                                                  *)

LEMMA RemoteType ==
  ASSUME PanelTypeOK, NEW r \in BOOLEAN, NEW l \in BOOLEAN, Remote(r, l)
  PROVE  PanelTypeOK'
<1>1. PICK e \in Outcomes : /\ SCPIMM_set_remote(r, l, e)
                            /\ asked_remote' = IF e = "OK" THEN <<r, l>> ELSE asked_remote
                            /\ result' = e /\ Believe("remote", e)
                            /\ UNCHANGED <<zeroes, impedance, texts, others>>
  BY DEF Remote
<1>2. e \in {"OK", "HARDWARE"}
  BY OutcomesAreErrors
<1>3. remote' \in BOOLEAN /\ lock' \in BOOLEAN
  BY <1>1, <1>2 DEF SCPIMM_set_remote, PanelTypeOK, FlagType
<1>4. FlagType'
  BY <1>1, <1>3 DEF zeroes, impedance, others, PanelTypeOK, FlagType
<1> QED BY <1>1, <1>2, <1>4
        DEF texts, others, zeroes, Believe, PanelTypeOK, TextType, Parts, PanelErrors

LEMMA RefuseType ==
  ASSUME PanelTypeOK, NEW e \in PanelErrors, Refuse(e) PROVE PanelTypeOK'
BY DEF Refuse, PanelTypeOK, FlagType, TextType, remotes, zeroes, impedance, texts,
     others

LEMMA ShowType ==
  ASSUME PanelTypeOK, NEW n \in 0 .. DisplayLen, NEW q \in TextLengths \union {2},
         Show(n, q)
  PROVE  PanelTypeOK'
BY OutcomesAreErrors
DEF Show, Believe, PanelTypeOK, FlagType, TextType, Parts, PanelErrors,
    remotes, zeroes, impedance, others

LEMMA ZeroType ==
  ASSUME PanelTypeOK, SCPIMM_sense_zero_auto PROVE PanelTypeOK'
<1>1. PICK a \in ZeroArgs : \E w \in Readings(a) :
        \/ /\ w \in ZeroWords
           /\ \E e \in Outcomes :
                /\ set_zero_auto(w, e)
                /\ asked_zero' = IF e = "OK" THEN Meaning(a) ELSE asked_zero
                /\ result' = e /\ Believe("zero", e)
                /\ UNCHANGED <<remotes, impedance, texts, others>>
        \/ w \in ZeroWords /\ Refuse("PARAMETER_NOT_ALLOWED")
        \/ w \notin ZeroWords /\ Refuse(w)
  BY DEF SCPIMM_sense_zero_auto
<1>2. Readings(a) \subseteq ZeroWords \union {"ILLEGAL_PARAMETER_VALUE", "MISSING_PARAMETER"}
  BY DEF Readings, ZeroWords
<1>3. CASE \E w \in Readings(a) : \E e \in Outcomes :
             /\ set_zero_auto(w, e)
             /\ asked_zero' = IF e = "OK" THEN Meaning(a) ELSE asked_zero
             /\ result' = e /\ Believe("zero", e)
             /\ UNCHANGED <<remotes, impedance, texts, others>>
  <2>1. PICK w \in Readings(a), e \in Outcomes :
             /\ set_zero_auto(w, e)
             /\ asked_zero' = IF e = "OK" THEN Meaning(a) ELSE asked_zero
             /\ result' = e /\ Believe("zero", e)
             /\ UNCHANGED <<remotes, impedance, texts, others>>
    BY <1>3
  <2>2. e \in {"OK", "HARDWARE"}
    BY OutcomesAreErrors
  <2>3. Meaning(a) \in ZeroWords
    BY DEF Meaning, ZeroWords
  <2>4. zero_auto' \in BOOLEAN /\ zero_auto_once' \in BOOLEAN
    BY <2>1, <2>2 DEF set_zero_auto, Once, PanelTypeOK, FlagType
  <2>5. FlagType'
    BY <2>1, <2>4 DEF PanelTypeOK, FlagType, remotes, impedance, others
  <2> QED BY <2>1, <2>2, <2>3, <2>5
          DEF Believe, PanelTypeOK, TextType, Parts, PanelErrors, texts, others
<1>4. CASE \E w \in Readings(a) : Refuse("PARAMETER_NOT_ALLOWED")
             \/ (w \notin ZeroWords /\ Refuse(w))
  <2>1. \E e \in PanelErrors : Refuse(e)
    BY <1>2, <1>4 DEF PanelErrors
  <2> QED BY <2>1, RefuseType
<1> QED BY <1>1, <1>3, <1>4

LEMMA ResetType ==
  ASSUME PanelTypeOK, reset PROVE PanelTypeOK'
<1>1. PICK e \in Outcomes, g \in Outcomes :
        /\ reset_by_hardware(g) \/ reset_by_library(e, g)
        /\ display' = TRUE /\ display_text' = 0
        /\ asked_remote' = <<TRUE, FALSE>> /\ asked_text' = 2
        /\ asked_impedance' = IF g = "OK" THEN FALSE ELSE asked_impedance
        /\ result' = g
        /\ UNCHANGED <<shown, beeper_state, fitted>>
  BY DEF reset
<1>2. {e, g} \subseteq {"OK", "HARDWARE"}
  BY OutcomesAreErrors
<1>3. /\ {remote', lock', zero_auto', zero_auto_once', input_impedance_auto'} \subseteq BOOLEAN
      /\ asked_zero' \in ZeroWords
  <2>1. CASE reset_by_hardware(g)
    BY <2>1 DEF reset_by_hardware, ZeroWords
  <2>2. CASE reset_by_library(e, g)
    BY <2>2, <1>2
    DEF reset_by_library, SCPIMM_set_remote, set_impedance, zeroes, PanelTypeOK,
       FlagType
  <2> QED BY <1>1, <2>1, <2>2
<1>4. FlagType'
  BY <1>1, <1>3 DEF PanelTypeOK, FlagType
<1>5. doubtful' \subseteq Parts
  BY <1>1 DEF reset_by_hardware, reset_by_library, PanelTypeOK, Parts
<1>6. TextType'
  BY <1>1, PanelAssumption DEF PanelTypeOK, TextType
<1> QED BY <1>1, <1>2, <1>3, <1>4, <1>5, <1>6 DEF PanelTypeOK, PanelErrors

LEMMA InitType == Init => PanelTypeOK
<1> SUFFICES ASSUME Init PROVE PanelTypeOK
  OBVIOUS
<1>1. FlagType
  BY DEF Init, FlagType
<1>2. TextType
  BY PanelAssumption DEF Init, TextType
<1> QED BY <1>1, <1>2 DEF Init, PanelTypeOK, PanelErrors, ZeroWords

LEMMA NextType == PanelTypeOK /\ [Next]_vars => PanelTypeOK'
<1> SUFFICES ASSUME PanelTypeOK, [Next]_vars PROVE PanelTypeOK'
  OBVIOUS
<1>1. CASE SCPIMM_system_local \/ SCPIMM_system_remote \/ SCPIMM_system_rwlock
  BY <1>1, RemoteType DEF SCPIMM_system_local, SCPIMM_system_remote,
     SCPIMM_system_rwlock
<1>2. CASE SCPIMM_system_beeper
  <2>1. \E e \in PanelErrors : Refuse(e)
    BY <1>2, OutcomesAreErrors DEF SCPIMM_system_beeper, PanelErrors
  <2> QED BY <2>1, RefuseType
<1>3. CASE SCPIMM_system_beeper_state
  BY <1>3, RefuseType
  DEF SCPIMM_system_beeper_state, PanelTypeOK, FlagType, TextType, PanelErrors,
      remotes, zeroes, impedance, texts
<1>4. CASE SCPIMM_display
  BY <1>4, RefuseType
  DEF SCPIMM_display, PanelTypeOK, FlagType, TextType, PanelErrors,
      remotes, zeroes, impedance, texts
<1>5. CASE SCPIMM_display_text
  BY <1>5, RefuseType, ShowType, FitsType DEF SCPIMM_display_text, PanelErrors
<1>6. CASE SCPIMM_display_text_clear
  BY <1>6, RefuseType, ShowType, PanelAssumption DEF SCPIMM_display_text_clear,
     PanelErrors
<1>7. CASE SCPIMM_input_impedance_auto
  <2>1. CASE Refuse("MISSING_PARAMETER")
    BY <2>1, RefuseType DEF PanelErrors
  <2>2. CASE ~Refuse("MISSING_PARAMETER")
    BY <1>7, <2>2, OutcomesAreErrors
    DEF SCPIMM_input_impedance_auto, set_impedance, Believe, PanelTypeOK, FlagType,
        TextType, PanelErrors, Parts, remotes, zeroes, texts, others
  <2> QED BY <2>1, <2>2
<1>8. CASE SCPIMM_sense_zero_auto
  BY <1>8, ZeroType
<1>9. CASE start_measure
  BY <1>9
  DEF start_measure, PanelTypeOK, FlagType, TextType, ZeroWords,
      remotes, impedance, texts, others
<1>10. CASE SCPIMM_measure_preset
  BY <1>10, OutcomesAreErrors
  DEF SCPIMM_measure_preset, set_impedance, Believe, PanelTypeOK, FlagType,
      TextType, PanelErrors, Parts, remotes, zeroes, texts, others
<1>11. CASE reset
  BY <1>11, ResetType
<1>12. CASE UNCHANGED vars
  BY <1>12
  DEF vars, PanelTypeOK, FlagType, TextType, remotes, zeroes, impedance, texts, others
<1> QED BY <1>1, <1>2, <1>3, <1>4, <1>5, <1>6, <1>7, <1>8, <1>9, <1>10, <1>11, <1>12
        DEF Next

\* Type correctness; the array of the display text is not overrun, even by a
\* text shorter than its quotes (display.c).
THEOREM PanelTypeCorrect == Spec => []PanelTypeOK
BY InitType, NextType, PTL DEF Spec

-----------------------------------------------------------------------------
(* The lock.                                                               *)

LEMMA LockSet ==
  ASSUME NEW r \in BOOLEAN, NEW l \in BOOLEAN, NEW e \in Outcomes,
         SCPIMM_set_remote(r, l, e), ~lock, lock', l => r
  PROVE  remote'
BY OutcomesAreErrors DEF SCPIMM_set_remote

LEMMA LockStep == [Next]_vars => (~lock /\ lock' => remote')
<1> SUFFICES ASSUME [Next]_vars, ~lock, lock' PROVE remote'
  OBVIOUS
<1>1. CASE SCPIMM_system_local \/ SCPIMM_system_remote \/ SCPIMM_system_rwlock
  BY <1>1, LockSet
  DEF SCPIMM_system_local, SCPIMM_system_remote, SCPIMM_system_rwlock, Remote
<1>2. CASE reset
  BY <1>2, LockSet DEF reset, reset_by_hardware, reset_by_library
<1>3. CASE UNCHANGED remotes
  BY <1>3 DEF remotes
<1>4. CASE /\ ~(SCPIMM_system_local \/ SCPIMM_system_remote \/ SCPIMM_system_rwlock)
           /\ ~reset /\ ~UNCHANGED remotes
  BY <1>4
  DEF Next, vars, SCPIMM_system_beeper, SCPIMM_system_beeper_state, SCPIMM_display,
      SCPIMM_display_text, SCPIMM_display_text_clear, SCPIMM_input_impedance_auto,
      SCPIMM_sense_zero_auto, start_measure, SCPIMM_measure_preset, Show, Refuse
<1> QED BY <1>1, <1>2, <1>3, <1>4

\* No command that fails half way, *RST included, leaves the front panel locked
\* in local when it was not locked before (SCPIMM_set_remote, system.c).
THEOREM NeverLocksInLocal == Spec => LockOnlyInRemote
<1>1. [Next]_vars => [~lock /\ lock' => remote']_vars
  BY LockStep
<1> QED BY <1>1, PTL DEF Spec, LockOnlyInRemote

-----------------------------------------------------------------------------
(* The flags of the hardware.                                              *)

LEMMA RemoteKept ==
  ASSUME NEW r \in BOOLEAN, NEW l \in BOOLEAN, HardwareAsAsked, Remote(r, l)
  PROVE  HardwareAsAsked'
BY OutcomesAreErrors
DEF Remote, SCPIMM_set_remote, HardwareAsAsked, Trusted, Believe, impedance

LEMMA RefuseKept ==
  ASSUME NEW e, HardwareAsAsked, Refuse(e) PROVE HardwareAsAsked'
BY DEF HardwareAsAsked, Trusted, Refuse, remotes, impedance

\* A step that changes neither remote state nor impedance, and doubts neither.
LEMMA OtherKept ==
  ASSUME HardwareAsAsked, UNCHANGED <<remotes, impedance>>,
         doubtful' \union {"zero", "text"} = doubtful \union {"zero", "text"}
  PROVE  HardwareAsAsked'
<1>1. /\ "remote" \in doubtful' <=> "remote" \in doubtful
      /\ "impedance" \in doubtful' <=> "impedance" \in doubtful
  OBVIOUS
<1> QED BY <1>1 DEF HardwareAsAsked, Trusted, remotes, impedance

LEMMA ResetKept ==
  ASSUME PanelTypeOK, HardwareAsAsked, reset PROVE HardwareAsAsked'
<1>1. PICK e \in Outcomes, g \in Outcomes :
        /\ reset_by_hardware(g) \/ reset_by_library(e, g)
        /\ asked_remote' = <<TRUE, FALSE>>
        /\ asked_impedance' = IF g = "OK" THEN FALSE ELSE asked_impedance
  BY DEF reset
<1>2. {e, g} \subseteq {"OK", "HARDWARE"}
  BY OutcomesAreErrors
<1>3. CASE reset_by_hardware(g)
  BY <1>1, <1>3 DEF reset_by_hardware, HardwareAsAsked, Trusted
<1>4. CASE reset_by_library(e, g)
  BY <1>1, <1>2, <1>4
  DEF reset_by_library, SCPIMM_set_remote, set_impedance, HardwareAsAsked, Trusted
<1> QED BY <1>1, <1>3, <1>4

LEMMA HardwareKept == PanelTypeOK /\ HardwareAsAsked /\ [Next]_vars => HardwareAsAsked'
<1> SUFFICES ASSUME PanelTypeOK, HardwareAsAsked, [Next]_vars PROVE HardwareAsAsked'
  OBVIOUS
<1>1. CASE SCPIMM_system_local \/ SCPIMM_system_remote \/ SCPIMM_system_rwlock
  BY <1>1, RemoteKept DEF SCPIMM_system_local, SCPIMM_system_remote,
     SCPIMM_system_rwlock
<1>2. CASE SCPIMM_system_beeper
  BY <1>2, RefuseKept DEF SCPIMM_system_beeper
<1>3. CASE SCPIMM_system_beeper_state
  BY <1>3, RefuseKept, OtherKept DEF SCPIMM_system_beeper_state
<1>4. CASE SCPIMM_display
  BY <1>4, RefuseKept, OtherKept DEF SCPIMM_display
<1>5. ASSUME NEW n, NEW q, Show(n, q) PROVE HardwareAsAsked'
  BY <1>5, OtherKept DEF Show, Believe
<1>6. CASE SCPIMM_display_text \/ SCPIMM_display_text_clear
  BY <1>5, <1>6, RefuseKept DEF SCPIMM_display_text, SCPIMM_display_text_clear
<1>7. CASE SCPIMM_input_impedance_auto
  <2>1. CASE Refuse("MISSING_PARAMETER")
    BY <2>1, RefuseKept
  <2>2. CASE ~Refuse("MISSING_PARAMETER")
    BY <1>7, <2>2
    DEF SCPIMM_input_impedance_auto, set_impedance, Believe, HardwareAsAsked,
       Trusted, remotes
  <2> QED BY <2>1, <2>2
<1>8. CASE SCPIMM_sense_zero_auto
  BY <1>8, RefuseKept, OtherKept DEF SCPIMM_sense_zero_auto, Believe
<1>9. CASE start_measure
  BY <1>9, OtherKept DEF start_measure
<1>10. CASE SCPIMM_measure_preset
  BY <1>10 DEF SCPIMM_measure_preset, set_impedance, Believe, HardwareAsAsked,
     Trusted, remotes
<1>11. CASE reset
  BY <1>11, ResetKept
<1>12. CASE UNCHANGED vars
  BY <1>12, OtherKept DEF vars
<1> QED BY <1>1, <1>2, <1>3, <1>4, <1>6, <1>7, <1>8, <1>9, <1>10, <1>11, <1>12
        DEF Next

\* Remote state, lock and input impedance are what the last successful command
\* asked for, unless the hardware has refused a call since: no command succeeds
\* without having set both its flags.
THEOREM HardwareFollows == Spec => []HardwareAsAsked
<1>1. Init => HardwareAsAsked
  BY DEF Init, HardwareAsAsked
<1> QED BY <1>1, HardwareKept, PanelTypeCorrect, PTL DEF Spec

-----------------------------------------------------------------------------
(* The automatic zero.                                                     *)

OnlyWords == ZeroArgs \intersect ZeroNumbers = {}

\* A step that leaves the automatic zero alone.
LEMMA ZeroOtherKept ==
  ASSUME ZeroAsAsked, UNCHANGED zeroes,
         "zero" \in doubtful' <=> "zero" \in doubtful
  PROVE  ZeroAsAsked'
BY DEF ZeroAsAsked, Trusted, zeroes

LEMMA ZeroRefuseKept ==
  ASSUME NEW e, ZeroAsAsked, Refuse(e) PROVE ZeroAsAsked'
BY ZeroOtherKept DEF Refuse

LEMMA ZeroSet ==
  ASSUME OnlyWords, ZeroAsAsked, SCPIMM_sense_zero_auto PROVE ZeroAsAsked'
<1>1. PICK a \in ZeroArgs : \E w \in Readings(a) :
        \/ /\ w \in ZeroWords
           /\ \E e \in Outcomes :
                /\ set_zero_auto(w, e)
                /\ asked_zero' = IF e = "OK" THEN Meaning(a) ELSE asked_zero
                /\ result' = e /\ Believe("zero", e)
                /\ UNCHANGED <<remotes, impedance, texts, others>>
        \/ w \in ZeroWords /\ Refuse("PARAMETER_NOT_ALLOWED")
        \/ w \notin ZeroWords /\ Refuse(w)
  BY DEF SCPIMM_sense_zero_auto
<1>2. CASE \E e : Refuse(e)
  BY <1>2, ZeroRefuseKept
<1>3. CASE ~\E e : Refuse(e)
  <2>1. PICK w \in Readings(a), e \in Outcomes :
          /\ w \in ZeroWords
          /\ set_zero_auto(w, e)
          /\ asked_zero' = IF e = "OK" THEN Meaning(a) ELSE asked_zero
          /\ Believe("zero", e)
    BY <1>1, <1>3
  <2>2. a = w /\ Meaning(a) = w
    BY <2>1 DEF Readings, Meaning, OnlyWords, ZeroWords
  <2>3. CASE e = "OK"
    BY <2>1, <2>2, <2>3 DEF set_zero_auto, Once, ZeroAsAsked
  <2>4. CASE e = "HARDWARE"
    BY <2>1, <2>4 DEF Believe, ZeroAsAsked, Trusted
  <2> QED BY <2>3, <2>4, OutcomesAreErrors
<1> QED BY <1>1, <1>2, <1>3

LEMMA ZeroMeasured ==
  ASSUME PanelTypeOK, ZeroAsAsked, start_measure PROVE ZeroAsAsked'
BY DEF PanelTypeOK, FlagType, ZeroWords, start_measure, ZeroAsAsked, Trusted

LEMMA ZeroReset ==
  ASSUME ZeroAsAsked, reset PROVE ZeroAsAsked'
<1>1. PICK e \in Outcomes, g \in Outcomes : reset_by_hardware(g) \/ reset_by_library(e, g)
  BY DEF reset
<1>2. CASE reset_by_hardware(g)
  BY <1>2 DEF reset_by_hardware, ZeroAsAsked
<1>3. CASE reset_by_library(e, g)
  BY <1>3, ZeroOtherKept DEF reset_by_library
<1> QED BY <1>1, <1>2, <1>3

LEMMA ZeroKept ==
  OnlyWords /\ PanelTypeOK /\ ZeroAsAsked /\ [Next]_vars => ZeroAsAsked'
<1> SUFFICES ASSUME OnlyWords, PanelTypeOK, ZeroAsAsked, [Next]_vars PROVE ZeroAsAsked'
  OBVIOUS
<1>1. ASSUME NEW r, NEW l, Remote(r, l) PROVE ZeroAsAsked'
  BY <1>1, ZeroOtherKept DEF Remote, Believe
<1>2. ASSUME NEW n, NEW q, Show(n, q) PROVE ZeroAsAsked'
  BY <1>2, ZeroOtherKept DEF Show, Believe
<1>3. CASE SCPIMM_system_local \/ SCPIMM_system_remote \/ SCPIMM_system_rwlock
  BY <1>1, <1>3 DEF SCPIMM_system_local, SCPIMM_system_remote, SCPIMM_system_rwlock
<1>4. CASE SCPIMM_system_beeper \/ SCPIMM_system_beeper_state \/ SCPIMM_display
  BY <1>4, ZeroRefuseKept, ZeroOtherKept
  DEF SCPIMM_system_beeper, SCPIMM_system_beeper_state, SCPIMM_display
<1>5. CASE SCPIMM_display_text \/ SCPIMM_display_text_clear
  BY <1>2, <1>5, ZeroRefuseKept DEF SCPIMM_display_text, SCPIMM_display_text_clear
<1>6. CASE SCPIMM_input_impedance_auto \/ SCPIMM_measure_preset
  BY <1>6, ZeroRefuseKept, ZeroOtherKept
  DEF SCPIMM_input_impedance_auto, SCPIMM_measure_preset, Believe
<1>7. CASE UNCHANGED vars
  BY <1>7, ZeroOtherKept DEF vars
<1> QED BY <1>3, <1>4, <1>5, <1>6, <1>7, ZeroSet, ZeroMeasured, ZeroReset DEF Next

\* Without numbers among its arguments, SENSe:ZERO:AUTO leaves the two flags as
\* asked, and ONCE is over after one measurement, whatever came before; with
\* numbers it does not (the violation PanelNumbers shows).
THEOREM ZeroFollows == ASSUME OnlyWords PROVE Spec => []ZeroAsAsked
<1>1. Init => ZeroAsAsked
  BY DEF Init, ZeroAsAsked
<1>2. PanelTypeOK /\ ZeroAsAsked /\ [Next]_vars => ZeroAsAsked'
  BY ZeroKept
<1> QED BY <1>1, <1>2, PanelTypeCorrect, PTL DEF Spec

-----------------------------------------------------------------------------
(* The text.                                                               *)

LEMMA TextOtherKept ==
  ASSUME DisplayAsAsked, UNCHANGED <<texts, fitted>>,
         "text" \in doubtful' <=> "text" \in doubtful
  PROVE  DisplayAsAsked'
BY DEF DisplayAsAsked, Trusted, texts

LEMMA TextRefuseKept ==
  ASSUME NEW e, DisplayAsAsked, Refuse(e) PROVE DisplayAsAsked'
BY TextOtherKept DEF Refuse, others

LEMMA TextShown ==
  ASSUME DisplayAsAsked, NEW n \in Nat, NEW q \in Nat, n + 2 = q, Show(n, q)
  PROVE  DisplayAsAsked'
<1>1. PICK e \in Outcomes :
        /\ display_text' = n
        /\ shown' = IF e = "OK" /\ "display_text" \in fitted THEN n ELSE shown
        /\ asked_text' = IF e = "OK" THEN q ELSE asked_text
        /\ Believe("text", e) /\ UNCHANGED others
  BY DEF Show
<1>2. CASE e = "OK"
  BY <1>1, <1>2 DEF DisplayAsAsked, others
<1>3. CASE e # "OK"
  BY <1>1, <1>3 DEF Believe, DisplayAsAsked, Trusted
<1> QED BY <1>2, <1>3

LEMMA TextReset ==
  ASSUME reset PROVE DisplayAsAsked'
BY DEF reset, reset_by_hardware, reset_by_library, DisplayAsAsked, Trusted

LEMMA TextKept == DisplayAsAsked /\ [Next]_vars => DisplayAsAsked'
<1> SUFFICES ASSUME DisplayAsAsked, [Next]_vars PROVE DisplayAsAsked'
  OBVIOUS
<1>1. ASSUME NEW r, NEW l, Remote(r, l) PROVE DisplayAsAsked'
  BY <1>1, TextOtherKept DEF Remote, Believe, others
<1>2. CASE SCPIMM_system_local \/ SCPIMM_system_remote \/ SCPIMM_system_rwlock
  BY <1>1, <1>2 DEF SCPIMM_system_local, SCPIMM_system_remote, SCPIMM_system_rwlock
<1>3. CASE SCPIMM_system_beeper \/ SCPIMM_system_beeper_state \/ SCPIMM_display
  BY <1>3, TextRefuseKept, TextOtherKept
  DEF SCPIMM_system_beeper, SCPIMM_system_beeper_state, SCPIMM_display
<1>4. CASE SCPIMM_display_text
  <2>1. PICK q \in TextLengths :
          \/ Fits(Unquoted(q)) /\ Show(Unquoted(q), q)
          \/ ~Fits(Unquoted(q)) /\ Refuse("TOO_MUCH_DATA")
    BY <1>4 DEF SCPIMM_display_text
  <2>2. CASE Refuse("TOO_MUCH_DATA")
    BY <2>2, TextRefuseKept
  <2>3. CASE Fits(Unquoted(q)) /\ Show(Unquoted(q), q)
    <3>1. Unquoted(q) \in Nat /\ q \in Nat /\ Unquoted(q) + 2 = q
      BY <2>3, FitsType, FitsExact, PanelAssumption
    <3> QED BY <2>3, <3>1, TextShown
  <2> QED BY <2>1, <2>2, <2>3
<1>5. CASE SCPIMM_display_text_clear
  BY <1>5, TextRefuseKept, TextShown DEF SCPIMM_display_text_clear
<1>6. CASE SCPIMM_input_impedance_auto \/ SCPIMM_measure_preset
  BY <1>6, TextRefuseKept, TextOtherKept
  DEF SCPIMM_input_impedance_auto, SCPIMM_measure_preset, Believe, others
<1>7. CASE SCPIMM_sense_zero_auto
  BY <1>7, TextRefuseKept, TextOtherKept DEF SCPIMM_sense_zero_auto, Believe, others
<1>8. CASE start_measure
  BY <1>8, TextOtherKept DEF start_measure, others
<1>9. CASE UNCHANGED vars
  BY <1>9, TextOtherKept DEF vars, others
<1> QED BY <1>2, <1>3, <1>4, <1>5, <1>6, <1>7, <1>8, <1>9, TextReset DEF Next

\* The text answered is the one given last, its quotes taken off, and the one
\* shown, unless the hardware refused to show it or *RST has cleared it since.
THEOREM TextFollows == Spec => []DisplayAsAsked
<1>1. Init => DisplayAsAsked
  BY DEF Init, DisplayAsAsked
<1> QED BY <1>1, TextKept, PTL DEF Spec
=============================================================================
