--------------------------- MODULE SettingsProofs ---------------------------
(***************************************************************************)
(* Proofs that the settings stay inside the announced limits for every set *)
(* of arguments, that INITiate's admission test is exact where the product *)
(* of two counts fits an int and the answers of the count queries foretell *)
(* it, and that an answer sent back restores the setting it was given for. *)
(***************************************************************************)
EXTENDS SettingsQueries, TLAPS

vars == <<settings, result>>

\* The settings of a meter that starts are inside the limits.
LEMMA InitInRange == SettingsInit => SettingsTypeOK
<1> SUFFICES ASSUME SettingsInit PROVE SettingsTypeOK
  OBVIOUS
<1>1. InLimits
  BY SettingsAssumption DEF SettingsInit, InLimits, Sources, SettingsErrors
<1>2. infinite_trigger_count \in BOOLEAN /\ trigger_auto_delay \in BOOLEAN
  BY DEF SettingsInit
<1>3. QED
  BY <1>1, <1>2 DEF SettingsTypeOK

\* A command keeps the numbers, the source and the result inside them, whatever
\* number or word it is given.
LEMMA CommandInLimits ==
  ASSUME InLimits, NEW a \in Param, NEW src \in Sources, NEW b \in BOOLEAN,
         \/ SCPIMM_sample_count(a) \/ SCPIMM_trigger_count(a)
         \/ SCPIMM_trigger_source(src)
         \/ SCPIMM_trigger_delay(a) \/ SCPIMM_trigger_delay_auto(b)
  PROVE  InLimits'
<1> USE SettingsAssumption DEF InLimits, SettingsErrors, counts, trigger
<1>1. CASE SCPIMM_sample_count(a)
  BY <1>1 DEF SCPIMM_sample_count, InCountRange, CountOf, Truncate, Param
<1>2. CASE SCPIMM_trigger_count(a)
  BY <1>2 DEF SCPIMM_trigger_count, InCountRange, CountOf, Truncate, Param
<1>3. CASE SCPIMM_trigger_source(src)
  BY <1>3 DEF SCPIMM_trigger_source
<1>4. CASE SCPIMM_trigger_delay(a)
  BY <1>4 DEF SCPIMM_trigger_delay, InDelayRange, DelayOf, Param
<1>5. CASE SCPIMM_trigger_delay_auto(b)
  BY <1>5 DEF SCPIMM_trigger_delay_auto
<1>6. QED
  BY <1>1, <1>2, <1>3, <1>4, <1>5

\* A command keeps the settings in their types and inside the limits.
LEMMA CommandInRange ==
  ASSUME SettingsTypeOK, NEW a \in Param, NEW src \in Sources, NEW b \in BOOLEAN,
         \/ SCPIMM_sample_count(a) \/ SCPIMM_trigger_count(a)
         \/ SCPIMM_trigger_source(src)
         \/ SCPIMM_trigger_delay(a) \/ SCPIMM_trigger_delay_auto(b)
  PROVE  SettingsTypeOK'
<1>1. InLimits'
  BY CommandInLimits DEF SettingsTypeOK
<1>2. infinite_trigger_count' \in BOOLEAN /\ trigger_auto_delay' \in BOOLEAN
  BY DEF SettingsTypeOK, SCPIMM_sample_count, SCPIMM_trigger_count,
     SCPIMM_trigger_source, SCPIMM_trigger_delay, SCPIMM_trigger_delay_auto,
     counts, trigger
<1>3. QED
  BY <1>1, <1>2 DEF SettingsTypeOK

\* Each step keeps the settings inside the limits.
LEMMA NextInRange ==
  ASSUME SettingsTypeOK, [SettingsNext]_vars
  PROVE  SettingsTypeOK'
<1>1. CASE SettingsCommand
  <2> USE SettingsAssumption
  <2> Word("MIN") \in Param /\ "IMM" \in Sources
    BY DEF Word, Param, ParamTypes, Sources
  <2>1. ASSUME NEW a \in CountArgs,
               SCPIMM_sample_count(a) \/ SCPIMM_trigger_count(a)
        PROVE  SettingsTypeOK'
    BY <2>1, CommandInRange
  <2>2. ASSUME NEW src \in Sources, SCPIMM_trigger_source(src)
        PROVE  SettingsTypeOK'
    BY <2>2, CommandInRange
  <2>3. ASSUME NEW a \in DelayArgs, SCPIMM_trigger_delay(a)
        PROVE  SettingsTypeOK'
    BY <2>3, CommandInRange
  <2>4. ASSUME NEW b \in AutoArgs, SCPIMM_trigger_delay_auto(b)
        PROVE  SettingsTypeOK'
    BY <2>4, CommandInRange
  <2>5. QED
    BY <1>1, <2>1, <2>2, <2>3, <2>4 DEF SettingsCommand
<1>2. CASE PresetSettings /\ result' = "OK"
  <2>1. InLimits'
    BY <1>2, SettingsAssumption
    DEF PresetSettings, InLimits, Sources, SettingsErrors
  <2>2. infinite_trigger_count' \in BOOLEAN /\ trigger_auto_delay' \in BOOLEAN
    BY <1>2 DEF PresetSettings
  <2>3. QED
    BY <2>1, <2>2 DEF SettingsTypeOK
<1>3. CASE UNCHANGED vars
  BY <1>3 DEF vars, settings, counts, trigger, SettingsTypeOK, InLimits
<1>4. QED
  BY <1>1, <1>2, <1>3 DEF SettingsNext

\* Whatever arguments the client sends, in whatever order, no setting leaves
\* its announced limits.
THEOREM SettingsInRange == SettingsSpec => []SettingsTypeOK
<1>1. SettingsInit => SettingsTypeOK
  BY InitInRange
<1>2. SettingsTypeOK /\ [SettingsNext]_vars => SettingsTypeOK'
  BY NextInRange
<1>3. QED
  BY <1>1, <1>2, PTL DEF SettingsSpec, vars

\* A product of two counts is at most the square of their limit.
LEMMA ProductBound ==
  ASSUME NEW n \in Nat, NEW a \in 0 .. n, NEW b \in 0 .. n
  PROVE  a * b \in 0 .. n * n
<1>1. a * b <= n * b /\ n * b <= n * n
  OBVIOUS
<1>2. QED
  BY <1>1

\* A number below the modulus is its own remainder.
LEMMA SmallRemainder ==
  ASSUME NEW m \in Nat \ {0}, NEW a \in 0 .. m - 1
  PROVE  a % m = a
  OBVIOUS

\* Where int can hold the square of the buffer length, the remainder that is
\* compared is the product itself.
LEMMA ProductFits ==
  ASSUME IntMod > BufLen * BufLen, SettingsTypeOK
  PROVE  (sample_count_num * trigger_count_num) % IntMod
           = sample_count_num * trigger_count_num
<1>1. sample_count_num \in 0 .. BufLen /\ trigger_count_num \in 0 .. BufLen
  BY SettingsAssumption DEF SettingsTypeOK, InLimits
<1>2. sample_count_num * trigger_count_num \in 0 .. BufLen * BufLen
  BY <1>1, ProductBound, SettingsAssumption
<1>3. IntMod \in Nat \ {0} /\ BufLen * BufLen \in Nat
  BY SettingsAssumption
<1>4. sample_count_num * trigger_count_num \in 0 .. IntMod - 1
  BY <1>2, <1>3
<1>5. QED
  BY <1>3, <1>4, SmallRemainder

\* Where int can hold the square of the buffer length, as 32 bits can and 16
\* bits cannot, INITiate admits exactly the acquisitions that fit the memory.
THEOREM AdmissionIsExact ==
  ASSUME IntMod > BufLen * BufLen
  PROVE  SettingsSpec => []AdmissionExact
<1>1. SettingsTypeOK => AdmissionExact
  BY ProductFits, Zenon DEF AdmissionExact, InitAdmits
<1>2. QED
  BY <1>1, SettingsInRange, PTL

\* A refused command changes no count, source or delay, whether a user sends it
\* or the client sends an answer back; TRIGger:COUNt may have changed the
\* infinite flag.
THEOREM RefusalKeepsValues ==
  /\ SettingsSpec => RefusedKeepsValues
  /\ QueriesSpec => RefusedKeepsValues
<1> DEFINE Kept == UNCHANGED <<sample_count_num, trigger_count_num, trigger_src,
                               trigger_delay, trigger_auto_delay>>
<1>1. ASSUME [SettingsNext]_vars, result' # "OK", ~UNCHANGED vars
      PROVE  Kept
  BY <1>1 DEF SettingsNext, SettingsCommand, SCPIMM_sample_count,
     SCPIMM_trigger_count, SCPIMM_trigger_source, SCPIMM_trigger_delay,
     SCPIMM_trigger_delay_auto, counts, trigger
<1>2. ASSUME Ask \/ Resend, result' # "OK"
      PROVE  Kept
  BY <1>2 DEF Ask, Resend, SCPIMM_sample_countQ, SCPIMM_trigger_countQ,
     SCPIMM_trigger_delayQ, SCPIMM_trigger_sourceQ, SCPIMM_trigger_delay_autoQ,
     Answers, IsRefused, SCPIMM_sample_count, SCPIMM_trigger_count,
     SCPIMM_trigger_source, SCPIMM_trigger_delay, SCPIMM_trigger_delay_auto,
     settings, counts, trigger
<1>3. [SettingsNext]_vars => [result' # "OK" => Kept]_vars
  BY <1>1
<1>4. [QueriesNext]_<<settings, result, client>> => [result' # "OK" => Kept]_vars
  BY <1>1, <1>2 DEF QueriesNext, vars
<1>5. QED
  BY <1>3, <1>4, PTL DEF SettingsSpec, QueriesSpec, RefusedKeepsValues, vars

-----------------------------------------------------------------------------
(* The queries, and the client that sends their answers back.              *)

\* What a client keeps and sends back is a number, a source or a flag as the
\* commands take them.
LEMMA SentIsAnArgument ==
  ASSUME SettingsTypeOK, AnswerInv, Resend
  PROVE  \E a \in Param, src \in Sources, b \in BOOLEAN :
           \/ SCPIMM_sample_count(a) \/ SCPIMM_trigger_count(a)
           \/ SCPIMM_trigger_source(src)
           \/ SCPIMM_trigger_delay(a) \/ SCPIMM_trigger_delay_auto(b)
<1> USE SettingsAssumption, QueriesAssumption
<1> DEFINE Some == Word("MIN")
<1>1. Some \in Param /\ "IMM" \in Sources
  BY DEF Word, Param, ParamTypes, Sources
<1>2. CASE answer.of \in {"SAMP:COUN", "TRIG:COUN", "TRIG:DEL"}
  <2>1. answer.value \in Int
    BY <1>2 DEF AnswerInv
  <2>2. Sent \in Param
    BY <2>1 DEF Sent, Param, ParamTypes
  <2>3. SCPIMM_sample_count(Sent) \/ SCPIMM_trigger_count(Sent)
          \/ SCPIMM_trigger_delay(Sent)
    BY <1>2 DEF Resend
  <2>4. QED
    BY <2>2, <2>3, <1>1
<1>3. CASE answer.of = "TRIG:SOUR"
  <2>1. answer.value \in Sources /\ SCPIMM_trigger_source(answer.value)
    BY <1>3 DEF Resend, AnswerInv
  <2>2. QED
    BY <2>1, <1>1
<1>4. CASE answer.of = "TRIG:DEL:AUTO"
  <2>1. answer.value \in BOOLEAN /\ SCPIMM_trigger_delay_auto(answer.value)
    BY <1>4 DEF Resend, AnswerInv
  <2>2. QED
    BY <2>1, <1>1
<1>5. QED
  BY <1>2, <1>3, <1>4 DEF Resend

\* Each step of the queries and of the client keeps the settings inside the
\* limits: a query changes none of them.
LEMMA QueriesInRange ==
  ASSUME SettingsTypeOK, AnswerInv, [QueriesNext]_<<settings, result, client>>
  PROVE  SettingsTypeOK'
<1>1. CASE SettingsNext
  BY <1>1, NextInRange
<1>2. CASE Resend
  BY <1>2, SentIsAnArgument, CommandInRange
<1>3. CASE Ask
  <2>1. UNCHANGED settings /\ result' \in SettingsErrors
    BY <1>3 DEF Ask, SCPIMM_sample_countQ, SCPIMM_trigger_countQ,
       SCPIMM_trigger_delayQ, SCPIMM_trigger_sourceQ, SCPIMM_trigger_delay_autoQ,
       Answers, IsRefused, SettingsErrors
  <2>2. QED
    BY <2>1 DEF settings, counts, trigger, SettingsTypeOK, InLimits
<1>4. CASE UNCHANGED <<settings, result, client>>
  BY <1>4 DEF vars, settings, counts, trigger, SettingsTypeOK, InLimits
<1>5. QED
  BY <1>1, <1>2, <1>3, <1>4 DEF QueriesNext

\* The commands truncate tenths to the count they are tenths of.
LEMMA TenthsOfCount ==
  ASSUME NEW n \in Nat
  PROVE  Truncate(10 * n) = n
BY DEF Truncate

\* What the client keeps of a count is ten times a count in range.
LEMMA CountSentBack ==
  ASSUME NEW n \in 1 .. BufLen, answer.value = 10 * n
  PROVE  Sent.type = "NUMBER" /\ CountOf(Sent) = n /\ InCountRange(CountOf(Sent))
<1>1. n \in Nat
  BY SettingsAssumption
<1>2. Truncate(Sent.value) = n
  BY <1>1, TenthsOfCount DEF Sent
<1>3. CountOf(Sent) = n
  BY <1>2 DEF CountOf, Sent
<1>4. QED
  BY <1>3, SettingsAssumption DEF Sent, InCountRange

\* A client that sends its answer back gets the setting it stands for.
LEMMA ResendRestores ==
  ASSUME SettingsTypeOK, AnswerInv, Resend
  PROVE  AnswerRestores'
<1> SUFFICES /\ answer.of = "TRIG:COUN" => ~infinite_trigger_count'
             /\ \/ ~NoCount /\ result' = "OK" /\ Held'[answer.of] = meant
                \/ NoCount /\ result' = "DATA_OUT_OF_RANGE"
  BY DEF AnswerRestores, NoCount, Resend
<1>1. CASE answer.of = "SAMP:COUN"
  <2>1. SCPIMM_sample_count(Sent) /\ meant \in 1 .. BufLen
          /\ answer.value = 10 * meant
    BY <1>1 DEF Resend, AnswerInv
  <2>2. sample_count_num' = meant /\ result' = "OK"
    BY <2>1, CountSentBack DEF SCPIMM_sample_count
  <2>3. QED
    BY <1>1, <2>2 DEF Held, Headers, NoCount
<1>2. CASE answer.of = "TRIG:COUN" /\ ~NoCount
  <2>1. SCPIMM_trigger_count(Sent) /\ meant \in 1 .. BufLen
          /\ answer.value = 10 * meant
    BY <1>2, SettingsAssumption DEF Resend, AnswerInv, NoCount
  <2>2. trigger_count_num' = meant /\ ~infinite_trigger_count' /\ result' = "OK"
    BY <2>1, CountSentBack DEF SCPIMM_trigger_count
  <2>3. QED
    BY <1>2, <2>2 DEF Held, Headers, NoCount
<1>3. CASE answer.of = "TRIG:COUN" /\ NoCount
  <2>1. SCPIMM_trigger_count(Sent) /\ Sent.type = "NUMBER"
    BY <1>3 DEF Resend, Sent
  <2>2. answer.value = 0 \/ answer.value = InfiniteAnswer
    BY <1>3 DEF AnswerInv, NoCount
  <2>3. CountOf(Sent) = Truncate(answer.value)
    BY DEF CountOf, Sent
  <2>4. ~InCountRange(CountOf(Sent))
    BY <2>2, <2>3, SettingsAssumption, QueriesAssumption DEF Truncate, InCountRange
  <2>5. QED
    BY <1>3, <2>1, <2>4 DEF SCPIMM_trigger_count
<1>4. CASE answer.of = "TRIG:DEL"
  <2>1. SCPIMM_trigger_delay(Sent) /\ meant \in 0 .. MaxDelay
          /\ answer.value = meant
    BY <1>4 DEF Resend, AnswerInv
  <2>2. Sent.type = "NUMBER" /\ DelayOf(Sent) = meant /\ InDelayRange(meant)
    BY <2>1, SettingsAssumption DEF Sent, DelayOf, InDelayRange
  <2>3. trigger_delay' = meant /\ result' = "OK"
    BY <2>1, <2>2 DEF SCPIMM_trigger_delay
  <2>4. QED
    BY <1>4, <2>3 DEF Held, Headers, NoCount
<1>5. CASE answer.of = "TRIG:SOUR"
  BY <1>5 DEF Resend, AnswerInv, SCPIMM_trigger_source, Held, Headers,
     NoCount
<1>6. CASE answer.of = "TRIG:DEL:AUTO"
  BY <1>6 DEF Resend, AnswerInv, SCPIMM_trigger_delay_auto, Held,
     Headers, NoCount
<1>7. QED
  BY <1>1, <1>2, <1>3, <1>4, <1>5, <1>6 DEF Resend, NoCount

\* What the client keeps after a query is the value of a setting, or INFinity.
LEMMA AnswerIsASetting ==
  ASSUME SettingsTypeOK, AnswerInv, Ask
  PROVE  AnswerInv'
<1> USE SettingsAssumption
<1> DEFINE Kept(header, v, m) ==
      /\ answer' = [of |-> header, value |-> v] /\ meant' = m /\ resent' = FALSE
<1>1. ASSUME NEW t, SCPIMM_sample_countQ(t)
      PROVE  AnswerInv'
  <2>1. \/ IsRefused
        \/ \E n \in 1 .. BufLen : Kept("SAMP:COUN", 10 * n, n)
    <3>1. 1 \in 1 .. BufLen /\ BufLen \in 1 .. BufLen
            /\ sample_count_num \in 1 .. BufLen
      BY DEF SettingsTypeOK, InLimits
    <3>2. CountOf(Word("MIN")) = 1 /\ CountOf(Word("MAX")) = BufLen
      BY DEF CountOf, Word
    <3>3. QED
      BY <1>1, <3>1, <3>2 DEF SCPIMM_sample_countQ, Answers
  <2>2. QED
    BY <2>1 DEF IsRefused, AnswerInv, AnswerRestores, Headers
<1>2. ASSUME NEW t, SCPIMM_trigger_countQ(t)
      PROVE  AnswerInv'
  <2>1. \/ IsRefused
        \/ Kept("TRIG:COUN", InfiniteAnswer, trigger_count_num)
        \/ \E n \in 0 .. BufLen : Kept("TRIG:COUN", 10 * n, n)
    <3>1. 1 \in 0 .. BufLen /\ BufLen \in 0 .. BufLen
            /\ trigger_count_num \in 0 .. BufLen
      BY DEF SettingsTypeOK, InLimits
    <3>2. CountOf(Word("MIN")) = 1 /\ CountOf(Word("MAX")) = BufLen
      BY DEF CountOf, Word
    <3>3. QED
      BY <1>2, <3>1, <3>2 DEF SCPIMM_trigger_countQ, Answers, TriggerCountAnswer
  <2>2. QED
    BY <2>1 DEF IsRefused, AnswerInv, AnswerRestores, Headers
<1>3. ASSUME NEW t, SCPIMM_trigger_delayQ(t)
      PROVE  AnswerInv'
  <2>1. \/ IsRefused
        \/ \E d \in 0 .. MaxDelay : Kept("TRIG:DEL", d, d)
    <3>1. 0 \in 0 .. MaxDelay /\ MaxDelay \in 0 .. MaxDelay
            /\ trigger_delay \in 0 .. MaxDelay
      BY DEF SettingsTypeOK, InLimits
    <3>2. DelayOf(Word("MIN")) = 0 /\ DelayOf(Word("MAX")) = MaxDelay
      BY DEF DelayOf, Word
    <3>3. QED
      BY <1>3, <3>1, <3>2 DEF SCPIMM_trigger_delayQ, Answers
  <2>2. QED
    BY <2>1 DEF IsRefused, AnswerInv, AnswerRestores, Headers
<1>4. CASE SCPIMM_trigger_sourceQ
  BY <1>4 DEF SCPIMM_trigger_sourceQ, Answers, SettingsTypeOK, InLimits,
     AnswerInv, AnswerRestores, Headers
<1>5. CASE SCPIMM_trigger_delay_autoQ
  BY <1>5 DEF SCPIMM_trigger_delay_autoQ, Answers, SettingsTypeOK,
     AnswerInv, AnswerRestores, Headers
<1>6. QED
  BY <1>1, <1>2, <1>3, <1>4, <1>5 DEF Ask

\* The invariant of the queries: the limits, and what the client keeps.
THEOREM QueriesInvariant == QueriesSpec => [](SettingsTypeOK /\ AnswerInv)
<1>1. QueriesInit => SettingsTypeOK /\ AnswerInv
  BY InitInRange DEF QueriesInit, AnswerInv, AnswerRestores
<1>2. ASSUME SettingsTypeOK, AnswerInv, [QueriesNext]_<<settings, result, client>>
      PROVE  AnswerInv'
  <2>1. CASE SettingsNext /\ resent' = FALSE /\ UNCHANGED <<answer, meant>>
    BY <1>2, <2>1 DEF AnswerInv, AnswerRestores
  <2>2. CASE Ask
    BY <1>2, <2>2, AnswerIsASetting
  <2>3. CASE Resend
    <3>1. AnswerRestores' /\ UNCHANGED <<answer, meant>>
      BY <1>2, <2>3, ResendRestores DEF Resend
    <3>2. QED
      BY <1>2, <3>1 DEF AnswerInv
  <2>4. CASE UNCHANGED <<settings, result, client>>
    BY <1>2, <2>4 DEF settings, counts, trigger, client, AnswerInv, AnswerRestores,
       NoCount, Held, Headers
  <2>5. QED
    BY <1>2, <2>1, <2>2, <2>3, <2>4 DEF QueriesNext
<1>3. SettingsTypeOK /\ AnswerInv /\ [QueriesNext]_<<settings, result, client>>
        => (SettingsTypeOK /\ AnswerInv)'
  BY <1>2, QueriesInRange
<1>4. QED
  BY <1>1, <1>3, PTL DEF QueriesSpec, vars

\* Whatever was set in between, and however often, an answer sent back is taken
\* and sets what was set, or what MIN or MAX stood for, when it was given; only
\* the number for an infinite trigger count, and a finite zero, are refused.
THEOREM AnswersRestore == QueriesSpec => []AnswerRestores
<1>1. AnswerInv => AnswerRestores
  BY DEF AnswerInv
<1>2. QED
  BY <1>1, QueriesInvariant, PTL

\* Where int can hold the square of the buffer length, a client that asks for
\* both counts knows whether INITiate will admit the acquisition.
THEOREM AnswersForetell ==
  ASSUME IntMod > BufLen * BufLen
  PROVE  QueriesSpec => [](AdmissionExact /\ AnswersForetellAdmission)
<1>1. ASSUME SettingsTypeOK
      PROVE  AnswersForetellAdmission
  <2>1. sample_count_num \in 1 .. BufLen /\ trigger_count_num \in 0 .. BufLen
    BY <1>1 DEF SettingsTypeOK, InLimits
  <2>2. CASE infinite_trigger_count
    <3>1. TriggerCountAnswer \div 10 \in Nat /\ TriggerCountAnswer \div 10 > BufLen
      BY <2>2, SettingsAssumption, QueriesAssumption DEF TriggerCountAnswer
    <3>2. sample_count_num * (TriggerCountAnswer \div 10) > BufLen
      <4> DEFINE k == TriggerCountAnswer \div 10
      <4>1. k \in Nat /\ k > BufLen /\ sample_count_num \in Nat
              /\ sample_count_num >= 1 /\ BufLen \in Nat
        BY <2>1, <3>1, SettingsAssumption
      <4> HIDE DEF k
      <4>2. sample_count_num * k >= k
        BY <4>1
      <4>3. sample_count_num * k > BufLen
        BY <4>1, <4>2
      <4>4. QED
        BY <4>3 DEF k
    <3>3. QED
      <4> DEFINE p == sample_count_num * (TriggerCountAnswer \div 10)
      <4>1. p \in Int /\ p > BufLen /\ BufLen \in Int
        BY <2>1, <3>1, <3>2, SettingsAssumption
      <4>2. ~(p <= BufLen)
        <5> HIDE DEF p
        <5>1. QED
          BY <4>1
      <4>3. QED
        BY <2>2, <4>2 DEF AnswersForetellAdmission, InitAdmits
  <2>3. CASE ~infinite_trigger_count
    <3>1. TriggerCountAnswer \div 10 = trigger_count_num
      BY <2>1, <2>3, SettingsAssumption DEF TriggerCountAnswer
    <3>2. QED
      BY <1>1, <2>3, <3>1, ProductFits, Zenon DEF AnswersForetellAdmission, InitAdmits
  <2>4. QED
    BY <2>2, <2>3
<1>2. SettingsTypeOK => AdmissionExact
  BY ProductFits, Zenon DEF AdmissionExact, InitAdmits
<1>3. QED
  BY <1>1, <1>2, QueriesInvariant, PTL
=============================================================================
