--------------------------- MODULE SettingsQueries ---------------------------
(***************************************************************************)
(* The queries of the SAMPle and TRIGger groups (sample.c, trigger.c), and *)
(* a client that keeps an answer and later sends it back as the argument   *)
(* of the command, as one does who saves and restores a setting.  A query  *)
(* and its command decode their arguments by two switches that must agree. *)
(***************************************************************************)
EXTENDS SettingsProperties

CONSTANTS
  QueryTypes,      \* what the queries are given: none, a word or a number
  InfiniteAnswer   \* INF_TRIGGER_COUNT, in tenths as every count

ASSUME QueriesAssumption ==
  /\ QueryTypes \subseteq ParamTypes
  /\ InfiniteAnswer \in Nat /\ InfiniteAnswer >= 10 * (BufLen + 1)

VARIABLES
  answer,   \* the answer a client keeps: of which query, and its value
  meant,    \* history: what that setting was, or MIN or MAX stood for
  resent    \* history: the last command sent it back

client == <<answer, meant, resent>>

Answers(header, v, m) ==
  /\ answer' = [of |-> header, value |-> v] /\ meant' = m
  /\ result' = "OK" /\ resent' = FALSE
  /\ UNCHANGED settings

IsRefused ==
  /\ result' = "ILLEGAL_PARAMETER_VALUE" /\ resent' = FALSE
  /\ UNCHANGED <<settings, answer, meant>>

\* SCPI_ParamNumber makes DEF of an argument that is missing.
Current(t) == t \in {"MISSING", "DEF"}

\* A word as the argument of a command.
Word(t) == [type |-> t, value |-> 0]

\* SAMPle:COUNt?, in tenths as the arguments of the command.
SCPIMM_sample_countQ(t) ==
  \/ Current(t) /\ Answers("SAMP:COUN", 10 * sample_count_num, sample_count_num)
  \/ t = "MIN" /\ Answers("SAMP:COUN", 10, CountOf(Word(t)))
  \/ t = "MAX" /\ Answers("SAMP:COUN", 10 * BufLen, CountOf(Word(t)))
  \/ ~Current(t) /\ t \notin {"MIN", "MAX"} /\ IsRefused

\* The stored count, also when it is infinite.
BugTriggerCountAnswer == 10 * trigger_count_num

\* The other count, of the query this one was copied from.
BugCopiedTriggerCountAnswer ==
  IF infinite_trigger_count THEN InfiniteAnswer ELSE 10 * sample_count_num

TriggerCountAnswer ==
  IF infinite_trigger_count THEN InfiniteAnswer ELSE 10 * trigger_count_num

\* TRIGger:COUNt?
SCPIMM_trigger_countQ(t) ==
  \/ Current(t) /\ Answers("TRIG:COUN", TriggerCountAnswer, trigger_count_num)
  \/ t = "MIN" /\ Answers("TRIG:COUN", 10, CountOf(Word(t)))
  \/ t = "MAX" /\ Answers("TRIG:COUN", 10 * BufLen, CountOf(Word(t)))
  \/ ~Current(t) /\ t \notin {"MIN", "MAX"} /\ IsRefused

\* TRIGger:DELay?  Whole seconds go through float and text unchanged.
SCPIMM_trigger_delayQ(t) ==
  \/ Current(t) /\ Answers("TRIG:DEL", trigger_delay, trigger_delay)
  \/ t = "MIN" /\ Answers("TRIG:DEL", 0, DelayOf(Word(t)))
  \/ t = "MAX" /\ Answers("TRIG:DEL", MaxDelay, DelayOf(Word(t)))
  \/ ~Current(t) /\ t \notin {"MIN", "MAX"} /\ IsRefused

\* TRIGger:SOURce? and TRIGger:DELay:AUTO?
SCPIMM_trigger_sourceQ == Answers("TRIG:SOUR", trigger_src, trigger_src)

SCPIMM_trigger_delay_autoQ ==
  Answers("TRIG:DEL:AUTO", trigger_auto_delay, trigger_auto_delay)

-----------------------------------------------------------------------------
(* The client.                                                             *)

\* A number that does not fit a long is converted to one out of range.
Sent == [type |-> "NUMBER", value |-> answer.value]

Resend ==
  /\ \/ answer.of = "SAMP:COUN" /\ SCPIMM_sample_count(Sent)
     \/ answer.of = "TRIG:COUN" /\ SCPIMM_trigger_count(Sent)
     \/ answer.of = "TRIG:DEL" /\ SCPIMM_trigger_delay(Sent)
     \/ answer.of = "TRIG:SOUR" /\ SCPIMM_trigger_source(answer.value)
     \/ answer.of = "TRIG:DEL:AUTO" /\ SCPIMM_trigger_delay_auto(answer.value)
  /\ resent' = TRUE /\ UNCHANGED <<answer, meant>>

Ask ==
  \/ \E t \in QueryTypes : \/ SCPIMM_sample_countQ(t) \/ SCPIMM_trigger_countQ(t)
                            \/ SCPIMM_trigger_delayQ(t)
  \/ SCPIMM_trigger_sourceQ \/ SCPIMM_trigger_delay_autoQ

QueriesInit ==
  /\ SettingsInit
  /\ answer = [of |-> "nothing", value |-> 0] /\ meant = 0 /\ resent = FALSE

QueriesNext ==
  \/ SettingsNext /\ resent' = FALSE /\ UNCHANGED <<answer, meant>>
  \/ Ask
  \/ Resend

QueriesSpec == QueriesInit /\ [][QueriesNext]_<<settings, result, client>>

-----------------------------------------------------------------------------
Headers == {"SAMP:COUN", "TRIG:COUN", "TRIG:DEL", "TRIG:SOUR", "TRIG:DEL:AUTO"}

Held ==
  [h \in Headers |->
     IF h = "SAMP:COUN" THEN sample_count_num
     ELSE IF h = "TRIG:COUN" THEN trigger_count_num
     ELSE IF h = "TRIG:DEL" THEN trigger_delay
     ELSE IF h = "TRIG:SOUR" THEN trigger_src ELSE trigger_auto_delay]

\* An answer that TRIGger:COUNt refuses: the number for INFinity, which it takes
\* as a word only, and the zero that a refused command may leave in the setting.
NoCount == answer.of = "TRIG:COUN" /\ (answer.value = InfiniteAnswer \/ meant = 0)

\* What a query answered can be sent back at any time, whatever was set in
\* between: the command takes it, and sets what was set then, or what MIN or
\* MAX stand for; a number of triggers sent back is finite.  The exceptions are
\* the answers of NoCount: they are refused, and the count is finite nevertheless.
AnswerRestores ==
  resent =>
    /\ answer.of = "TRIG:COUN" => ~infinite_trigger_count
    /\ \/ ~NoCount /\ result = "OK" /\ Held[answer.of] = meant
       \/ NoCount /\ result = "DATA_OUT_OF_RANGE"

\* The answers to SAMPle:COUNt? and TRIGger:COUNt? tell what INITiate will say:
\* it admits the acquisition just when their product fits the memory, which
\* the answer for INFinity never does.
AnswersForetellAdmission ==
  sample_count_num * (TriggerCountAnswer \div 10) <= BufLen <=> InitAdmits

\* Inductive: what a client keeps is the value of a setting, or INFinity.
AnswerInv ==
  /\ answer.of \in {"nothing"} \union Headers
  /\ answer.of = "SAMP:COUN" => meant \in 1 .. BufLen /\ answer.value = 10 * meant
  /\ answer.of = "TRIG:COUN" =>
       \/ answer.value = InfiniteAnswer
       \/ meant \in 0 .. BufLen /\ answer.value = 10 * meant
  /\ answer.of = "TRIG:DEL" => meant \in 0 .. MaxDelay /\ answer.value = meant
  /\ answer.of = "TRIG:SOUR" => meant \in Sources /\ answer.value = meant
  /\ answer.of = "TRIG:DEL:AUTO" => meant \in BOOLEAN /\ answer.value = meant
  /\ AnswerRestores
=============================================================================
