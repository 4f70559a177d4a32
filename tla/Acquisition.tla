---------------------------- MODULE Acquisition -----------------------------
(***************************************************************************)
(* What the measurement state machine promises its client.  An acquisition *)
(* is started for a number of readings, or without end; the start fails,   *)
(* or it waits for a trigger, and readings come one at a time.  It ends in *)
(* three ways: complete, with an error that is kept for the next query, or *)
(* stopped by the client.  Callbacks, clock and hardware are left out.     *)
(***************************************************************************)
EXTENDS Naturals, Sequences

VARIABLES
  phase,      \* "idle", "starting", "armed": waiting for a trigger, "busy"
  requested,  \* the readings this acquisition is to take, 0 if it has no end
  results,    \* those it has taken, for the client to fetch
  error,      \* it failed and the client has not been told
  stopping    \* the client has asked it to end

vars == <<phase, requested, results, error, stopping>>

Init == /\ phase = "idle" /\ requested = 0 /\ results = <<>>
        /\ error = FALSE /\ stopping = FALSE

\* Another reading is to come.
Missing == requested = 0 \/ Len(results) < requested

Start ==
  /\ phase = "idle" /\ ~stopping
  /\ phase' = "starting"
  /\ requested' \in Nat
  /\ results' = <<>> /\ error' = FALSE
  /\ UNCHANGED stopping

\* The start fails, and then the command that started it says why.
Fault ==
  /\ phase = "starting" /\ ~error
  /\ error' = TRUE
  /\ UNCHANGED <<phase, requested, results, stopping>>

Refuse ==
  /\ phase = "starting" /\ error
  /\ phase' = "idle" /\ error' = FALSE
  /\ UNCHANGED <<requested, results, stopping>>

\* A trigger is waited for; before the second and later ones, a reading is
\* missing.
Arm ==
  /\ \/ phase = "starting" /\ ~error
     \/ phase = "busy" /\ ~stopping /\ Missing
  /\ phase' = "armed"
  /\ UNCHANGED <<requested, results, error, stopping>>

Pull ==
  /\ phase = "armed" \/ (phase = "starting" /\ ~error)
  /\ phase' = "busy"
  /\ UNCHANGED <<requested, results, error, stopping>>

\* One more reading; those already taken stay as they are.
Deliver ==
  /\ phase = "busy" /\ ~stopping /\ Missing
  /\ Len(results') = Len(results) + 1
  /\ SubSeq(results', 1, Len(results)) = results
  /\ UNCHANGED <<phase, requested, error, stopping>>

\* It ends without an error, and unasked, only when nothing is missing.
Complete ==
  /\ phase = "busy" /\ ~stopping
  /\ requested # 0 /\ Len(results) = requested
  /\ phase' = "idle"
  /\ UNCHANGED <<requested, results, error, stopping>>

Break ==
  /\ phase \in {"armed", "busy"} /\ ~stopping
  /\ phase' = "idle" /\ error' = TRUE
  /\ UNCHANGED <<requested, results, stopping>>

\* Between acquisitions a command discards results, and the client is told of
\* the error.
Forget ==
  /\ phase = "idle" /\ ~stopping
  /\ results' = <<>>
  /\ UNCHANGED <<phase, requested, error, stopping>>

Report ==
  /\ phase = "idle" /\ error /\ ~stopping
  /\ error' = FALSE
  /\ UNCHANGED <<phase, requested, results, stopping>>

\* The client asks for the end; a trigger may still come, but no reading.
Stop ==
  /\ phase # "starting" /\ ~stopping
  /\ stopping' = TRUE
  /\ results' = results \/ (phase = "idle" /\ results' = <<>>)
  /\ UNCHANGED <<phase, requested, error>>

Abort ==
  /\ stopping /\ phase # "idle"
  /\ phase' = "idle"
  /\ UNCHANGED <<requested, results, error, stopping>>

Stopped ==
  /\ stopping /\ phase = "idle"
  /\ stopping' = FALSE
  /\ results' = <<>>
  /\ UNCHANGED <<phase, requested, error>>

Next == Start \/ Fault \/ Refuse \/ Arm \/ Pull \/ Deliver \/ Complete \/ Break
          \/ Forget \/ Report \/ Stop \/ Abort \/ Stopped

Spec == Init /\ [][Next]_vars
=============================================================================
