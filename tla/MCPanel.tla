------------------------------ MODULE MCPanel -------------------------------
(***************************************************************************)
(* A front panel whose texts lie at the limits: half a pair of quotes, an  *)
(* empty text, the longest that fits and the shortest that does not.       *)
(***************************************************************************)
EXTENDS PanelProperties

Lengths == {1, 2, 14, 15}
=============================================================================
