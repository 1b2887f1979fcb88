---------------------------- MODULE MCConnectors ----------------------------
(***************************************************************************)
(* Connectors on one connector, one worker and one owner: two writers of   *)
(* one column, which is what a lost update takes.                          *)
(***************************************************************************)
EXTENDS Connectors
=============================================================================
