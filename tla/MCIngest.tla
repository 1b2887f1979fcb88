------------------------------ MODULE MCIngest ------------------------------
(***************************************************************************)
(* Ingest on small instances. Workers, deleters and contents are model     *)
(* values; workers and deleters are interchangeable.                       *)
(***************************************************************************)
EXTENDS Ingest, TLC

\* Sound for the invariants and action properties, which name no process.
Symmetry == Permutations(Worker) \cup Permutations(Deleter)
=============================================================================
