----------------------------- MODULE MCIndexers -----------------------------
(***************************************************************************)
(* Indexers on one indexer, with two versions of the bytes behind its      *)
(* source and two workers, so that two of its runs may overlap.            *)
(***************************************************************************)
EXTENDS Indexers
=============================================================================
