------------------------------ MODULE MCSession ------------------------------
(* Two calls of Start: the second overlaps the first or follows its failure. *)
EXTENDS Session
=============================================================================
