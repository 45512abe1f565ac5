------------------------------ MODULE MCControl ------------------------------
(* Small instances of a running session; the .cfg files choose which inputs *)
(* the actor sees and give the bounds.                                      *)
EXTENDS Claims
=============================================================================
