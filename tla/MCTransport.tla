----------------------------- MODULE MCTransport -----------------------------
(* Bounds for the two workers: batches of two, channels of one. *)
EXTENDS Transport
=============================================================================
