---------------------------- MODULE MCHandshake -----------------------------
(* Two fragmentations next to the whole message, so that a copy that is cut *)
(* more finely arrives while the coarser one is collected. *)
EXTENDS Handshake

MCTotals == {0, 1, 2, 3}
=============================================================================
