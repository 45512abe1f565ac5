------------------------------ MODULE MCTunnel -------------------------------
(* A packet larger than the buffer, and a batch with an empty packet in it. *)
EXTENDS Tunnel

MCBatches == {<<2>>, <<0, 1>>}
=============================================================================
