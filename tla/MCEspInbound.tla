---------------------------- MODULE MCEspInbound ----------------------------
(* A window of 3 slots over sequence numbers up to 8: jumps past the whole   *)
(* window, late packets inside and behind it, and both window edges occur.   *)
EXTENDS EspInbound
=============================================================================
