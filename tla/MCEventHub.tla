----------------------------- MODULE MCEventHub -----------------------------
(* Two subscribers, one caller of EmitSync. *)
EXTENDS EventHub
=============================================================================
