------------------------------- MODULE Claims -------------------------------
(***************************************************************************)
(* What the README says about a running session where the code does        *)
(* otherwise, over the states of ControlSystem.                            *)
(***************************************************************************)
EXTENDS ControlSystem

\* README: "during the handoff the old inbound SA still decrypts until the old
\* CHILD_SA is deleted".
OldDecryptsUntilDeleted == [][\A c \in inTable \ inTable' : c \in deleted]_vars
=============================================================================
