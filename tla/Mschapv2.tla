------------------------------ MODULE Mschapv2 ------------------------------
(***************************************************************************)
(* eap/mschapv2: the MSCHAPv2 peer, as a function from a state and a       *)
(* packet to the next state and the result.  A packet is known by its      *)
(* kind, relative to the challenge it answers: "msSuccess" has its         *)
(* identifier and the authenticator that proves the server knows the       *)
(* password, "badSuccess" lacks one of the two.                            *)
(***************************************************************************)
EXTENDS Naturals

MsRequests == {"challenge", "msSuccess", "badSuccess", "msFailure", "badRequest"}
MsPackets == MsRequests \cup {"malformed", "identity", "foreign", "success", "failure"}

\* chal numbers the challenge in state (0: state is nil), expecting is
\* expectingSuccess, last counts the challenges answered.
MsState == [phase : {"Negotiating", "Challenging", "Verifying", "Completed", "Failed"},
            chal : Nat, expecting : BOOLEAN, last : Nat]

MsReset == [phase |-> "Negotiating", chal |-> 0, expecting |-> FALSE, last |-> 0]

MsFails(ms) == [ms |-> [ms EXCEPT !.phase = "Failed"], action |-> "error", msk |-> 0]
MsSends(ms) == [ms |-> ms, action |-> "send", msk |-> 0]

\* A challenge is answered, its authenticator and its MSK are computed.
Answered(ms) == [ms EXCEPT !.chal = ms.last + 1, !.last = @ + 1, !.expecting = TRUE]

\* A mutant: a Success of the server is believed without its authenticator.
OnRequest_Unverified(ms, kind) ==
  CASE kind = "challenge" /\ ~(ms.chal # 0 /\ ms.expecting) -> MsSends(Answered(ms))
    [] kind \in {"msSuccess", "badSuccess"} /\ ms.chal # 0 /\ ms.expecting ->
         MsSends([ms EXCEPT !.expecting = FALSE])
    [] kind = "msFailure" /\ ms.chal # 0 /\ ms.expecting -> MsFails([ms EXCEPT !.chal = 0])
    [] OTHER -> MsFails(ms)

OnRequest(ms, kind) ==
  CASE kind = "challenge" /\ ~(ms.chal # 0 /\ ms.expecting) -> MsSends(Answered(ms))
    [] kind = "msSuccess" /\ ms.chal # 0 /\ ms.expecting ->
         MsSends([ms EXCEPT !.expecting = FALSE])
    [] kind = "msFailure" /\ ms.chal # 0 /\ ms.expecting -> MsFails([ms EXCEPT !.chal = 0])
    [] OTHER -> MsFails(ms)

MsHandle(ms, kind) ==
  CASE ms.phase = "Failed" -> MsFails(ms)
    [] ms.phase # "Failed" /\ kind \in {"identity", "foreign"} ->
         MsSends([ms EXCEPT !.phase = "Negotiating"])
    [] ms.phase # "Failed" /\ kind \in MsRequests ->
         OnRequest([ms EXCEPT !.phase = IF ms.chal # 0 THEN "Verifying" ELSE "Challenging"], kind)
    [] ms.phase # "Failed" /\ kind = "success" /\ ms.chal # 0 /\ ~ms.expecting ->
         [ms |-> [ms EXCEPT !.phase = "Completed"], action |-> "complete", msk |-> ms.chal]
    [] OTHER -> MsFails(ms)

\* Close drops the challenge and makes the method terminal.
MsClose(ms) == [ms EXCEPT !.chal = 0, !.phase = "Failed"]
=============================================================================
