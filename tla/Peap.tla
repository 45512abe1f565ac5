-------------------------------- MODULE Peap --------------------------------
(***************************************************************************)
(* The EAP peer: the mailbox loop of control/eap_peer.go, the worker that  *)
(* owns the method, and the two methods, PEAP over the TLS engine with     *)
(* MSCHAPv2 inside, and MSCHAPv2 by itself.  The EAP server is external:   *)
(* in every round it sends one of the packets below.  Its TLS messages are *)
(* whole or in fragments; what is in one is a flight of the handshake, or, *)
(* once the tunnel is up, an inner packet.                                 *)
(***************************************************************************)
EXTENDS TlsEngine, Mschapv2, PeapFragments

CONSTANTS FragmentSize,    \* Options.FragmentSize, in chunks
          IncludeLength,   \* Options.IncludeLength
          MaxMessageCount, \* Options.MaxMessageCount
          MaxChallenges    \* bound of the model: challenges of the server

ASSUME PeapAssumption ==
  IncludeLength \in BOOLEAN /\ {FragmentSize, MaxMessageCount, MaxChallenges} \subseteq Nat \ {0}

VARIABLES method,     \* the configuration
          phase, rest, in, messages, msk,  \* peap.Method: phase, pendingOut, pendingIn, ...
          inner,      \* the mschapv2.Method
          after,      \* phase to enter once Protect has returned
          worker,     \* where eapPeerWorker.run is
          loop,       \* where runEAP is
          packet,     \* the packet of the round in progress
          server,     \* the message the server is sending, and how much of it is sent
          peer,       \* the server's reassembly of our messages, by the same rules
          delivered,  \* every TLS chunk sent to the server, in order
          earned      \* what has happened: "verified", "innerSuccess", challenges proved

peapVars == <<method, phase, rest, in, messages, msk, inner, after, worker, loop,
              packet, server, peer, delivered, earned>>
vars == <<engineVars, peapVars>>

Phases == {"OuterIdentity", "TLSTunnel", "InnerMethod", "AwaitingOuterSuccess",
           "AwaitingOuterFailure", "Completed", "Failed"}
InnerBodies == Bodies \ {"flight"}
PeapKinds == {"start", "startData", "ack", "tls", "badPeap"}
PeapPackets == PeapKinds \cup {"malformed", "identity", "foreign", "success", "failure"}

NoFrag == [L |-> FALSE, M |-> FALSE, len |-> 0, data |-> <<>>]
NoMessage == [body |-> "none", sent |-> 0]
NoPeer == [in |-> NoParts, result |-> "none", whole |-> <<>>]
NoPacket == [kind |-> "none", frag |-> NoFrag]

Parts(S) == [open : BOOLEAN, expected : Nat, got : Seq(S)]
Results == {"none", "error", "more", "complete"}

TypeOK ==
  /\ EngineTypeOK
  /\ method \in {"peap", "mschapv2"}
  /\ phase \in Phases /\ after \in Phases
  /\ rest \in Seq(Nat) /\ delivered \in Seq(Nat)
  /\ in \in Parts(Unit) /\ peer \in [in : Parts(Nat), result : Results, whole : Seq(Nat)]
  /\ messages \in 0 .. MaxMessageCount + 1 /\ msk \in Nat
  /\ inner \in MsState
  /\ worker \in {"idle", "handle", "engine", "closing", "done"}
  /\ loop \in {"recv", "reply", "over"}
  /\ packet \in [kind : PeapPackets \cup MsPackets \cup {"none"},
                 frag : [L : BOOLEAN, M : BOOLEAN, len : Nat, data : Seq(Unit)]]
  /\ server \in [body : Bodies \cup {"none"}, sent : Nat]
  /\ earned \subseteq {"verified", "innerSuccess", "proved"} \X Nat

Init ==
  /\ EngineInit
  /\ method \in {"peap", "mschapv2"}
  /\ phase = "OuterIdentity" /\ after = "Failed" /\ rest = <<>> /\ in = NoParts
  /\ messages = 0 /\ msk = 0 /\ inner = MsReset
  /\ worker = "idle" /\ loop = "recv" /\ packet = NoPacket
  /\ server = NoMessage /\ peer = NoPeer /\ delivered = <<>> /\ earned = {}

-----------------------------------------------------------------------------
(* The server, and the loop of runEAP. *)

\* A flight is two units long, an inner packet one.
Size(body) == IF body = "flight" THEN 2 ELSE 1
Whole(body) == [i \in 1 .. Size(body) |-> <<body, i>>]

\* A fragment that goes on where the last one ended; the declared length may be
\* missing or wrong.  (A message in place of a fragment carries a length of its
\* own, or the length of the broken one was right: no receiver can tell two
\* messages that make up the declared length from one.)
Fragment(body, k) ==
  {[L |-> l, M |-> server.sent + k < Size(body), len |-> IF l THEN n ELSE 0,
    data |-> SubSeq(Whole(body), server.sent + 1, server.sent + k)] :
      l \in BOOLEAN, n \in {Size(body), Size(body) + 1}}

\* Another message, whole, in place of the next fragment.
Instead(l) ==
  [L |-> l, M |-> FALSE, len |-> IF l THEN Size(server.body) ELSE 0, data |-> Whole(server.body)]

\* The packet of the next IKE_AUTH response goes to the worker, which is idle.
Arrives(kind, frag) ==
  /\ loop = "recv"
  /\ packet' = [kind |-> kind, frag |-> frag] /\ worker' = "handle"
  /\ loop' = "reply"
  /\ UNCHANGED <<engineVars, method, phase, rest, in, messages, msk, inner, after,
                 peer, delivered, earned>>

ServerSends ==
  \/ /\ \E kind \in (IF method = "peap" THEN PeapPackets \ {"tls"} ELSE MsPackets) :
          Arrives(kind, NoFrag) /\ (kind = "challenge" => inner.last < MaxChallenges)
     /\ UNCHANGED server
  \/ /\ method = "peap"
     /\ \E body \in (IF server.sent > 0 THEN {server.body}
                     ELSE IF phase = "InnerMethod" THEN InnerBodies ELSE {"flight"}) :
          \E k \in 1 .. Size(body) - server.sent : \E f \in Fragment(body, k) :
            /\ Arrives("tls", f)
            /\ server' = [body |-> body, sent |-> IF f.M THEN server.sent + k ELSE 0]
            /\ body = "challenge" => inner.last < MaxChallenges
  \/ /\ method = "peap" /\ server.sent > 0
     /\ \E l \in BOOLEAN : Arrives("tls", Instead(l)) /\ (l \/ in.expected = Size(server.body))
     /\ server' = [server EXCEPT !.sent = 0]

\* The exchange fails, the context is cancelled, or there were too many rounds.
LoopEnds ==
  /\ loop # "over" /\ loop' = "over"
  /\ UNCHANGED <<engineVars, method, phase, rest, in, messages, msk, inner, after,
                 worker, packet, server, peer, delivered, earned>>

-----------------------------------------------------------------------------
(* The worker. *)

\* The rounds are closed or the context is: the method is closed, and what it
\* knew is garbage.
WorkerStops ==
  /\ worker = "idle" /\ loop = "over"
  /\ IF method = "peap" THEN CallClose /\ worker' = "closing" /\ inner' = MsReset
     ELSE worker' = "done" /\ inner' = MsClose(inner) /\ UNCHANGED engineVars
  /\ phase' = "Failed" /\ rest' = <<>> /\ in' = NoParts /\ messages' = 0 /\ msk' = 0
  /\ after' = "Failed" /\ server' = NoMessage /\ peer' = NoPeer /\ delivered' = <<>> /\ earned' = {}
  /\ UNCHANGED <<method, loop, packet>>

WorkerDone ==
  /\ worker = "closing" /\ call.at = "return"
  /\ worker' = "done"
  /\ UNCHANGED <<engineVars, method, phase, rest, in, messages, msk, inner, after,
                 loop, packet, server, peer, delivered, earned>>

\* The round is answered: the answer goes out in the next IKE_AUTH request, or
\* ends the loop.  Nobody takes it if the loop is over.
Reply(action, frag, tls) ==
  /\ worker' = "idle" /\ packet' = NoPacket
  /\ loop' = IF loop = "reply" /\ action = "send" THEN "recv" ELSE "over"
  /\ IF tls /\ loop = "reply"
     THEN peer' = Push(peer.in, frag) /\ delivered' = delivered \o frag.data
     ELSE UNCHANGED <<peer, delivered>>

NoAnswer == UNCHANGED <<packet, loop, peer, delivered>>

Ack == Reply("send", NoFrag, FALSE)
Fail == phase' = "Failed" /\ Reply("error", NoFrag, FALSE)

\* What a step of the FSM never touches.
outside == <<method, server>>

\* mschapv2.Method.Handle as the outer method.
MsRound ==
  /\ worker = "handle" /\ method = "mschapv2"
  /\ LET r == MsHandle(inner, packet.kind)
     IN  /\ inner' = r.ms /\ msk' = r.msk /\ Reply(r.action, NoFrag, FALSE)
         /\ earned' = IF packet.kind = "msSuccess" /\ r.action = "send"
                      THEN earned \cup {<<"proved", inner.chal>>} ELSE earned
  /\ UNCHANGED <<engineVars, phase, rest, in, messages, after, outside>>

-----------------------------------------------------------------------------
(* peap.Method.Handle. *)

IsPeap == packet.kind \in PeapKinds

\* Packets of each phase that lead on.
Accepted ==
  CASE phase = "OuterIdentity" -> {"identity", "start"}
    [] phase \in {"TLSTunnel", "InnerMethod"} -> {"ack", "tls"}
    [] phase = "AwaitingOuterSuccess" -> {"success"}
    [] OTHER -> {}

\* Unparsable, too many, not the ACK that a pending fragment waits for, or out
\* of phase.
Rejected ==
  \/ packet.kind \in {"malformed", "badPeap"}
  \/ IsPeap /\ messages >= MaxMessageCount
  \/ IF IsPeap /\ Pending(rest) THEN packet.kind # "ack" ELSE packet.kind \notin Accepted

Counted == messages' = IF IsPeap /\ packet.kind # "badPeap" THEN messages + 1 ELSE messages

Handling == worker = "handle" /\ method = "peap"

\* Every error makes the method terminal.
PeapRejects ==
  /\ Handling /\ Rejected
  /\ Fail /\ Counted
  /\ UNCHANGED <<engineVars, rest, in, msk, inner, after, earned, outside>>

PeapIdentity ==
  /\ Handling /\ ~Rejected /\ packet.kind = "identity"
  /\ Ack
  /\ UNCHANGED <<engineVars, phase, rest, in, messages, msk, inner, after, earned, outside>>

\* emitNextFragment, or the answer to an ACK when nothing is pending.
PeapAck ==
  /\ Handling /\ ~Rejected /\ packet.kind = "ack"
  /\ Counted
  /\ IF Pending(rest)
     THEN LET f == FragNext(rest, FragmentSize) IN Reply("send", f.packet, TRUE) /\ rest' = f.rest
     ELSE Ack /\ UNCHANGED rest
  /\ UNCHANGED <<engineVars, phase, in, msk, inner, after, earned, outside>>

PeapStart ==
  /\ Handling /\ ~Rejected /\ packet.kind = "start"
  /\ phase' = "TLSTunnel" /\ worker' = "engine" /\ Counted
  /\ CallStart /\ NoAnswer
  /\ UNCHANGED <<rest, in, msk, inner, after, earned, outside>>

\* collectTLSRecord, and with a complete record the engine.
PeapFragment ==
  /\ Handling /\ ~Rejected /\ packet.kind = "tls"
  /\ Counted
  /\ LET p == Push(in, packet.frag)
     IN  /\ in' = p.in
         /\ CASE p.result = "error" -> Fail /\ UNCHANGED engineVars
              [] p.result = "more" -> Ack /\ UNCHANGED <<phase, engineVars>>
              [] OTHER -> /\ IF phase = "TLSTunnel" THEN CallFeed(p.whole) ELSE CallUnprotect(p.whole)
                          /\ worker' = "engine" /\ NoAnswer /\ UNCHANGED phase
  /\ UNCHANGED <<rest, msk, inner, after, earned, outside>>

\* emitFragmentedOrSingle.
Emit(payload) ==
  LET f == FragStart(payload, FragmentSize, IncludeLength)
  IN  Reply("send", f.packet, TRUE) /\ rest' = f.rest

Returned(op) == worker = "engine" /\ call.op = op /\ call.at = "return"
Released == call' = NoCall /\ UNCHANGED <<early, script, client, wrote, relay, pending, inbound,
              outbound, flushReq, flushed, handshakeDone, established, stop, wg>>

\* VerifyServerIdentity, then the inner method is initialized.
TunnelReady(Answer) ==
  \/ Fail /\ UNCHANGED <<inner, earned, rest>>
  \/ /\ phase' = "InnerMethod" /\ inner' = MsReset /\ earned' = earned \cup {<<"verified", 0>>}
     /\ Answer

\* Start has returned, or Feed: onTLSStep.
HandshakeReturns ==
  /\ Returned("start") \/ Returned("feed")
  /\ Released
  /\ CASE call.result = "error" \/ (call.op = "start" /\ ~call.got) ->
            Fail /\ UNCHANGED <<inner, earned, rest>>
       [] call.result # "error" /\ call.op = "start" /\ call.got ->
            Emit(call.out) /\ UNCHANGED <<phase, inner, earned>>
       [] call.result # "error" /\ call.op = "feed" /\ call.out # <<>> ->
            IF established THEN TunnelReady(Emit(call.out))
            ELSE Emit(call.out) /\ UNCHANGED <<phase, inner, earned>>
       [] call.result = "established" /\ call.op = "feed" /\ call.out = <<>> ->
            TunnelReady(Ack /\ UNCHANGED rest)
       [] OTHER -> Ack /\ UNCHANGED <<phase, inner, earned, rest>>
  /\ UNCHANGED <<in, messages, msk, after, outside>>

\* handleInnerMethod: the AVPs are the terminal inner packets, the rest is for
\* MSCHAPv2; the answer is protected.
InnerPacket ==
  /\ Returned("unprotect")
  /\ LET body == IF call.out = <<>> THEN "none" ELSE call.out[1][1]
         r == MsHandle(inner, body)
     IN  IF \/ body \in {"none", "avpUnknown"}
            \/ body \notin {"avpSuccess", "avpFailure"} /\ r.action # "send"
         THEN /\ Fail /\ Released
              /\ inner' = IF body \in MsPackets THEN r.ms ELSE inner
              /\ UNCHANGED <<after, earned>>
         ELSE /\ CallProtect /\ NoAnswer /\ UNCHANGED <<worker, phase>>
              /\ CASE body = "avpSuccess" -> after' = "AwaitingOuterSuccess" /\ UNCHANGED inner
                   [] body = "avpFailure" -> after' = "AwaitingOuterFailure" /\ UNCHANGED inner
                   [] OTHER -> after' = phase /\ inner' = r.ms
              /\ earned' = IF body = "avpSuccess" THEN earned \cup {<<"innerSuccess", 0>>} ELSE earned
  /\ UNCHANGED <<rest, in, messages, msk, outside>>

ProtectReturns ==
  /\ Returned("protect")
  /\ Released /\ phase' = after /\ Emit(call.out)
  /\ UNCHANGED <<in, messages, msk, inner, after, earned, outside>>

\* The outer Success: ExportMSK.
OuterSuccess ==
  /\ Handling /\ ~Rejected /\ packet.kind = "success"
  /\ IF established THEN phase' = "Completed" /\ msk' = 1 /\ Reply("complete", NoFrag, FALSE)
     ELSE Fail /\ UNCHANGED msk
  /\ UNCHANGED <<engineVars, rest, in, messages, inner, after, earned, outside>>

MethodStep ==
  \/ MsRound \/ PeapRejects \/ PeapIdentity \/ PeapAck \/ PeapStart \/ PeapFragment
  \/ HandshakeReturns \/ InnerPacket \/ ProtectReturns \/ OuterSuccess
WorkerStep ==
  \/ WorkerStops \/ WorkerDone \/ MethodStep
  \/ CallStep /\ UNCHANGED peapVars

Next ==
  \/ ServerSends \/ LoopEnds
  \/ WorkerStep
  \/ ClientStep /\ UNCHANGED peapVars
  \/ RelayStep /\ UNCHANGED peapVars

Spec == Init /\ [][Next]_vars

\* Goroutines run, nothing is assumed of the server.  Timers are steps of the
\* goroutine that waits for them.
Fairness ==
  /\ WF_vars(WorkerStep)
  /\ WF_vars(ClientStep /\ UNCHANGED peapVars)
  /\ WF_vars(RelayStep /\ UNCHANGED peapVars)

FairSpec == Spec /\ Fairness

-----------------------------------------------------------------------------
(* Properties. *)

Running == loop # "over" /\ method = "peap"
InCall == IF call.op \in {"start", "feed", "protect"} /\ call.at \in {"collect", "return"}
          THEN call.out ELSE <<>>
InHand == IF relay.at = "put" THEN <<relay.held>> ELSE <<>>

\* s is the part of the stream 1, 2, 3, ... after its first n chunks.
Continues(s, n) == \A i \in 1 .. Len(s) : s[i] = n + i

\* The TLS stream survives the relay, the quiet windows and the fragmenter:
\* what the server has, what waits in the fragmenter, in the call, in the queue
\* and in the relay is, in this order, all that the TLS client has written.
\* (The variables keep their types, the queues their capacities.)
TlsBytesInOrder ==
  /\ TypeOK
  /\ Running =>
       LET emitted == Len(delivered) + Len(rest)
           left == emitted + Len(InCall)
           relayed == left + Len(outbound)
           known == relayed + Len(pending)
       IN  /\ Continues(delivered, 0) /\ Continues(rest, Len(delivered))
           /\ Continues(InCall, emitted) /\ Continues(outbound, left)
           /\ Continues(pending, relayed) /\ Continues(InHand, known)
           /\ wrote = known + Len(InHand)

\* The barrier of launch: when the engine is seen established, no chunk of the
\* client's last flight is still in the pipe or with the relay, whatever the
\* timers do.
FinalFlightFlushed ==
  established /\ ~stop =>
    /\ client.pos > Len(script) /\ wrote >= client.sent
    /\ relay.at = "put" => relay.held > client.sent
    /\ \A i \in 1 .. Len(pending) : pending[i] > client.sent

\* If the quiet windows are long enough, an answer carries all that TLS has to
\* say: nothing is left behind when a round has been answered.
AnswersAreWhole ==
  early = 0 /\ Running /\ worker = "idle" /\ phase # "OuterIdentity" =>
    outbound = <<>> /\ pending = <<>> /\ InHand = <<>> /\ ~Offered

\* Fragmentation works in both directions.  The server, which reassembles by the
\* rules the client itself has, finds none of our fragments out of place, with
\* one exception: after a quiet window that ended early, Protect may have nothing
\* to send, and with IncludeLength Start makes of it a message that declares the
\* length 0, which Push refuses; it comes between two messages and spoils neither.
\* What reaches the engine is a whole TLS message of the server, however it was
\* cut, whatever lengths were declared and even if another message broke into
\* it; and between two messages nothing is left of the one before.
FragmentsReassemble ==
  /\ peer.result = "error" => early # 0 /\ IncludeLength /\ peer.in = NoParts
  /\ \A i \in 1 .. Len(inbound) : inbound[i] \in {Whole(b) : b \in Bodies}
  /\ loop # "over" /\ worker = "idle" /\ server.sent = 0 => in = NoParts

\* A method completes only when the server has earned it: MSCHAPv2 with the
\* authenticator of the challenge the key is made from; PEAP with a verified
\* identity and the inner success, in a tunnel that is up.
KeyIsEarned ==
  msk # 0 =>
    IF method = "mschapv2" THEN <<"proved", msk>> \in earned
    ELSE established /\ {<<"verified", 0>>, <<"innerSuccess", 0>>} \subseteq earned

\* Close stops both goroutines of the engine, whatever they are doing.
EngineStops == stop ~> relay.at \in {"idle", "done"} /\ client.at \in {"idle", "over"}

\* eap_peer.go says of the worker that it "exits promptly" once the mailbox is closed.
WorkerExits == loop = "over" ~> worker = "done"
=============================================================================
