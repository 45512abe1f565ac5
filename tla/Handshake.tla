----------------------------- MODULE Handshake ------------------------------
(***************************************************************************)
(* The initiator's handshake actor (src/control/session.go runHandshake,   *)
(* exchange.go, sa_init.go, auth.go, eap_peer.go, child_sa.go) and the     *)
(* graceful close that uses the same exchange machinery (close.go), with a *)
(* responder across a network that loses, repeats and reorders packets.    *)
(*                                                                         *)
(* The network is what has ever been sent: any packet in it may arrive at  *)
(* any time, again or never.  A packet that does not parse, or that        *)
(* classifyResponse disposes of as stale or foreign, only restarts the     *)
(* timer.  Keys are the pair of key exchange values they were derived      *)
(* from; only the holder of the same pair can open a packet.               *)
(* Peap models what the EAP method does with a round; here it sends,       *)
(* completes or fails.                                                     *)
(***************************************************************************)
EXTENDS Fragments, Integers, FiniteSets

CONSTANTS MaxRetries,         \* Timeouts.MaxRetries
          MaxSAInitAttempts,  \* 3 in the code
          maxEAPRounds,       \* 64 in the code
          Totals,             \* numbers of fragments of a response, 0 for SK
          MaxAnswers          \* bound on the IKE_SA_INIT answers in the network

ASSUME HandshakeAssumption ==
  /\ MaxRetries \in Nat \ {0} /\ MaxSAInitAttempts \in Nat \ {0}
  /\ maxEAPRounds \in Nat \ {0} /\ MaxAnswers \in Nat /\ Totals \subseteq Nat

VARIABLES
  st,       \* State, the fields the handshake depends on
  at,       \* where the actor waits
  retries,  \* of the wait in progress
  round,    \* EapPeer.round
  packet,   \* the EAP packet handed to the method
  router,   \* whether the demux goroutine runs
  log,      \* stage and terminal events, in order
  sent,     \* every request (and CFG_ACK) the initiator has sent
  answers,  \* every IKE_SA_INIT answer of the responder
  reply,    \* the responder's answers to the requests 1, 2, ... of its IKE SA
  asks,     \* whether the responder has sent a request of its own
  read,     \* the last protected message the initiator has taken as complete
  restarts  \* how often a packet has restarted the timer of a wait, modulo 2

clientVars == <<st, at, retries, round, packet, router, log, read>>
serverVars == <<answers, reply, asks>>
vars == <<clientVars, sent, serverVars, restarts>>

NoKeys == <<>>
Nil == -1
Waits == {"recv", "final", "child", "ike"}
Phases == {"stopped", "saInitSent", "authEAP", "childInstalling", "running"}
InitKinds == {"cookie", "ke", "keOther", "reject", "init"}
AuthKinds == {"eap", "success", "reject", "authFailed"}
FinalKinds == {"reply", "set", "late", "badAuth", "reject", "authFailed"}
Stages == {"init", "ike", "auth", "eap", "child", "esp", "running", "broken", "stopped"}
NothingRead == [count |-> 0, id |-> 0, parts |-> <<>>, first |-> None]
Ids == 0 .. maxEAPRounds + 5

\* The zero state of State.Reset.
NoState ==
  [phase |-> "stopped", attempt |-> 0, cookie |-> FALSE, spiR |-> 0, ke |-> 0, request |-> 0,
   response |-> 0, keys |-> NoKeys, next |-> 0, expected |-> 0, has |-> FALSE, last |-> Nil,
   out |-> Nil, frags |-> NoBuffer, neg |-> FALSE, msk |-> FALSE, esp |-> FALSE,
   child |-> FALSE, suppress |-> FALSE]

State ==
  [phase : Phases, attempt : 0 .. MaxSAInitAttempts, cookie : BOOLEAN, spiR : 0 .. 2,
   ke : 0 .. MaxSAInitAttempts, request : 0 .. MaxSAInitAttempts, response : 0 .. MaxSAInitAttempts,
   keys : Seq(Nat), next : Ids, expected : Ids, has : BOOLEAN, last : Ids \cup {Nil},
   out : Ids \cup {Nil}, frags : Buffer, neg : BOOLEAN, msk : BOOLEAN, esp : BOOLEAN,
   child : BOOLEAN, suppress : BOOLEAN]

StateOK ==
  /\ st \in State
  /\ st.has => st.out \in {Nil, st.expected}
  /\ at \in {"idle", "saInit", "start", "method", "over", "closed"} \cup Waits
  /\ retries \in 0 .. MaxRetries /\ round \in 0 .. maxEAPRounds
  /\ packet \in {"none", "eap", "success"} /\ router \in BOOLEAN /\ asks \in BOOLEAN
  /\ log \in Seq(Stages)
  /\ read \in [count : Ids, id : Ids, parts : Seq(Seq(Nat)), first : {None, "EAP", "IDr"}]

TypeOK == StateOK /\ restarts \in {0, 1}

Init ==
  /\ st = NoState /\ at = "idle" /\ retries = 0 /\ round = 0 /\ packet = "none"
  /\ router = FALSE /\ log = <<>> /\ sent = {} /\ read = NothingRead
  /\ answers = {} /\ reply = <<>> /\ asks = FALSE /\ restarts = 0

-----------------------------------------------------------------------------
(* The responder and the network. *)

\* The SPI of the half-open SA that answered attempt a.
SpiOf(a) == (CHOOSE p \in answers : p.kind = "init" /\ p.sa = a).spi

\* A cookie is asked for while the request brings none; a retry answer has no
\* SPI or already has one; an SA that is set up has its own.  Answers that come
\* after the exchange are stale.
AnswerSAInit ==
  /\ at = "saInit" /\ Cardinality(answers) < MaxAnswers
  /\ \E r \in {q \in sent : q.id = 0}, kind \in InitKinds, spi \in 0 .. 2 :
       /\ kind = "cookie" => ~r.cookie
       /\ kind = "init" => spi # 0 /\ \A p \in answers : p.kind = "init" => p.spi # spi
       /\ kind \in {"keOther", "reject"} => spi = 0
       /\ answers' = answers \cup {[kind |-> kind, sa |-> r.attempt, spi |-> spi,
                                    id |-> 0, resp |-> TRUE]}
       /\ ~\E p \in answers : p.kind = "init" /\ kind = "init" /\ p.sa = r.attempt
  /\ UNCHANGED <<clientVars, sent, reply, asks>>

\* The responder answers the next request it can open; it repeats an earlier
\* answer for a repeated request.
AnswerProtected ==
  /\ \E r \in sent, kind \in AuthKinds \cup FinalKinds \cup {"deleted"} :
       /\ r.id = Len(reply) + 1 /\ r.what \notin {"failed", "ack"}
       /\ \E p \in answers : p.kind = "init" /\ r.keys = <<p.sa, p.sa>>
       /\ kind \in CASE r.what = "bootstrap" -> AuthKinds \ {"success"}
                     [] r.what = "eap" -> AuthKinds
                     [] r.what = "final" -> FinalKinds
                     [] OTHER -> {"deleted"}
       /\ reply' = Append(reply, [kind |-> kind, sa |-> r.keys[2]])
  /\ UNCHANGED <<clientVars, sent, answers, asks>>

\* Once it has set up the CHILD_SA the responder may start an exchange.
ResponderAsks ==
  /\ ~asks /\ \E i \in DOMAIN reply : reply[i].kind \in {"reply", "set"}
  /\ asks' = TRUE
  /\ UNCHANGED <<clientVars, sent, answers, reply>>

First(kind) == IF kind \in {"eap", "success"} THEN "EAP" ELSE "IDr"

\* A response as it travels: whole, or as fragment n of total.
Cut(i, total, n) ==
  [id |-> i, resp |-> TRUE, spi |-> SpiOf(reply[i].sa), skf |-> total # 0, n |-> n,
   ex |-> IF reply[i].kind = "deleted" THEN "INFORMATIONAL" ELSE "IKE_AUTH",
   total |-> total, first |-> IF n <= 1 THEN First(reply[i].kind) ELSE None,
   data |-> <<i, total, n>>]

Copies(i) == {Cut(i, 0, 0)} \cup UNION {{Cut(i, t, n) : n \in 1 .. t} : t \in Totals \ {0}}

Responses == UNION {Copies(i) : i \in DOMAIN reply}

\* A request of the responder; its flags are not those of a response.
OwnRequest == [id |-> 0, resp |-> FALSE, spi |-> st.spiR]

-----------------------------------------------------------------------------
(* Exchange mechanics. *)

\* classifyResponse, with the SPI and envelope checks of validateResponseHeader.
Disposition(p, msgID) ==
  IF st.spiR # 0 /\ p.spi # st.spiR THEN "ignore"
  ELSE IF ~p.resp THEN "error"
  ELSE IF p.id = msgID THEN "expected"
  ELSE IF p.id < msgID /\ p.id <= st.last THEN "stale" ELSE "error"

\* A request under the keys of s, its fragments taken as one.
Protected(s, id, what) ==
  [id |-> id, what |-> what, keys |-> s.keys, attempt |-> s.attempt, cookie |-> FALSE]

\* Variant: the counter is not advanced.
BeginRequest_Stays(s) ==
  [s EXCEPT !.expected = s.next, !.has = TRUE, !.out = s.next]

\* beginRequest, and the checkpoint that sendRequest stores.
BeginRequest(s) ==
  [s EXCEPT !.expected = s.next, !.has = TRUE, !.out = s.next, !.next = @ + 1]

Send(s, what) ==
  /\ st' = BeginRequest(s)
  /\ sent' = sent \cup {Protected(s, s.next, what)}
  /\ retries' = 0

\* Variant: the EAP key survives.
ClearSession_KeepsMSK(s) ==
  [s EXCEPT !.keys = NoKeys, !.cookie = FALSE, !.neg = FALSE, !.child = FALSE, !.out = Nil,
            !.frags = NoBuffer, !.ke = 0, !.request = 0, !.response = 0,
            !.has = FALSE, !.last = Nil, !.suppress = FALSE, !.phase = "stopped"]

\* ClearSession, after which the phase is Stopped.
ClearSession(s) ==
  [s EXCEPT !.keys = NoKeys, !.cookie = FALSE, !.neg = FALSE, !.child = FALSE, !.out = Nil,
            !.frags = NoBuffer, !.ke = 0, !.msk = FALSE, !.request = 0, !.response = 0,
            !.has = FALSE, !.last = Nil, !.suppress = FALSE, !.phase = "stopped"]

\* fail: an AUTHENTICATION_FAILED notify if there are keys and room in the
\* queue, then the state is wiped, Broken and Stopped follow and the router
\* ends.
Fail(s, packets, events) ==
  LET tells == s.spiR # 0 /\ s.keys # NoKeys /\ ~s.suppress
  IN /\ st' = ClearSession([s EXCEPT !.next = IF tells THEN @ + 1 ELSE @])
     /\ sent' \in {sent \cup packets} \cup
          (IF tells THEN {sent \cup packets \cup {Protected(s, s.next, "failed")}} ELSE {})
     /\ log' = log \o events \o <<"broken", "stopped">>
     /\ at' = "over" /\ router' = FALSE /\ retries' = 0 /\ packet' = "none"
     /\ UNCHANGED <<round, serverVars>>

Fails(s) == Fail(s, {}, <<>>)

\* An exchange of CloseExchange that fails leaves the session as it is.
CloseFails ==
  /\ at' = "closed" /\ retries' = 0
  /\ UNCHANGED <<st, round, packet, router, log, sent, read, serverVars>>

\* What an error means to the wait it ends.
GivesUp == IF at \in {"child", "ike"} THEN CloseFails ELSE Fails(st) /\ UNCHANGED read

\* Variant: the retransmissions are not counted.
Retransmit_Uncounted ==
  /\ at \in {"saInit"} \cup Waits
  /\ \/ /\ retries < MaxRetries
        /\ retries' = retries /\ st' = [st EXCEPT !.frags = NoBuffer]
        /\ UNCHANGED <<at, round, packet, router, log, sent, read, serverVars>>
     \/ retries >= MaxRetries /\ GivesUp

\* The timer: the checkpoint goes out again, from the same frames, and what was
\* collected of a fragmented response is dropped; after MaxRetries the wait
\* fails.
Retransmit ==
  /\ at \in {"saInit"} \cup Waits
  /\ \/ /\ retries < MaxRetries /\ st.out = st.expected
        /\ retries' = retries + 1 /\ st' = [st EXCEPT !.frags = NoBuffer]
        /\ UNCHANGED <<at, round, packet, router, log, sent, read, serverVars>>
     \/ (retries >= MaxRetries \/ st.out # st.expected) /\ GivesUp

\* A packet that is not IKE, does not parse, or is stale or foreign: the wait
\* goes on, with its timer restarted.
Discard ==
  /\ at \in {"saInit"} \cup Waits
  /\ UNCHANGED <<clientVars, sent, serverVars>>

\* The caller's context ends while the actor waits.
Canceled ==
  /\ at \in {"saInit", "method"} \cup Waits
  /\ GivesUp

\* A packet that is no response ends the wait.
ForeignFlags ==
  /\ at \in {"saInit"} \cup Waits /\ asks
  /\ Disposition(OwnRequest, st.expected) = "error"
  /\ GivesUp

-----------------------------------------------------------------------------
(* IKE_SA_INIT. *)

\* buildSAInitRequest: SPI and nonce are kept between attempts, the key
\* exchange is new in each.
SAInitRequest(s) ==
  LET a == s.attempt + 1
  IN [s EXCEPT !.attempt = a, !.ke = a, !.request = a, !.phase = "saInitSent", !.out = 0]

SendSAInit(s) ==
  /\ st' = SAInitRequest(s)
  /\ sent' = sent \cup {[id |-> 0, what |-> "init", keys |-> NoKeys,
                         attempt |-> s.attempt + 1, cookie |-> s.cookie]}
  /\ retries' = 0 /\ at' = "saInit"

\* Control.Run up to the first wait.
Run ==
  /\ at = "idle"
  /\ SendSAInit([NoState EXCEPT !.has = TRUE])
  /\ router' = TRUE /\ log' = <<"init">>
  /\ UNCHANGED <<round, packet, read, serverVars>>

\* What waitSAInitResponse, the checkpoint of the response and the SPI record
\* of validateResponseHeader leave behind.
Accepted(p) ==
  [st EXCEPT !.spiR = IF p.spi # 0 THEN p.spi ELSE @, !.response = p.sa, !.last = 0, !.out = Nil]

\* COOKIE, or INVALID_KE_PAYLOAD with the group we have: one more attempt, if
\* one is left.  Another group is in no proposal.
RetrySAInit ==
  /\ at = "saInit"
  /\ \E p \in answers :
       LET s == [Accepted(p) EXCEPT !.cookie = p.kind = "cookie"]
       IN /\ Disposition(p, 0) = "expected" /\ p.kind \in {"cookie", "ke"}
          /\ \/ /\ s.attempt < MaxSAInitAttempts
                /\ SendSAInit(s) /\ UNCHANGED <<round, packet, router, log, serverVars>>
             \/ s.attempt >= MaxSAInitAttempts /\ Fails(s)
  /\ UNCHANGED read

RejectedSAInit ==
  /\ at = "saInit"
  /\ \E p \in answers : /\ Disposition(p, 0) = "expected" /\ p.kind \in {"keOther", "reject"}
                        /\ Fails(Accepted(p))
  /\ UNCHANGED read

\* The complete response: deriveIKEKeys consumes the private key, and the
\* bootstrap IKE_AUTH request is message 1.  The other answers are stale from
\* here on and no longer kept.
SAInitEstablished ==
  /\ at = "saInit"
  /\ \E p \in answers :
       /\ Disposition(p, 0) = "expected" /\ p.kind = "init"
       /\ Send([Accepted(p) EXCEPT !.cookie = FALSE, !.keys = <<st.ke, p.sa>>, !.ke = 0,
                                   !.next = 1, !.neg = TRUE, !.phase = "authEAP"], "bootstrap")
       /\ answers' = {p}
  /\ at' = "start" /\ log' = log \o <<"ike", "auth", "eap">>
  /\ UNCHANGED <<round, packet, router, read, reply, asks>>

-----------------------------------------------------------------------------
(* IKE_AUTH with EAP. *)

\* EapPeer.start: the worker acknowledges Initialize before the first round.
StartEAP ==
  /\ at = "start"
  /\ \/ at' = "recv" /\ UNCHANGED <<st, retries, round, packet, router, log, sent, serverVars>>
     \/ Fails(st)
  /\ UNCHANGED read

\* recvProtectedPayloads on one expected response: a fragment that does not
\* complete the message starts a new wait, with all its retransmissions.
Incomplete ==
  /\ at \in Waits
  /\ \E p \in Responses, expired \in BOOLEAN :
       LET r == OpenProtectedRawState(st.frags, p, expired)
       IN /\ Disposition(p, st.expected) = "expected"
          /\ r.status = "more"
          /\ st' = [st EXCEPT !.frags = r.buf]
  /\ retries' = 0
  /\ UNCHANGED <<at, round, packet, router, log, sent, read, serverVars>>

\* The bookkeeping of a completed response.
Completed ==
  [st EXCEPT !.last = st.expected, !.has = FALSE, !.expected = 0, !.out = Nil, !.frags = NoBuffer]

\* The message that p completes, noted in read.
Completes(p) ==
  \E expired \in BOOLEAN :
    LET r == OpenProtectedRawState(st.frags, p, expired)
    IN /\ Disposition(p, st.expected) = "expected"
       /\ r.status = "complete"
       /\ read' = [count |-> read.count + 1, id |-> st.expected, parts |-> r.parts, first |-> r.first]

Message(p) == reply[p.id]

\* EapPeer.recv and handleAuthResponse: the EAP packet goes to the worker.
AuthResponse ==
  /\ at = "recv"
  /\ \E p \in Responses :
       /\ Completes(p)
       /\ \/ /\ Message(p).kind \in {"eap", "success"}
             /\ st' = Completed /\ packet' = Message(p).kind
             /\ round' = round + 1 /\ at' = "method" /\ retries' = 0
             /\ UNCHANGED <<router, log, sent, serverVars>>
          \/ /\ Message(p).kind \notin {"eap", "success"}
             /\ Fails([Completed EXCEPT !.suppress = Message(p).kind = "authFailed"])

\* The method answers the round: a response travels in the next IKE_AUTH
\* request, the end of the method gives the MSK and the final request.  After
\* maxEAPRounds the loop ends.
MethodSends ==
  /\ at = "method" /\ packet = "eap"
  /\ \/ /\ round < maxEAPRounds
        /\ Send(st, "eap") /\ at' = "recv" /\ packet' = "none"
        /\ UNCHANGED <<round, router, log, serverVars>>
     \/ /\ round >= maxEAPRounds
        /\ Fail(BeginRequest(st), {Protected(st, st.next, "eap")}, <<>>)
  /\ UNCHANGED read

MethodCompletes ==
  /\ at = "method" /\ packet = "success"
  /\ Send([st EXCEPT !.msk = TRUE, !.phase = "childInstalling"], "final")
  /\ at' = "final" /\ packet' = "none" /\ log' = Append(log, "child")
  /\ UNCHANGED <<round, router, read, serverVars>>

MethodFails ==
  /\ at = "method"
  /\ Fails(st) /\ UNCHANGED read

-----------------------------------------------------------------------------
(* The final IKE_AUTH response and the handoff. *)

\* Variant: the responder's AUTH is not compared.
VerifyPeerAuth_Skipped(m) == TRUE

\* verifyPeerAuth: the responder's AUTH is over the response that was stored and
\* keyed with the MSK.
VerifyPeerAuth(m) == m.kind # "badAuth" /\ m.sa = st.response /\ st.msk

\* processFinalAuth: the ESP selection is stored before the configuration and
\* the traffic selectors are looked at, and its event goes out even if they are
\* refused.
FinalAuthFails ==
  /\ at = "final"
  /\ \E p \in Responses :
       LET m == Message(p)
           s == [Completed EXCEPT !.suppress = m.kind = "authFailed"]
       IN /\ Completes(p)
          /\ \/ (m.kind \in {"reject", "authFailed"} \/ ~VerifyPeerAuth(m)) /\ Fails(s)
             \/ /\ m.kind = "late" /\ VerifyPeerAuth(m)
                /\ Fail([s EXCEPT !.esp = TRUE], {}, <<"esp">>)

\* A CFG_SET is acknowledged under the ID of the final request.
FinalAuth ==
  /\ at = "final"
  /\ \E p \in Responses :
       LET m == Message(p)
       IN /\ Completes(p) /\ m.kind \in {"reply", "set", "badAuth"} /\ VerifyPeerAuth(m)
          /\ sent' = sent \cup (IF m.kind = "set"
                                THEN {Protected(st, st.expected, "ack")} ELSE {})
  /\ st' = [Completed EXCEPT !.esp = TRUE, !.child = TRUE, !.neg = FALSE, !.phase = "running"]
  /\ log' = log \o <<"esp", "running">> /\ at' = "over" /\ retries' = 0
  /\ UNCHANGED <<round, packet, router, serverVars>>

-----------------------------------------------------------------------------
(* Closing an established session. *)

\* Control.Close: both DELETEs go out unanswered, then the state is wiped.
Close ==
  /\ at = "over" /\ st.phase = "running"
  /\ sent' = sent \cup {Protected(st, st.next, "child"), Protected(st, st.next + 1, "ike")}
  /\ st' = ClearSession([st EXCEPT !.next = @ + 2]) /\ at' = "closed"
  /\ UNCHANGED <<retries, round, packet, router, log, read, serverVars>>

\* CloseExchange: the CHILD_SA first, each DELETE in an exchange of its own.
CloseExchange ==
  /\ at = "over" /\ st.phase = "running"
  /\ Send(st, "child") /\ at' = "child"
  /\ UNCHANGED <<round, packet, router, log, read, serverVars>>

DeleteAnswered ==
  /\ \E p \in Responses : Completes(p)
  /\ \/ at = "child" /\ Send(Completed, "ike") /\ at' = "ike"
     \/ /\ at = "ike" /\ st' = ClearSession(Completed) /\ at' = "closed" /\ retries' = 0
        /\ UNCHANGED sent
  /\ UNCHANGED <<round, packet, router, log, serverVars>>

-----------------------------------------------------------------------------
Method == MethodSends \/ MethodCompletes \/ MethodFails

Client ==
  \/ Run \/ RetrySAInit \/ RejectedSAInit \/ SAInitEstablished \/ StartEAP
  \/ AuthResponse \/ Method \/ FinalAuthFails \/ FinalAuth
  \/ Retransmit \/ Canceled \/ ForeignFlags
  \/ Close \/ CloseExchange \/ DeleteAnswered

Responder == AnswerSAInit \/ AnswerProtected \/ ResponderAsks

\* A packet came that the wait outlives: the timer starts over.
Restarted == Incomplete \/ Discard

Next ==
  \/ Restarted /\ restarts' = 1 - restarts
  \/ (Client \/ Responder) /\ UNCHANGED restarts

Spec == Init /\ [][Next]_vars

\* Packets that restart the timer keep coming.
RestartsForever == []<><<restarts' # restarts>>_vars

\* The timer fires unless packets keep restarting it; the EAP worker starts and
\* answers.  Nothing is assumed of the network and the responder.
Fairness ==
  /\ RestartsForever \/ WF_vars(Retransmit /\ UNCHANGED restarts)
  /\ WF_vars(StartEAP /\ UNCHANGED restarts)
  /\ WF_vars(Method /\ UNCHANGED restarts)

FairSpec == Spec /\ Fairness

-----------------------------------------------------------------------------
\* Whatever is lost, repeated or late, the initiator takes the responder's
\* answers 1, 2, 3, ... each exactly once and in order: an old response never
\* passes for the answer to the request in flight (classifyResponse).  And each
\* is whole: it is made of all the fragments of one way to cut that answer, each
\* in its place, and is parsed from its own first payload, although copies cut
\* differently arrive interleaved (collectSKFragment).
AnswersInLockStep ==
  /\ read.id = read.count
  /\ read.count > 0 =>
       LET total == read.parts[1][2]
       IN /\ read.parts = IF total = 0 THEN <<<<read.count, 0, 0>>>>
                          ELSE [n \in 1 .. total |-> <<read.count, total, n>>]
          /\ read.first = First(reply[read.count].kind)

\* No two different requests go out under one message ID of the IKE SA, the
\* failure notify and the DELETEs included (beginRequest, buildAuthFailedNotify,
\* Close).
IdsUsedOnce ==
  \A q, r \in sent : q.id = r.id /\ q.id > 0 /\ "ack" \notin {q.what, r.what} => q = r

\* A session is handed over only if the responder has accepted it as well: both
\* hold the keys of the same key exchange, the responder has seen the request
\* our AUTH signs, and its AUTH was good (processFinalAuth and the handoff).
\* (The variables keep their types.)
EstablishedIsMutual ==
  /\ TypeOK
  /\ at = "over" /\ st.phase = "running" =>
       /\ reply[Len(reply)].kind \in {"reply", "set"}
       /\ st.keys = <<st.request, st.response>> /\ st.request = st.response
       /\ st.msk /\ st.child /\ st.frags = NoBuffer /\ ~st.has /\ router

\* A failed handshake leaves no secrets, no pending request and no router, has
\* reported Broken and then Stopped as its last events, and does not answer the
\* responder's AUTHENTICATION_FAILED with one of its own (fail).
FailureIsClean ==
  at \in {"over", "closed"} /\ st.phase = "stopped" =>
    /\ st.keys = NoKeys /\ ~st.msk /\ st.ke = 0 /\ st.frags = NoBuffer /\ ~st.has /\ st.out = Nil
    /\ at = "over" => ~router /\ SubSeq(log, Len(log) - 1, Len(log)) = <<"broken", "stopped">>
    /\ (\E r \in sent : r.what = "failed") =>
         read.count = 0 \/ reply[read.id].kind # "authFailed"

\* Every handshake and every graceful close ends, however much is lost, unless
\* packets keep restarting the timer of a wait: each stale, foreign or
\* unparseable one does (waitResponse, waitResponseRaw, waitSAInitResponse), and
\* each part of a fragmented response grants a new set of retransmissions.
EndsUnlessPacketsKeepComing ==
  \/ RestartsForever
  \/ (at # "idle") ~> (at \in {"over", "closed"})
=============================================================================
