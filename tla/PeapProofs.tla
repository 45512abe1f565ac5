----------------------------- MODULE PeapProofs -----------------------------
(***************************************************************************)
(* Safety of the EAP peer for every TLS client, fragment size, number of   *)
(* messages and challenges, and for every schedule of the goroutines.      *)
(***************************************************************************)
EXTENDS Peap, Integers, TLAPS

USE Zenon

-----------------------------------------------------------------------------
(* The inductive invariant.  The first parts are about the engine. *)

\* What a call of the worker may be doing; only the worker closes the engine.
CallInv ==
  /\ call.op = "none" <=> call.at = "idle"
  /\ call.op = "none" => call = NoCall
  /\ call.op = "start" => call.at \in {"collect", "return"}
  /\ call.op = "feed" => call.at \in {"send", "collect", "return"}
  /\ call.op = "unprotect" => call.at \in {"send", "read", "return"}
  /\ call.op = "protect" => call.at \in {"write", "collect", "return"}
  /\ call.op = "close" => call.at \in {"wait", "return"}
  /\ call.got => call.out # <<>> /\ call.op # "unprotect"
  /\ call.at \in {"write", "read"} => call.out = <<>>
  /\ call.at = "send" => ~call.got
  /\ call.result = "plain" => call.op = "unprotect"
  /\ call.op \in {"unprotect", "protect"} => call.result # "error"
  /\ call.result = "established" => established
  /\ stop <=> call.op = "close"

\* The phase of the method that makes the call.
Inside == {"InnerMethod", "AwaitingOuterSuccess", "AwaitingOuterFailure", "Completed"}

PhaseInv ==
  /\ phase = "OuterIdentity" => client.at = "idle"
  /\ call.op \in {"start", "feed"} => phase = "TLSTunnel"
  /\ call.op \in {"unprotect", "protect"} => phase = "InnerMethod"
  /\ call.op = "close" => phase = "Failed"
  /\ phase = "TLSTunnel" => client.at # "idle"
  /\ phase \in Inside => established

Past == {"wait", "store", "publish", "over"}

\* The TLS client: its script, and the barrier it waits for after it.
ClientInv ==
  /\ client.at = "writing" => client.pos <= Len(script) /\ script[client.pos] = "w"
  /\ client.at = "reading" => client.pos <= Len(script) /\ script[client.pos] = "r"
  /\ client.at \in {"idle", "run", "writing", "reading"} => client.ok
  /\ client.at \in {"flush"} \cup Past /\ client.ok => client.pos = Len(script) + 1
  /\ established => client.ok
  /\ client.at \in {"publish", "over"} => established = client.ok
  /\ established => client.at \in {"publish", "over"}
  /\ handshakeDone # "none" => client.at = "over" /\ (handshakeDone = "ok" <=> client.ok)
  /\ flushReq \/ flushed \/ relay.at \in {"flushRead", "flushSend"} => client.at \in Past

\* An engine that has not been launched.
IdleInv ==
  /\ relay.at = "idle" <=> client.at = "idle"
  /\ client.at = "idle" =>
       /\ wrote = 0 /\ pending = <<>> /\ inbound = <<>> /\ outbound = <<>>
       /\ client.pos = 1 /\ client.sent = 0
       /\ call.op \in {"none", "close"}

\* Chunks are counted, and the handshake's come first.
CountInv ==
  /\ wrote >= client.sent
  /\ phase = "TLSTunnel" => wrote = client.sent

\* The relay.  It keeps a chunk in pending only while it serves the barrier, and
\* then one that Protect has written.
RelayInv ==
  /\ relay.at = "put" => relay.held = wrote
  /\ relay.at = "write" => inbound # <<>>
  /\ relay.at = "done" => stop
  /\ pending # <<>> =>
       /\ relay.at \in {"flushRead", "flushSend"} /\ pending = <<wrote>>
       /\ established /\ wrote > client.sent
       /\ ~(call.op = "protect" /\ call.at = "write")
       /\ ~(call.op = "unprotect" /\ call.at = "return" /\ call.out # <<>>)

\* Chunks on their way to the worker: at most the handshake's, one for each
\* window that ended early and the one of the Protect in progress.
InProgress == IF call.op = "protect" /\ call.at = "collect" THEN 1 ELSE 0
OnTheWay == Len(outbound) + Len(pending) + Len(InHand)
BacklogInv ==
  /\ OnTheWay + 1 <= client.pos + early + InProgress
  /\ call.op = "protect" /\ call.at = "collect" => OnTheWay + Len(call.out) > 0
  /\ call.op = "protect" /\ call.at = "return" /\ early = 0 => call.out # <<>>

\* Past the barrier, the relay holds no chunk of the handshake.
BarrierInv ==
  ~stop /\ client.ok /\ (client.at \in {"store", "publish", "over"} \/ (client.at = "wait" /\ flushed))
    => (relay.at = "put" => wrote > client.sent)

\* The completion of the handshake is taken by the call that ends with it.
Consumed == client.at = "over" /\ handshakeDone = "none"
ConsumedInv ==
  Consumed =>
    /\ call.op \in {"start", "feed"} => call.at = "return" /\ call.result # "none"
    /\ call.op = "none" /\ phase = "TLSTunnel" => established

\* As long as no window ends early, nothing is under way between two calls, and
\* a record is the only one and finds the client reading.
Still == outbound = <<>> /\ pending = <<>> /\ relay.at \notin {"put", "idle", "done"}
Settled == Still /\ inbound = <<>> /\ (client.at = "reading" \/ Consumed)

SettledInv ==
  early = 0 /\ phase \notin {"OuterIdentity", "Failed"} =>
    /\ call.op = "none" \/ call.at \in {"send", "write"} => Settled
    /\ call.at = "return" /\ call.result # "error" => Settled
    /\ call.at = "read" => Still /\ Len(inbound) = 1
    /\ call.at = "collect" /\ inbound # <<>> =>
         call.op = "feed" /\ Still /\ Len(inbound) = 1 /\ client.at = "reading"
    /\ phase # "TLSTunnel" => Consumed

-----------------------------------------------------------------------------
(* The method. *)

\* Whose turn it is.
TurnInv ==
  /\ worker = "engine" <=> call.op \notin {"none", "close"}
  /\ worker = "closing" => call.op = "close"
  /\ call.op = "close" => worker \in {"closing", "done"}
  /\ loop = "recv" => worker = "idle"
  /\ loop = "reply" => worker \in {"handle", "engine"}
  /\ worker \in {"handle", "engine"} <=> packet.kind # "none"
  /\ worker \in {"closing", "done"} => loop = "over" /\ phase = "Failed"
  /\ worker = "engine" => rest = <<>>
  /\ worker \in {"handle", "engine"} \/ loop # "over" =>
       messages <= MaxMessageCount /\ phase \notin {"Failed", "Completed"}

\* By itself, MSCHAPv2 has no engine.
OuterInv ==
  method = "mschapv2" =>
    /\ phase \in {"OuterIdentity", "Failed"} /\ client.at = "idle" /\ call.op = "none"
    /\ packet.kind # "tls"

\* Inbound: what has been joined of the message the server is sending.
Messages == {Whole(b) : b \in Bodies}
Joined(b, n) == in.got = SubSeq(Whole(b), 1, n) /\ (n = 0 => in = NoParts) /\ (n > 0 => in.open)

JoinInv ==
  /\ \A i \in 1 .. Len(inbound) : inbound[i] \in Messages
  /\ call.at = "send" => call.out \in Messages
  /\ worker = "handle" /\ packet.kind = "tls" /\ Push(in, packet.frag).result # "error" =>
       \E b \in Bodies : \E n \in 0 .. Size(b) - 1 : \E k \in 1 .. Size(b) - n :
         /\ packet.frag.data = SubSeq(Whole(b), n + 1, n + k)
         /\ packet.frag.M = (n + k < Size(b))
         /\ Joined(b, n)
         /\ server = [body |-> b, sent |-> IF packet.frag.M THEN n + k ELSE 0]
  /\ loop # "over" /\ ~(worker = "handle" /\ packet.kind = "tls") =>
       Joined(server.body, server.sent) /\ server.sent < Size(server.body)

\* Outbound: the server expects just what the fragmenter still has.
PeerInv ==
  /\ peer.result = "error" => early # 0 /\ IncludeLength /\ peer.in = NoParts
  /\ loop # "over" =>
       IF rest = <<>> THEN peer.in = NoParts
       ELSE peer.in.open /\ peer.in.expected = Len(peer.in.got) + Len(rest)

\* What has to happen before a key.
EarnedInv ==
  /\ method = "peap" /\ phase \in Inside => <<"verified", 0>> \in earned
  /\ method = "peap" /\ phase \in {"AwaitingOuterSuccess", "Completed"} => <<"innerSuccess", 0>> \in earned
  /\ call.op = "protect" /\ after = "AwaitingOuterSuccess" => <<"innerSuccess", 0>> \in earned
  /\ call.op = "protect" => after \in Inside \ {"Completed"}
  /\ method = "peap" /\ msk # 0 => phase = "Completed"
  /\ method = "mschapv2" /\ inner.chal # 0 /\ ~inner.expecting => <<"proved", inner.chal>> \in earned
  /\ method = "mschapv2" /\ msk # 0 => <<"proved", msk>> \in earned

\* The stream: delivered, waiting in the fragmenter, in the call, in the queue,
\* in pending and in the relay's hand.
Stream(d, r, c, o, p, h, w) ==
  /\ Continues(d, 0) /\ Continues(r, Len(d))
  /\ Continues(c, Len(d) + Len(r)) /\ Continues(o, Len(d) + Len(r) + Len(c))
  /\ Continues(p, Len(d) + Len(r) + Len(c) + Len(o))
  /\ Continues(h, Len(d) + Len(r) + Len(c) + Len(o) + Len(p))
  /\ w = Len(d) + Len(r) + Len(c) + Len(o) + Len(p) + Len(h)

StreamInv == Running => Stream(delivered, rest, InCall, outbound, pending, InHand, wrote)

EngineInv ==
  /\ EngineTypeOK /\ CallInv /\ PhaseInv /\ ClientInv /\ IdleInv /\ CountInv /\ RelayInv
  /\ BacklogInv /\ BarrierInv /\ ConsumedInv /\ SettledInv

MethodInv == TurnInv /\ OuterInv /\ JoinInv /\ PeerInv /\ EarnedInv

IInv == TypeOK /\ EngineInv /\ StreamInv /\ MethodInv

-----------------------------------------------------------------------------
(* Sequences and their parts. *)

LEMMA NonEmpty ==
  ASSUME NEW S, NEW s \in Seq(S)
  PROVE  s # <<>> => Len(s) \in Nat \ {0}
  BY SMT

LEMMA NoPart ==
  ASSUME NEW w
  PROVE  SubSeq(w, 1, 0) = <<>>
  BY SMT

-----------------------------------------------------------------------------
(* The goroutine of launch. *)

\* The types of the engine, field by field.
EngineFields ==
  /\ script \in Seq({"w", "r"}) /\ Len(script) \in Nat /\ script \in Scripts
  /\ client.at \in {"idle", "run", "writing", "reading", "flush", "wait", "store", "publish", "over"}
  /\ client.pos \in 1 .. Len(script) + 1 /\ client.pos \in Nat /\ client.ok \in BOOLEAN
  /\ client.sent \in Nat
  /\ relay.at \in {"idle", "top", "write", "readPeer", "put", "flushRead", "flushSend", "done"}
  /\ relay.held \in Nat /\ early \in Nat /\ wrote \in Nat
  /\ call.op \in Ops /\ call.got \in BOOLEAN
  /\ call.at \in {"idle", "send", "collect", "write", "read", "wait", "return"}
  /\ call.result \in {"none", "established", "error", "plain"}
  /\ outbound \in Seq(Nat) /\ Len(outbound) \in Nat
  /\ pending \in Seq(Nat) /\ Len(pending) \in Nat
  /\ inbound \in Seq(Seq(Unit)) /\ Len(inbound) \in Nat

LEMMA EngineTypes ==
  ASSUME EngineTypeOK
  PROVE  EngineFields
<1>1. Len(script) \in Nat /\ script \in Seq({"w", "r"})
  BY EngineAssumption, SMTT(30) DEF EngineTypeOK
<1>2. client.pos \in 1 .. Len(script) + 1 /\ early \in 0 .. MaxEarly
  BY DEF EngineTypeOK
<1>3. client.pos \in Nat /\ early \in Nat
  BY <1>1, <1>2, SMTT(30)
<1>4. Len(outbound) \in Nat /\ Len(pending) \in Nat /\ Len(inbound) \in Nat
  BY SMTT(30) DEF EngineTypeOK
<1>. QED  BY <1>1, <1>2, <1>3, <1>4, ZenonT(60) DEF EngineFields, EngineTypeOK

ClientAts == {"idle", "run", "writing", "reading", "flush", "wait", "store", "publish", "over"}
RelayAts  == {"idle", "top", "write", "readPeer", "put", "flushRead", "flushSend", "done"}
CallAts   == {"idle", "send", "collect", "write", "read", "wait", "return"}
CallResults == {"none", "established", "error", "plain"}

\* The types, variable by variable.
ClientT == client \in [at : ClientAts, pos : 1 .. Len(script) + 1, ok : BOOLEAN, sent : Nat]
RelayT  == relay \in [at : RelayAts, held : Nat]
CallT   == /\ call.out \in IF call.op = "unprotect" \/ call.at = "send" THEN Seq(Unit) ELSE Seq(Nat)
           /\ call \in [op : Ops, at : CallAts, out : {call.out}, got : BOOLEAN, result : CallResults]
OutT    == /\ pending \in Seq(Nat) /\ Len(pending) <= PendingCap
           /\ outbound \in Seq(Nat) /\ Len(outbound) <= OutboundCap
InT     == inbound \in Seq(Seq(Unit)) /\ Len(inbound) <= InboundCap
FlagsT  == /\ flushReq \in BOOLEAN /\ flushed \in BOOLEAN /\ handshakeDone \in {"none", "ok", "failed"}
           /\ established \in BOOLEAN
RestT   == early \in 0 .. MaxEarly /\ script \in Scripts /\ wrote \in Nat /\ wg \in Nat /\ stop \in BOOLEAN

LEMMA EngineTypeParts ==
  EngineTypeOK <=> ClientT /\ RelayT /\ CallT /\ OutT /\ InT /\ FlagsT /\ RestT
  BY ZenonT(60) DEF EngineTypeOK, ClientT, RelayT, CallT, OutT, InT, FlagsT, RestT, ClientAts, RelayAts,
     CallAts, CallResults

\* The same, primed.
LEMMA EngineTypePartsNext ==
  ASSUME ClientT', RelayT', CallT', OutT', InT', FlagsT', RestT'
  PROVE  EngineTypeOK'
  BY EngineTypeParts, PTL

ClientRest == UNCHANGED <<early, script, wrote, relay, pending, inbound, outbound, stop, wg, call>>

-----------------------------------------------------------------------------
(* The relay. *)

\* At the top of its loop the relay has nothing pending to send.
TopStep ==
  /\ outbound' = outbound /\ pending' = <<>> /\ pending = <<>> /\ relay.at = "top"
  /\ UNCHANGED <<early, script, client, wrote, inbound, flushed, handshakeDone, established,
                 stop, wg, call>>
  /\ \E to \in {"done", "write", "flushRead", "readPeer"} :
       /\ relay' = [relay EXCEPT !.at = to]
       /\ to = "done" => stop /\ flushReq' = flushReq
       /\ to = "write" => inbound # <<>> /\ flushReq' = flushReq
       /\ to = "flushRead" => flushReq /\ flushReq' = FALSE
       /\ to = "readPeer" => flushReq' = flushReq

LEMMA TopFields ==
  ASSUME EngineInv, RelayTop
  PROVE  TopStep
<1>   relay.at = "top" /\ pending = <<>>
  BY DEF EngineInv, RelayTop, RelayInv
<1>   UNCHANGED <<early, script, client, wrote, inbound, flushed, handshakeDone, established, stop, wg, call>>
  BY DEF RelayTop
<1>3. CASE stop /\ relay' = [relay EXCEPT !.at = "done"] /\ UNCHANGED <<pending, outbound, flushReq>>
  BY <1>3 DEF TopStep
<1>4. CASE inbound # <<>> /\ relay' = [relay EXCEPT !.at = "write"] /\ UNCHANGED <<pending, outbound, flushReq>>
  BY <1>4 DEF TopStep
<1>5. CASE /\ LET n == IF Len(pending) <= Room THEN Len(pending) ELSE Room
              IN  /\ outbound' = outbound \o SubSeq(pending, 1, n)
                  /\ pending' = SubSeq(pending, n + 1, Len(pending))
           /\ IF pending' = <<>> /\ flushReq
              THEN relay' = [relay EXCEPT !.at = "flushRead"] /\ flushReq' = FALSE
              ELSE relay' = [relay EXCEPT !.at = "readPeer"] /\ UNCHANGED flushReq
  <2>1. Len(pending) = 0 /\ 0 <= Room
    <3>1. Len(outbound) <= OutboundCap /\ Len(outbound) \in Nat /\ OutboundCap \in Nat
      BY EngineTypes, EngineAssumption DEF EngineFields, EngineInv, EngineTypeOK
    <3>. QED  BY <3>1, SMTT(30) DEF Room
  <2>2. outbound' = outbound \o SubSeq(pending, 1, 0) /\ pending' = SubSeq(pending, 0 + 1, 0)
    BY <1>5, <2>1
  <2>3. outbound \in Seq(Nat)
    BY DEF EngineInv, EngineTypeOK
  <2>4. outbound' = outbound /\ pending' = <<>>
    BY <2>2, <2>3, SMTT(30)
  <2>. QED  BY <1>5, <2>4 DEF TopStep
<1>. QED  BY <1>3, <1>4, <1>5 DEF TopStep, RelayTop

\* Which call is where.
LEMMA CallShape ==
  ASSUME EngineInv
  PROVE  /\ call.at = "read" => call.op = "unprotect"
         /\ call.at = "write" => call.op = "protect"
         /\ call.at = "send" => call.op \in {"feed", "unprotect"}
         /\ call.at = "collect" => call.op \in {"start", "feed", "protect"}
         /\ call.at = "return" => call.op # "none"
<1>1. call.op \in Ops
  BY EngineTypes DEF EngineFields, EngineInv
<1>. QED  BY <1>1 DEF EngineInv, CallInv, Ops

\* The queue is never full when the relay has a chunk for it.
LEMMA RoomLeft ==
  EngineInv =>
    /\ Room \in Int /\ Room = OutboundCap - Len(outbound)
    /\ relay.at = "put" => Room > 0
    /\ stop => Len(pending) <= Room
<1>RoomArithmetic.
  ASSUME NEW o \in Nat, NEW p \in Nat, NEW h \in {0, 1}, NEW n \in Nat, NEW pos \in 1 .. n + 1,
         NEW max \in Nat, NEW e \in 0 .. max, NEW i \in {0, 1}, NEW cap \in Nat,
         o + p + h + 1 <= pos + e + i, n + max < cap
  PROVE  /\ cap - o \in Int
         /\ h = 1 => cap - o > 0
         /\ i = 0 => p <= cap - o
    BY <1>RoomArithmetic, SMT

<1>1.
  ASSUME EngineInv
  PROVE  /\ Room \in Int /\ Room = OutboundCap - Len(outbound)
         /\ relay.at = "put" => Room > 0
         /\ stop => Len(pending) <= Room
  <2> USE <1>1
  <2>1. /\ script \in Scripts /\ Len(script) \in Nat /\ early \in 0 .. MaxEarly
        /\ client.pos \in 1 .. Len(script) + 1
        /\ Len(outbound) \in Nat /\ Len(pending) \in Nat
    BY EngineTypes DEF EngineFields, EngineInv, EngineTypeOK
  <2>2. Len(script) + MaxEarly < OutboundCap /\ OutboundCap \in Nat /\ MaxEarly \in Nat
    BY <2>1, QueueAssumption, EngineAssumption
  <2>3. OnTheWay + 1 <= client.pos + early + InProgress
    BY DEF EngineInv, BacklogInv
  <2>4. /\ InProgress \in {0, 1} /\ (stop => InProgress = 0)
        /\ Len(InHand) \in {0, 1} /\ (relay.at = "put" => Len(InHand) = 1)
    <3>1. Len(<<>>) = 0 /\ Len(<<relay.held>>) = 1
      BY SMTT(30)
    <3>. QED  BY <3>1 DEF InProgress, InHand, EngineInv, CallInv
  <2>5. Room = OutboundCap - Len(outbound)
    BY DEF Room
  <2>6. OnTheWay = Len(outbound) + Len(pending) + Len(InHand)
    BY DEF OnTheWay
  <2>7. Len(outbound) + Len(pending) + Len(InHand) + 1 <= client.pos + early + InProgress
    BY <2>3, <2>6
  <2>8. PICK o, p, h, n, pos, e, i :
          /\ o = Len(outbound) /\ p = Len(pending) /\ h = Len(InHand) /\ n = Len(script)
          /\ pos = client.pos /\ e = early /\ i = InProgress
    OBVIOUS
  <2>9. /\ o \in Nat /\ p \in Nat /\ h \in {0, 1} /\ n \in Nat /\ pos \in 1 .. n + 1
        /\ e \in 0 .. MaxEarly /\ i \in {0, 1} /\ o + p + h + 1 <= pos + e + i
        /\ n + MaxEarly < OutboundCap
    BY <2>1, <2>2, <2>4, <2>7, <2>8
  <2>10. /\ OutboundCap - o \in Int
         /\ h = 1 => OutboundCap - o > 0
         /\ i = 0 => p <= OutboundCap - o
    BY <2>2, <2>9, <1>RoomArithmetic, ZenonT(60)
  <2>. QED  BY <2>4, <2>5, <2>8, <2>10
<1>. QED  BY <1>1

-----------------------------------------------------------------------------
(* The calls of the worker. *)

\* Every step of the engine preserves what is known of it.
LEMMA EngineStepInv ==
  EngineInv /\ UNCHANGED phase /\ (ClientStep \/ RelayStep \/ CallStep) => EngineInv'
\* A client that has moved keeps its type.
<1>ClientTyped.
  ASSUME EngineTypeOK, NEW to \in ClientAts, NEW n \in 1 .. Len(script) + 1, NEW b,
         b = TRUE \/ b = FALSE \/ b = client.ok,
         client' = [client EXCEPT !.at = to, !.pos = n, !.ok = b], script' = script
  PROVE  /\ ClientT' /\ client'.at = to /\ client'.pos = n /\ client'.ok = b
         /\ client'.sent = client.sent
  <2> USE <1>ClientTyped
  <2>1. b \in BOOLEAN
    BY DEF EngineTypeOK
  <2>. QED  BY <2>1 DEF EngineTypeOK, ClientT, ClientAts

\* What a step of the goroutine leaves as it is.
<1>ClientFrame.
  ASSUME EngineInv, UNCHANGED phase, ClientRest, client.at # "idle", client'.at # "idle",
         client'.pos = client.pos, client'.sent = client.sent,
         \/ established' = established
         \/ established' /\ ~established
         \/ client.at = "store"
  PROVE  /\ RelayT' /\ CallT' /\ OutT' /\ InT' /\ RestT'
         /\ CallInv' /\ PhaseInv' /\ IdleInv' /\ CountInv' /\ RelayInv' /\ BacklogInv'
  <2> USE <1>ClientFrame
  <2>1. established => established'
    BY DEF EngineInv, ClientInv
  <2>2. RelayT' /\ CallT' /\ OutT' /\ InT' /\ RestT'
    BY EngineTypeParts DEF EngineInv, RelayT, CallT, OutT, InT, RestT, ClientRest
  <2>3. CallInv' /\ PhaseInv'
    BY <2>1 DEF EngineInv, CallInv, PhaseInv, ClientRest
  <2>4. IdleInv'
    BY DEF EngineInv, IdleInv, ClientRest
  <2>5. CountInv'
    BY DEF EngineInv, CountInv, ClientRest
  <2>6. RelayInv' /\ BacklogInv'
    BY <2>1 DEF EngineInv, RelayInv, ClientRest, BacklogInv,
       OnTheWay, InProgress, InHand
  <2>. QED  BY <2>2, <2>3, <2>4, <2>5, <2>6

<1>ClientStepsInv.
  ASSUME EngineInv, UNCHANGED phase, ClientSteps
  PROVE  EngineInv'
  <2> USE <1>ClientStepsInv
  <2>   EngineTypeOK
    BY DEF EngineInv
  <2>2. PICK to \in {"flush", "writing", "reading"} :
          /\ client' = [client EXCEPT !.at = to]
          /\ to = "flush" => client.pos > Len(script)
          /\ to = "writing" => client.pos <= Len(script) /\ script[client.pos] = "w"
          /\ to = "reading" => client.pos <= Len(script) /\ script[client.pos] = "r"
    <3>0. /\ Len(script) \in Nat /\ client.pos \in Nat
          /\ client.pos <= Len(script) => script[client.pos] \in {"w", "r"}
      BY EngineTypes, SMTT(30) DEF EngineFields
    <3>1. CASE client.pos > Len(script)
      <4>1. ~(client.pos <= Len(script))
        BY <3>0, <3>1, SMTT(30)
      <4>. QED  BY <4>1, <3>1 DEF ClientSteps
    <3>2. CASE client.pos <= Len(script) /\ script[client.pos] = "w"
      <4>1. ~(client.pos > Len(script))
        BY <3>0, <3>2, SMTT(30)
      <4>. QED  BY <4>1, <3>2 DEF ClientSteps
    <3>3. CASE client.pos <= Len(script) /\ script[client.pos] = "r"
      <4>1. ~(client.pos > Len(script))
        BY <3>0, <3>3, SMTT(30)
      <4>. QED  BY <4>1, <3>3 DEF ClientSteps
    <3>. QED  BY <3>0, <3>1, <3>2, <3>3, SMTT(30)
  <2>   /\ client.at = "run" /\ client'.at = to /\ client'.pos = client.pos /\ client'.ok = client.ok
        /\ client'.sent = client.sent
        /\ ClientRest /\ UNCHANGED <<flushReq, flushed, handshakeDone, established>>
    BY <2>2 DEF EngineTypeOK, ClientSteps, ClientRest
  <2>4. EngineTypeOK'
    <3>0. to \in ClientAts /\ client.pos \in 1 .. Len(script) + 1
      BY <2>2 DEF ClientAts, EngineTypeOK
    <3>1. client' = [client EXCEPT !.at = to, !.pos = client.pos, !.ok = client.ok]
      BY <2>2 DEF EngineTypeOK
    <3>2. ClientT'
      BY <3>0, <3>1, <1>ClientTyped DEF ClientRest
    <3>3. FlagsT'
      BY EngineTypeParts DEF FlagsT, ClientT
    <3>. QED  BY <3>2, <3>3, <1>ClientFrame, EngineTypePartsNext
  <2>5. ClientInv'
    BY <2>2, EngineTypes, SMTT(30) DEF EngineFields, EngineInv, ClientInv, CallInv, ClientRest, Past
  <2>6. BarrierInv'
    BY <2>2 DEF EngineInv, BarrierInv, ClientInv, ClientRest, Past
  <2>7. ConsumedInv'
    BY <2>2 DEF EngineInv, ConsumedInv, Consumed, ClientRest
  <2>8. SettledInv'
    BY <2>2, EngineTypes, ZenonT(60)
       DEF EngineFields, EngineInv, SettledInv, Settled, Still, Consumed, ClientRest, CallInv, PhaseInv
  <2>. QED  BY <2>4, <2>5, <2>6, <2>7, <2>8, <1>ClientFrame DEF EngineInv

\* The client ends when the pipe is closed under it.
<1>ClientFailsInv.
  ASSUME EngineInv, UNCHANGED phase, ClientFails
  PROVE  EngineInv'
  <2> USE <1>ClientFailsInv
  <2>   EngineTypeOK
    BY DEF EngineInv
  <2>   client' = [client EXCEPT !.at = "flush", !.ok = FALSE]
    BY DEF ClientFails
  <2>   /\ client.at \in {"writing", "reading"} /\ stop
        /\ client'.at = "flush" /\ client'.pos = client.pos /\ client'.ok = FALSE
        /\ client'.sent = client.sent
        /\ ClientRest /\ UNCHANGED <<flushReq, flushed, handshakeDone, established>>
    BY DEF EngineTypeOK, ClientFails, ClientRest, EngineInv, ClientInv
  <2>4. EngineTypeOK'
    <3>1. client' = [client EXCEPT !.at = "flush", !.pos = client.pos, !.ok = FALSE]
      BY DEF EngineTypeOK
    <3>2. ClientT'
      BY <3>1, <1>ClientTyped DEF EngineTypeOK, ClientRest, ClientAts
    <3>3. FlagsT'
      BY EngineTypeParts DEF FlagsT, ClientT
    <3>. QED  BY <3>2, <3>3, <1>ClientFrame, EngineTypePartsNext
  <2>5. ClientInv'
    BY EngineTypes DEF EngineFields, EngineInv, ClientInv, CallInv, ClientRest, Past
  <2>6. BarrierInv'
    BY DEF EngineInv, BarrierInv, ClientInv, ClientRest, Past
  <2>7. ConsumedInv'
    BY DEF EngineInv, ConsumedInv, Consumed, ClientRest
  <2>8. SettledInv'
    BY EngineTypes, ZenonT(60)
       DEF EngineFields, EngineInv, SettledInv, Settled, Still, Consumed, ClientRest, CallInv, PhaseInv
  <2>. QED  BY <2>4, <2>5, <2>6, <2>7, <2>8, <1>ClientFrame DEF EngineInv

\* The barrier lets the client pass.
<1>FlushDoneInv.
  ASSUME EngineInv, UNCHANGED phase, FlushDone
  PROVE  EngineInv'
  <2> USE <1>FlushDoneInv
  <2>   EngineTypeOK
    BY DEF EngineInv
  <2>   client' = [client EXCEPT !.at = "store"]
    BY DEF FlushDone
  <2>3. /\ client.at = "wait" /\ (flushed \/ stop \/ relay.at \in {"write", "done"})
        /\ client'.at = "store" /\ client'.pos = client.pos /\ client'.ok = client.ok
        /\ client'.sent = client.sent
        /\ ClientRest /\ UNCHANGED <<flushReq, flushed, handshakeDone, established>>
    BY DEF EngineTypeOK, FlushDone, ClientRest, EngineInv, ClientInv
  <2>4. EngineTypeOK'
    <3>1. client' = [client EXCEPT !.at = "store", !.pos = client.pos, !.ok = client.ok]
      BY DEF EngineTypeOK
    <3>2. ClientT'
      BY <2>3, <3>1, <1>ClientTyped DEF EngineTypeOK, ClientRest, ClientAts
    <3>3. FlagsT'
      BY <2>3, EngineTypeParts DEF FlagsT, ClientT
    <3>. QED  BY <2>3, <3>2, <3>3, <1>ClientFrame, EngineTypePartsNext
  <2>5. ClientInv'
    BY <2>3, EngineTypes DEF EngineFields, EngineInv, ClientInv, CallInv, ClientRest, Past
  <2>6. BarrierInv'
    BY <2>3 DEF EngineInv, BarrierInv, ClientInv, ClientRest, Past
  <2>7. ConsumedInv'
    BY <2>3 DEF EngineInv, ConsumedInv, Consumed, ClientRest
  <2>8. SettledInv'
    BY <2>3, EngineTypes, ZenonT(60)
       DEF EngineFields, EngineInv, SettledInv, Settled, Still, Consumed, ClientRest, CallInv, PhaseInv
  <2>. QED  BY <2>3, <2>4, <2>5, <2>6, <2>7, <2>8, <1>ClientFrame DEF EngineInv

\* The outcome becomes visible ...
<1>StoreEstablishedInv.
  ASSUME EngineInv, UNCHANGED phase, StoreEstablished
  PROVE  EngineInv'
  <2> USE <1>StoreEstablishedInv
  <2>   EngineTypeOK
    BY DEF EngineInv
  <2>   client' = [client EXCEPT !.at = "publish"]
    BY DEF StoreEstablished
  <2>   /\ client.at = "store" /\ client'.at = "publish" /\ client'.pos = client.pos /\ client'.ok = client.ok
        /\ client'.sent = client.sent
        /\ established' = client.ok /\ ~established
        /\ ClientRest /\ UNCHANGED <<flushReq, flushed, handshakeDone>>
    BY DEF EngineTypeOK, StoreEstablished, ClientRest, EngineInv, ClientInv
  <2>4. EngineTypeOK'
    <3>1. client' = [client EXCEPT !.at = "publish", !.pos = client.pos, !.ok = client.ok]
      BY DEF EngineTypeOK
    <3>2. ClientT'
      BY <3>1, <1>ClientTyped DEF EngineTypeOK, ClientRest, ClientAts
    <3>3. FlagsT'
      BY EngineTypeParts DEF FlagsT, ClientT
    <3>. QED  BY <3>2, <3>3, <1>ClientFrame, EngineTypePartsNext
  <2>5. ClientInv'
    BY EngineTypes DEF EngineFields, EngineInv, ClientInv, CallInv, ClientRest, Past
  <2>6. BarrierInv'
    BY DEF EngineInv, BarrierInv, ClientInv, ClientRest, Past
  <2>7. ConsumedInv'
    BY DEF EngineInv, ConsumedInv, Consumed, ClientRest
  <2>8. SettledInv'
    BY EngineTypes, ZenonT(60)
       DEF EngineFields, EngineInv, SettledInv, Settled, Still, Consumed, ClientRest, CallInv, PhaseInv
  <2>. QED  BY <2>4, <2>5, <2>6, <2>7, <2>8, <1>ClientFrame DEF EngineInv

\* ... and is published.
<1>PublishInv.
  ASSUME EngineInv, UNCHANGED phase, Publish
  PROVE  EngineInv'
  <2> USE <1>PublishInv
  <2>   EngineTypeOK
    BY DEF EngineInv
  <2>   client' = [client EXCEPT !.at = "over"]
    BY DEF Publish
  <2>3. /\ client.at = "publish" /\ client'.at = "over" /\ client'.pos = client.pos /\ client'.ok = client.ok
        /\ client'.sent = client.sent
        /\ handshakeDone' = (IF client.ok THEN "ok" ELSE "failed")
        /\ ClientRest /\ UNCHANGED <<flushReq, flushed, established>>
    BY DEF EngineTypeOK, Publish, ClientRest, EngineInv, ClientInv
  <2>4. EngineTypeOK'
    <3>1. client' = [client EXCEPT !.at = "over", !.pos = client.pos, !.ok = client.ok]
      BY DEF EngineTypeOK
    <3>2. ClientT'
      BY <2>3, <3>1, <1>ClientTyped DEF EngineTypeOK, ClientRest, ClientAts
    <3>3. FlagsT'
      BY <2>3, EngineTypeParts DEF FlagsT, ClientT
    <3>. QED  BY <2>3, <3>2, <3>3, <1>ClientFrame, EngineTypePartsNext
  <2>5. ClientInv'
    BY <2>3, EngineTypes DEF EngineFields, EngineInv, ClientInv, CallInv, ClientRest, Past
  <2>6. BarrierInv'
    BY <2>3 DEF EngineInv, BarrierInv, ClientInv, ClientRest, Past
  <2>7. ConsumedInv'
    BY <2>3 DEF EngineInv, ConsumedInv, Consumed, ClientRest
  <2>8. SettledInv'
    BY <2>3, EngineTypes, ZenonT(60)
       DEF EngineFields, EngineInv, SettledInv, Settled, Still, Consumed, ClientRest, CallInv, PhaseInv
  <2>. QED  BY <2>3, <2>4, <2>5, <2>6, <2>7, <2>8, <1>ClientFrame DEF EngineInv

\* The client asks for the barrier.
<1>RequestFlushInv.
  ASSUME EngineInv, UNCHANGED phase, RequestFlush
  PROVE  EngineInv'
  <2> USE <1>RequestFlushInv
  <2>   EngineTypeOK
    BY DEF EngineInv
  <2>2. PICK to \in {"wait", "store"} :
          /\ client' = [client EXCEPT !.at = to]
          /\ to = "wait" => flushReq' = TRUE
          /\ to = "store" => stop /\ flushReq' = flushReq
    BY DEF RequestFlush
  <2>   /\ client.at = "flush" /\ client'.at = to /\ client'.pos = client.pos /\ client'.ok = client.ok
        /\ client'.sent = client.sent
        /\ ClientRest /\ UNCHANGED <<flushed, handshakeDone, established>>
    BY <2>2 DEF EngineTypeOK, RequestFlush, ClientRest, EngineInv, ClientInv
  <2>4. EngineTypeOK'
    <3>0. to \in ClientAts /\ client.pos \in 1 .. Len(script) + 1
      BY <2>2 DEF ClientAts, EngineTypeOK
    <3>1. client' = [client EXCEPT !.at = to, !.pos = client.pos, !.ok = client.ok]
      BY <2>2 DEF EngineTypeOK
    <3>2. ClientT'
      BY <3>0, <3>1, <1>ClientTyped DEF ClientRest
    <3>3. FlagsT'
      BY <2>2, EngineTypeParts DEF FlagsT
    <3>. QED  BY <3>2, <3>3, <1>ClientFrame, EngineTypePartsNext
  <2>5. ClientInv'
    BY <2>2, EngineTypes, SMTT(30) DEF EngineFields, EngineInv, ClientInv, CallInv, ClientRest, Past
  <2>6. BarrierInv'
    BY <2>2 DEF EngineInv, BarrierInv, ClientInv, ClientRest, Past
  <2>7. ConsumedInv'
    BY <2>2 DEF EngineInv, ConsumedInv, Consumed, ClientRest
  <2>8. SettledInv'
    BY <2>2, EngineTypes, ZenonT(60)
       DEF EngineFields, EngineInv, SettledInv, Settled, Still, Consumed, ClientRest, CallInv, PhaseInv
  <2>. QED  BY <2>4, <2>5, <2>6, <2>7, <2>8, <1>ClientFrame DEF EngineInv

\* The relay goes on without taking or leaving a chunk or a record.
<1>RelayMoves.
  ASSUME EngineInv,
         UNCHANGED <<phase, early, script, client, wrote, pending, inbound, outbound, flushed,
                     handshakeDone, established, stop, wg, call>>,
         NEW to \in RelayAts \ {"idle", "put"}, relay.at \in RelayAts \ {"idle", "put"},
         relay' = [relay EXCEPT !.at = to],
         to = "write" => inbound # <<>>,
         to = "done" => stop,
         pending # <<>> => to \in {"flushRead", "flushSend"},
         flushReq' \in BOOLEAN, flushReq' => flushReq,
         to \in {"flushRead", "flushSend"} => flushReq \/ relay.at = "flushRead"
  PROVE  EngineInv'
  <2> USE <1>RelayMoves
  <2>   relay'.at = to /\ relay'.held = relay.held /\ RelayT'
    BY EngineTypeParts DEF EngineInv, RelayT
  <2>2. EngineTypeOK'
    <3>1. ClientT' /\ CallT' /\ OutT' /\ InT' /\ FlagsT' /\ RestT'
      BY EngineTypeParts DEF EngineInv, ClientT, CallT, OutT, InT, FlagsT, RestT
    <3>. QED  BY <3>1, EngineTypePartsNext
  <2>3. CallInv' /\ PhaseInv'
    BY DEF EngineInv, CallInv, PhaseInv
  <2>4. ClientInv'
    BY DEF EngineInv, ClientInv
  <2>5. IdleInv'
    BY DEF EngineInv, IdleInv
  <2>6. CountInv'
    BY DEF EngineInv, CountInv
  <2>7. RelayInv' /\ BacklogInv'
    BY DEF EngineInv, RelayInv, BacklogInv, OnTheWay, InProgress, InHand
  <2>8. BarrierInv' /\ ConsumedInv'
    BY DEF EngineInv, BarrierInv, ConsumedInv, Consumed
  <2>9. SettledInv'
    BY ZenonT(60) DEF EngineInv, SettledInv, Settled, Still, Consumed, CallInv, PhaseInv
  <2>. QED  BY <2>2, <2>3, <2>4, <2>5, <2>6, <2>7, <2>8, <2>9 DEF EngineInv

<1>RelayTopInv.
  ASSUME EngineInv, UNCHANGED phase, RelayTop
  PROVE  EngineInv'
  <2> USE <1>RelayTopInv
  <2>1. PICK to \in {"done", "write", "flushRead", "readPeer"} :
          /\ relay' = [relay EXCEPT !.at = to]
          /\ to = "done" => stop /\ flushReq' = flushReq
          /\ to = "write" => inbound # <<>> /\ flushReq' = flushReq
          /\ to = "flushRead" => flushReq /\ flushReq' = FALSE
          /\ to = "readPeer" => flushReq' = flushReq
    BY TopFields DEF TopStep
  <2>2. /\ UNCHANGED <<phase, early, script, client, wrote, pending, inbound, outbound, flushed,
                       handshakeDone, established, stop, wg, call>>
        /\ pending = <<>> /\ relay.at = "top"
    BY TopFields DEF TopStep
  <2>3. flushReq' \in BOOLEAN /\ (flushReq' => flushReq)
    <3>1. flushReq' = flushReq \/ flushReq' = FALSE
      BY <2>1
    <3>2. flushReq \in BOOLEAN
      BY DEF EngineInv, EngineTypeOK
    <3>3. CASE flushReq' = flushReq
      BY <3>2, <3>3
    <3>4. CASE flushReq' = FALSE
      <4>1. flushReq' \in BOOLEAN
        BY <3>4
      <4>2. ~flushReq'
        BY <3>4
      <4>. QED  BY <4>1, <4>2
    <3>. QED  BY <3>1, <3>3, <3>4
  <2>4. /\ to \in RelayAts \ {"idle", "put"} /\ relay.at \in RelayAts \ {"idle", "put"}
        /\ to = "done" => stop
        /\ to = "write" => inbound # <<>>
        /\ to \in {"flushRead", "flushSend"} => flushReq
    BY <2>1, <2>2 DEF RelayAts
  <2>. QED  BY <2>1, <2>2, <2>3, <2>4, <1>RelayMoves, ZenonT(60)

<1>TailOfOne.
  ASSUME NEW S, NEW s \in Seq(S), s # <<>>, NEW n \in Nat, Len(s) <= n
  PROVE  /\ Tail(s) \in Seq(S) /\ Len(Tail(s)) <= n /\ Head(s) \in S
         /\ Len(s) = 1 => Tail(s) = <<>>
  <2> USE <1>TailOfOne
  <2>1. Tail(s) \in Seq(S) /\ Len(Tail(s)) <= n /\ Head(s) \in S /\ Len(Tail(s)) = Len(s) - 1
    BY SMTT(30)
  <2>2. Len(s) = 1 => Len(Tail(s)) = 0
    BY <2>1, SMTT(30)
  <2>. QED  BY <2>1, <2>2, NonEmpty

\* The record the relay is writing is read by the handshake: it goes on, or ends.
<1>ReadByClient.
  ASSUME EngineInv, UNCHANGED phase, relay.at = "write", client.at = "reading",
         \/ client' = [client EXCEPT !.at = "run", !.pos = @ + 1]
         \/ client' = [client EXCEPT !.at = "flush", !.ok = FALSE],
         inbound' = Tail(inbound), relay' = [relay EXCEPT !.at = "top"],
         UNCHANGED <<early, script, wrote, pending, outbound, flushReq, flushed, handshakeDone,
                     established, stop, wg, call>>
  PROVE  EngineInv'
  <2> USE <1>ReadByClient
  <2>1. /\ inbound # <<>> /\ pending = <<>> /\ client.pos \in 1 .. Len(script) /\ client.pos \in Nat
        /\ script[client.pos] = "r" /\ client.pos + 1 \in 1 .. Len(script) + 1
    <3>1. /\ inbound # <<>> /\ pending = <<>> /\ client.pos <= Len(script) /\ script[client.pos] = "r"
          /\ client.pos \in 1 .. Len(script) + 1 /\ Len(script) \in Nat
      BY EngineTypes DEF EngineFields, EngineInv, RelayInv, ClientInv
    <3>. QED  BY <3>1, SMTT(30)
  <2>2. PICK to, n, b :
          /\ client' = [client EXCEPT !.at = to, !.pos = n, !.ok = b]
          /\ \/ to = "run" /\ n = client.pos + 1 /\ b = client.ok
             \/ to = "flush" /\ n = client.pos /\ b = FALSE
    <3>1. CASE client' = [client EXCEPT !.at = "run", !.pos = @ + 1]
      <4>1. client' = [client EXCEPT !.at = "run", !.pos = client.pos + 1, !.ok = client.ok]
        BY <3>1 DEF EngineInv, EngineTypeOK
      <4>. QED  BY <4>1
    <3>2. CASE client' = [client EXCEPT !.at = "flush", !.ok = FALSE]
      <4>1. client' = [client EXCEPT !.at = "flush", !.pos = client.pos, !.ok = FALSE]
        BY <3>2 DEF EngineInv, EngineTypeOK
      <4>. QED  BY <4>1
    <3>. QED  BY <3>1, <3>2
  <2>3. ClientT' /\ client'.at = to /\ client'.pos = n /\ client'.ok = b /\ client'.sent = client.sent
    <3>1. /\ to \in ClientAts /\ n \in 1 .. Len(script) + 1
          /\ b = TRUE \/ b = FALSE \/ b = client.ok
      BY <2>1, <2>2, EngineTypes DEF EngineFields, ClientAts, EngineInv
    <3>. QED  BY <2>2, <3>1, <1>ClientTyped, ZenonT(60) DEF EngineInv
  <2>4. relay'.at = "top" /\ relay'.held = relay.held /\ RelayT'
    BY EngineTypeParts DEF EngineInv, RelayT, RelayAts
  <2>5. InT' /\ (Len(inbound) = 1 => inbound' = <<>>)
    <3>1. inbound \in Seq(Seq(Unit)) /\ Len(inbound) <= InboundCap /\ InboundCap \in Nat
      BY EngineAssumption DEF EngineInv, EngineTypeOK
    <3>. QED  BY <2>1, <3>1, <1>TailOfOne DEF InT
  <2>7. EngineTypeOK'
    <3>1. CallT' /\ OutT' /\ FlagsT' /\ RestT'
      BY EngineTypeParts DEF EngineInv, CallT, OutT, FlagsT, RestT
    <3>. QED  BY <2>3, <2>4, <2>5, <3>1, EngineTypePartsNext
  <2>8. CallInv' /\ PhaseInv'
    BY <2>2, <2>3 DEF EngineInv, CallInv, PhaseInv
  <2>9. ClientInv'
    BY <2>2, <2>3, <2>4, EngineTypes DEF EngineFields, EngineInv, ClientInv, Past
  <2>10. IdleInv'
    BY <2>2, <2>3, <2>4 DEF EngineInv, IdleInv
  <2>11. CountInv'
    BY <2>3 DEF EngineInv, CountInv
  <2>12. RelayInv'
    BY <2>1, <2>4 DEF EngineInv, RelayInv
  <2>13. BacklogInv'
    <3>1. OnTheWay' = OnTheWay /\ InProgress' = InProgress /\ n >= client.pos /\ n \in Nat
      <4>1. OnTheWay' = OnTheWay /\ InProgress' = InProgress
        BY <2>4 DEF OnTheWay, InProgress, InHand
      <4>. QED  BY <2>1, <2>2, <4>1, SMTT(30)
    <3>2. InProgress \in Nat /\ OnTheWay \in Nat /\ early \in Nat
      BY EngineTypes, SMTT(30) DEF EngineFields, EngineInv, InProgress, OnTheWay, InHand
    <3>3. (OnTheWay + 1 <= client.pos + early + InProgress)'
      BY <2>1, <2>3, <3>1, <3>2, SMTT(30) DEF EngineInv, BacklogInv
    <3>. QED  BY <3>1, <3>3 DEF EngineInv, BacklogInv
  <2>14. BarrierInv' /\ ConsumedInv'
    BY <2>2, <2>3 DEF BarrierInv, ConsumedInv, Consumed
  <2>15. SettledInv'
    <3> SUFFICES ASSUME early = 0, phase \notin {"OuterIdentity", "Failed"}
                 PROVE  /\ call.op # "none" /\ call.at \notin {"send", "write", "read"}
                        /\ ~(call.at = "return" /\ call.result # "error")
                        /\ ~(call.at = "collect" /\ inbound' # <<>>)
                        /\ phase = "TLSTunnel"
      BY DEF SettledInv
    <3>1. ~Settled /\ ~Consumed
      BY <2>1 DEF Settled, Consumed
    <3>2. phase = "TLSTunnel"
      BY <3>1 DEF EngineInv, SettledInv
    <3>3. call.at # "read"
      BY <3>2, CallShape DEF EngineInv, PhaseInv
    <3>. QED  BY <2>1, <2>5, <3>1, <3>2, <3>3 DEF EngineInv, SettledInv
  <2>. QED  BY <2>7, <2>8, <2>9, <2>10, <2>11, <2>12, <2>13, <2>14, <2>15 DEF EngineInv

\* The record is read by readApplication: the call has its plaintext.
<1>ReadByCall.
  ASSUME EngineInv, UNCHANGED phase, relay.at = "write", call.op = "unprotect", call.at = "read",
         call' = [call EXCEPT !.at = "return", !.result = "plain", !.out = Head(inbound)],
         inbound' = Tail(inbound), relay' = [relay EXCEPT !.at = "top"],
         UNCHANGED <<early, script, client, wrote, pending, outbound, flushReq, flushed, handshakeDone,
                     established, stop, wg>>
  PROVE  EngineInv'
  <2> USE <1>ReadByCall
  <2>1. inbound # <<>> /\ pending = <<>>
    BY DEF EngineInv, RelayInv
  <2>2. InT' /\ (Len(inbound) = 1 => inbound' = <<>>) /\ Head(inbound) \in Seq(Unit)
    <3>1. inbound \in Seq(Seq(Unit)) /\ Len(inbound) <= InboundCap /\ InboundCap \in Nat
      BY EngineAssumption DEF EngineInv, EngineTypeOK
    <3>. QED  BY <2>1, <3>1, <1>TailOfOne DEF InT
  <2>   /\ call'.op = "unprotect" /\ call'.at = "return" /\ call'.result = "plain"
        /\ call'.out = Head(inbound) /\ call'.got = call.got /\ CallT'
    BY <2>2, EngineTypeParts, ZenonT(60) DEF EngineInv, CallT, CallAts, CallResults
  <2>   relay'.at = "top" /\ relay'.held = relay.held /\ RelayT'
    BY EngineTypeParts DEF EngineInv, RelayT, RelayAts
  <2>5. EngineTypeOK'
    <3>1. ClientT' /\ OutT' /\ FlagsT' /\ RestT'
      BY EngineTypeParts DEF EngineInv, ClientT, OutT, FlagsT, RestT
    <3>. QED  BY <2>2, <3>1, EngineTypePartsNext
  <2>6. CallInv' /\ PhaseInv'
    BY DEF EngineInv, CallInv, PhaseInv
  <2>7. ClientInv'
    BY DEF EngineInv, ClientInv
  <2>8. IdleInv'
    BY DEF EngineInv, IdleInv
  <2>9. CountInv'
    BY DEF EngineInv, CountInv
  <2>10. RelayInv'
    BY <2>1 DEF EngineInv, RelayInv
  <2>11. BacklogInv'
    BY DEF EngineInv, BacklogInv, OnTheWay, InProgress, InHand
  <2>12. BarrierInv' /\ ConsumedInv'
    BY DEF EngineInv, BarrierInv, ConsumedInv, Consumed
  <2>13. SettledInv'
    <3> SUFFICES ASSUME early = 0, phase \notin {"OuterIdentity", "Failed"}
                 PROVE  Settled' /\ Consumed'
      BY DEF SettledInv
    <3>1. Still /\ Len(inbound) = 1 /\ Consumed
      BY DEF EngineInv, SettledInv, PhaseInv
    <3>. QED  BY <2>2, <3>1 DEF Settled, Still, Consumed
  <2>. QED  BY <2>5, <2>6, <2>7, <2>8, <2>9, <2>10, <2>11, <2>12, <2>13 DEF EngineInv

<1>RelayWritesInv.
  ASSUME EngineInv, UNCHANGED phase, RelayWrites
  PROVE  EngineInv'
  <2> USE <1>RelayWritesInv
  <2>1. CASE /\ client.at = "reading"
             /\ \/ client' = [client EXCEPT !.at = "run", !.pos = @ + 1]
                \/ client' = [client EXCEPT !.at = "flush", !.ok = FALSE]
             /\ inbound' = Tail(inbound) /\ relay' = [relay EXCEPT !.at = "top"] /\ UNCHANGED call
    BY <2>1, <1>ReadByClient DEF RelayWrites
  <2>2. CASE /\ call.op = "unprotect" /\ call.at = "read"
             /\ call' = [call EXCEPT !.at = "return", !.result = "plain", !.out = Head(inbound)]
             /\ inbound' = Tail(inbound) /\ relay' = [relay EXCEPT !.at = "top"] /\ UNCHANGED client
    BY <2>2, <1>ReadByCall DEF RelayWrites
  <2>3. CASE stop /\ relay' = [relay EXCEPT !.at = "done"] /\ UNCHANGED <<client, inbound, call>>
    <3>1. /\ "done" \in RelayAts \ {"idle", "put"} /\ relay.at \in RelayAts \ {"idle", "put"}
          /\ pending = <<>> /\ flushReq \in BOOLEAN
      BY DEF RelayAts, RelayWrites, EngineInv, RelayInv, EngineTypeOK
    <3>. QED  BY <2>3, <3>1, <1>RelayMoves, ZenonT(60) DEF RelayWrites
  <2>. QED  BY <2>1, <2>2, <2>3 DEF RelayWrites

\* What the relay takes from the handshake is one of the handshake's writes.
<1>TakeFromClient.
  ASSUME EngineInv, UNCHANGED phase, relay.at = "readPeer", client.at = "writing",
         client' = [client EXCEPT !.at = "run", !.pos = @ + 1, !.sent = @ + 1],
         wrote' = wrote + 1, relay' = [at |-> "put", held |-> wrote + 1],
         UNCHANGED <<early, script, pending, inbound, outbound, flushReq, flushed, handshakeDone,
                     established, stop, wg, call>>
  PROVE  EngineInv'
  <2> USE <1>TakeFromClient
  <2>   /\ pending = <<>> /\ client.pos \in 1 .. Len(script) /\ client.pos \in Nat
        /\ script[client.pos] = "w" /\ client.pos + 1 \in 1 .. Len(script) + 1
        /\ wrote \in Nat /\ wrote + 1 \in Nat /\ client.sent \in Nat /\ client.sent + 1 \in Nat
    <3>1. /\ pending = <<>> /\ client.pos <= Len(script) /\ script[client.pos] = "w"
          /\ client.pos \in 1 .. Len(script) + 1 /\ Len(script) \in Nat /\ wrote \in Nat
          /\ client.sent \in Nat
      BY EngineTypes DEF EngineFields, EngineInv, RelayInv, ClientInv
    <3>. QED  BY <3>1, SMTT(30)
  <2>   PICK n, k : n = client.pos + 1 /\ k = client.sent + 1
    OBVIOUS
  <2>   ClientT' /\ client'.at = "run" /\ client'.pos = n /\ client'.ok = client.ok /\ client'.sent = k
    BY EngineTypeParts DEF EngineInv, ClientT, ClientAts
  <2>   relay'.at = "put" /\ relay'.held = wrote' /\ RelayT'
    BY DEF RelayT, RelayAts
  <2>5. EngineTypeOK'
    <3>1. CallT' /\ OutT' /\ InT' /\ FlagsT' /\ RestT'
      BY EngineTypeParts DEF EngineInv, CallT, OutT, InT, FlagsT, RestT
    <3>. QED  BY <3>1, EngineTypePartsNext
  <2>6. CallInv' /\ PhaseInv'
    BY DEF EngineInv, CallInv, PhaseInv
  <2>7. ClientInv'
    BY DEF EngineInv, ClientInv, Past
  <2>8. IdleInv'
    BY DEF EngineInv, IdleInv
  <2>9. CountInv'
    BY SMTT(30) DEF EngineInv, CountInv
  <2>10. RelayInv'
    BY DEF EngineInv, RelayInv
  <2>11. BacklogInv'
    <3>1. OnTheWay' = OnTheWay + 1 /\ InProgress' = InProgress /\ InProgress \in Nat /\ OnTheWay \in Nat
      <4>1. InHand = <<>> /\ InHand' = <<relay'.held>> /\ InProgress' = InProgress
        BY DEF InHand, InProgress
      <4>2. Len(outbound) \in Nat /\ Len(pending) \in Nat
        BY EngineTypes DEF EngineFields, EngineInv
      <4>3. InProgress \in Nat
        BY SMTT(30) DEF InProgress
      <4>. QED  BY <4>1, <4>2, <4>3, SMTT(30) DEF OnTheWay
    <3>2. early \in Nat
      BY EngineTypes DEF EngineFields, EngineInv
    <3>3. (OnTheWay + 1 <= client.pos + early + InProgress)'
      <4>1. OnTheWay + 1 <= client.pos + early + InProgress
        BY DEF EngineInv, BacklogInv
      <4>2. PICK o \in Nat, p \in Nat, e \in Nat, i \in Nat :
              o = OnTheWay /\ p = client.pos /\ e = early /\ i = InProgress
        BY <3>1, <3>2
      <4>3. (o + 1) + 1 <= (p + 1) + e + i
        <5>1. o + 1 <= p + e + i
          BY <4>1, <4>2
        <5>. QED  BY <5>1, SMTT(30)
      <4>. QED  BY <3>1, <4>2, <4>3
    <3>4. ~(call.op = "protect")
      BY DEF EngineInv, PhaseInv, ClientInv, Inside
    <3>. QED  BY <3>3, <3>4 DEF BacklogInv
  <2>12. BarrierInv' /\ ConsumedInv'
    BY DEF BarrierInv, ConsumedInv, Consumed
  <2>13. SettledInv'
    <3> SUFFICES ASSUME early = 0, phase \notin {"OuterIdentity", "Failed"}
                 PROVE  /\ call.op # "none" /\ call.at \notin {"send", "write", "read"}
                        /\ ~(call.at = "return" /\ call.result # "error")
                        /\ ~(call.at = "collect" /\ inbound # <<>>)
                        /\ phase = "TLSTunnel"
      BY DEF SettledInv
    <3>1. ~Settled /\ ~Consumed
      BY DEF Settled, Consumed
    <3>2. phase = "TLSTunnel"
      BY <3>1 DEF EngineInv, SettledInv
    <3>3. call.at # "read"
      BY <3>2, CallShape DEF EngineInv, PhaseInv
    <3>. QED  BY <3>1, <3>2, <3>3 DEF EngineInv, SettledInv
  <2>. QED  BY <2>5, <2>6, <2>7, <2>8, <2>9, <2>10, <2>11, <2>12, <2>13 DEF EngineInv

\* What Protect means for the engine: the handshake is done and written.
<1>ProtectFacts.
  ASSUME EngineInv, call.op = "protect"
  PROVE  /\ phase = "InnerMethod" /\ established /\ ~stop
         /\ client.ok /\ client.at \in {"publish", "over"} /\ client.pos = Len(script) + 1
         /\ wrote >= client.sent
  <2> USE <1>ProtectFacts
  <2>1. /\ phase = "InnerMethod" /\ established /\ ~stop
        /\ client.ok /\ client.at \in {"publish", "over"} /\ client.pos = Len(script) + 1
    BY DEF EngineInv, PhaseInv, ClientInv, CallInv, Inside, Past
  <2>. QED  BY <2>1 DEF EngineInv, CountInv

\* What the relay takes from Protect: by itself or in the barrier.
<1>TakeFromProtect.
  ASSUME EngineInv, UNCHANGED phase, call.op = "protect", call.at = "write",
         call' = [call EXCEPT !.at = "collect"], wrote' = wrote + 1,
         \/ /\ relay.at = "readPeer" /\ relay' = [at |-> "put", held |-> wrote + 1]
            /\ UNCHANGED pending
         \/ relay.at = "flushRead" /\ pending' = Append(pending, wrote + 1) /\ UNCHANGED relay,
         UNCHANGED <<early, script, client, inbound, outbound, flushReq, flushed, handshakeDone,
                     established, stop, wg>>
  PROVE  EngineInv'
  <2> USE <1>TakeFromProtect
  <2>   pending = <<>> /\ wrote \in Nat /\ wrote + 1 \in Nat /\ relay.at # "put"
    <3>1. pending = <<>> /\ wrote \in Nat
      BY DEF EngineInv, RelayInv, EngineTypeOK
    <3>. QED  BY <3>1, SMTT(30)
  <2>   /\ call'.op = "protect" /\ call'.at = "collect" /\ call'.out = <<>> /\ call'.got = call.got
        /\ call'.result = call.result /\ call'.out = call.out /\ CallT'
    BY EngineTypeParts, ZenonT(60) DEF EngineInv, CallT, CallAts, CallInv
  <2>3. \/ relay'.at = "put" /\ relay'.held = wrote' /\ pending' = <<>>
        \/ relay'.at = "flushRead" /\ relay.at = "flushRead" /\ pending' = <<wrote'>>
    BY SMTT(30)
  <2>4. RelayT' /\ OutT'
    <3>1. 1 <= PendingCap /\ 0 <= PendingCap
      BY EngineAssumption, SMTT(30)
    <3>2. CASE relay' = [at |-> "put", held |-> wrote + 1] /\ UNCHANGED pending
      BY <3>2, EngineTypeParts DEF EngineInv, RelayT, RelayAts, OutT
    <3>3. CASE pending' = Append(pending, wrote + 1) /\ UNCHANGED relay
      <4>1. pending' \in Seq(Nat) /\ Len(pending') <= PendingCap
        BY <3>1, <3>3, SMTT(30)
      <4>. QED  BY <3>3, <4>1, EngineTypeParts DEF EngineInv, RelayT, RelayAts, OutT
    <3>. QED  BY <3>2, <3>3
  <2>5. EngineTypeOK'
    <3>1. ClientT' /\ InT' /\ FlagsT' /\ RestT'
      BY EngineTypeParts DEF EngineInv, ClientT, InT, FlagsT, RestT
    <3>. QED  BY <2>4, <3>1, EngineTypePartsNext
  <2>6. CallInv' /\ PhaseInv'
    BY DEF EngineInv, CallInv, PhaseInv
  <2>7. ClientInv'
    BY <2>3 DEF EngineInv, ClientInv
  <2>8. IdleInv'
    BY <2>3, <1>ProtectFacts DEF EngineInv, IdleInv
  <2>   wrote' > client'.sent /\ wrote' >= client'.sent /\ client'.sent = client.sent
    <3>1. client.sent \in Nat
      BY EngineTypes DEF EngineFields, EngineInv
    <3>. QED  BY <3>1, <1>ProtectFacts, SMTT(30)
  <2>10. CountInv'
    BY <1>ProtectFacts DEF CountInv
  <2>11. RelayInv'
    BY <2>3, <1>ProtectFacts DEF EngineInv, RelayInv
  <2>12. BacklogInv'
    <3>1. OnTheWay' = OnTheWay + 1 /\ InProgress' = InProgress + 1 /\ InProgress = 0 /\ OnTheWay \in Nat
      <4>1. InHand = <<>> /\ InProgress = 0 /\ InProgress' = 1
        BY DEF InHand, InProgress
      <4>   Len(outbound) \in Nat /\ pending = <<>> /\ outbound' = outbound
        BY EngineTypes DEF EngineFields, EngineInv
      <4>3. \/ InHand' = <<wrote'>> /\ pending' = <<>>
            \/ InHand' = <<>> /\ pending' = <<wrote'>>
        BY <2>3 DEF InHand
      <4>4. OnTheWay = Len(outbound) /\ OnTheWay' = Len(outbound) + 1
        <5>1. Len(<<>>) = 0 /\ Len(<<wrote'>>) = 1
          BY SMTT(30)
        <5>2. OnTheWay = Len(outbound) + 0 + 0
          BY <4>1, <5>1 DEF OnTheWay
        <5>3. OnTheWay' = Len(outbound) + 0 + 1 \/ OnTheWay' = Len(outbound) + 1 + 0
          BY <4>3, <5>1 DEF OnTheWay
        <5>. QED  BY <5>2, <5>3, SMTT(30)
      <4>. QED  BY <4>1, <4>4, SMTT(30)
    <3>2. early \in Nat /\ client.pos \in Nat /\ client' = client /\ early' = early
      BY EngineTypes DEF EngineFields, EngineInv
    <3>3. (OnTheWay + 1 <= client.pos + early + InProgress)'
      BY <3>1, <3>2, SMTT(30) DEF EngineInv, BacklogInv
    <3>4. OnTheWay' + Len(call'.out) > 0
      BY <3>1, SMTT(30)
    <3>. QED  BY <3>3, <3>4 DEF BacklogInv
  <2>13. BarrierInv' /\ ConsumedInv'
    BY DEF BarrierInv, ConsumedInv
  <2>14. SettledInv'
    <3> SUFFICES ASSUME early = 0, phase \notin {"OuterIdentity", "Failed"}
                 PROVE  inbound = <<>> /\ Consumed'
      BY DEF SettledInv
    <3>. QED  BY <1>ProtectFacts DEF EngineInv, SettledInv, Settled, Consumed
  <2>. QED  BY <2>5, <2>6, <2>7, <2>8, <2>10, <2>11, <2>12, <2>13, <2>14 DEF EngineInv

<1>RelayReadsInv.
  ASSUME EngineInv, UNCHANGED phase, RelayReads
  PROVE  EngineInv'
  <2> USE <1>RelayReadsInv
  <2>   /\ relay.at = "readPeer" /\ pending = <<>> /\ flushReq \in BOOLEAN
        /\ relay.at \in RelayAts \ {"idle", "put"}
        /\ UNCHANGED <<early, script, pending, inbound, outbound, flushReq, flushed, handshakeDone,
                       established, stop, wg>>
    BY DEF RelayReads, EngineInv, RelayInv, EngineTypeOK, RelayAts
  <2>2. CASE /\ relay' = [relay EXCEPT !.at = "done"] \/ relay' = [relay EXCEPT !.at = "top"]
             /\ UNCHANGED <<wrote, client, call>>
             /\ relay' = [relay EXCEPT !.at = "done"] => stop
    <3>1. PICK to \in {"done", "top"} : relay' = [relay EXCEPT !.at = to] /\ (to = "done" => stop)
      BY <2>2
    <3>2. to \in RelayAts \ {"idle", "put"}
      BY <3>1 DEF RelayAts
    <3>. QED  BY <2>2, <3>1, <3>2, <1>RelayMoves, ZenonT(60)
  <2>3. CASE /\ client.at = "writing" /\ client' = [client EXCEPT !.at = "run", !.pos = @ + 1, !.sent = @ + 1]
             /\ UNCHANGED call
             /\ wrote' = wrote + 1 /\ relay' = [at |-> "put", held |-> wrote + 1]
    BY <2>3, <1>TakeFromClient
  <2>4. CASE /\ call.op = "protect" /\ call.at = "write" /\ call' = [call EXCEPT !.at = "collect"]
             /\ UNCHANGED client
             /\ wrote' = wrote + 1 /\ relay' = [at |-> "put", held |-> wrote + 1]
    BY <2>4, <1>TakeFromProtect
  <2>5. CASE stop
    BY <2>2, <2>5 DEF RelayReads
  <2>6. CASE ~stop /\ Offered
    BY <2>3, <2>4, <2>6 DEF RelayReads, TakeChunk, Offered
  <2>7. CASE ~stop /\ ~Offered
    <3>1. relay' = [relay EXCEPT !.at = "top"] /\ UNCHANGED <<wrote, client, call>>
      BY <2>7 DEF RelayReads
    <3>2. relay' # [relay EXCEPT !.at = "done"]
      BY <3>1 DEF EngineInv, EngineTypeOK
    <3>. QED  BY <2>2, <3>1, <3>2
  <2>. QED  BY <2>5, <2>6, <2>7

\* The chunk is queued behind those that were there.
<1>RelayPutsInv.
  ASSUME EngineInv, UNCHANGED phase, RelayPuts
  PROVE  EngineInv'
  <2> USE <1>RelayPutsInv
  <2>   /\ relay.at = "put" /\ relay.held = wrote /\ pending = <<>> /\ Room > 0
        /\ UNCHANGED <<early, script, client, wrote, inbound, flushReq, flushed, handshakeDone,
                       established, stop, wg, call>>
    BY RoomLeft DEF RelayPuts, EngineInv, RelayInv
  <2>2. /\ \/ outbound' = Append(outbound, wrote) /\ relay' = [at |-> "top", held |-> 0]
           \/ stop /\ outbound' = outbound /\ relay' = [at |-> "done", held |-> 0]
        /\ pending' = <<>>
    BY DEF RelayPuts
  <2>   /\ outbound \in Seq(Nat) /\ Len(outbound) \in Nat /\ wrote \in Nat /\ 0 \in Nat
        /\ OutboundCap \in Nat /\ Len(outbound) <= OutboundCap
    BY EngineTypes, EngineAssumption DEF EngineFields, EngineInv, EngineTypeOK
  <2>4. RelayT' /\ (relay'.at = "top" \/ (relay'.at = "done" /\ stop))
    <3>1. CASE relay' = [at |-> "top", held |-> 0]
      BY <3>1 DEF RelayT, RelayAts
    <3>2. CASE stop /\ relay' = [at |-> "done", held |-> 0]
      BY <3>2 DEF RelayT, RelayAts
    <3>. QED  BY <2>2, <3>1, <3>2
  <2>5. /\ outbound' \in Seq(Nat) /\ Len(outbound') <= OutboundCap
        /\ Len(outbound') = Len(outbound) + 1 \/ (stop /\ Len(outbound') = Len(outbound))
    <3>1. OutboundCap - Len(outbound) > 0
      BY RoomLeft
    <3>2. CASE outbound' = Append(outbound, wrote)
      BY <3>1, <3>2, SMTT(30)
    <3>3. CASE stop /\ outbound' = outbound
      BY <3>3
    <3>. QED  BY <2>2, <3>2, <3>3
  <2>6. EngineTypeOK'
    <3>1. ClientT' /\ CallT' /\ InT' /\ FlagsT' /\ RestT'
      BY EngineTypeParts DEF EngineInv, ClientT, CallT, InT, FlagsT, RestT
    <3>2. OutT'
      BY <2>2, <2>5, EngineTypeParts DEF EngineInv, OutT
    <3>. QED  BY <2>4, <3>1, <3>2, EngineTypePartsNext
  <2>7. CallInv' /\ PhaseInv'
    BY DEF EngineInv, CallInv, PhaseInv
  <2>8. ClientInv'
    BY <2>4 DEF EngineInv, ClientInv
  <2>9. IdleInv'
    BY <2>4 DEF EngineInv, IdleInv
  <2>10. CountInv'
    BY DEF EngineInv, CountInv
  <2>11. RelayInv'
    BY <2>2, <2>4 DEF EngineInv, RelayInv
  <2>12. BacklogInv'
    <3>   InHand = <<relay.held>> /\ InHand' = <<>> /\ InProgress' = InProgress
      BY <2>4 DEF InHand, InProgress
    <3>2. Len(<<>>) = 0 /\ Len(<<relay.held>>) = 1
      BY SMTT(30)
    <3>3. OnTheWay = Len(outbound) + 0 + 1 /\ OnTheWay' = Len(outbound') + 0 + 0
      BY <2>2, <3>2 DEF OnTheWay
    <3>4. OnTheWay' = OnTheWay \/ (stop /\ OnTheWay' + 1 = OnTheWay /\ OnTheWay' \in Nat)
      BY <2>5, <3>3, SMTT(30)
    <3>5. CASE OnTheWay' = OnTheWay
      BY <3>5 DEF EngineInv, BacklogInv
    <3>6. CASE stop /\ OnTheWay' + 1 = OnTheWay /\ OnTheWay' \in Nat
      <4>1. early \in Nat /\ client.pos \in Nat /\ InProgress \in Nat
        BY EngineTypes, SMTT(30) DEF EngineFields, EngineInv, InProgress
      <4>2. OnTheWay' + 1 <= client'.pos + early' + InProgress'
        BY <3>6, <4>1, SMTT(30) DEF EngineInv, BacklogInv
      <4>. QED  BY <3>6, <4>2 DEF EngineInv, BacklogInv, CallInv
    <3>. QED  BY <3>4, <3>5, <3>6
  <2>13. BarrierInv' /\ ConsumedInv'
    BY <2>4 DEF EngineInv, BarrierInv, ConsumedInv, Consumed
  <2>14. SettledInv'
    <3> SUFFICES ASSUME early = 0, phase \notin {"OuterIdentity", "Failed"}
                 PROVE  /\ call.op # "none" /\ call.at \notin {"send", "write", "read"}
                        /\ ~(call.at = "return" /\ call.result # "error")
                        /\ ~(call.at = "collect" /\ inbound # <<>>)
                        /\ phase # "TLSTunnel" => Consumed
      BY DEF SettledInv, Consumed
    <3>1. ~Settled /\ ~Still
      BY DEF Settled, Still
    <3>. QED  BY <3>1 DEF EngineInv, SettledInv
  <2>. QED  BY <2>6, <2>7, <2>8, <2>9, <2>10, <2>11, <2>12, <2>13, <2>14 DEF EngineInv

\* The barrier takes what Protect has written, or goes on to queue it.
<1>RelayFlushReadsInv.
  ASSUME EngineInv, UNCHANGED phase, RelayFlushReads
  PROVE  EngineInv'
  <2> USE <1>RelayFlushReadsInv
  <2>   /\ relay.at = "flushRead" /\ flushReq \in BOOLEAN /\ client.at # "writing"
        /\ relay.at \in RelayAts \ {"idle", "put"}
        /\ UNCHANGED <<early, script, inbound, outbound, flushReq, flushed, handshakeDone, established,
                       stop, wg>>
    BY DEF RelayFlushReads, EngineInv, ClientInv, Past, EngineTypeOK, RelayAts
  <2>2. CASE Offered
    <3>1. /\ call.op = "protect" /\ call.at = "write" /\ call' = [call EXCEPT !.at = "collect"]
          /\ UNCHANGED client /\ wrote' = wrote + 1
          /\ pending' = Append(pending, wrote + 1) /\ UNCHANGED relay
      BY <2>2 DEF RelayFlushReads, TakeChunk, Offered
    <3>. QED  BY <3>1, <1>TakeFromProtect
  <2>3. CASE ~Offered
    <3>1. relay' = [relay EXCEPT !.at = "flushSend"] /\ UNCHANGED <<wrote, client, call, pending>>
      BY <2>3 DEF RelayFlushReads
    <3>2. "flushSend" \in RelayAts \ {"idle", "put"}
      BY DEF RelayAts
    <3>. QED  BY <3>1, <3>2, <1>RelayMoves, ZenonT(60)
  <2>. QED  BY <2>2, <2>3

\* The barrier is reached: what was pending is queued.
<1>RelayFlushSendsInv.
  ASSUME EngineInv, UNCHANGED phase, RelayFlushSends
  PROVE  EngineInv'
  <2> USE <1>RelayFlushSendsInv
  <2>   /\ relay.at = "flushSend" /\ ~(stop /\ Len(pending) > Room)
        /\ UNCHANGED <<early, script, client, wrote, inbound, flushReq, handshakeDone, established,
                       stop, wg, call>>
    <3>1. Len(pending) \in Nat
      BY EngineTypes DEF EngineFields, EngineInv
    <3>2. ~(stop /\ Len(pending) > Room)
      BY <3>1, RoomLeft, SMTT(30)
    <3>. QED  BY <3>2 DEF RelayFlushSends
  <2>   /\ Len(pending) <= Room /\ outbound' = outbound \o pending /\ pending' = <<>>
        /\ flushed' = TRUE /\ relay' = [relay EXCEPT !.at = "top"]
    BY DEF RelayFlushSends
  <2>   /\ outbound \in Seq(Nat) /\ Len(outbound) \in Nat /\ pending \in Seq(Nat) /\ Len(pending) \in Nat
        /\ OutboundCap \in Nat /\ PendingCap \in Nat
    BY EngineTypes, EngineAssumption DEF EngineFields, EngineInv
  <2>4. /\ outbound' \in Seq(Nat) /\ Len(outbound') = Len(outbound) + Len(pending)
        /\ pending = <<>> => outbound' = outbound
    BY SMTT(30)
  <2>   relay'.at = "top" /\ relay'.held = relay.held /\ RelayT'
    BY EngineTypeParts DEF EngineInv, RelayT, RelayAts
  <2>6. EngineTypeOK'
    <3>1. ClientT' /\ CallT' /\ InT' /\ FlagsT' /\ RestT'
      BY EngineTypeParts DEF EngineInv, ClientT, CallT, InT, FlagsT, RestT
    <3>2. Len(outbound') <= OutboundCap /\ Len(<<>>) <= PendingCap /\ <<>> \in Seq(Nat)
      BY <2>4, RoomLeft, SMTT(30)
    <3>3. OutT'
      BY <2>4, <3>2 DEF OutT
    <3>. QED  BY <3>1, <3>3, EngineTypePartsNext
  <2>7. CallInv' /\ PhaseInv'
    BY DEF EngineInv, CallInv, PhaseInv
  <2>8. ClientInv'
    BY DEF EngineInv, ClientInv
  <2>9. IdleInv'
    BY DEF EngineInv, IdleInv
  <2>10. CountInv'
    BY DEF EngineInv, CountInv
  <2>11. RelayInv'
    BY DEF EngineInv, RelayInv
  <2>12. BacklogInv'
    <3>1. InHand = <<>> /\ InHand' = <<>> /\ InProgress' = InProgress
      BY DEF InHand, InProgress
    <3>2. Len(<<>>) = 0
      BY SMTT(30)
    <3>3. OnTheWay = Len(outbound) + Len(pending) + 0 /\ OnTheWay' = Len(outbound') + 0 + 0
      BY <3>1, <3>2 DEF OnTheWay
    <3>4. OnTheWay' = OnTheWay
      BY <2>4, <3>3, SMTT(30)
    <3>. QED  BY <3>1, <3>4 DEF EngineInv, BacklogInv
  <2>13. BarrierInv' /\ ConsumedInv'
    BY DEF EngineInv, BarrierInv, ConsumedInv, Consumed
  <2>14. (Still => Still') /\ (Settled => Settled') /\ (Consumed => Consumed')
    BY <2>4 DEF Still, Settled, Consumed
  <2>15. SettledInv'
    BY <2>14 DEF EngineInv, SettledInv
  <2>. QED  BY <2>6, <2>7, <2>8, <2>9, <2>10, <2>11, <2>12, <2>13, <2>15 DEF EngineInv

\* The record is queued.
<1>QueueRecordInv.
  ASSUME EngineInv, UNCHANGED phase, QueueRecord
  PROVE  EngineInv'
  <2> USE <1>QueueRecordInv
  <2>1. /\ call.at = "send" /\ Len(inbound) < InboundCap /\ inbound' = Append(inbound, call.out)
        /\ call' = [call EXCEPT !.at = IF call.op = "feed" THEN "collect" ELSE "read", !.out = <<>>]
        /\ UNCHANGED <<early, script, client, wrote, relay, pending, outbound, flushReq, flushed,
                       handshakeDone, established, stop, wg>>
    BY DEF QueueRecord
  <2>   call.op \in {"feed", "unprotect"} /\ ~call.got
    BY <2>1, CallShape DEF EngineInv, CallInv
  <2>3. call.out \in Seq(Unit) /\ <<>> \in Seq(Unit) /\ <<>> \in Seq(Nat)
    BY <2>1, SMTT(30) DEF EngineInv, EngineTypeOK
  <2>4. /\ InT' /\ inbound' # <<>> /\ (inbound = <<>> => Len(inbound') = 1)
    <3>1. inbound \in Seq(Seq(Unit)) /\ InboundCap \in Nat
      BY EngineAssumption DEF EngineInv, EngineTypeOK
    <3>2. inbound' \in Seq(Seq(Unit)) /\ Len(inbound') <= InboundCap /\ inbound' # <<>>
      BY <2>1, <2>3, <3>1, SMTT(30)
    <3>3. inbound = <<>> => Len(inbound') = 1
      BY <2>1, SMTT(30)
    <3>. QED  BY <3>2, <3>3 DEF InT
  <2>5. /\ call'.op = call.op /\ call'.out = <<>> /\ call'.got = call.got /\ call'.result = call.result
        /\ call.op = "feed" => call'.at = "collect"
        /\ call.op = "unprotect" => call'.at = "read"
    BY <2>1, EngineTypeParts, ZenonT(60) DEF EngineInv, CallT
  <2>6. CallT'
    BY <2>1, <2>3, <2>5, EngineTypeParts, ZenonT(60) DEF EngineInv, CallT, CallAts
  <2>7. EngineTypeOK'
    <3>1. ClientT' /\ RelayT' /\ OutT' /\ FlagsT' /\ RestT'
      BY <2>1, EngineTypeParts DEF EngineInv, ClientT, RelayT, OutT, FlagsT, RestT
    <3>. QED  BY <2>4, <2>6, <3>1, EngineTypePartsNext
  <2>8. CallInv' /\ PhaseInv'
    BY <2>1, <2>5 DEF EngineInv, CallInv, PhaseInv
  <2>9. ClientInv'
    BY <2>1 DEF EngineInv, ClientInv
  <2>10. IdleInv'
    BY <2>1 DEF EngineInv, IdleInv
  <2>11. CountInv'
    BY <2>1 DEF EngineInv, CountInv
  <2>12. RelayInv'
    BY <2>1, <2>4, <2>5 DEF EngineInv, RelayInv
  <2>13. BacklogInv'
    BY <2>1, <2>5 DEF EngineInv, BacklogInv, OnTheWay, InProgress, InHand
  <2>14. BarrierInv'
    BY <2>1 DEF EngineInv, BarrierInv
  <2>15. ConsumedInv'
    BY <2>1, <2>5 DEF EngineInv, ConsumedInv, Consumed
  <2>16. SettledInv'
    <3> SUFFICES ASSUME early = 0, phase \notin {"OuterIdentity", "Failed"}
                 PROVE  /\ Still /\ Len(inbound') = 1
                        /\ call.op = "feed" => client.at = "reading"
                        /\ phase # "TLSTunnel" => Consumed
      BY <2>1, <2>5 DEF SettledInv, Still, Consumed
    <3>1. Settled
      BY <2>1 DEF EngineInv, SettledInv
    <3>. QED  BY <2>1, <2>4, <3>1 DEF EngineInv, SettledInv, Settled, ConsumedInv
  <2>. QED  BY <2>7, <2>8, <2>9, <2>10, <2>11, <2>12, <2>13, <2>14, <2>15, <2>16 DEF EngineInv

<1>TakeOne.
  ASSUME NEW s \in Seq(Nat), s # <<>>, NEW t \in Seq(Nat), NEW cap \in Nat, Len(s) <= cap
  PROVE  /\ Append(t, Head(s)) \in Seq(Nat) /\ Append(t, Head(s)) # <<>>
         /\ Len(Append(t, Head(s))) = Len(t) + 1 /\ Len(t) \in Nat
         /\ Tail(s) \in Seq(Nat) /\ Len(Tail(s)) + 1 = Len(s) /\ Len(Tail(s)) \in Nat
         /\ Len(Tail(s)) <= cap
    BY <1>TakeOne, SMTT(30)

<1>FewerOnTheWay.
  ASSUME NEW a \in Nat, NEW b \in Nat, b + 1 = a, NEW n \in Nat, NEW e \in Nat, NEW i \in {0, 1},
         a + 1 <= n + e + i
  PROVE  b + 1 <= n + e + i
    BY <1>FewerOnTheWay, SMTT(30)

\* A chunk is collected.
<1>CollectChunkInv.
  ASSUME EngineInv, UNCHANGED phase, CollectChunk
  PROVE  EngineInv'
  <2> USE <1>CollectChunkInv
  <2>   /\ call.at = "collect" /\ outbound # <<>> /\ outbound' = Tail(outbound)
        /\ call' = [call EXCEPT !.out = Append(@, Head(outbound)), !.got = TRUE]
        /\ UNCHANGED <<early, script, client, wrote, relay, pending, inbound, flushReq, flushed,
                       handshakeDone, established, stop, wg>>
    BY DEF CollectChunk
  <2>   call.op \in {"start", "feed", "protect"}
    BY CallShape
  <2>3. PICK out : out = Append(call.out, Head(outbound))
    OBVIOUS
  <2>4. /\ call.out \in Seq(Nat) /\ outbound \in Seq(Nat) /\ Len(outbound) <= OutboundCap
        /\ OutboundCap \in Nat
    BY EngineAssumption DEF EngineInv, EngineTypeOK
  <2>   /\ out \in Seq(Nat) /\ out # <<>> /\ Len(out) = Len(call.out) + 1 /\ Len(call.out) \in Nat
        /\ outbound' \in Seq(Nat) /\ Len(outbound') + 1 = Len(outbound) /\ Len(outbound') \in Nat
        /\ Len(outbound') <= OutboundCap
    BY <2>3, <2>4, <1>TakeOne
  <2>   /\ call'.op = call.op /\ call'.at = "collect" /\ call'.out = out /\ call'.got = TRUE
        /\ call'.result = call.result
    BY <2>3, EngineTypeParts, ZenonT(60) DEF EngineInv, CallT
  <2>7. CallT' /\ OutT'
    BY EngineTypeParts, ZenonT(60) DEF EngineInv, CallT, OutT
  <2>8. EngineTypeOK'
    <3>1. ClientT' /\ RelayT' /\ InT' /\ FlagsT' /\ RestT'
      BY EngineTypeParts DEF EngineInv, ClientT, RelayT, InT, FlagsT, RestT
    <3>. QED  BY <2>7, <3>1, EngineTypePartsNext
  <2>9. CallInv' /\ PhaseInv'
    BY DEF EngineInv, CallInv, PhaseInv
  <2>10. ClientInv'
    BY DEF EngineInv, ClientInv
  <2>11. IdleInv'
    BY DEF EngineInv, IdleInv
  <2>12. CountInv'
    BY DEF EngineInv, CountInv
  <2>13. RelayInv'
    BY DEF EngineInv, RelayInv
  <2>14. BacklogInv'
    <3>   InHand' = InHand /\ InProgress' = InProgress /\ pending' = pending /\ InProgress \in {0, 1}
      BY DEF InHand, InProgress
    <3>2. /\ OnTheWay = Len(outbound) + Len(pending) + Len(InHand)
          /\ OnTheWay' = Len(outbound') + Len(pending) + Len(InHand)
      BY DEF OnTheWay
    <3>3. Len(pending) \in Nat /\ Len(InHand) \in Nat /\ early \in Nat /\ client.pos \in Nat
      BY EngineTypes, SMTT(30) DEF EngineFields, EngineInv, InHand
    <3>4. OnTheWay \in Nat /\ OnTheWay' \in Nat /\ OnTheWay' + 1 = OnTheWay
      BY <3>2, <3>3, SMTT(30)
    <3>5. OnTheWay + 1 <= client.pos + early + InProgress
      BY DEF EngineInv, BacklogInv
    <3>6. OnTheWay' + 1 <= client.pos + early + InProgress
      BY <3>3, <3>4, <3>5, <1>FewerOnTheWay
    <3>7. OnTheWay' + Len(out) > 0
      BY <3>4, SMTT(30)
    <3>. QED  BY <3>6, <3>7 DEF BacklogInv
  <2>15. BarrierInv'
    BY DEF EngineInv, BarrierInv
  <2>16. ConsumedInv'
    BY DEF EngineInv, ConsumedInv, Consumed
  <2>17. SettledInv'
    BY DEF EngineInv, SettledInv, Still, Consumed
  <2>. QED  BY <2>8, <2>9, <2>10, <2>11, <2>12, <2>13, <2>14, <2>15, <2>16, <2>17 DEF EngineInv

\* The completion of the handshake ends the call, with all that is queued.
<1>CollectDoneInv.
  ASSUME EngineInv, UNCHANGED phase, CollectDone
  PROVE  EngineInv'
  <2> USE <1>CollectDoneInv
  <2>1. /\ call.at = "collect" /\ call.op \in {"start", "feed"} /\ handshakeDone # "none"
        /\ call' = [call EXCEPT !.at = "return", !.out = @ \o outbound,
                                !.result = IF handshakeDone = "ok" THEN "established" ELSE "error"]
        /\ outbound' = <<>> /\ handshakeDone' = "none"
        /\ UNCHANGED <<early, script, client, wrote, relay, pending, inbound, flushReq, flushed,
                       established, stop, wg>>
    BY DEF CollectDone
  <2>2. /\ client.at = "over" /\ established = client.ok /\ phase = "TLSTunnel" /\ ~stop
        /\ handshakeDone = "ok" => client.ok /\ established
    BY <2>1 DEF EngineInv, ClientInv, PhaseInv, CallInv
  <2>3. PICK out : out = call.out \o outbound
    OBVIOUS
  <2>4. /\ call.out \in Seq(Nat) /\ outbound \in Seq(Nat) /\ Len(outbound) \in Nat /\ OutboundCap \in Nat
    BY <2>1, EngineAssumption, EngineTypes DEF EngineFields, EngineInv, EngineTypeOK
  <2>5. /\ out \in Seq(Nat) /\ (call.out # <<>> => out # <<>>)
        /\ <<>> \in Seq(Nat) /\ Len(<<>>) <= OutboundCap /\ Len(<<>>) = 0
    BY <2>3, <2>4, SMTT(30)
  <2>6. /\ call'.op = call.op /\ call'.at = "return" /\ call'.out = out /\ call'.got = call.got
        /\ call'.result = IF handshakeDone = "ok" THEN "established" ELSE "error"
    BY <2>1, <2>3, EngineTypeParts, ZenonT(60) DEF EngineInv, CallT
  <2>7. CallT'
    <3>1. call'.result \in CallResults /\ call'.at \in CallAts /\ call'.op \in Ops /\ call'.got \in BOOLEAN
      BY <2>6, EngineTypeParts DEF CallResults, CallAts, EngineInv, CallT
    <3>2. call' = [op |-> call'.op, at |-> call'.at, out |-> call'.out, got |-> call'.got, result |-> call'.result]
      BY <2>1, <2>6, EngineTypeParts, ZenonT(60) DEF EngineInv, CallT
    <3>. QED  BY <2>1, <2>5, <2>6, <3>1, <3>2 DEF CallT
  <2>8. EngineTypeOK'
    <3>1. ClientT' /\ RelayT' /\ InT' /\ FlagsT' /\ RestT'
      BY <2>1, EngineTypeParts DEF EngineInv, ClientT, RelayT, InT, FlagsT, RestT
    <3>2. OutT'
      BY <2>1, <2>5, EngineTypeParts DEF EngineInv, OutT
    <3>. QED  BY <2>7, <3>1, <3>2, EngineTypePartsNext
  <2>9. CallInv' /\ PhaseInv'
    <3>1. call'.result \in {"established", "error"} /\ (call'.result = "established" => established)
      BY <2>2, <2>6
    <3>. QED  BY <2>1, <2>2, <2>5, <2>6, <3>1 DEF EngineInv, CallInv, PhaseInv
  <2>10. ClientInv'
    BY <2>1, <2>2 DEF EngineInv, ClientInv
  <2>11. IdleInv'
    BY <2>1, <2>2 DEF EngineInv, IdleInv
  <2>12. CountInv'
    BY <2>1 DEF EngineInv, CountInv
  <2>13. RelayInv'
    BY <2>1, <2>6 DEF EngineInv, RelayInv
  <2>14. BacklogInv'
    <3>   InHand' = InHand /\ InProgress' = 0 /\ InProgress = 0 /\ pending' = pending
      BY <2>1, <2>6 DEF InHand, InProgress
    <3>2. /\ OnTheWay = Len(outbound) + Len(pending) + Len(InHand)
          /\ OnTheWay' = 0 + Len(pending) + Len(InHand)
      BY <2>1, <2>5 DEF OnTheWay
    <3>3. Len(pending) \in Nat /\ Len(InHand) \in Nat /\ early \in Nat /\ client.pos \in Nat
      BY EngineTypes, SMTT(30) DEF EngineFields, EngineInv, InHand
    <3>4. OnTheWay + 1 <= client.pos + early + 0
      BY DEF EngineInv, BacklogInv
    <3>5. OnTheWay' + 1 <= client.pos + early + 0
      BY <2>4, <3>2, <3>3, <3>4, SMTT(30)
    <3>. QED  BY <2>1, <2>6, <3>5 DEF BacklogInv
  <2>15. BarrierInv'
    BY <2>1 DEF EngineInv, BarrierInv
  <2>16. ConsumedInv'
    <3>1. call'.result # "none"
      BY <2>6
    <3>. QED  BY <2>1, <2>6, <3>1 DEF ConsumedInv
  <2>17. SettledInv'
    <3> SUFFICES ASSUME early = 0, handshakeDone = "ok"
                 PROVE  Settled'
      BY <2>1, <2>2, <2>6 DEF SettledInv
    <3>1. client.ok /\ wrote = client.sent
      BY <2>2 DEF EngineInv, ClientInv, CountInv, Past
    <3>2. ~(wrote > client.sent)
      BY <3>1, EngineTypes, SMTT(30) DEF EngineFields, EngineInv
    <3>3. pending = <<>> /\ relay.at \notin {"put", "idle", "done"}
      BY <2>2, <3>1, <3>2 DEF EngineInv, RelayInv, BarrierInv, IdleInv
    <3>4. inbound = <<>>
      BY <2>1, <2>2 DEF EngineInv, SettledInv
    <3>. QED  BY <2>1, <2>2, <3>3, <3>4 DEF Settled, Still, Consumed
  <2>. QED  BY <2>8, <2>9, <2>10, <2>11, <2>12, <2>13, <2>14, <2>15, <2>16, <2>17 DEF EngineInv

\* A quiet engine has nothing on its way.
<1>QuietFacts.
  ASSUME EngineInv, Quiet
  PROVE  OnTheWay = 0 /\ outbound = <<>> /\ pending = <<>> /\ relay.at \in {"top", "readPeer", "write"}
  <2> USE <1>QuietFacts
  <2>1. outbound = <<>> /\ pending = <<>> /\ InHand = <<>> /\ relay.at \in {"top", "readPeer", "write"}
    BY DEF Quiet, EngineInv, RelayInv, InHand
  <2>2. OnTheWay = Len(<<>>) + Len(<<>>) + Len(<<>>)
    BY <2>1 DEF OnTheWay
  <2>3. OnTheWay = 0
    BY <2>2, SMTT(30)
  <2>. QED  BY <2>1, <2>3

\* A call that gives up waiting, or has nothing to wait for.
<1>CallEnds.
  ASSUME EngineInv, call.at # "send", NEW result \in CallResults, call' = [call EXCEPT !.at = "return", !.result = result]
  PROVE  /\ CallT' /\ call'.op = call.op /\ call'.at = "return" /\ call'.out = call.out
         /\ call'.got = call.got /\ call'.result = result
  <2> USE <1>CallEnds
  <2>   CallT
    BY EngineTypeParts DEF EngineInv
  <2>2. /\ call'.op = call.op /\ call'.at = "return" /\ call'.out = call.out
        /\ call'.got = call.got /\ call'.result = result
    BY ZenonT(60) DEF CallT
  <2>3. call' = [op |-> call'.op, at |-> call'.at, out |-> call'.out, got |-> call'.got, result |-> call'.result]
    BY <2>2, ZenonT(60) DEF CallT
  <2>. QED  BY <2>2, <2>3, ZenonT(60) DEF CallT, CallAts

\* The window of collect expires, with or without something under way.
<1>CollectQuietInv.
  ASSUME EngineInv, UNCHANGED phase, CollectQuiet
  PROVE  EngineInv'
  <2> USE <1>CollectQuietInv
  <2>1. /\ call.at = "collect" /\ (call.op # "protect" => handshakeDone = "none")
        /\ \/ Quiet /\ early' = early
           \/ early < MaxEarly /\ early' = early + 1
        /\ call' = [call EXCEPT !.at = "return"]
        /\ UNCHANGED <<script, client, wrote, relay, pending, inbound, outbound, flushReq, flushed,
                       handshakeDone, established, stop, wg>>
    BY DEF CollectQuiet
  <2>   call.op \in {"start", "feed", "protect"} /\ ~stop
    BY <2>1, CallShape DEF EngineInv, CallInv
  <2>   /\ CallT' /\ call'.op = call.op /\ call'.at = "return" /\ call'.out = call.out
        /\ call'.got = call.got /\ call'.result = call.result
    <3>   PICK result : result = call.result
      OBVIOUS
    <3>2. result \in CallResults
      BY EngineTypes DEF EngineFields, EngineInv, CallResults
    <3>3. call' = [call EXCEPT !.at = "return", !.result = result]
      BY <2>1, EngineTypeParts, ZenonT(60) DEF EngineInv, CallT
    <3>4. call.at # "send"
      BY <2>1
    <3>. QED  BY <3>2, <3>3, <3>4, <1>CallEnds
  <2>4. /\ early \in Nat /\ early' \in Nat /\ early' >= early /\ early' \in 0 .. MaxEarly
        /\ early' = 0 => early = 0 /\ Quiet
        /\ ~Quiet => early' = early + 1
    <3>1. early \in 0 .. MaxEarly /\ MaxEarly \in Nat
      BY EngineAssumption DEF EngineInv, EngineTypeOK
    <3>2. CASE Quiet /\ early' = early
      BY <3>1, <3>2, SMTT(30)
    <3>3. CASE early < MaxEarly /\ early' = early + 1
      BY <3>1, <3>3, SMTT(30)
    <3>. QED  BY <2>1, <3>2, <3>3
  <2>5. EngineTypeOK'
    <3>1. ClientT' /\ RelayT' /\ OutT' /\ InT' /\ FlagsT' /\ RestT'
      BY <2>1, <2>4, EngineTypeParts DEF EngineInv, ClientT, RelayT, OutT, InT, FlagsT, RestT
    <3>. QED  BY <3>1, EngineTypePartsNext
  <2>6. CallInv' /\ PhaseInv'
    BY <2>1 DEF EngineInv, CallInv, PhaseInv
  <2>7. ClientInv'
    BY <2>1 DEF EngineInv, ClientInv
  <2>8. IdleInv'
    BY <2>1 DEF EngineInv, IdleInv
  <2>9. CountInv'
    BY <2>1 DEF EngineInv, CountInv
  <2>10. RelayInv'
    BY <2>1 DEF EngineInv, RelayInv
  <2>11. BacklogInv'
    <3>1. OnTheWay' = OnTheWay /\ InProgress' = 0 /\ InProgress \in {0, 1}
      BY <2>1 DEF OnTheWay, InProgress, InHand
    <3>2. client.pos \in 1 .. Len(script) + 1 /\ Len(script) \in Nat
      BY EngineTypes DEF EngineFields, EngineInv
    <3>3. OnTheWay + 1 <= client.pos + early + InProgress
      BY DEF EngineInv, BacklogInv
    <3>4. OnTheWay \in Nat
      BY EngineTypes, SMTT(30) DEF EngineFields, EngineInv, OnTheWay, InHand
    <3>5. OnTheWay' + 1 <= client'.pos + early' + InProgress'
      <4>1. CASE Quiet
        BY <2>1, <2>4, <3>1, <3>2, <4>1, <1>QuietFacts, SMTT(30)
      <4>2. CASE ~Quiet
        BY <2>1, <2>4, <3>1, <3>2, <3>3, <3>4, <4>2, SMTT(30)
      <4>. QED  BY <4>1, <4>2
    <3>6. call.op = "protect" /\ early' = 0 => call.out # <<>>
      <4> SUFFICES ASSUME call.op = "protect", early' = 0, call.out = <<>> PROVE FALSE
        OBVIOUS
      <4>1. OnTheWay + Len(call.out) > 0
        BY <2>1 DEF EngineInv, BacklogInv
      <4>2. OnTheWay + Len(call.out) = 0 + Len(<<>>)
        BY <2>4, <1>QuietFacts
      <4>. QED  BY <4>1, <4>2, SMTT(30)
    <3>. QED  BY <3>5, <3>6 DEF BacklogInv
  <2>12. BarrierInv'
    BY <2>1 DEF EngineInv, BarrierInv
  <2>13. ConsumedInv'
    BY <2>1 DEF EngineInv, ConsumedInv, Consumed
  <2>14. SettledInv'
    <3> SUFFICES ASSUME early' = 0, phase \notin {"OuterIdentity", "Failed"}
                 PROVE  Settled /\ (phase # "TLSTunnel" => Consumed)
      BY <2>1 DEF SettledInv, Settled, Still, Consumed
    <3>   early = 0 /\ Quiet
      BY <2>4
    <3>2. phase # "TLSTunnel" => Consumed
      BY DEF EngineInv, SettledInv
    <3>3. inbound = <<>> /\ client.at \in {"reading", "over"}
      BY <2>1 DEF EngineInv, SettledInv, RelayInv, Quiet
    <3>4. client.at = "over" => Consumed
      BY <2>1, <3>2 DEF EngineInv, PhaseInv, Consumed
    <3>. QED  BY <3>2, <3>3, <3>4, <1>QuietFacts DEF Settled, Still
  <2>. QED  BY <2>5, <2>6, <2>7, <2>8, <2>9, <2>10, <2>11, <2>12, <2>13, <2>14 DEF EngineInv

\* readApplication gives up: an unprotected nothing.
<1>ReadTimeoutInv.
  ASSUME EngineInv, UNCHANGED phase, ReadTimeout
  PROVE  EngineInv'
  <2> USE <1>ReadTimeoutInv
  <2>   /\ call.op = "unprotect" /\ call.at = "read" /\ early < MaxEarly /\ early' = early + 1
        /\ call' = [call EXCEPT !.at = "return", !.result = "plain"]
        /\ UNCHANGED <<script, client, wrote, relay, pending, inbound, outbound, flushReq, flushed,
                       handshakeDone, established, stop, wg>>
    BY DEF ReadTimeout
  <2>   /\ CallT' /\ call'.op = call.op /\ call'.at = "return" /\ call'.out = call.out
        /\ call'.got = call.got /\ call'.result = "plain"
    <3>1. "plain" \in CallResults /\ call.at # "send"
      BY DEF CallResults
    <3>. QED  BY <3>1, <1>CallEnds
  <2>   early \in Nat /\ early' \in 0 .. MaxEarly /\ early' # 0
    <3>1. early \in 0 .. MaxEarly /\ MaxEarly \in Nat
      BY EngineAssumption DEF EngineInv, EngineTypeOK
    <3>. QED  BY <3>1, SMTT(30)
  <2>4. EngineTypeOK'
    <3>1. ClientT' /\ RelayT' /\ OutT' /\ InT' /\ FlagsT' /\ RestT'
      BY EngineTypeParts DEF EngineInv, ClientT, RelayT, OutT, InT, FlagsT, RestT
    <3>. QED  BY <3>1, EngineTypePartsNext
  <2>5. CallInv' /\ PhaseInv'
    BY DEF EngineInv, CallInv, PhaseInv
  <2>6. ClientInv' /\ IdleInv'
    BY DEF EngineInv, ClientInv, IdleInv
  <2>7. CountInv'
    BY DEF EngineInv, CountInv
  <2>8. RelayInv'
    <3>1. call.out = <<>>
      BY DEF EngineInv, CallInv
    <3>. QED  BY <3>1 DEF EngineInv, RelayInv
  <2>9. BacklogInv'
    <3>1. OnTheWay' = OnTheWay /\ InProgress' = 0 /\ InProgress = 0 /\ client' = client
      BY DEF OnTheWay, InProgress, InHand
    <3>2. client.pos \in Nat /\ OnTheWay \in Nat
      BY EngineTypes, SMTT(30) DEF EngineFields, EngineInv, OnTheWay, InHand
    <3>3. OnTheWay + 1 <= client.pos + early + 0
      BY <3>1 DEF EngineInv, BacklogInv
    <3>4. OnTheWay + 1 <= client.pos + (early + 1) + 0
      BY <3>2, <3>3, SMTT(30)
    <3>. QED  BY <3>1, <3>4 DEF BacklogInv
  <2>10. BarrierInv'
    BY DEF EngineInv, BarrierInv
  <2>11. ConsumedInv' /\ SettledInv'
    BY DEF ConsumedInv, SettledInv
  <2>. QED  BY <2>4, <2>5, <2>6, <2>7, <2>8, <2>9, <2>10, <2>11 DEF EngineInv

<1>CloseReturnsInv.
  ASSUME EngineInv, UNCHANGED phase, CloseReturns
  PROVE  EngineInv'
  <2> USE <1>CloseReturnsInv
  <2>   /\ call.op = "close" /\ call.at = "wait" /\ call' = [call EXCEPT !.at = "return"]
        /\ UNCHANGED <<early, script, client, wrote, relay, pending, inbound, outbound, flushReq, flushed,
                       handshakeDone, established, stop, wg>>
    BY DEF CloseReturns
  <2>   /\ CallT' /\ call'.op = call.op /\ call'.at = "return" /\ call'.out = call.out
        /\ call'.got = call.got /\ call'.result = call.result
    <3>   PICK result : result = call.result
      OBVIOUS
    <3>2. result \in CallResults
      BY EngineTypes DEF EngineFields, EngineInv, CallResults
    <3>3. call' = [call EXCEPT !.at = "return", !.result = result]
      BY EngineTypeParts, ZenonT(60) DEF EngineInv, CallT
    <3>4. call.at # "send"
      OBVIOUS
    <3>. QED  BY <3>2, <3>3, <3>4, <1>CallEnds
  <2>3. EngineTypeOK'
    <3>1. ClientT' /\ RelayT' /\ OutT' /\ InT' /\ FlagsT' /\ RestT'
      BY EngineTypeParts DEF EngineInv, ClientT, RelayT, OutT, InT, FlagsT, RestT
    <3>. QED  BY <3>1, EngineTypePartsNext
  <2>4. CallInv' /\ PhaseInv'
    BY DEF EngineInv, CallInv, PhaseInv
  <2>5. ClientInv' /\ IdleInv' /\ CountInv'
    BY DEF EngineInv, ClientInv, IdleInv, CountInv
  <2>6. RelayInv' /\ BacklogInv'
    BY DEF EngineInv, RelayInv, BacklogInv, OnTheWay, InProgress, InHand
  <2>7. BarrierInv' /\ ConsumedInv' /\ SettledInv'
    BY DEF EngineInv, BarrierInv, ConsumedInv, Consumed, SettledInv, PhaseInv
  <2>. QED  BY <2>3, <2>4, <2>5, <2>6, <2>7 DEF EngineInv

<1>1.
  ASSUME EngineInv, UNCHANGED phase, ClientStep \/ RelayStep \/ CallStep
  PROVE  EngineInv'
  <2> USE <1>1
  <2>1. CASE ClientStep
    BY <2>1, <1>ClientStepsInv, <1>ClientFailsInv, <1>RequestFlushInv, <1>FlushDoneInv, <1>StoreEstablishedInv, <1>PublishInv,
       Zenon DEF ClientStep
  <2>2. CASE RelayStep
    BY <2>2, <1>RelayTopInv, <1>RelayWritesInv, <1>RelayReadsInv, <1>RelayPutsInv, <1>RelayFlushReadsInv,
       <1>RelayFlushSendsInv DEF RelayStep
  <2>3. CASE CallStep
    BY <2>3, <1>QueueRecordInv, <1>CollectChunkInv, <1>CollectDoneInv, <1>CollectQuietInv, <1>ReadTimeoutInv,
       <1>CloseReturnsInv DEF CallStep
  <2>. QED  BY <2>1, <2>2, <2>3
<1>. QED  BY <1>1

-----------------------------------------------------------------------------
(* The method begins and ends the calls. *)

EngineRest == UNCHANGED <<early, script, client, wrote, relay, pending, inbound, outbound, flushReq, flushed,
                          handshakeDone, established, wg>>

\* A call as it begins.
LEMMA NewCall ==
  ASSUME NEW o \in Ops, NEW a \in CallAts, NEW r \in CallResults, NEW s,
         s \in IF o = "unprotect" \/ a = "send" THEN Seq(Unit) ELSE Seq(Nat),
         call' = [op |-> o, at |-> a, out |-> s, got |-> FALSE, result |-> r]
  PROVE  CallT' /\ call'.op = o /\ call'.at = a /\ call'.out = s /\ ~call'.got /\ call'.result = r
<1>   call'.op = o /\ call'.at = a /\ call'.out = s /\ ~call'.got /\ call'.result = r
  OBVIOUS
<1>2. call'.out \in IF call'.op = "unprotect" \/ call'.at = "send" THEN Seq(Unit) ELSE Seq(Nat)
  OBVIOUS
<1>3. call' \in [op : Ops, at : CallAts, out : {call'.out}, got : BOOLEAN, result : CallResults]
  OBVIOUS
<1>. QED  BY <1>2, <1>3 DEF CallT

LEMMA EmptyIsTyped == <<>> \in Seq(Nat) /\ <<>> \in Seq(Unit)
  BY SMT

LEMMA NoCallNext ==
  ASSUME call' = NoCall
  PROVE  /\ CallT' /\ call'.op = "none" /\ call'.at = "idle" /\ call'.out = <<>> /\ ~call'.got
         /\ call'.result = "none"
<1>1. "none" \in Ops /\ "idle" \in CallAts /\ "none" \in CallResults
  BY DEF Ops, CallAts, CallResults
<1>2. call' = [op |-> "none", at |-> "idle", out |-> <<>>, got |-> FALSE, result |-> "none"]
  BY DEF NoCall
<1>3. <<>> \in IF "none" = "unprotect" \/ "idle" = "send" THEN Seq(Unit) ELSE Seq(Nat)
  BY EmptyIsTyped
<1>. QED  BY <1>1, <1>2, <1>3, NewCall

\* What a new call, or the end of one, leaves as it is.
LEMMA MethodFrame ==
  ASSUME EngineInv, EngineRest, CallT', stop' \in BOOLEAN, stop => stop',
         phase' = "TLSTunnel" => phase = "TLSTunnel"
  PROVE  EngineTypeOK' /\ ClientInv' /\ CountInv' /\ BarrierInv'
<1>1. ClientT' /\ RelayT' /\ OutT' /\ InT' /\ FlagsT' /\ RestT'
  BY EngineTypeParts DEF EngineInv, EngineRest, ClientT, RelayT, OutT, InT, FlagsT, RestT
<1>2. EngineTypeOK'
  BY <1>1, EngineTypePartsNext
<1>3. ClientInv' /\ CountInv'
  BY DEF EngineInv, EngineRest, ClientInv, CountInv
<1>4. BarrierInv'
  BY DEF EngineInv, EngineRest, BarrierInv
<1>. QED  BY <1>2, <1>3, <1>4

\* The engine is left alone.
LEMMA EngineSame ==
  ASSUME EngineInv, UNCHANGED engineVars,
         \/ phase' = phase
         \/ call.op = "none" /\ phase' = "Failed"
         \/ call.op = "none" /\ phase = "AwaitingOuterSuccess" /\ phase' = "Completed"
  PROVE  EngineInv'
<1>   EngineRest /\ call' = call /\ stop' = stop
  BY DEF engineVars, EngineRest
<1>2. CallT' /\ stop' \in BOOLEAN
  BY EngineTypeParts DEF EngineInv, CallT, RestT
<1>3. EngineTypeOK' /\ ClientInv' /\ CountInv' /\ BarrierInv'
  BY <1>2, MethodFrame
<1>4. CallInv' /\ IdleInv'
  BY DEF EngineInv, EngineRest, CallInv, IdleInv
<1>5. PhaseInv'
  BY DEF EngineInv, EngineRest, PhaseInv, Inside
<1>6. RelayInv' /\ BacklogInv'
  BY DEF EngineInv, EngineRest, RelayInv, BacklogInv,
     OnTheWay, InProgress, InHand
<1>7. ConsumedInv'
  BY DEF EngineInv, EngineRest, ConsumedInv, Consumed
<1>8. SettledInv'
  BY DEF EngineInv, EngineRest, SettledInv, Settled, Still, Consumed
<1>. QED  BY <1>3, <1>4, <1>5, <1>6, <1>7, <1>8 DEF EngineInv

\* launch.
LEMMA CallStartInv ==
  ASSUME EngineInv, CallStart, call.op = "none", phase = "OuterIdentity", phase' = "TLSTunnel"
  PROVE  EngineInv'
<1>   /\ client' = [client EXCEPT !.at = "run"] /\ relay' = [relay EXCEPT !.at = "top"]
      /\ wg' = wg + 2
      /\ call' = [op |-> "start", at |-> "collect", out |-> <<>>, got |-> FALSE, result |-> "none"]
      /\ UNCHANGED <<early, script, wrote, pending, inbound, outbound, flushReq, flushed,
                     handshakeDone, established, stop>>
  BY DEF CallStart, NoCall
<1>   /\ client.at = "idle" /\ wrote = 0 /\ pending = <<>> /\ inbound = <<>> /\ outbound = <<>>
      /\ client.pos = 1 /\ client.sent = 0 /\ client.ok /\ ~established /\ ~stop /\ handshakeDone = "none"
      /\ ~flushReq /\ ~flushed
  BY DEF EngineInv, PhaseInv, IdleInv, ClientInv, CallInv, Past
<1>   /\ CallT' /\ call'.op = "start" /\ call'.at = "collect" /\ call'.out = <<>> /\ ~call'.got
      /\ call'.result = "none"
  <2>1. "start" \in Ops /\ "collect" \in CallAts /\ "none" \in CallResults
    BY DEF Ops, CallAts, CallResults
  <2>2. <<>> \in IF "start" = "unprotect" \/ "collect" = "send" THEN Seq(Unit) ELSE Seq(Nat)
    BY EmptyIsTyped
  <2>. QED  BY <2>1, <2>2, NewCall
<1>   /\ ClientT' /\ client'.at = "run" /\ client'.pos = 1 /\ client'.ok /\ client'.sent = 0
      /\ RelayT' /\ relay'.at = "top"
  <2>1. ClientT /\ RelayT
    BY EngineTypeParts DEF EngineInv
  <2>2. ClientT' /\ client'.at = "run" /\ client'.pos = client.pos /\ client'.ok = client.ok
        /\ client'.sent = client.sent
    BY <2>1, ZenonT(60) DEF ClientT, ClientAts
  <2>3. RelayT' /\ relay'.at = "top"
    BY <2>1, ZenonT(60) DEF RelayT, RelayAts
  <2>. QED  BY <2>2, <2>3
<1>5. EngineTypeOK'
  <2>1. wg' \in Nat
    <3>1. wg \in Nat
      BY DEF EngineInv, EngineTypeOK
    <3>. QED  BY <3>1, SMTT(30)
  <2>2. OutT' /\ InT' /\ FlagsT' /\ RestT'
    BY <2>1, EngineTypeParts DEF EngineInv, OutT, InT, FlagsT, RestT
  <2>. QED  BY <2>2, EngineTypePartsNext
<1>6. CallInv'
  BY DEF CallInv
<1>7. PhaseInv' /\ IdleInv'
  BY DEF PhaseInv, IdleInv, Inside
<1>8. ClientInv'
  BY DEF ClientInv, Past
<1>9. CountInv'
  <2>1. wrote' = 0 /\ 0 >= 0
    BY SMTT(30)
  <2>. QED  BY <2>1 DEF CountInv
<1>10. RelayInv'
  BY DEF RelayInv
<1>11. BacklogInv'
  <2>1. outbound' = <<>> /\ pending' = <<>> /\ InHand' = <<>> /\ InProgress' = 0
    BY DEF InHand, InProgress
  <2>2. early' \in Nat
    BY EngineTypes DEF EngineFields, EngineInv
  <2>3. OnTheWay' + 1 <= client'.pos + early' + InProgress'
    <3>1. OnTheWay' = Len(<<>>) + Len(<<>>) + Len(<<>>) /\ client'.pos = 1
      BY <2>1 DEF OnTheWay
    <3>2. PICK e \in Nat : e = early'
      BY <2>2
    <3>3. Len(<<>>) + Len(<<>>) + Len(<<>>) + 1 <= 1 + e + 0
      BY SMTT(30)
    <3>. QED  BY <2>1, <3>1, <3>2, <3>3
  <2>. QED  BY <2>3 DEF BacklogInv
<1>12. BarrierInv' /\ ConsumedInv' /\ SettledInv'
  BY DEF BarrierInv, ConsumedInv, Consumed, SettledInv
<1>. QED  BY <1>5, <1>6, <1>7, <1>8, <1>9, <1>10, <1>11, <1>12 DEF EngineInv

\* Protect is called when Unprotect has returned something.
LEMMA CallProtectInv ==
  ASSUME EngineInv, UNCHANGED phase, CallProtect,
         call.op = "unprotect", call.at = "return", call.out # <<>>
  PROVE  EngineInv'
<1>   EngineRest /\ stop' = stop /\ ~stop /\ phase = "InnerMethod" /\ established
  BY DEF CallProtect, EngineRest, EngineInv, CallInv, PhaseInv, Inside
<1>   /\ CallT' /\ call'.op = "protect" /\ call'.at = "write" /\ call'.out = <<>> /\ ~call'.got
      /\ call'.result = "none"
  <2>1. "protect" \in Ops /\ "write" \in CallAts /\ "none" \in CallResults
    BY DEF Ops, CallAts, CallResults
  <2>2. <<>> \in IF "protect" = "unprotect" \/ "write" = "send" THEN Seq(Unit) ELSE Seq(Nat)
    BY EmptyIsTyped
  <2>3. call' = [op |-> "protect", at |-> "write", out |-> <<>>, got |-> FALSE, result |-> "none"]
    BY DEF CallProtect, NoCall
  <2>. QED  BY <2>1, <2>2, <2>3, NewCall
<1>3. EngineTypeOK' /\ ClientInv' /\ CountInv' /\ BarrierInv'
  <2>1. stop' \in BOOLEAN
    BY DEF EngineInv, EngineTypeOK
  <2>. QED  BY <2>1, MethodFrame
<1>4. CallInv'
  BY DEF CallInv
<1>5. PhaseInv' /\ IdleInv'
  BY DEF EngineInv, EngineRest, PhaseInv, IdleInv, ClientInv
<1>6. RelayInv'
  BY DEF EngineInv, EngineRest, RelayInv
<1>7. BacklogInv'
  BY DEF EngineInv, EngineRest, BacklogInv, OnTheWay, InProgress, InHand
<1>8. ConsumedInv'
  BY DEF ConsumedInv
<1>9. SettledInv'
  <2>1. call.result # "error"
    BY DEF EngineInv, CallInv
  <2>. QED  BY <2>1 DEF EngineInv, EngineRest, SettledInv, Settled, Still, Consumed
<1>. QED  BY <1>3, <1>4, <1>5, <1>6, <1>7, <1>8, <1>9 DEF EngineInv

\* Close.
LEMMA CallCloseInv ==
  ASSUME EngineInv, CallClose, call.op = "none", phase' = "Failed"
  PROVE  EngineInv'
<1>   EngineRest /\ stop'
  BY DEF CallClose, EngineRest
<1>   /\ CallT' /\ call'.op = "close" /\ call'.at = "wait" /\ call'.out = <<>> /\ ~call'.got
      /\ call'.result = "none"
  <2>1. "close" \in Ops /\ "wait" \in CallAts /\ "none" \in CallResults
    BY DEF Ops, CallAts, CallResults
  <2>2. <<>> \in IF "close" = "unprotect" \/ "wait" = "send" THEN Seq(Unit) ELSE Seq(Nat)
    BY EmptyIsTyped
  <2>3. call' = [op |-> "close", at |-> "wait", out |-> <<>>, got |-> FALSE, result |-> "none"]
    BY DEF CallClose, NoCall
  <2>. QED  BY <2>1, <2>2, <2>3, NewCall
<1>3. EngineTypeOK' /\ ClientInv' /\ CountInv' /\ BarrierInv'
  <2>1. stop' \in BOOLEAN
    BY DEF CallClose
  <2>. QED  BY <2>1, MethodFrame
<1>4. CallInv' /\ PhaseInv'
  BY DEF CallInv, PhaseInv, Inside
<1>5. IdleInv'
  BY DEF EngineInv, EngineRest, IdleInv
<1>6. RelayInv'
  BY DEF EngineInv, EngineRest, RelayInv
<1>7. BacklogInv'
  BY DEF EngineInv, EngineRest, BacklogInv, OnTheWay, InProgress, InHand
<1>8. ConsumedInv' /\ SettledInv'
  BY DEF ConsumedInv, SettledInv
<1>. QED  BY <1>3, <1>4, <1>5, <1>6, <1>7, <1>8 DEF EngineInv

\* A call that has returned is over: the method fails, goes on in the tunnel that
\* is now up, or stays where it is in the handshake.
LEMMA ReleasedInv ==
  ASSUME EngineInv, Released, call.at = "return", call.op # "close",
         \/ phase' = "Failed"
         \/ call.result # "error" /\ established /\ phase' \in Inside
         \/ call.result # "error" /\ call.op \in {"start", "feed"} /\ phase' = phase
  PROVE  EngineInv'
<1>   EngineRest /\ stop' = stop /\ ~stop /\ call' = NoCall
  BY DEF Released, EngineRest, EngineInv, CallInv
<1>   /\ CallT' /\ call'.op = "none" /\ call'.at = "idle" /\ call'.out = <<>> /\ ~call'.got
      /\ call'.result = "none"
  BY NoCallNext
<1>3. phase \in {"TLSTunnel", "InnerMethod"} /\ (call.op \in {"start", "feed"} => phase = "TLSTunnel")
  <2>1. call.op \in {"start", "feed", "protect", "unprotect"}
    BY CallShape, EngineTypes DEF EngineFields, EngineInv, Ops
  <2>. QED  BY <2>1 DEF EngineInv, PhaseInv
<1>4. EngineTypeOK' /\ ClientInv' /\ CountInv' /\ BarrierInv'
  <2>1. stop' \in BOOLEAN
    BY DEF EngineInv, EngineTypeOK
  <2>2. phase' = "TLSTunnel" => phase = "TLSTunnel"
    BY <1>3 DEF Inside
  <2>. QED  BY <2>1, <2>2, MethodFrame
<1>5. CallInv'
  BY DEF CallInv
<1>6. PhaseInv' /\ IdleInv'
  BY <1>3 DEF EngineInv, EngineRest, PhaseInv, IdleInv, Inside
<1>7. RelayInv'
  BY DEF EngineInv, EngineRest, RelayInv
<1>8. BacklogInv'
  BY DEF EngineInv, EngineRest, BacklogInv, OnTheWay, InProgress, InHand
<1>9. ConsumedInv'
  <2> SUFFICES ASSUME Consumed, phase' = "TLSTunnel" PROVE established'
    BY DEF ConsumedInv, Consumed, EngineRest
  <2>1. call.result # "error" /\ call.op \in {"start", "feed"}
    BY DEF Inside
  <2>2. call.result # "none"
    BY <2>1 DEF EngineInv, ConsumedInv
  <2>3. call.result = "established"
    BY <2>1, <2>2, EngineTypes DEF EngineFields, EngineInv, CallInv
  <2>. QED  BY <2>3 DEF EngineInv, EngineRest, CallInv
<1>10. SettledInv'
  <2> SUFFICES ASSUME early = 0, phase' \notin {"OuterIdentity", "Failed"}
               PROVE  Settled /\ (phase' # "TLSTunnel" => Consumed)
    BY DEF SettledInv, EngineRest, Settled, Still, Consumed
  <2>1. Settled
    BY <1>3 DEF EngineInv, SettledInv
  <2>2. phase' # "TLSTunnel" => established
    BY <1>3
  <2>. QED  BY <2>1, <2>2 DEF EngineInv, ClientInv, Settled
<1>. QED  BY <1>4, <1>5, <1>6, <1>7, <1>8, <1>9, <1>10 DEF EngineInv

-----------------------------------------------------------------------------
(* What the method knows while the engine moves. *)

InMessages == \A i \in 1 .. Len(inbound) : inbound[i] \in Messages
SendMessage == call.at = "send" => call.out \in Messages

-----------------------------------------------------------------------------
(* The stream, as it moves from part to part. *)

LEMMA ContinuesConcat ==
  ASSUME NEW s \in Seq(Nat), NEW t \in Seq(Nat), NEW n \in Nat,
         Continues(s, n), Continues(t, n + Len(s))
  PROVE  Continues(s \o t, n) /\ s \o t \in Seq(Nat) /\ Len(s \o t) = Len(s) + Len(t)
<1>   s \o t \in Seq(Nat) /\ Len(s \o t) = Len(s) + Len(t)
  BY SMTT(30)
<1>2. ASSUME NEW i \in 1 .. Len(s \o t) PROVE (s \o t)[i] = n + i
  <2>1. CASE i <= Len(s)
    BY <2>1, SMTT(30) DEF Continues
  <2>2. CASE i > Len(s)
    <3>1. i - Len(s) \in 1 .. Len(t) /\ (s \o t)[i] = t[i - Len(s)]
      BY <2>2, SMTT(30)
    <3>. QED  BY <3>1, <2>2, SMTT(30) DEF Continues
  <2>. QED  BY <2>1, <2>2, SMTT(30)
<1>. QED  BY <1>2 DEF Continues

LEMMA ContinuesSplit ==
  ASSUME NEW s \in Seq(Nat), NEW n \in Nat, Continues(s, n), NEW k \in 0 .. Len(s)
  PROVE  /\ Continues(SubSeq(s, 1, k), n) /\ Continues(SubSeq(s, k + 1, Len(s)), n + k)
         /\ SubSeq(s, 1, k) \in Seq(Nat) /\ SubSeq(s, k + 1, Len(s)) \in Seq(Nat)
         /\ Len(SubSeq(s, 1, k)) = k /\ Len(SubSeq(s, k + 1, Len(s))) = Len(s) - k
  BY SMTT(30) DEF Continues

LEMMA ContinuesShort ==
  ASSUME NEW n \in Nat
  PROVE  Continues(<<>>, n) /\ Continues(<<n + 1>>, n) /\ Len(<<>>) = 0 /\ Len(<<n + 1>>) = 1
  BY SMTT(30) DEF Continues

\* The fragmenter sends a first part of what it has, or of what the call has.
LEMMA StreamNext ==
  ASSUME NEW d \in Seq(Nat), NEW r \in Seq(Nat), NEW c, NEW o, NEW p, NEW h, NEW w \in Nat,
         NEW k \in 0 .. Len(r), Stream(d, r, c, o, p, h, w)
  PROVE  Stream(d \o SubSeq(r, 1, k), SubSeq(r, k + 1, Len(r)), c, o, p, h, w)
<1>   Len(d) \in Nat /\ Len(r) \in Nat /\ 0 \in Nat /\ k \in Nat
  BY SMTT(30)
<1>2. PICK s : s = SubSeq(r, 1, k)
  OBVIOUS
<1>3. PICK t : t = SubSeq(r, k + 1, Len(r))
  OBVIOUS
<1>   /\ Continues(s, Len(d)) /\ Continues(t, Len(d) + k) /\ s \in Seq(Nat) /\ Len(s) = k
      /\ Len(t) = Len(r) - k
  BY <1>2, <1>3, ContinuesSplit DEF Stream
<1>5. 0 + Len(d) = Len(d)
  BY SMTT(30)
<1>6. Continues(d \o s, 0) /\ Len(d \o s) = Len(d) + Len(s)
  BY <1>5, ContinuesConcat DEF Stream
<1>7. Len(d \o s) = Len(d) + k /\ Len(d \o s) + Len(t) = Len(d) + Len(r)
  BY <1>6, SMTT(30)
<1>8. Stream(d \o s, t, c, o, p, h, w)
  BY <1>6, <1>7 DEF Stream
<1>. QED  BY <1>2, <1>3, <1>8

-----------------------------------------------------------------------------
(* The stream under the steps of the engine. *)

Parted == Stream(delivered, rest, InCall, outbound, pending, InHand, wrote)

\* A step of the engine, for the whole invariant.
LEMMA EngineStepPreserves ==
  IInv /\ (ClientStep \/ RelayStep \/ CallStep) /\ UNCHANGED peapVars => IInv'
<1>MessagesTail.
  ASSUME NEW S, NEW M, NEW s \in Seq(S), s # <<>>, \A i \in 1 .. Len(s) : s[i] \in M
  PROVE  \A i \in 1 .. Len(Tail(s)) : Tail(s)[i] \in M
  <2> USE <1>MessagesTail
  <2>1. Len(Tail(s)) = Len(s) - 1 /\ Len(s) \in Nat
    BY SMTT(30)
  <2> SUFFICES ASSUME NEW i \in 1 .. Len(Tail(s)) PROVE Tail(s)[i] \in M
    OBVIOUS
  <2>2. i + 1 \in 1 .. Len(s) /\ Tail(s)[i] = s[i + 1]
    BY <2>1, SMTT(30)
  <2>. QED  BY <2>2

<1>MessagesAppend.
  ASSUME NEW S, NEW M, NEW s \in Seq(S), NEW e \in S, e \in M, \A i \in 1 .. Len(s) : s[i] \in M
  PROVE  \A i \in 1 .. Len(Append(s, e)) : Append(s, e)[i] \in M
  <2> USE <1>MessagesAppend
  <2> SUFFICES ASSUME NEW i \in 1 .. Len(Append(s, e)) PROVE Append(s, e)[i] \in M
    OBVIOUS
  <2>1. \/ i \in 1 .. Len(s) /\ Append(s, e)[i] = s[i]
        \/ Append(s, e)[i] = e
    BY SMTT(30)
  <2>. QED  BY <2>1

\* A step of the engine neither begins nor ends a call, and hands over the
\* messages of the peer as they are.
<1>EngineFrame.
  ASSUME EngineInv, InMessages, SendMessage, ClientStep \/ RelayStep \/ CallStep
  PROVE  /\ call'.op = call.op
         /\ early' = 0 => early = 0
         /\ client.at = "idle" => client'.at = "idle"
         /\ InMessages' /\ SendMessage'
  <2> USE <1>EngineFrame
  <2>   CallT /\ inbound \in Seq(Seq(Unit))
    BY EngineTypeParts DEF EngineInv, InT
  <2>1. CASE ClientStep
    <3>1. UNCHANGED <<call, early, inbound>> /\ client.at # "idle"
      BY <2>1 DEF ClientStep, ClientSteps, ClientFails, RequestFlush, FlushDone, StoreEstablished, Publish
    <3>. QED  BY <3>1 DEF InMessages, SendMessage
  <2>2. CASE RelayTop \/ RelayPuts \/ RelayFlushSends
    <3>1. UNCHANGED <<call, early, inbound, client>>
      BY <2>2 DEF RelayTop, RelayPuts, RelayFlushSends
    <3>. QED  BY <3>1 DEF InMessages, SendMessage
  <2>3. CASE RelayWrites
    <3>1. /\ early' = early /\ relay.at = "write" /\ inbound' \in {inbound, Tail(inbound)}
          /\ call' = call \/ call' = [call EXCEPT !.at = "return", !.result = "plain", !.out = Head(inbound)]
          /\ client' = client \/ client.at = "reading"
      BY <2>3 DEF RelayWrites
    <3>2. InMessages'
      <4>1. inbound # <<>>
        BY <3>1 DEF EngineInv, RelayInv
      <4>2. \A i \in 1 .. Len(Tail(inbound)) : Tail(inbound)[i] \in Messages
        BY <4>1, <1>MessagesTail DEF InMessages
      <4>. QED  BY <3>1, <4>2 DEF InMessages
    <3>3. call'.op = call.op /\ ((call'.at = call.at /\ call'.out = call.out) \/ call'.at = "return")
      BY <3>1, ZenonT(60) DEF CallT
    <3>4. SendMessage'
      BY <3>3 DEF SendMessage
    <3>. QED  BY <3>1, <3>2, <3>3, <3>4
  <2>4. CASE RelayReads \/ RelayFlushReads
    <3>1. /\ early' = early /\ inbound' = inbound
          /\ call' = call \/ call' = [call EXCEPT !.at = "collect"]
          /\ client' = client \/ client.at = "writing"
      BY <2>4 DEF RelayReads, RelayFlushReads, TakeChunk
    <3>2. call'.op = call.op /\ (call' = call \/ call'.at = "collect")
      BY <3>1, ZenonT(60) DEF CallT
    <3>3. InMessages' /\ SendMessage'
      BY <3>1, <3>2 DEF InMessages, SendMessage
    <3>. QED  BY <3>1, <3>2, <3>3
  <2>5. CASE QueueRecord
    <3>1. /\ early' = early /\ client' = client /\ call.at = "send" /\ inbound' = Append(inbound, call.out)
          /\ call' = [call EXCEPT !.at = IF call.op = "feed" THEN "collect" ELSE "read", !.out = <<>>]
      BY <2>5 DEF QueueRecord
    <3>2. call'.op = call.op /\ call'.at \in {"collect", "read"}
      BY <3>1, ZenonT(60) DEF CallT
    <3>3. InMessages'
      <4>1. PICK e : e = call.out
        OBVIOUS
      <4>2. e \in Messages /\ e \in Seq(Unit)
        BY <3>1, <4>1 DEF SendMessage, CallT
      <4>3. \A i \in 1 .. Len(Append(inbound, e)) : Append(inbound, e)[i] \in Messages
        BY <4>2, <1>MessagesAppend DEF InMessages
      <4>. QED  BY <3>1, <4>1, <4>3 DEF InMessages
    <3>4. SendMessage'
      BY <3>2 DEF SendMessage
    <3>. QED  BY <3>1, <3>2, <3>3, <3>4
  <2>6. CASE CollectChunk \/ CollectDone \/ CloseReturns
    <3>1. /\ early' = early /\ client' = client /\ inbound' = inbound /\ call.at # "send"
          /\ \/ call' = [call EXCEPT !.out = Append(@, Head(outbound)), !.got = TRUE]
             \/ call' = [call EXCEPT !.at = "return", !.out = @ \o outbound,
                            !.result = IF handshakeDone = "ok" THEN "established" ELSE "error"]
             \/ call' = [call EXCEPT !.at = "return"]
      BY <2>6 DEF CollectChunk, CollectDone, CloseReturns
    <3>2. call'.op = call.op /\ call'.at # "send"
      BY <3>1, ZenonT(60) DEF CallT
    <3>. QED  BY <3>1, <3>2 DEF InMessages, SendMessage
  <2>7. CASE CollectQuiet \/ ReadTimeout
    <3>1. /\ early' \in {early, early + 1} /\ client' = client /\ inbound' = inbound
          /\ \/ call' = [call EXCEPT !.at = "return", !.result = "plain"]
             \/ call' = [call EXCEPT !.at = "return"]
      BY <2>7 DEF CollectQuiet, ReadTimeout
    <3>2. call'.op = call.op /\ call'.at # "send"
      BY <3>1, ZenonT(60) DEF CallT
    <3>3. early \in Nat
      BY EngineTypes DEF EngineFields, EngineInv
    <3>4. early' = 0 => early = 0
      BY <3>1, <3>3, SMTT(30)
    <3>. QED  BY <3>1, <3>2, <3>4 DEF InMessages, SendMessage
  <2>. QED  BY <2>1, <2>2, <2>3, <2>4, <2>5, <2>6, <2>7 DEF RelayStep, CallStep

<1>EngineStepMethod.
  ASSUME EngineInv, MethodInv, ClientStep \/ RelayStep \/ CallStep, UNCHANGED peapVars
  PROVE  MethodInv'
  <2> USE <1>EngineStepMethod
  <2>1. InMessages /\ SendMessage
    BY DEF MethodInv, JoinInv, InMessages, SendMessage
  <2>2. /\ call'.op = call.op /\ (early' = 0 => early = 0) /\ (client.at = "idle" => client'.at = "idle")
        /\ InMessages' /\ SendMessage'
    BY <2>1, <1>EngineFrame
  <2>   UNCHANGED <<method, phase, rest, in, messages, msk, inner, after, worker, loop, packet, server,
                    peer, delivered, earned>>
    BY DEF peapVars
  <2>4. TurnInv' /\ OuterInv'
    BY <2>2 DEF MethodInv, TurnInv, OuterInv
  <2>5. JoinInv'
    BY <2>2, ZenonT(60) DEF MethodInv, JoinInv, Joined, InMessages, SendMessage
  <2>6. PeerInv' /\ EarnedInv'
    BY <2>2 DEF MethodInv, PeerInv, EarnedInv
  <2>. QED  BY <2>4, <2>5, <2>6 DEF MethodInv

\* Parts of the stream, put together and taken apart.
<1>ContinuesAppend.
  ASSUME NEW s \in Seq(Nat), NEW n \in Nat, Continues(s, n)
  PROVE  Continues(Append(s, n + Len(s) + 1), n)
    BY <1>ContinuesAppend, SMTT(30) DEF Continues

<1>ContinuesTail.
  ASSUME NEW s \in Seq(Nat), NEW n \in Nat, Continues(s, n), s # <<>>
  PROVE  /\ Head(s) = n + 1 /\ Continues(Tail(s), n + 1)
         /\ Tail(s) \in Seq(Nat) /\ Len(Tail(s)) = Len(s) - 1
    BY <1>ContinuesTail, SMTT(30) DEF Continues

<1>StreamHold.
  ASSUME NEW d \in Seq(Nat), NEW r \in Seq(Nat), NEW c \in Seq(Nat), NEW o \in Seq(Nat), NEW w \in Nat,
         Stream(d, r, c, o, <<>>, <<>>, w)
  PROVE  Stream(d, r, c, o, <<>>, <<w + 1>>, w + 1)
  <2> USE <1>StreamHold
  <2>1. Len(d) \in Nat /\ Len(r) \in Nat /\ Len(c) \in Nat /\ Len(o) \in Nat
    BY SMTT(30)
  <2>2. PICK n \in Nat : n = Len(d) + Len(r) + Len(c) + Len(o)
    BY <2>1, SMTT(30)
  <2>3. w = n /\ n + Len(<<>>) = n /\ n + Len(<<>>) + Len(<<n + 1>>) = n + 1
    BY <2>2, SMTT(30) DEF Stream
  <2>. QED  BY <2>2, <2>3, ContinuesShort DEF Stream

<1>StreamPut.
  ASSUME NEW d \in Seq(Nat), NEW r \in Seq(Nat), NEW c \in Seq(Nat), NEW o \in Seq(Nat), NEW w \in Nat,
         Stream(d, r, c, o, <<>>, <<w>>, w)
  PROVE  Stream(d, r, c, Append(o, w), <<>>, <<>>, w)
  <2> USE <1>StreamPut
  <2>   Len(d) \in Nat /\ Len(r) \in Nat /\ Len(c) \in Nat /\ Len(o) \in Nat
    BY SMTT(30)
  <2>   PICK n \in Nat : n = Len(d) + Len(r) + Len(c)
    BY SMTT(30)
  <2>3. w = n + Len(o) + 1 /\ Len(Append(o, w)) = Len(o) + 1
    BY SMTT(30) DEF Stream
  <2>4. Continues(Append(o, w), n)
    BY <2>3, <1>ContinuesAppend DEF Stream
  <2>5. n + Len(Append(o, w)) \in Nat /\ n + Len(Append(o, w)) + Len(<<>>) \in Nat
        /\ w = n + Len(Append(o, w)) + Len(<<>>) + Len(<<>>)
    BY <2>3, SMTT(30)
  <2>. QED  BY <2>4, <2>5, ContinuesShort DEF Stream

<1>StreamKeep.
  ASSUME NEW d \in Seq(Nat), NEW r \in Seq(Nat), NEW c \in Seq(Nat), NEW o \in Seq(Nat),
         NEW p \in Seq(Nat), NEW w \in Nat, Stream(d, r, c, o, p, <<>>, w)
  PROVE  Stream(d, r, c, o, Append(p, w + 1), <<>>, w + 1)
  <2> USE <1>StreamKeep
  <2>   Len(d) \in Nat /\ Len(r) \in Nat /\ Len(c) \in Nat /\ Len(o) \in Nat /\ Len(p) \in Nat
    BY SMTT(30)
  <2>   PICK n \in Nat : n = Len(d) + Len(r) + Len(c) + Len(o)
    BY SMTT(30)
  <2>3. w + 1 = n + Len(p) + 1 /\ Len(Append(p, w + 1)) = Len(p) + 1
    BY SMTT(30) DEF Stream
  <2>4. Continues(Append(p, w + 1), n)
    BY <2>3, <1>ContinuesAppend DEF Stream
  <2>5. n + Len(Append(p, w + 1)) \in Nat /\ w + 1 = n + Len(Append(p, w + 1)) + Len(<<>>)
    BY <2>3, SMTT(30)
  <2>. QED  BY <2>4, <2>5, ContinuesShort DEF Stream

<1>StreamFlush.
  ASSUME NEW d \in Seq(Nat), NEW r \in Seq(Nat), NEW c \in Seq(Nat), NEW o \in Seq(Nat),
         NEW p \in Seq(Nat), NEW w \in Nat, Stream(d, r, c, o, p, <<>>, w)
  PROVE  Stream(d, r, c, o \o p, <<>>, <<>>, w)
  <2> USE <1>StreamFlush
  <2>1. Len(d) \in Nat /\ Len(r) \in Nat /\ Len(c) \in Nat /\ Len(o) \in Nat /\ Len(p) \in Nat
    BY SMTT(30)
  <2>   PICK n \in Nat : n = Len(d) + Len(r) + Len(c)
    BY <2>1, SMTT(30)
  <2>3. Continues(o \o p, n) /\ Len(o \o p) = Len(o) + Len(p)
    BY ContinuesConcat DEF Stream
  <2>4. w = n + Len(o) + Len(p) + Len(<<>>)
    BY DEF Stream
  <2>5. /\ n + Len(o \o p) \in Nat /\ n + Len(o \o p) + Len(<<>>) \in Nat
        /\ w = n + Len(o \o p) + Len(<<>>) + Len(<<>>)
    BY <2>1, <2>3, <2>4, SMTT(30)
  <2>. QED  BY <2>3, <2>5, ContinuesShort DEF Stream

\* The first chunk in the queue is taken by the call, or all of them.
<1>StreamTake.
  ASSUME NEW d \in Seq(Nat), NEW r \in Seq(Nat), NEW c \in Seq(Nat), NEW o \in Seq(Nat),
         NEW p, NEW h, NEW w \in Nat, o # <<>>, Stream(d, r, c, o, p, h, w)
  PROVE  Stream(d, r, Append(c, Head(o)), Tail(o), p, h, w)
  <2> USE <1>StreamTake
  <2>   Len(d) \in Nat /\ Len(r) \in Nat /\ Len(c) \in Nat /\ Len(o) \in Nat
    BY SMTT(30)
  <2>   PICK n \in Nat : n = Len(d) + Len(r)
    BY SMTT(30)
  <2>3. n + Len(c) \in Nat
    BY SMTT(30)
  <2>   Head(o) = n + Len(c) + 1 /\ Continues(Tail(o), n + Len(c) + 1) /\ Len(Tail(o)) = Len(o) - 1
    BY <2>3, <1>ContinuesTail DEF Stream
  <2>5. Continues(Append(c, Head(o)), n)
    BY <1>ContinuesAppend DEF Stream
  <2>6. Len(Append(c, Head(o))) = Len(c) + 1
    BY SMTT(30)
  <2>7. /\ n + Len(Append(c, Head(o))) = n + Len(c) + 1
        /\ n + Len(Append(c, Head(o))) + Len(Tail(o)) = n + Len(c) + Len(o)
    BY <2>6, SMTT(30)
  <2>. QED  BY <2>5, <2>7 DEF Stream

<1>StreamDrain.
  ASSUME NEW d \in Seq(Nat), NEW r \in Seq(Nat), NEW c \in Seq(Nat), NEW o \in Seq(Nat),
         NEW p, NEW h, NEW w \in Nat, Stream(d, r, c, o, p, h, w)
  PROVE  Stream(d, r, c \o o, <<>>, p, h, w)
  <2> USE <1>StreamDrain
  <2>1. Len(d) \in Nat /\ Len(r) \in Nat /\ Len(c) \in Nat /\ Len(o) \in Nat
    BY SMTT(30)
  <2>2. PICK n \in Nat : n = Len(d) + Len(r)
    BY <2>1, SMTT(30)
  <2>3. Continues(c \o o, n) /\ Len(c \o o) = Len(c) + Len(o)
    BY <2>2, ContinuesConcat DEF Stream
  <2>4. n + Len(c \o o) \in Nat /\ n + Len(c \o o) + Len(<<>>) = n + Len(c) + Len(o)
    BY <2>1, <2>3, SMTT(30)
  <2>. QED  BY <2>2, <2>3, <2>4, ContinuesShort DEF Stream

<1>PartTypes.
  ASSUME EngineInv
  PROVE  /\ CallT /\ RelayT /\ InCall \in Seq(Nat) /\ outbound \in Seq(Nat) /\ pending \in Seq(Nat)
         /\ wrote \in Nat
         /\ relay.at # "put" => InHand = <<>>
         /\ relay.at \notin {"flushRead", "flushSend"} => pending = <<>>
  <2> USE <1>PartTypes
  <2>1. CallT /\ RelayT /\ OutT /\ RestT
    BY EngineTypeParts DEF EngineInv
  <2>2. InCall \in Seq(Nat)
    BY <2>1, EmptyIsTyped DEF InCall, CallT
  <2>. QED  BY <2>1, <2>2 DEF OutT, RestT, InHand, EngineInv, RelayInv

\* Nothing of the stream moves.
<1>StreamRests.
  ASSUME EngineInv, Parted, UNCHANGED <<delivered, rest, wrote, pending, outbound>>,
         InCall' = InCall, InHand' = InHand
  PROVE  Parted'
    BY <1>StreamRests DEF Parted

<1>ClientStream.
  ASSUME EngineInv, Parted, UNCHANGED <<delivered, rest>>, ClientStep
  PROVE  Parted'
  <2> USE <1>ClientStream
  <2>1. UNCHANGED <<wrote, relay, pending, outbound, call>>
    BY DEF ClientStep, ClientSteps, ClientFails, RequestFlush, FlushDone, StoreEstablished, Publish
  <2>. QED  BY <2>1, <1>StreamRests DEF InCall, InHand

\* The relay reads a chunk from the pipe, or from Protect.
<1>TakeChunkCall.
  ASSUME EngineInv, TakeChunk, Offered
  PROVE  wrote' = wrote + 1 /\ InCall' = InCall
  <2> USE <1>TakeChunkCall
  <2>1. CallT
    BY <1>PartTypes
  <2>2. CASE call' = call
    BY <2>2 DEF TakeChunk, InCall
  <2>3. CASE call.op = "protect" /\ call.at = "write" /\ call' = [call EXCEPT !.at = "collect"]
    <3>1. call'.op = "protect" /\ call'.at = "collect" /\ call'.out = call.out
      BY <2>1, <2>3, ZenonT(60) DEF CallT
    <3>2. call.out = <<>>
      BY <2>3 DEF EngineInv, CallInv
    <3>. QED  BY <2>3, <3>1, <3>2 DEF TakeChunk, InCall
  <2>. QED  BY <2>2, <2>3 DEF TakeChunk, Offered

<1>RelayStream.
  ASSUME EngineInv, ~stop, Parted, delivered \in Seq(Nat), rest \in Seq(Nat),
         UNCHANGED <<delivered, rest>>, RelayStep
  PROVE  Parted'
  <2> USE <1>RelayStream
  <2>0. /\ CallT /\ RelayT /\ InCall \in Seq(Nat) /\ outbound \in Seq(Nat) /\ pending \in Seq(Nat)
        /\ wrote \in Nat
        /\ relay.at # "put" => InHand = <<>>
        /\ relay.at \notin {"flushRead", "flushSend"} => pending = <<>>
    BY <1>PartTypes
  <2>1. CASE RelayTop
    <3>1. PICK to \in {"done", "write", "flushRead", "readPeer"} : relay' = [relay EXCEPT !.at = to]
      BY <2>1, TopFields DEF TopStep
    <3>2. outbound' = outbound /\ pending' = pending /\ relay.at = "top" /\ wrote' = wrote /\ call' = call
      BY <2>1, TopFields DEF TopStep
    <3>3. relay'.at # "put"
      BY <2>0, <3>1 DEF RelayT
    <3>. QED  BY <3>2, <3>3, <1>StreamRests DEF InCall, InHand
  <2>2. CASE RelayWrites
    <3>1. /\ UNCHANGED <<wrote, pending, outbound>> /\ relay.at = "write"
          /\ relay' = [relay EXCEPT !.at = "top"]
          /\ \/ call' = call
             \/ /\ call' = [call EXCEPT !.at = "return", !.result = "plain", !.out = Head(inbound)]
                /\ call.op = "unprotect"
      BY <2>2 DEF RelayWrites
    <3>2. relay'.at # "put"
      BY <2>0, <3>1 DEF RelayT
    <3>3. call' = call \/ (call'.op = "unprotect" /\ call.op = "unprotect")
      BY <2>0, <3>1, ZenonT(60) DEF CallT
    <3>4. InCall' = InCall
      BY <3>3 DEF InCall
    <3>. QED  BY <3>1, <3>2, <3>4, <1>StreamRests DEF InHand
  <2>3. CASE RelayReads
    <3>   relay.at = "readPeer" /\ pending = <<>> /\ InHand = <<>> /\ UNCHANGED <<pending, outbound>>
      BY <2>0, <2>3 DEF RelayReads
    <3>2. CASE Offered
      <4>1. TakeChunk /\ relay' = [at |-> "put", held |-> wrote + 1]
        BY <2>3, <3>2 DEF RelayReads
      <4>2. wrote' = wrote + 1 /\ InCall' = InCall
        BY <3>2, <4>1, <1>TakeChunkCall
      <4>3. InHand' = <<wrote + 1>>
        BY <4>1 DEF InHand
      <4>4. Stream(delivered, rest, InCall, outbound, <<>>, <<wrote + 1>>, wrote + 1)
        BY <2>0, <1>StreamHold DEF Parted
      <4>. QED  BY <4>2, <4>3, <4>4 DEF Parted
    <3>3. CASE ~Offered
      <4>1. relay' = [relay EXCEPT !.at = "top"] /\ UNCHANGED <<wrote, call>>
        BY <2>3, <3>3 DEF RelayReads
      <4>2. relay'.at # "put"
        BY <2>0, <4>1 DEF RelayT
      <4>. QED  BY <4>1, <4>2, <1>StreamRests DEF InCall, InHand
    <3>. QED  BY <3>2, <3>3
  <2>4. CASE RelayPuts
    <3>   relay.at = "put" /\ Room > 0 /\ relay.held = wrote /\ pending = <<>>
      BY <2>0, <2>4, RoomLeft DEF RelayPuts, EngineInv, RelayInv
    <3>2. /\ outbound' = Append(outbound, wrote) /\ pending' = <<>> /\ UNCHANGED <<wrote, call>>
          /\ relay' = [at |-> "top", held |-> 0]
      BY <2>4 DEF RelayPuts
    <3>3. InHand = <<wrote>> /\ InHand' = <<>> /\ InCall' = InCall
      BY <3>2 DEF InHand, InCall
    <3>4. Stream(delivered, rest, InCall, Append(outbound, wrote), <<>>, <<>>, wrote)
      BY <2>0, <3>3, <1>StreamPut DEF Parted
    <3>. QED  BY <3>2, <3>3, <3>4 DEF Parted
  <2>5. CASE RelayFlushReads
    <3>   relay.at = "flushRead" /\ InHand = <<>> /\ UNCHANGED outbound
      BY <2>0, <2>5 DEF RelayFlushReads
    <3>2. CASE Offered
      <4>   TakeChunk /\ pending' = Append(pending, wrote + 1) /\ UNCHANGED relay
        BY <2>5, <3>2 DEF RelayFlushReads
      <4>2. wrote' = wrote + 1 /\ InCall' = InCall
        BY <3>2, <1>TakeChunkCall
      <4>3. InHand' = <<>>
        BY DEF InHand
      <4>4. Stream(delivered, rest, InCall, outbound, Append(pending, wrote + 1), <<>>, wrote + 1)
        BY <2>0, <1>StreamKeep DEF Parted
      <4>. QED  BY <4>2, <4>3, <4>4 DEF Parted
    <3>3. CASE ~Offered
      <4>1. relay' = [relay EXCEPT !.at = "flushSend"] /\ UNCHANGED <<wrote, call, pending>>
        BY <2>5, <3>3 DEF RelayFlushReads
      <4>2. relay'.at # "put"
        BY <2>0, <4>1 DEF RelayT
      <4>. QED  BY <4>1, <4>2, <1>StreamRests DEF InCall, InHand
    <3>. QED  BY <3>2, <3>3
  <2>6. CASE RelayFlushSends
    <3>   /\ relay.at = "flushSend" /\ InHand = <<>> /\ UNCHANGED <<wrote, call>>
          /\ outbound' = outbound \o pending /\ pending' = <<>> /\ relay' = [relay EXCEPT !.at = "top"]
      BY <2>0, <2>6 DEF RelayFlushSends
    <3>2. relay'.at # "put"
      BY <2>0 DEF RelayT
    <3>3. InHand' = <<>> /\ InCall' = InCall
      BY <3>2 DEF InHand, InCall
    <3>4. Stream(delivered, rest, InCall, outbound \o pending, <<>>, <<>>, wrote)
      BY <2>0, <1>StreamFlush DEF Parted
    <3>. QED  BY <3>3, <3>4 DEF Parted
  <2>. QED  BY <2>1, <2>2, <2>3, <2>4, <2>5, <2>6 DEF RelayStep

<1>CallStream.
  ASSUME EngineInv, Parted, delivered \in Seq(Nat), rest \in Seq(Nat),
         UNCHANGED <<delivered, rest>>, CallStep
  PROVE  Parted'
  <2> USE <1>CallStream
  <2>   CallT /\ InCall \in Seq(Nat) /\ outbound \in Seq(Nat) /\ wrote \in Nat
    BY <1>PartTypes
  <2>1. /\ call.at = "collect" => call.op \in {"start", "feed", "protect"}
        /\ UNCHANGED <<wrote, pending, relay>>
    BY CallShape DEF CallStep, QueueRecord, CollectChunk, CollectDone, CollectQuiet, ReadTimeout,
       CloseReturns
  <2>   InHand' = InHand
    BY <2>1 DEF InHand
  <2>3. CASE QueueRecord
    <3>1. /\ call.at = "send" /\ outbound' = outbound
          /\ call' = [call EXCEPT !.at = IF call.op = "feed" THEN "collect" ELSE "read", !.out = <<>>]
      BY <2>3 DEF QueueRecord
    <3>2. call'.out = <<>>
      BY <3>1, ZenonT(60) DEF CallT
    <3>3. InCall' = InCall
      BY <3>1, <3>2 DEF InCall
    <3>. QED  BY <2>1, <3>1, <3>3, <1>StreamRests
  <2>4. CASE CollectChunk
    <3>   /\ call.at = "collect" /\ outbound # <<>> /\ outbound' = Tail(outbound)
          /\ call' = [call EXCEPT !.out = Append(@, Head(outbound)), !.got = TRUE]
      BY <2>4 DEF CollectChunk
    <3>2. call'.op = call.op /\ call'.at = "collect" /\ call'.out = Append(call.out, Head(outbound))
      BY ZenonT(60) DEF CallT
    <3>3. InCall = call.out /\ InCall' = Append(call.out, Head(outbound))
      BY <2>1, <3>2 DEF InCall
    <3>4. Stream(delivered, rest, Append(InCall, Head(outbound)), Tail(outbound), pending, InHand, wrote)
      BY <1>StreamTake DEF Parted
    <3>. QED  BY <2>1, <3>3, <3>4 DEF Parted
  <2>5. CASE CollectDone
    <3>1. /\ call.at = "collect" /\ outbound' = <<>>
          /\ call' = [call EXCEPT !.at = "return", !.out = @ \o outbound,
                            !.result = IF handshakeDone = "ok" THEN "established" ELSE "error"]
      BY <2>5 DEF CollectDone
    <3>2. call'.op = call.op /\ call'.at = "return" /\ call'.out = call.out \o outbound
      BY <3>1, ZenonT(60) DEF CallT
    <3>3. InCall = call.out /\ InCall' = call.out \o outbound
      BY <2>1, <3>1, <3>2 DEF InCall
    <3>4. Stream(delivered, rest, InCall \o outbound, <<>>, pending, InHand, wrote)
      BY <1>StreamDrain DEF Parted
    <3>. QED  BY <2>1, <3>1, <3>3, <3>4 DEF Parted
  <2>6. CASE CollectQuiet
    <3>   call.at = "collect" /\ call' = [call EXCEPT !.at = "return"] /\ outbound' = outbound
      BY <2>6 DEF CollectQuiet
    <3>2. call'.op = call.op /\ call'.at = "return" /\ call'.out = call.out
      BY ZenonT(60) DEF CallT
    <3>3. InCall' = InCall
      BY <2>1, <3>2 DEF InCall
    <3>. QED  BY <2>1, <3>3, <1>StreamRests
  <2>7. CASE ReadTimeout \/ CloseReturns
    <3>1. /\ outbound' = outbound /\ call.op \in {"unprotect", "close"}
          /\ \/ call' = [call EXCEPT !.at = "return", !.result = "plain"]
             \/ call' = [call EXCEPT !.at = "return"]
      BY <2>7 DEF ReadTimeout, CloseReturns
    <3>2. call'.op = call.op
      BY <3>1, ZenonT(60) DEF CallT
    <3>3. InCall' = InCall
      BY <3>1, <3>2 DEF InCall
    <3>. QED  BY <2>1, <3>1, <3>3, <1>StreamRests
  <2>. QED  BY <2>3, <2>4, <2>5, <2>6, <2>7 DEF CallStep

<1>1.
  ASSUME IInv, ClientStep \/ RelayStep \/ CallStep, UNCHANGED peapVars
  PROVE  IInv'
  <2> USE <1>1
  <2>   EngineInv /\ MethodInv /\ StreamInv /\ TypeOK
    BY DEF IInv
  <2>   UNCHANGED <<method, phase, rest, in, messages, msk, inner, after, worker, loop, packet, server,
                    peer, delivered, earned>>
    BY DEF peapVars
  <2>3. EngineInv'
    BY EngineStepInv
  <2>4. MethodInv'
    BY <1>EngineStepMethod
  <2>5. TypeOK'
    BY <2>3, ZenonT(60) DEF TypeOK, EngineInv
  <2>6. StreamInv'
    <3> SUFFICES ASSUME Running PROVE Parted'
      BY DEF StreamInv, Parted, Running
    <3>1. Parted /\ delivered \in Seq(Nat) /\ rest \in Seq(Nat)
      BY DEF StreamInv, Parted, TypeOK
    <3>2. ~stop
      BY DEF Running, MethodInv, TurnInv, EngineInv, CallInv
    <3>. QED  BY <3>1, <3>2, <1>ClientStream, <1>RelayStream, <1>CallStream
  <2>. QED  BY <2>3, <2>4, <2>5, <2>6 DEF IInv
<1>. QED  BY <1>1

-----------------------------------------------------------------------------
(* The fragmenters. *)

Packets(S) == [L : BOOLEAN, M : BOOLEAN, len : Nat, data : Seq(S)]

LEMMA NoPartsTyped ==
  ASSUME NEW S
  PROVE  NoParts \in Parts(S) /\ ~NoParts.open /\ NoParts.got = <<>> /\ NoParts.expected = 0
<1>1. <<>> \in Seq(S) /\ 0 \in Nat
  BY SMT
<1>. QED  BY <1>1 DEF NoParts, Parts

LEMMA Joining ==
  ASSUME NEW S, NEW s \in Seq(S), NEW t \in Seq(S)
  PROVE  s \o t \in Seq(S) /\ Len(s \o t) = Len(s) + Len(t) /\ Len(s) \in Nat /\ Len(t) \in Nat
  BY SMTT(30)

\* Records, field by field.
LEMMA PartsFields ==
  ASSUME NEW a, NEW r, NEW w, NEW u, u = [open |-> a, expected |-> r, got |-> w]
  PROVE  u.open = a /\ u.expected = r /\ u.got = w
  OBVIOUS

LEMMA ResultTyped ==
  ASSUME NEW S, NEW a \in Parts(S), NEW r \in Results, NEW w \in Seq(S), NEW u,
         u = [in |-> a, result |-> r, whole |-> w]
  PROVE  u \in [in : Parts(S), result : Results, whole : Seq(S)]
  OBVIOUS

LEMMA PacketTyped ==
  ASSUME NEW S, NEW l \in BOOLEAN, NEW m \in BOOLEAN, NEW n \in Nat, NEW w \in Seq(S), NEW u,
         u = [L |-> l, M |-> m, len |-> n, data |-> w]
  PROVE  u \in Packets(S)
  BY DEF Packets

\* What Push makes of a packet.
LEMMA PushTyped ==
  ASSUME NEW S, NEW q \in Parts(S), NEW f \in Packets(S)
  PROVE  Push(q, f) \in [in : Parts(S), result : Results, whole : Seq(S)]
<1>   /\ f.data \in Seq(S) /\ q.got \in Seq(S) /\ f.len \in Nat /\ q.expected \in Nat
  BY DEF Packets, Parts
<1>   q.got \o f.data \in Seq(S) /\ <<>> \in Seq(S)
  BY SMTT(30)
<1>3. PICK got \in Seq(S) : got = IF f.L THEN f.data ELSE q.got \o f.data
  OBVIOUS
<1>4. PICK expected \in Nat : expected = IF f.L THEN f.len ELSE q.expected
  OBVIOUS
<1>5. PICK now \in Parts(S) : now = [open |-> TRUE, expected |-> expected, got |-> got]
  BY DEF Parts
<1>6. Push(q, f) \in {PushFails(q), [in |-> q, result |-> "complete", whole |-> f.data], PushFails(now),
                      [in |-> now, result |-> "more", whole |-> <<>>],
                      [in |-> NoParts, result |-> "complete", whole |-> got]}
  BY <1>3, <1>4, <1>5 DEF Push
<1>7. NoParts \in Parts(S)
  BY NoPartsTyped
<1>   "error" \in Results /\ "complete" \in Results /\ "more" \in Results
  BY DEF Results
<1>9. PICK a \in Parts(S), r \in Results, w \in Seq(S) : Push(q, f) = [in |-> a, result |-> r, whole |-> w]
  <2>1. CASE Push(q, f) = PushFails(q)
    BY <2>1 DEF PushFails
  <2>2. CASE Push(q, f) = [in |-> q, result |-> "complete", whole |-> f.data]
    BY <2>2
  <2>3. CASE Push(q, f) = PushFails(now)
    BY <2>3 DEF PushFails
  <2>4. CASE Push(q, f) = [in |-> now, result |-> "more", whole |-> <<>>]
    BY <2>4
  <2>5. CASE Push(q, f) = [in |-> NoParts, result |-> "complete", whole |-> got]
    BY <1>7, <2>5
  <2>. QED  BY <1>6, <2>1, <2>2, <2>3, <2>4, <2>5
<1>. QED  BY <1>9, ResultTyped

LEMMA CutBounds ==
  ASSUME NEW s \in Seq(Nat), NEW k, k = Cut(s, FragmentSize)
  PROVE  /\ k \in 0 .. Len(s) /\ k \in Nat /\ Len(s) \in Nat
         /\ (Len(s) > FragmentSize) <=> k < Len(s)
         /\ k < Len(s) \/ k = Len(s)
<1>1. FragmentSize \in Nat \ {0}
  BY PeapAssumption
<1>. QED  BY <1>1, SMTT(30) DEF Cut

LEMMA SplitTyped ==
  ASSUME NEW s \in Seq(Nat), NEW k \in 0 .. Len(s)
  PROVE  /\ SubSeq(s, 1, k) \in Seq(Nat) /\ SubSeq(s, k + 1, Len(s)) \in Seq(Nat)
         /\ Len(SubSeq(s, 1, k)) = k /\ Len(SubSeq(s, k + 1, Len(s))) = Len(s) - k
         /\ k < Len(s) => SubSeq(s, k + 1, Len(s)) # <<>>
         /\ k = Len(s) => SubSeq(s, k + 1, Len(s)) = <<>>
<1>   /\ SubSeq(s, 1, k) \in Seq(Nat) /\ SubSeq(s, k + 1, Len(s)) \in Seq(Nat)
      /\ Len(SubSeq(s, 1, k)) = k /\ Len(SubSeq(s, k + 1, Len(s))) = Len(s) - k
  BY SMTT(30)
<1>2. PICK t \in Seq(Nat) : t = SubSeq(s, k + 1, Len(s))
  OBVIOUS
<1>3. Len(t) = Len(s) - k /\ Len(s) \in Nat /\ k \in Nat
  BY <1>2, SMTT(30)
<1>4. k < Len(s) => t # <<>>
  BY <1>3, SMTT(30)
<1>5. k = Len(s) => Len(t) = 0
  BY <1>3, SMTT(30)
<1>6. k = Len(s) => t = <<>>
  BY <1>5, NonEmpty
<1>. QED  BY <1>2, <1>4, <1>6

\* The server's view of a message between two fragments.
Expects(q, s) == IF s = <<>> THEN q = NoParts ELSE q.open /\ q.expected = Len(q.got) + Len(s)

LEMMA SizeTyped ==
  ASSUME NEW b
  PROVE  Size(b) \in {1, 2} /\ Size(b) \in Nat /\ (b = "none" => Size(b) = 1)
<1>1. 1 \in Nat /\ 2 \in Nat
  BY SMT
<1>. QED  BY <1>1 DEF Size

LEMMA WholeTyped ==
  ASSUME NEW b \in Bodies
  PROVE  Whole(b) \in Seq(Unit) /\ Len(Whole(b)) = Size(b)
<1>1. PICK z \in Nat : z = Size(b)
  BY SizeTyped
<1>2. ASSUME NEW i \in 1 .. z PROVE <<b, i>> \in Unit
  <2>1. i \in Nat
    BY SMTT(30)
  <2>. QED  BY <2>1 DEF Unit
<1>3. [i \in 1 .. z |-> <<b, i>>] \in [1 .. z -> Unit]
  BY <1>2
<1>4. PICK w \in [1 .. z -> Unit] : w = Whole(b)
  BY <1>1, <1>3 DEF Whole
<1>5. w \in Seq(Unit) /\ Len(w) = z
  BY SMTT(30)
<1>. QED  BY <1>1, <1>4, <1>5

-----------------------------------------------------------------------------
(* A round is answered. *)

LEMMA ReplyFacts ==
  ASSUME NEW action, NEW frag, NEW tls, Reply(action, frag, tls)
  PROVE  /\ worker' = "idle" /\ packet' = NoPacket /\ packet'.kind = "none"
         /\ loop' \in {"recv", "over"}
         /\ loop' # "over" => loop = "reply" /\ action = "send"
         /\ IF tls /\ loop = "reply"
            THEN peer' = Push(peer.in, frag) /\ delivered' = delivered \o frag.data
            ELSE UNCHANGED <<peer, delivered>>
<1>1. packet' = NoPacket /\ NoPacket.kind = "none"
  BY DEF Reply, NoPacket
<1>. QED  BY <1>1 DEF Reply

LEMMA ReplyTurn ==
  ASSUME MethodInv, NEW action, NEW frag, NEW tls, Reply(action, frag, tls), call'.op = "none",
         loop # "over" /\ action = "send" => phase' \notin {"Failed", "Completed"} /\ messages' <= MaxMessageCount
  PROVE  TurnInv'
<1>1. /\ worker' = "idle" /\ packet'.kind = "none" /\ loop' \in {"recv", "over"}
      /\ loop' # "over" => loop = "reply" /\ action = "send"
  BY ReplyFacts
<1>. QED  BY <1>1 DEF TurnInv

\* What is being joined does not change.
LEMMA JoinKept ==
  ASSUME MethodInv, UNCHANGED <<inbound, in, server>>, call'.at # "send", worker' # "handle",
         loop' # "over" => loop # "over" /\ ~(worker = "handle" /\ packet.kind = "tls")
  PROVE  JoinInv'
<1>1. JoinInv
  BY DEF MethodInv
<1>. QED  BY <1>1 DEF JoinInv, Joined

\* Nothing is sent to the server's reassembly.
LEMMA PeerKept ==
  ASSUME MethodInv, UNCHANGED <<early, peer>>, loop' # "over" => loop # "over" /\ rest' = rest
  PROVE  PeerInv'
<1>1. PeerInv
  BY DEF MethodInv
<1>. QED  BY <1>1 DEF PeerInv

\* A packet that arrived is typed.
LEMMA NoPacketTyped ==
  /\ NoPacket \in [kind : PeapPackets \cup MsPackets \cup {"none"},
                   frag : [L : BOOLEAN, M : BOOLEAN, len : Nat, data : Seq(Unit)]]
  /\ NoFrag \in [L : BOOLEAN, M : BOOLEAN, len : Nat, data : Seq(Unit)]
<1>1. <<>> \in Seq(Unit) /\ 0 \in Nat
  BY SMT
<1>2. NoFrag \in [L : BOOLEAN, M : BOOLEAN, len : Nat, data : Seq(Unit)]
  BY <1>1 DEF NoFrag
<1>. QED  BY <1>2 DEF NoPacket

-----------------------------------------------------------------------------
(* The server, the loop and the end of the worker. *)

LEMMA Given ==
  ASSUME IInv
  PROVE  /\ TypeOK /\ EngineTypeOK /\ EngineInv /\ StreamInv /\ MethodInv
         /\ TurnInv /\ OuterInv /\ JoinInv /\ PeerInv /\ EarnedInv
  BY DEF IInv, TypeOK, MethodInv

\* The parts of the stream stay where they are.
LEMMA StreamKept ==
  ASSUME StreamInv, method' = method, loop' # "over" => loop # "over",
         UNCHANGED <<delivered, rest, wrote, outbound, pending>>, InCall' = InCall, InHand' = InHand
  PROVE  StreamInv'
  BY DEF StreamInv, Running

LEMMA StreamOver ==
  ASSUME loop' = "over"
  PROVE  StreamInv'
  BY DEF StreamInv, Running

LEMMA PartsSame ==
  ASSUME UNCHANGED engineVars
  PROVE  /\ InCall' = InCall /\ InHand' = InHand
         /\ UNCHANGED <<early, wrote, pending, inbound, outbound, call, client, established, stop>>
  BY DEF engineVars, InCall, InHand

LEMMA ServerSendsInv ==
  IInv /\ ServerSends => IInv'
<1>PartTyped.
  ASSUME NEW S, NEW w, NEW a \in Int, NEW b \in Int, \A i \in a .. b : w[i] \in S
  PROVE  SubSeq(w, a, b) \in Seq(S)
    BY <1>PartTyped, SMT

\* A packet that is not a fragment.
<1>ArrivesInv.
  ASSUME IInv, NEW kind, kind \in (IF method = "peap" THEN PeapPackets \ {"tls"} ELSE MsPackets),
         Arrives(kind, NoFrag), UNCHANGED server
  PROVE  IInv'
  <2> USE <1>ArrivesInv
  <2>   /\ TypeOK /\ EngineTypeOK /\ EngineInv /\ StreamInv /\ MethodInv
        /\ TurnInv /\ OuterInv /\ JoinInv /\ PeerInv /\ EarnedInv
    BY Given
  <2>   /\ loop = "recv" /\ worker' = "handle" /\ loop' = "reply"
        /\ packet' = [kind |-> kind, frag |-> NoFrag]
        /\ UNCHANGED <<engineVars, method, phase, rest, in, messages, msk, inner, after, peer, delivered, earned>>
    BY DEF Arrives
  <2>   kind \in PeapPackets \cup MsPackets /\ kind # "tls" /\ kind # "none"
    BY DEF PeapPackets, PeapKinds, MsPackets, MsRequests
  <2>4. packet'.kind = kind
    OBVIOUS
  <2>   /\ InCall' = InCall /\ InHand' = InHand
        /\ UNCHANGED <<early, wrote, pending, inbound, outbound, call, client, established, stop>>
    BY PartsSame
  <2>6. call.op = "none" /\ worker # "handle"
    BY DEF TurnInv
  <2>7. EngineInv'
    BY EngineSame
  <2>8. TypeOK'
    <3>1. packet' \in [kind : PeapPackets \cup MsPackets \cup {"none"},
                      frag : [L : BOOLEAN, M : BOOLEAN, len : Nat, data : Seq(Unit)]]
      BY NoPacketTyped
    <3>. QED  BY <2>7, <3>1, ZenonT(60) DEF TypeOK, EngineInv
  <2>9. StreamInv'
    BY StreamKept
  <2>10. TurnInv' /\ OuterInv'
    BY <2>4, <2>6 DEF TurnInv, OuterInv
  <2>11. JoinInv'
    BY <2>4, <2>6 DEF JoinInv, Joined
  <2>12. PeerInv' /\ EarnedInv'
    BY DEF PeerInv, EarnedInv
  <2>. QED  BY <2>7, <2>8, <2>9, <2>10, <2>11, <2>12 DEF IInv, MethodInv

\* A fragment goes on where the last one ended.
<1>NextFragment.
  ASSUME TypeOK, JoinInv, loop = "recv", worker # "handle",
         NEW body \in (IF server.sent > 0 THEN {server.body}
                       ELSE IF phase = "InnerMethod" THEN InnerBodies ELSE {"flight"}),
         NEW k \in 1 .. Size(body) - server.sent, NEW f \in Fragment(body, k)
  PROVE  /\ body \in Bodies /\ server.sent \in 0 .. Size(body) - 1 /\ server.sent + k \in Nat
         /\ f \in Packets(Unit) /\ f.M = (server.sent + k < Size(body))
         /\ f.data = SubSeq(Whole(body), server.sent + 1, server.sent + k)
         /\ Joined(body, server.sent)
  <2> USE <1>NextFragment
  <2>1. /\ server.body \in Bodies \cup {"none"} /\ server.sent \in Nat
        /\ Joined(server.body, server.sent) /\ server.sent < Size(server.body)
    BY DEF TypeOK, JoinInv
  <2>2. PICK n \in Nat : n = server.sent
    BY <2>1
  <2>3. Size(server.body) \in {1, 2} /\ Size(body) \in {1, 2} /\ (server.body = "none" => Size(server.body) = 1)
    BY SizeTyped
  <2>4. PICK z \in {1, 2} : z = Size(body)
    BY <2>3
  <2>5. n \in 0 .. z - 1 /\ n + k \in Nat /\ n + k \in 1 .. z /\ n + 1 \in 1 .. z /\ n + 1 \in Int /\ n + k \in Int
    BY <2>2, <2>4, SMTT(30)
  <2>6. body \in Bodies
    <3>1. CASE n > 0
      <4>1. body = server.body
        BY <2>2, <3>1
      <4>2. body # "none"
        <5>1. SUFFICES ASSUME body = "none" PROVE FALSE
          OBVIOUS
        <5>2. n < 1
          BY <2>1, <2>2, <2>3, <4>1, <5>1
        <5>. QED  BY <3>1, <5>2, SMTT(30)
      <4>. QED  BY <2>1, <4>1, <4>2
    <3>2. CASE ~(n > 0)
      <4>1. "flight" \in Bodies
        BY DEF Bodies
      <4>. QED  BY <2>2, <3>2, <4>1 DEF InnerBodies
    <3>. QED  BY <3>1, <3>2
  <2>7. Joined(body, n)
    <3>1. CASE n > 0
      <4>1. body = server.body
        BY <2>2, <3>1
      <4>. QED  BY <2>1, <2>2, <4>1
    <3>2. CASE ~(n > 0)
      <4>1. n = 0
        BY <3>2, SMTT(30)
      <4>2. in = NoParts
        BY <2>1, <2>2, <4>1 DEF Joined
      <4>3. in.got = <<>>
        BY <4>2 DEF NoParts
      <4>4. SubSeq(Whole(body), 1, 0) = <<>>
        BY NoPart
      <4>. QED  BY <3>2, <4>1, <4>2, <4>3, <4>4 DEF Joined
    <3>. QED  BY <3>1, <3>2
  <2>8. PICK w \in Seq(Unit) : w = Whole(body) /\ Len(w) = z
    BY <2>4, <2>6, WholeTyped
  <2>9. SubSeq(w, n + 1, n + k) \in Seq(Unit)
    <3>1. \A i \in n + 1 .. n + k : w[i] \in Unit
      BY <2>5, <2>8, SMTT(30)
    <3>. QED  BY <2>5, <3>1, <1>PartTyped
  <2>10. PICK l \in BOOLEAN, y \in {Size(body), Size(body) + 1} :
           f = [L |-> l, M |-> server.sent + k < Size(body), len |-> IF l THEN y ELSE 0,
                data |-> SubSeq(Whole(body), server.sent + 1, server.sent + k)]
    BY SMTT(30) DEF Fragment
  <2>11. PICK m \in BOOLEAN : m = (n + k < z)
    <3>1. (n + k < z) \in BOOLEAN
      BY SMTT(30)
    <3>. QED  BY <3>1
  <2>12. PICK len \in Nat : len = IF l THEN y ELSE 0
    <3>1. y \in Nat /\ 0 \in Nat
      BY <2>4, <2>10, SMTT(30)
    <3>. QED  BY <3>1
  <2>13. f = [L |-> l, M |-> m, len |-> len, data |-> SubSeq(w, n + 1, n + k)]
    BY <2>2, <2>4, <2>8, <2>10, <2>11, <2>12
  <2>14. f \in Packets(Unit)
    BY <2>9, <2>13, PacketTyped
  <2>15. f.M = m /\ f.data = SubSeq(w, n + 1, n + k)
    BY <2>13
  <2>. QED  BY <2>2, <2>4, <2>5, <2>6, <2>7, <2>8, <2>11, <2>14, <2>15

<1>ServerTyped.
  ASSUME NEW b \in Bodies, NEW n \in Nat, NEW u, u = [body |-> b, sent |-> n]
  PROVE  u \in [body : Bodies \cup {"none"}, sent : Nat]
    BY <1>ServerTyped

<1>FragmentArrivesInv.
  ASSUME IInv, method = "peap",
         NEW body \in (IF server.sent > 0 THEN {server.body}
                       ELSE IF phase = "InnerMethod" THEN InnerBodies ELSE {"flight"}),
         NEW k \in 1 .. Size(body) - server.sent, NEW f \in Fragment(body, k),
         Arrives("tls", f), server' = [body |-> body, sent |-> IF f.M THEN server.sent + k ELSE 0]
  PROVE  IInv'
  <2> USE <1>FragmentArrivesInv
  <2>   /\ TypeOK /\ EngineTypeOK /\ EngineInv /\ StreamInv /\ MethodInv
        /\ TurnInv /\ OuterInv /\ JoinInv /\ PeerInv /\ EarnedInv
    BY Given
  <2>   /\ loop = "recv" /\ worker' = "handle" /\ loop' = "reply"
        /\ packet' = [kind |-> "tls", frag |-> f]
        /\ UNCHANGED <<engineVars, method, phase, rest, in, messages, msk, inner, after, peer, delivered, earned>>
    BY DEF Arrives
  <2>   packet'.kind = "tls" /\ packet'.frag = f
    OBVIOUS
  <2>   /\ InCall' = InCall /\ InHand' = InHand
        /\ UNCHANGED <<early, wrote, pending, inbound, outbound, call, client, established, stop>>
    BY PartsSame
  <2>5. call.op = "none" /\ worker # "handle"
    BY DEF TurnInv
  <2>   /\ body \in Bodies /\ server.sent \in 0 .. Size(body) - 1 /\ server.sent + k \in Nat
        /\ f \in Packets(Unit) /\ f.M = (server.sent + k < Size(body))
        /\ f.data = SubSeq(Whole(body), server.sent + 1, server.sent + k)
        /\ Joined(body, server.sent)
    BY <2>5, <1>NextFragment
  <2>7. EngineInv'
    BY EngineSame
  <2>8. TypeOK'
    <3>1. packet' \in [kind : PeapPackets \cup MsPackets \cup {"none"},
                      frag : [L : BOOLEAN, M : BOOLEAN, len : Nat, data : Seq(Unit)]]
      <4>1. "tls" \in PeapPackets
        BY DEF PeapPackets, PeapKinds
      <4>. QED  BY <4>1 DEF Packets
    <3>2. server' \in [body : Bodies \cup {"none"}, sent : Nat]
      <4>1. PICK s \in Nat : s = IF f.M THEN server.sent + k ELSE 0
        <5>1. 0 \in Nat
          BY SMT
        <5>. QED  BY <5>1
      <4>2. server' = [body |-> body, sent |-> s]
        BY <4>1
      <4>. QED  BY <4>2, <1>ServerTyped
    <3>. QED  BY <2>7, <3>1, <3>2, ZenonT(60) DEF TypeOK, EngineInv
  <2>9. StreamInv'
    BY StreamKept
  <2>10. TurnInv' /\ OuterInv'
    BY <2>5 DEF TurnInv, OuterInv
  <2>11. JoinInv'
    <3>1. /\ \A i \in 1 .. Len(inbound') : inbound'[i] \in Messages
          /\ call'.at = "send" => call'.out \in Messages
      BY DEF JoinInv
    <3>   PICK n : n = server.sent
      OBVIOUS
    <3>4. in'.got = SubSeq(Whole(body), 1, n) /\ (n = 0 => in' = NoParts) /\ (n > 0 => in'.open)
      BY DEF Joined
    <3>5. \E b \in Bodies : \E j \in 0 .. Size(b) - 1 : \E l \in 1 .. Size(b) - j :
           /\ packet'.frag.data = SubSeq(Whole(b), j + 1, j + l)
           /\ packet'.frag.M = (j + l < Size(b))
           /\ in'.got = SubSeq(Whole(b), 1, j) /\ (j = 0 => in' = NoParts) /\ (j > 0 => in'.open)
           /\ server' = [body |-> b, sent |-> IF packet'.frag.M THEN j + l ELSE 0]
      <4>1. n \in 0 .. Size(body) - 1 /\ k \in 1 .. Size(body) - n
        OBVIOUS
      <4>2. /\ packet'.frag.data = SubSeq(Whole(body), n + 1, n + k)
            /\ packet'.frag.M = (n + k < Size(body))
            /\ server' = [body |-> body, sent |-> IF packet'.frag.M THEN n + k ELSE 0]
        OBVIOUS
      <4>. QED  BY <3>4, <4>1, <4>2
    <3>. QED  BY <3>1, <3>5 DEF JoinInv, Joined
  <2>12. PeerInv' /\ EarnedInv'
    BY DEF PeerInv, EarnedInv
  <2>. QED  BY <2>7, <2>8, <2>9, <2>10, <2>11, <2>12 DEF IInv, MethodInv

\* A whole message in place of the next fragment is refused.
<1>InsteadRefused.
  ASSUME TypeOK, JoinInv, loop = "recv", worker # "handle", server.sent > 0,
         NEW l \in BOOLEAN, l \/ in.expected = Size(server.body)
  PROVE  /\ server.body \in Bodies /\ Instead(l) \in Packets(Unit)
         /\ Push(in, Instead(l)).result = "error"
  <2> USE <1>InsteadRefused
  <2>1. /\ server.body \in Bodies \cup {"none"} /\ server.sent \in Nat
        /\ Joined(server.body, server.sent) /\ server.sent < Size(server.body)
    BY DEF TypeOK, JoinInv
  <2>2. PICK n \in Nat, z \in {1, 2} : n = server.sent /\ z = Size(server.body)
    BY <2>1, SizeTyped
  <2>3. n > 0 /\ n < z /\ z \in Nat /\ 0 \in Nat /\ (server.body = "none" => z = 1)
    BY <2>1, <2>2, SizeTyped
  <2>4. server.body \in Bodies
    <3>1. SUFFICES ASSUME server.body = "none" PROVE FALSE
      BY <2>1
    <3>. QED  BY <2>3, <3>1, SMTT(30)
  <2>5. PICK w \in Seq(Unit) : w = Whole(server.body) /\ Len(w) = z
    BY <2>2, <2>4, WholeTyped
  <2>6. PICK len \in Nat : len = IF l THEN z ELSE 0
    BY <2>3
  <2>7. PICK f : f = Instead(l)
    OBVIOUS
  <2>8. f = [L |-> l, M |-> FALSE, len |-> len, data |-> w]
    BY <2>2, <2>5, <2>6, <2>7 DEF Instead
  <2>9. f \in Packets(Unit)
    <3>1. FALSE \in BOOLEAN
      OBVIOUS
    <3>. QED  BY <2>8, <3>1, PacketTyped
  <2>10. f.L = l /\ ~f.M /\ f.data = w
    BY <2>8
  <2>11. in.open /\ in.got = SubSeq(w, 1, n)
    BY <2>1, <2>2, <2>3, <2>5 DEF Joined
  <2>12. CASE l
    <3>1. Push(in, f) = [in |-> in, result |-> "error", whole |-> <<>>]
      BY <2>10, <2>11, <2>12 DEF Push, PushFails
    <3>2. Push(in, f).result = "error"
      BY <3>1, SMTT(30)
    <3>. QED  BY <2>4, <2>7, <2>9, <3>2
  <2>13. CASE ~l
    <3>1. PICK got : got = in.got \o w
      OBVIOUS
    <3>2. Len(got) > z
      BY <2>2, <2>3, <2>5, <2>11, <3>1, SMTT(30)
    <3>3. in.expected = z
      BY <2>2, <2>13
    <3>4. PICK now : now = [open |-> TRUE, expected |-> z, got |-> got]
      OBVIOUS
    <3>5. Push(in, f) = [in |-> now, result |-> "error", whole |-> <<>>]
      BY <2>10, <2>11, <2>13, <3>1, <3>2, <3>3, <3>4 DEF Push, PushFails
    <3>6. Push(in, f).result = "error"
      BY <3>5, SMTT(30)
    <3>. QED  BY <2>4, <2>7, <2>9, <3>6
  <2>. QED  BY <2>12, <2>13

<1>InsteadArrivesInv.
  ASSUME IInv, method = "peap", server.sent > 0, NEW l \in BOOLEAN,
         l \/ in.expected = Size(server.body),
         Arrives("tls", Instead(l)), server' = [server EXCEPT !.sent = 0]
  PROVE  IInv'
  <2> USE <1>InsteadArrivesInv
  <2>   /\ TypeOK /\ EngineTypeOK /\ EngineInv /\ StreamInv /\ MethodInv
        /\ TurnInv /\ OuterInv /\ JoinInv /\ PeerInv /\ EarnedInv
    BY Given
  <2>   PICK f : f = Instead(l)
    OBVIOUS
  <2>   /\ loop = "recv" /\ worker' = "handle" /\ loop' = "reply"
        /\ packet' = [kind |-> "tls", frag |-> f]
        /\ UNCHANGED <<engineVars, method, phase, rest, in, messages, msk, inner, after, peer, delivered, earned>>
    BY DEF Arrives
  <2>   packet'.kind = "tls" /\ packet'.frag = f
    OBVIOUS
  <2>   /\ InCall' = InCall /\ InHand' = InHand
        /\ UNCHANGED <<early, wrote, pending, inbound, outbound, call, client, established, stop>>
    BY PartsSame
  <2>5. call.op = "none" /\ worker # "handle"
    BY DEF TurnInv
  <2>6. server.body \in Bodies /\ f \in Packets(Unit) /\ Push(in, f).result = "error"
    BY <2>5, <1>InsteadRefused
  <2>7. EngineInv'
    BY EngineSame
  <2>8. TypeOK'
    <3>1. packet' \in [kind : PeapPackets \cup MsPackets \cup {"none"},
                      frag : [L : BOOLEAN, M : BOOLEAN, len : Nat, data : Seq(Unit)]]
      <4>1. "tls" \in PeapPackets
        BY DEF PeapPackets, PeapKinds
      <4>. QED  BY <2>6, <4>1 DEF Packets
    <3>2. server' \in [body : Bodies \cup {"none"}, sent : Nat]
      <4>1. server' = [body |-> server.body, sent |-> 0] /\ 0 \in Nat
        BY SMTT(30) DEF TypeOK
      <4>. QED  BY <2>6, <4>1, <1>ServerTyped
    <3>. QED  BY <2>7, <3>1, <3>2, ZenonT(60) DEF TypeOK, EngineInv
  <2>9. StreamInv'
    BY StreamKept
  <2>10. TurnInv' /\ OuterInv'
    BY <2>5 DEF TurnInv, OuterInv
  <2>11. JoinInv'
    <3>1. Push(in', packet'.frag).result = "error"
      BY <2>6
    <3>. QED  BY <3>1 DEF JoinInv
  <2>12. PeerInv' /\ EarnedInv'
    BY DEF PeerInv, EarnedInv
  <2>. QED  BY <2>7, <2>8, <2>9, <2>10, <2>11, <2>12 DEF IInv, MethodInv

<1>1.
  ASSUME IInv, ServerSends
  PROVE  IInv'
    BY <1>1, <1>ArrivesInv, <1>FragmentArrivesInv, <1>InsteadArrivesInv DEF ServerSends
<1>. QED  BY <1>1

LEMMA LoopEndsInv ==
  ASSUME IInv, LoopEnds
  PROVE  IInv'
<1>   /\ TypeOK /\ EngineTypeOK /\ EngineInv /\ StreamInv /\ MethodInv
      /\ TurnInv /\ OuterInv /\ JoinInv /\ PeerInv /\ EarnedInv
  BY Given
<1>   /\ loop' = "over"
      /\ UNCHANGED <<engineVars, method, phase, rest, in, messages, msk, inner, after, worker, packet,
                     server, peer, delivered, earned>>
  BY DEF LoopEnds
<1>   UNCHANGED <<early, wrote, pending, inbound, outbound, call, client, established, stop>>
  BY PartsSame
<1>4. EngineInv'
  BY EngineSame
<1>5. TypeOK'
  BY <1>4, ZenonT(60) DEF TypeOK, EngineInv
<1>6. StreamInv'
  BY StreamOver
<1>7. TurnInv' /\ OuterInv'
  BY DEF TurnInv, OuterInv
<1>8. JoinInv'
  BY ZenonT(60) DEF JoinInv, Joined
<1>9. PeerInv' /\ EarnedInv'
  BY DEF PeerInv, EarnedInv
<1>. QED  BY <1>4, <1>5, <1>6, <1>7, <1>8, <1>9 DEF IInv, MethodInv

LEMMA MsEnds ==
  /\ MsReset \in MsState /\ MsReset.chal = 0
  /\ \A ms \in MsState : MsClose(ms) \in MsState /\ MsClose(ms).chal = 0
<1>1. 0 \in Nat
  BY SMT
<1>2. MsReset \in MsState /\ MsReset.chal = 0
  BY <1>1 DEF MsReset, MsState
<1>3. ASSUME NEW ms \in MsState PROVE MsClose(ms) \in MsState /\ MsClose(ms).chal = 0
  BY <1>1 DEF MsClose, MsState
<1>. QED  BY <1>2, <1>3

LEMMA WorkerStopsInv ==
  ASSUME IInv, WorkerStops
  PROVE  IInv'
<1>   /\ TypeOK /\ EngineTypeOK /\ EngineInv /\ StreamInv /\ MethodInv
      /\ TurnInv /\ OuterInv /\ JoinInv /\ PeerInv /\ EarnedInv
  BY Given
<1>   /\ worker = "idle" /\ loop = "over" /\ phase' = "Failed" /\ rest' = <<>> /\ in' = NoParts /\ messages' = 0
      /\ msk' = 0 /\ after' = "Failed" /\ server' = NoMessage /\ peer' = NoPeer /\ delivered' = <<>>
      /\ earned' = {} /\ method' = method /\ loop' = loop /\ packet' = packet
  BY DEF WorkerStops
<1>   call.op = "none" /\ packet.kind = "none" /\ call.at = "idle"
  BY DEF TurnInv, EngineInv, CallInv
<1>4. /\ EngineInv' /\ inbound' = inbound /\ inner' \in MsState /\ inner'.chal = 0
      /\ \/ method = "peap" /\ worker' = "closing" /\ call'.op = "close" /\ call'.at = "wait"
         \/ method # "peap" /\ worker' = "done" /\ call' = call /\ client' = client
  <2>1. CASE method = "peap"
    <3>   CallClose /\ worker' = "closing" /\ inner' = MsReset
      BY <2>1 DEF WorkerStops
    <3>2. EngineInv'
      BY CallCloseInv
    <3>3. call'.op = "close" /\ call'.at = "wait" /\ inbound' = inbound
      BY DEF CallClose, NoCall
    <3>. QED  BY <2>1, <3>2, <3>3, MsEnds
  <2>2. CASE method # "peap"
    <3>1. UNCHANGED engineVars /\ worker' = "done" /\ inner' = MsClose(inner)
      BY <2>2 DEF WorkerStops
    <3>2. EngineInv'
      BY <3>1, EngineSame
    <3>3. inner \in MsState
      BY DEF TypeOK
    <3>. QED  BY <2>2, <3>1, <3>2, <3>3, MsEnds, PartsSame
  <2>. QED  BY <2>1, <2>2
<1>5. TypeOK'
  <2>   /\ "Failed" \in Phases /\ <<>> \in Seq(Nat) /\ 0 \in 0 .. MaxMessageCount + 1 /\ 0 \in Nat
        /\ {} \subseteq {"verified", "innerSuccess", "proved"} \X Nat
    <3>1. MaxMessageCount \in Nat \ {0}
      BY PeapAssumption
    <3>2. 0 \in 0 .. MaxMessageCount + 1 /\ 0 \in Nat /\ <<>> \in Seq(Nat)
      BY <3>1, SMTT(30)
    <3>. QED  BY <3>2 DEF Phases
  <2>2. in' \in Parts(Unit) /\ peer' \in [in : Parts(Nat), result : Results, whole : Seq(Nat)]
    <3>1. NoParts \in Parts(Unit) /\ NoParts \in Parts(Nat) /\ "none" \in Results
      BY NoPartsTyped DEF Results
    <3>. QED  BY <3>1 DEF NoPeer
  <2>3. server' \in [body : Bodies \cup {"none"}, sent : Nat]
    BY DEF NoMessage
  <2>4. EngineTypeOK'
    BY <1>4 DEF EngineInv
  <2>. QED  BY <1>4, <2>2, <2>3, <2>4, ZenonT(60) DEF TypeOK
<1>6. StreamInv'
  BY StreamOver
<1>7. TurnInv'
  BY <1>4 DEF TurnInv
<1>8. OuterInv'
  BY <1>4 DEF OuterInv
<1>9. JoinInv'
  <2>1. call'.at # "send" /\ worker' # "handle"
    BY <1>4
  <2>. QED  BY <1>4, <2>1 DEF JoinInv
<1>10. PeerInv'
  <2>1. peer'.result = "none"
    BY DEF NoPeer
  <2>. QED  BY <2>1 DEF PeerInv
<1>11. EarnedInv'
  BY <1>4 DEF EarnedInv, Inside
<1>. QED  BY <1>4, <1>5, <1>6, <1>7, <1>8, <1>9, <1>10, <1>11 DEF IInv, MethodInv

LEMMA WorkerDoneInv ==
  ASSUME IInv, WorkerDone
  PROVE  IInv'
<1>   /\ TypeOK /\ EngineTypeOK /\ EngineInv /\ StreamInv /\ MethodInv
      /\ TurnInv /\ OuterInv /\ JoinInv /\ PeerInv /\ EarnedInv
  BY Given
<1>   /\ worker = "closing" /\ worker' = "done"
      /\ UNCHANGED <<engineVars, method, phase, rest, in, messages, msk, inner, after, loop, packet,
                     server, peer, delivered, earned>>
  BY DEF WorkerDone
<1>   UNCHANGED <<early, wrote, pending, inbound, outbound, call, client, established, stop>>
  BY PartsSame
<1>4. EngineInv'
  BY EngineSame
<1>5. TypeOK'
  BY <1>4, ZenonT(60) DEF TypeOK, EngineInv
<1>   TurnInv' /\ OuterInv' /\ loop = "over"
  BY DEF TurnInv, OuterInv
<1>7. StreamInv'
  BY StreamOver
<1>8. JoinInv'
  BY DEF JoinInv
<1>9. PeerInv' /\ EarnedInv'
  BY DEF PeerInv, EarnedInv
<1>. QED  BY <1>4, <1>5, <1>7, <1>8, <1>9 DEF IInv, MethodInv

\* A state with one field changed.
MsPhases == {"Negotiating", "Challenging", "Verifying", "Completed", "Failed"}

\* What is known of a result: a challenge whose answer is no longer expected has
\* been proved, now or before, and a key is made from one that was.
Proven(ms, kind, r) ==
  /\ r.ms \in MsState /\ r.msk \in Nat
  /\ r.ms.chal # 0 /\ ~r.ms.expecting =>
       /\ r.ms.chal = ms.chal /\ ms.chal # 0
       /\ ~ms.expecting \/ (kind = "msSuccess" /\ r.action = "send")
  /\ r.msk # 0 => r.msk = ms.chal /\ ms.chal # 0 /\ ~ms.expecting

LEMMA MsHandleFacts ==
  \A ms \in MsState : \A kind : Proven(ms, kind, MsHandle(ms, kind))
<1>MsChanges.
  ASSUME NEW t \in MsState
  PROVE  /\ \A p \in MsPhases : /\ [t EXCEPT !.phase = p] \in MsState
                                /\ [t EXCEPT !.phase = p].chal = t.chal
                                /\ [t EXCEPT !.phase = p].expecting = t.expecting
         /\ [t EXCEPT !.chal = 0] \in MsState /\ [t EXCEPT !.chal = 0].chal = 0
         /\ [t EXCEPT !.expecting = FALSE] \in MsState /\ [t EXCEPT !.expecting = FALSE].chal = t.chal
         /\ Answered(t) \in MsState /\ Answered(t).expecting
  <2> USE <1>MsChanges
  <2>1. 0 \in Nat /\ t.last \in Nat /\ t.last + 1 \in Nat
    <3>1. t.last \in Nat
      BY DEF MsState
    <3>2. PICK n \in Nat : n = t.last
      BY <3>1
    <3>3. n + 1 \in Nat /\ 0 \in Nat
      BY SMTT(30)
    <3>. QED  BY <3>2, <3>3
  <2>2. ASSUME NEW p \in MsPhases
        PROVE  /\ [t EXCEPT !.phase = p] \in MsState /\ [t EXCEPT !.phase = p].chal = t.chal
               /\ [t EXCEPT !.phase = p].expecting = t.expecting
    BY DEF MsState, MsPhases
  <2>3. [t EXCEPT !.chal = 0] \in MsState /\ [t EXCEPT !.chal = 0].chal = 0
    BY <2>1 DEF MsState
  <2>4. [t EXCEPT !.expecting = FALSE] \in MsState /\ [t EXCEPT !.expecting = FALSE].chal = t.chal
    BY DEF MsState
  <2>5. Answered(t) \in MsState /\ Answered(t).expecting
    BY <2>1, ZenonT(60) DEF MsState, Answered
  <2>. QED  BY <2>2, <2>3, <2>4, <2>5

<1>MsResults.
  ASSUME NEW t
  PROVE  /\ MsFails(t).ms = [t EXCEPT !.phase = "Failed"] /\ MsFails(t).action = "error" /\ MsFails(t).msk = 0
         /\ MsSends(t).ms = t /\ MsSends(t).action = "send" /\ MsSends(t).msk = 0
    BY <1>MsResults DEF MsFails, MsSends

<1>FailsProven.
  ASSUME NEW ms, NEW t \in MsState, NEW kind,
         t.chal = 0 \/ (t.chal = ms.chal /\ t.expecting = ms.expecting)
  PROVE  Proven(ms, kind, MsFails(t))
  <2> USE <1>FailsProven
  <2>1. PICK u \in MsState : u = MsFails(t).ms /\ u.chal = t.chal /\ u.expecting = t.expecting
    BY <1>MsResults, <1>MsChanges, ZenonT(60) DEF MsPhases
  <2>2. MsFails(t).msk = 0 /\ 0 \in Nat
    <3>1. 0 \in Nat
      BY SMT
    <3>. QED  BY <3>1, <1>MsResults
  <2>. QED  BY <2>1, <2>2 DEF Proven

<1>SendsProven.
  ASSUME NEW ms, NEW t \in MsState, NEW kind,
         \/ t.expecting
         \/ t.chal = ms.chal /\ t.expecting = ms.expecting
         \/ t.chal = ms.chal /\ kind = "msSuccess"
  PROVE  Proven(ms, kind, MsSends(t))
  <2> USE <1>SendsProven
  <2>1. MsSends(t).msk = 0 /\ 0 \in Nat
    <3>1. 0 \in Nat
      BY SMT
    <3>. QED  BY <3>1, <1>MsResults
  <2>2. MsSends(t).ms = t /\ MsSends(t).action = "send"
    BY <1>MsResults
  <2>. QED  BY <2>1, <2>2 DEF Proven

<1>1.
  ASSUME NEW ms \in MsState, NEW kind
  PROVE  Proven(ms, kind, MsHandle(ms, kind))
  <2> USE <1>1
  <2>1. ms.phase \in MsPhases /\ ms.chal \in Nat
    BY DEF MsState, MsPhases
  <2>2. CASE MsHandle(ms, kind) = MsFails(ms)
    BY <2>2, <1>FailsProven
  <2>3. CASE MsHandle(ms, kind) = MsSends([ms EXCEPT !.phase = "Negotiating"])
    <3>1. PICK t \in MsState : /\ t = [ms EXCEPT !.phase = "Negotiating"]
                               /\ t.chal = ms.chal /\ t.expecting = ms.expecting
      BY <1>MsChanges DEF MsPhases
    <3>. QED  BY <2>3, <3>1, <1>SendsProven
  <2>4. ASSUME NEW p \in MsPhases, NEW t, t = [ms EXCEPT !.phase = p], MsHandle(ms, kind) = OnRequest(t, kind)
        PROVE  Proven(ms, kind, MsHandle(ms, kind))
    <3>   t \in MsState /\ t.chal = ms.chal /\ t.expecting = ms.expecting
      BY <2>4, <1>MsChanges
    <3>2. \/ OnRequest(t, kind) = MsSends(Answered(t))
          \/ OnRequest(t, kind) = MsSends([t EXCEPT !.expecting = FALSE]) /\ kind = "msSuccess"
          \/ OnRequest(t, kind) = MsFails([t EXCEPT !.chal = 0])
          \/ OnRequest(t, kind) = MsFails(t)
      <4>1. CASE kind = "challenge" /\ ~(t.chal # 0 /\ t.expecting)
        BY <4>1 DEF OnRequest
      <4>2. CASE kind = "msSuccess" /\ t.chal # 0 /\ t.expecting
        BY <4>2 DEF OnRequest
      <4>3. CASE kind = "msFailure" /\ t.chal # 0 /\ t.expecting
        BY <4>3 DEF OnRequest
      <4>4. CASE /\ ~(kind = "challenge" /\ ~(t.chal # 0 /\ t.expecting))
                 /\ ~(kind = "msSuccess" /\ t.chal # 0 /\ t.expecting)
                 /\ ~(kind = "msFailure" /\ t.chal # 0 /\ t.expecting)
        BY <4>4 DEF OnRequest
      <4>. QED  BY <4>1, <4>2, <4>3, <4>4
    <3>3. Proven(ms, kind, MsSends(Answered(t)))
      <4>1. Answered(t) \in MsState /\ Answered(t).expecting
        BY <1>MsChanges
      <4>. QED  BY <4>1, <1>SendsProven
    <3>4. kind = "msSuccess" => Proven(ms, kind, MsSends([t EXCEPT !.expecting = FALSE]))
      <4>0. [t EXCEPT !.expecting = FALSE] \in MsState /\ [t EXCEPT !.expecting = FALSE].chal = t.chal
        BY <1>MsChanges
      <4>1. PICK u \in MsState : u = [t EXCEPT !.expecting = FALSE] /\ u.chal = ms.chal
        BY <4>0
      <4>2. kind = "msSuccess" => Proven(ms, kind, MsSends(u))
        BY <4>1, <1>SendsProven
      <4>. QED  BY <4>1, <4>2
    <3>5. Proven(ms, kind, MsFails([t EXCEPT !.chal = 0]))
      <4>1. PICK u \in MsState : u = [t EXCEPT !.chal = 0] /\ u.chal = 0
        BY <1>MsChanges
      <4>2. Proven(ms, kind, MsFails(u))
        BY <4>1, <1>FailsProven
      <4>. QED  BY <4>1, <4>2
    <3>6. Proven(ms, kind, MsFails(t))
      BY <1>FailsProven
    <3>. QED  BY <2>4, <3>2, <3>3, <3>4, <3>5, <3>6
  <2>5. CASE /\ ms.chal # 0 /\ ~ms.expecting
             /\ MsHandle(ms, kind) = [ms |-> [ms EXCEPT !.phase = "Completed"], action |-> "complete", msk |-> ms.chal]
    <3>1. PICK u \in MsState : /\ u = [ms EXCEPT !.phase = "Completed"]
                               /\ u.chal = ms.chal /\ u.expecting = ms.expecting
      BY <1>MsChanges DEF MsPhases
    <3>2. MsHandle(ms, kind).ms = u /\ MsHandle(ms, kind).msk = ms.chal
      BY <2>5, <3>1, SMTT(30)
    <3>. QED  BY <2>1, <2>5, <3>1, <3>2 DEF Proven
  <2>6. \/ MsHandle(ms, kind) = MsFails(ms)
        \/ MsHandle(ms, kind) = MsSends([ms EXCEPT !.phase = "Negotiating"])
        \/ \E p \in MsPhases : MsHandle(ms, kind) = OnRequest([ms EXCEPT !.phase = p], kind)
        \/ /\ ms.chal # 0 /\ ~ms.expecting
           /\ MsHandle(ms, kind) = [ms |-> [ms EXCEPT !.phase = "Completed"], action |-> "complete", msk |-> ms.chal]
    <3>1. CASE ms.phase = "Failed"
      BY <3>1 DEF MsHandle
    <3>2. CASE ms.phase # "Failed" /\ kind \in {"identity", "foreign"}
      <4>1. kind # "success" /\ kind \notin MsRequests
        BY <3>2 DEF MsRequests
      <4>2. PICK t : t = [ms EXCEPT !.phase = "Negotiating"]
        OBVIOUS
      <4>3. MsHandle(ms, kind) = MsSends(t)
        BY <3>2, <4>1, <4>2 DEF MsHandle
      <4>. QED  BY <4>2, <4>3
    <3>3. CASE ms.phase # "Failed" /\ kind \in MsRequests
      <4>1. PICK p \in MsPhases : p = IF ms.chal # 0 THEN "Verifying" ELSE "Challenging"
        BY DEF MsPhases
      <4>2. kind \notin {"identity", "foreign", "success"}
        BY <3>3 DEF MsRequests
      <4>3. PICK t : t = [ms EXCEPT !.phase = IF ms.chal # 0 THEN "Verifying" ELSE "Challenging"]
        OBVIOUS
      <4>4. MsHandle(ms, kind) = OnRequest(t, kind)
        BY <3>3, <4>2, <4>3 DEF MsHandle
      <4>5. t = [ms EXCEPT !.phase = p]
        BY <4>1, <4>3
      <4>. QED  BY <4>4, <4>5
    <3>4. CASE ms.phase # "Failed" /\ kind = "success" /\ ms.chal # 0 /\ ~ms.expecting
      <4>1. kind \notin {"identity", "foreign"} /\ kind \notin MsRequests
        BY <3>4 DEF MsRequests
      <4>. QED  BY <3>4, <4>1 DEF MsHandle
    <3>5. CASE /\ ms.phase # "Failed" /\ kind \notin {"identity", "foreign"} /\ kind \notin MsRequests
               /\ ~(kind = "success" /\ ms.chal # 0 /\ ~ms.expecting)
      BY <3>5 DEF MsHandle
    <3>. QED  BY <3>1, <3>2, <3>3, <3>4, <3>5
  <2>. QED  BY <2>2, <2>3, <2>4, <2>5, <2>6
<1>. QED  BY <1>1

-----------------------------------------------------------------------------
(* The rounds that leave the engine alone. *)

LEMMA MsRoundInv ==
  ASSUME IInv, MsRound
  PROVE  IInv'
<1>   /\ TypeOK /\ EngineTypeOK /\ EngineInv /\ StreamInv /\ MethodInv
      /\ TurnInv /\ OuterInv /\ JoinInv /\ PeerInv /\ EarnedInv
  BY Given
<1>2. PICK r : r = MsHandle(inner, packet.kind)
  OBVIOUS
<1>3. /\ worker = "handle" /\ method = "mschapv2" /\ inner' = r.ms /\ msk' = r.msk
      /\ Reply(r.action, NoFrag, FALSE)
      /\ earned' = IF packet.kind = "msSuccess" /\ r.action = "send"
                   THEN earned \cup {<<"proved", inner.chal>>} ELSE earned
      /\ UNCHANGED <<engineVars, phase, rest, in, messages, after, method, server>>
  BY <1>2 DEF MsRound, outside
<1>   inner \in MsState /\ Proven(inner, packet.kind, r)
  BY <1>2, MsHandleFacts DEF TypeOK
<1>5. /\ worker' = "idle" /\ packet' = NoPacket /\ packet'.kind = "none" /\ loop' \in {"recv", "over"}
      /\ loop' # "over" => loop = "reply"
      /\ UNCHANGED <<peer, delivered>>
  BY <1>3, ReplyFacts
<1>   UNCHANGED <<early, wrote, pending, inbound, outbound, call, client, established, stop>>
  BY <1>3, PartsSame
<1>   call.op = "none" /\ call.at = "idle"
  BY <1>3 DEF OuterInv, EngineInv, CallInv
<1>8. EngineInv'
  BY <1>3, EngineSame
<1>9. TypeOK'
  <2>1. inner' \in MsState /\ msk' \in Nat
    BY <1>3 DEF Proven
  <2>2. earned' \subseteq {"verified", "innerSuccess", "proved"} \X Nat
    <3>1. inner.chal \in Nat
      BY DEF MsState
    <3>2. earned \subseteq {"verified", "innerSuccess", "proved"} \X Nat
      BY DEF TypeOK
    <3>3. <<"proved", inner.chal>> \in {"verified", "innerSuccess", "proved"} \X Nat
      BY <3>1
    <3>. QED  BY <1>3, <3>2, <3>3
  <2>3. EngineTypeOK' /\ loop' \in {"recv", "reply", "over"}
    BY <1>5, <1>8 DEF EngineInv
  <2>4. packet' \in [kind : PeapPackets \cup MsPackets \cup {"none"},
                    frag : [L : BOOLEAN, M : BOOLEAN, len : Nat, data : Seq(Unit)]]
    BY <1>5, NoPacketTyped
  <2>. QED  BY <1>3, <1>5, <2>1, <2>2, <2>3, <2>4, ZenonT(60) DEF TypeOK
<1>10. StreamInv'
  BY <1>3 DEF StreamInv, Running
<1>11. TurnInv'
  <2>1. /\ call'.op = "none"
        /\ loop # "over" /\ r.action = "send" => phase' \notin {"Failed", "Completed"} /\ messages' <= MaxMessageCount
    BY <1>3 DEF TurnInv
  <2>. QED  BY <1>3, <2>1, ReplyTurn
<1>12. OuterInv'
  BY <1>3, <1>5 DEF OuterInv
<1>13. JoinInv'
  BY <1>3, <1>5, JoinKept DEF OuterInv
<1>14. PeerInv'
  BY <1>3, <1>5, PeerKept
<1>15. EarnedInv'
  <2>1. earned \subseteq earned'
    BY <1>3
  <2>2. inner'.chal # 0 /\ ~inner'.expecting => <<"proved", inner'.chal>> \in earned'
    <3> SUFFICES ASSUME inner'.chal # 0, ~inner'.expecting PROVE <<"proved", inner'.chal>> \in earned'
      OBVIOUS
    <3>   inner'.chal = inner.chal /\ inner.chal # 0
      BY <1>3 DEF Proven
    <3>2. CASE ~inner.expecting
      <4>1. <<"proved", inner.chal>> \in earned
        BY <1>3, <3>2 DEF EarnedInv
      <4>. QED  BY <2>1, <4>1
    <3>3. CASE packet.kind = "msSuccess" /\ r.action = "send"
      <4>1. <<"proved", inner.chal>> \in earned'
        BY <1>3, <3>3
      <4>. QED  BY <4>1
    <3>. QED  BY <1>3, <3>2, <3>3 DEF Proven
  <2>3. msk' # 0 => <<"proved", msk'>> \in earned'
    <3> SUFFICES ASSUME msk' # 0 PROVE <<"proved", msk'>> \in earned'
      OBVIOUS
    <3>1. msk' = inner.chal /\ inner.chal # 0 /\ ~inner.expecting
      BY <1>3 DEF Proven
    <3>2. <<"proved", inner.chal>> \in earned
      BY <1>3, <3>1 DEF EarnedInv
    <3>. QED  BY <2>1, <3>1, <3>2
  <2>. QED  BY <1>3, <2>2, <2>3 DEF EarnedInv
<1>. QED  BY <1>8, <1>9, <1>10, <1>11, <1>12, <1>13, <1>14, <1>15 DEF IInv, MethodInv

LEMMA CountedTyped ==
  ASSUME TypeOK, Counted
  PROVE  /\ messages <= MaxMessageCount => messages' \in 0 .. MaxMessageCount + 1
         /\ messages <= MaxMessageCount /\ ~Rejected => messages' <= MaxMessageCount
<1>1. messages \in Nat /\ MaxMessageCount \in Nat
  <2>1. MaxMessageCount \in Nat /\ messages \in 0 .. MaxMessageCount + 1
    BY PeapAssumption DEF TypeOK
  <2>. QED  BY <2>1, SMTT(30)
<1>2. ~Rejected /\ IsPeap => ~(messages >= MaxMessageCount)
  BY DEF Rejected
<1>3. messages' = messages \/ (messages' = messages + 1 /\ IsPeap)
  BY DEF Counted
<1>4. messages <= MaxMessageCount => messages' \in 0 .. MaxMessageCount + 1
  BY <1>1, <1>3, SMTT(30)
<1>5. ~(messages >= MaxMessageCount) => messages + 1 <= MaxMessageCount
  BY <1>1, SMTT(30)
<1>. QED  BY <1>2, <1>3, <1>4, <1>5

\* A round that ends with an error.
LEMMA PeapRejectsInv ==
  ASSUME IInv, PeapRejects
  PROVE  IInv'
<1>   /\ TypeOK /\ EngineTypeOK /\ EngineInv /\ StreamInv /\ MethodInv
      /\ TurnInv /\ OuterInv /\ JoinInv /\ PeerInv /\ EarnedInv
  BY Given
<1>   /\ worker = "handle" /\ method = "peap" /\ phase' = "Failed" /\ Reply("error", NoFrag, FALSE) /\ Counted
      /\ UNCHANGED <<engineVars, rest, in, msk, inner, after, earned, method, server>>
  BY DEF PeapRejects, Handling, Fail, outside
<1>   /\ worker' = "idle" /\ packet' = NoPacket /\ loop' = "over" /\ UNCHANGED <<peer, delivered>>
  <2>1. PICK action \in {"error"} : Reply(action, NoFrag, FALSE)
    OBVIOUS
  <2>. QED  BY <2>1, ReplyFacts
<1>   UNCHANGED <<early, wrote, pending, inbound, outbound, call, client, established, stop>>
  BY PartsSame
<1>   /\ call.op = "none" /\ call.at = "idle" /\ messages <= MaxMessageCount
      /\ phase \notin {"Failed", "Completed"}
  BY DEF TurnInv, EngineInv, CallInv
<1>6. EngineInv'
  BY EngineSame
<1>7. TypeOK'
  <2>1. messages' \in 0 .. MaxMessageCount + 1 /\ "Failed" \in Phases
    BY CountedTyped DEF Phases
  <2>. QED  BY <1>6, <2>1, NoPacketTyped, ZenonT(60) DEF TypeOK, EngineInv
<1>8. StreamInv'
  BY StreamOver
<1>9. TurnInv'
  BY ReplyTurn
<1>10. OuterInv'
  BY DEF OuterInv
<1>11. JoinInv'
  BY JoinKept
<1>12. PeerInv'
  BY PeerKept
<1>13. EarnedInv'
  BY DEF EarnedInv, Inside
<1>. QED  BY <1>6, <1>7, <1>8, <1>9, <1>10, <1>11, <1>12, <1>13 DEF IInv, MethodInv

LEMMA PeapIdentityInv ==
  ASSUME IInv, PeapIdentity
  PROVE  IInv'
<1>   /\ TypeOK /\ EngineTypeOK /\ EngineInv /\ StreamInv /\ MethodInv
      /\ TurnInv /\ OuterInv /\ JoinInv /\ PeerInv /\ EarnedInv
  BY Given
<1>   /\ worker = "handle" /\ method = "peap" /\ packet.kind = "identity" /\ Reply("send", NoFrag, FALSE)
      /\ UNCHANGED <<engineVars, phase, rest, in, messages, msk, inner, after, earned, method, server>>
  BY DEF PeapIdentity, Handling, Ack, outside
<1>3. /\ worker' = "idle" /\ packet' = NoPacket /\ loop' \in {"recv", "over"} /\ UNCHANGED <<peer, delivered>>
      /\ loop' # "over" => loop = "reply"
  BY ReplyFacts
<1>   /\ InCall' = InCall /\ InHand' = InHand
      /\ UNCHANGED <<early, wrote, pending, inbound, outbound, call, client, established, stop>>
  BY PartsSame
<1>5. call.op = "none" /\ call.at = "idle"
  BY DEF TurnInv, EngineInv, CallInv
<1>6. EngineInv'
  BY EngineSame
<1>7. TypeOK'
  BY <1>3, <1>6, NoPacketTyped, ZenonT(60) DEF TypeOK, EngineInv
<1>8. StreamInv'
  BY <1>3, StreamKept
<1>9. TurnInv'
  <2>1. loop # "over" => phase' \notin {"Failed", "Completed"} /\ messages' <= MaxMessageCount
    BY DEF TurnInv
  <2>. QED  BY <1>5, <2>1, ReplyTurn
<1>10. OuterInv'
  BY DEF OuterInv
<1>11. JoinInv'
  BY <1>3, <1>5, JoinKept
<1>12. PeerInv'
  BY <1>3, PeerKept
<1>13. EarnedInv'
  BY DEF EarnedInv
<1>. QED  BY <1>6, <1>7, <1>8, <1>9, <1>10, <1>11, <1>12, <1>13 DEF IInv, MethodInv

LEMMA OuterSuccessInv ==
  ASSUME IInv, OuterSuccess
  PROVE  IInv'
<1>   /\ TypeOK /\ EngineTypeOK /\ EngineInv /\ StreamInv /\ MethodInv
      /\ TurnInv /\ OuterInv /\ JoinInv /\ PeerInv /\ EarnedInv
  BY Given
<1>2. /\ worker = "handle" /\ method = "peap" /\ packet.kind = "success" /\ ~Rejected
      /\ UNCHANGED <<engineVars, rest, in, messages, inner, after, earned, method, server>>
      /\ \/ established /\ phase' = "Completed" /\ msk' = 1 /\ Reply("complete", NoFrag, FALSE)
         \/ phase' = "Failed" /\ Reply("error", NoFrag, FALSE) /\ UNCHANGED msk
  BY DEF OuterSuccess, Handling, Fail, outside
<1>3. PICK action \in {"complete", "error"} : Reply(action, NoFrag, FALSE)
  BY <1>2
<1>   /\ worker' = "idle" /\ packet' = NoPacket /\ loop' = "over" /\ UNCHANGED <<peer, delivered>>
  BY <1>3, ReplyFacts
<1>   UNCHANGED <<early, wrote, pending, inbound, outbound, call, client, established, stop>>
  BY <1>2, PartsSame
<1>   call.op = "none" /\ call.at = "idle" /\ phase \notin {"Failed", "Completed"}
  BY <1>2 DEF TurnInv, EngineInv, CallInv
<1>7. phase = "AwaitingOuterSuccess"
  <2>1. ~IsPeap
    BY <1>2 DEF IsPeap, PeapKinds
  <2>   packet.kind \in Accepted
    BY <1>2, <2>1 DEF Rejected
  <2>3. phase \in Phases
    BY DEF TypeOK
  <2>4. CASE phase = "OuterIdentity"
    BY <1>2, <2>4 DEF Accepted
  <2>5. CASE phase \in {"TLSTunnel", "InnerMethod"}
    <3>1. Accepted = {"ack", "tls"}
      BY <2>5, SMTT(30) DEF Accepted
    <3>. QED  BY <1>2, <3>1
  <2>6. CASE phase = "AwaitingOuterFailure"
    BY <2>6 DEF Accepted
  <2>. QED  BY <2>3, <2>4, <2>5, <2>6 DEF Phases
<1>8. EngineInv'
  BY <1>2, <1>7, EngineSame
<1>9. TypeOK'
  <2>1. phase' \in Phases /\ msk' \in Nat
    <3>1. 1 \in Nat
      BY SMT
    <3>. QED  BY <1>2, <3>1 DEF TypeOK, Phases
  <2>. QED  BY <1>2, <1>8, <2>1, NoPacketTyped, ZenonT(60) DEF TypeOK, EngineInv
<1>10. StreamInv'
  BY StreamOver
<1>11. TurnInv'
  BY <1>3, ReplyTurn
<1>12. OuterInv'
  BY <1>2 DEF OuterInv
<1>13. JoinInv'
  BY <1>2, JoinKept
<1>14. PeerInv'
  BY <1>2, PeerKept
<1>15. EarnedInv'
  BY <1>2, <1>7 DEF EarnedInv, Inside
<1>. QED  BY <1>8, <1>9, <1>10, <1>11, <1>12, <1>13, <1>14, <1>15 DEF IInv, MethodInv

-----------------------------------------------------------------------------
(* Rounds that send a fragment, and rounds that call the engine. *)

\* The phase of a packet that is not rejected.
LEMMA InPhase ==
  ASSUME TypeOK, ~Rejected, phase \notin {"Failed", "Completed"}
  PROVE  /\ packet.kind = "start" => phase = "OuterIdentity" /\ rest = <<>>
         /\ packet.kind = "tls" => phase \in {"TLSTunnel", "InnerMethod"} /\ rest = <<>>
<1> SUFFICES ASSUME packet.kind \in {"start", "tls"}
             PROVE  /\ packet.kind = "start" => phase = "OuterIdentity" /\ rest = <<>>
                    /\ packet.kind = "tls" => phase \in {"TLSTunnel", "InnerMethod"} /\ rest = <<>>
  OBVIOUS
<1>1. IsPeap /\ packet.kind # "ack"
  BY DEF IsPeap, PeapKinds
<1>   rest = <<>> /\ packet.kind \in Accepted
  BY <1>1 DEF Rejected, Pending
<1>3. CASE phase = "OuterIdentity"
  BY <1>3 DEF Accepted
<1>4. CASE phase \in {"TLSTunnel", "InnerMethod"}
  <2>1. Accepted = {"ack", "tls"}
    BY <1>4, SMTT(30) DEF Accepted
  <2>. QED  BY <1>4, <2>1
<1>5. CASE phase = "AwaitingOuterSuccess"
  <2>1. Accepted = {"success"}
    BY <1>5, SMTT(30) DEF Accepted
  <2>. QED  BY <2>1
<1>6. CASE phase = "AwaitingOuterFailure"
  <2>1. Accepted = {}
    BY <1>6, SMTT(30) DEF Accepted
  <2>. QED  BY <2>1
<1>. QED  BY <1>3, <1>4, <1>5, <1>6 DEF TypeOK, Phases

\* A fragment of ours reaches the server.
LEMMA SentTyped ==
  ASSUME TypeOK, NEW p \in Packets(Nat), Reply("send", p, TRUE)
  PROVE  peer' \in [in : Parts(Nat), result : Results, whole : Seq(Nat)] /\ delivered' \in Seq(Nat)
<1>1. peer.in \in Parts(Nat) /\ p.data \in Seq(Nat)
  BY DEF TypeOK, Packets
<1>2. delivered \o p.data \in Seq(Nat)
  BY <1>1, Joining DEF TypeOK
<1>3. Push(peer.in, p) \in [in : Parts(Nat), result : Results, whole : Seq(Nat)]
  BY <1>1, PushTyped
<1>. QED  BY <1>2, <1>3 DEF Reply, TypeOK

\* The server refuses a fragment only when it may, and expects what is left.
Fits(u, r) ==
  Expects(u.in, r) /\ (u.result = "error" => early # 0 /\ IncludeLength /\ u.in = NoParts)

LEMMA SentPeer ==
  ASSUME PeerInv, NEW p, NEW r, Reply("send", p, TRUE), rest' = r, early' = early,
         loop = "reply" => Fits(Push(peer.in, p), r)
  PROVE  PeerInv'
<1>1. CASE loop = "reply"
  <2>1. peer' = Push(peer.in, p)
    BY <1>1 DEF Reply
  <2>2. Fits(Push(peer.in, p), r)
    BY <1>1
  <2>. QED  BY <2>1, <2>2 DEF PeerInv, Expects, Fits
<1>2. CASE loop # "reply"
  <2>1. peer' = peer /\ loop' = "over"
    BY <1>2 DEF Reply
  <2>. QED  BY <2>1 DEF PeerInv
<1>. QED  BY <1>1, <1>2

LEMMA PeapAckInv ==
  IInv /\ PeapAck => IInv'
<1>NextShape.
  ASSUME NEW s \in Seq(Nat), NEW f, f = FragNext(s, FragmentSize)
  PROVE  /\ f.packet \in Packets(Nat) /\ f.rest \in Seq(Nat)
         /\ \E k \in 0 .. Len(s) : f.packet.data = SubSeq(s, 1, k) /\ f.rest = SubSeq(s, k + 1, Len(s))
  <2> USE <1>NextShape
  <2>   PICK k : k = Cut(s, FragmentSize)
    OBVIOUS
  <2>2. k \in 0 .. Len(s) /\ Len(s) \in Nat
    BY CutBounds
  <2>3. SubSeq(s, 1, k) \in Seq(Nat) /\ SubSeq(s, k + 1, Len(s)) \in Seq(Nat)
    BY <2>2, SplitTyped
  <2>4. /\ f.packet.data = SubSeq(s, 1, k) /\ f.rest = SubSeq(s, k + 1, Len(s))
    BY DEF FragNext
  <2>5. PICK m \in BOOLEAN : f.packet = [L |-> FALSE, M |-> m, len |-> 0, data |-> SubSeq(s, 1, k)]
    <3>1. (k < Len(s)) \in BOOLEAN
      BY SMTT(30)
    <3>2. f.packet = [L |-> FALSE, M |-> k < Len(s), len |-> 0, data |-> SubSeq(s, 1, k)]
      BY DEF FragNext
    <3>. QED  BY <3>1, <3>2
  <2>6. FALSE \in BOOLEAN /\ 0 \in Nat
    BY SMT
  <2>7. f.packet \in Packets(Nat)
    BY <2>3, <2>5, <2>6, PacketTyped
  <2>. QED  BY <2>2, <2>3, <2>4, <2>7

\* ... and the next ones by one that waits for them.
<1>NextAccepted.
  ASSUME NEW s \in Seq(Nat), s # <<>>, NEW f, f = FragNext(s, FragmentSize),
         NEW q \in Parts(Nat), Expects(q, s), NEW u, u = Push(q, f.packet)
  PROVE  u.result # "error" /\ Expects(u.in, f.rest)
  <2> USE <1>NextAccepted
  <2>1. PICK k : k = Cut(s, FragmentSize)
    OBVIOUS
  <2>2. k \in 0 .. Len(s) /\ Len(s) \in Nat /\ k \in Nat /\ (k < Len(s) \/ k = Len(s))
    BY <2>1, CutBounds
  <2>3. PICK t : t = SubSeq(s, 1, k)
    OBVIOUS
  <2>4. PICK more \in BOOLEAN : more <=> k < Len(s)
    OBVIOUS
  <2>5. /\ Len(t) = k /\ t \in Seq(Nat) /\ Len(f.rest) = Len(s) - k
        /\ f.rest = <<>> <=> ~more
    <3>1. f.rest = SubSeq(s, k + 1, Len(s))
      BY <2>1 DEF FragNext
    <3>2. /\ t \in Seq(Nat) /\ Len(t) = k /\ Len(f.rest) = Len(s) - k
          /\ k < Len(s) => f.rest # <<>>
          /\ k = Len(s) => f.rest = <<>>
      <4>1. PICK z : z = SubSeq(s, k + 1, Len(s))
        OBVIOUS
      <4>2. /\ t \in Seq(Nat) /\ Len(t) = k /\ Len(z) = Len(s) - k
            /\ k < Len(s) => z # <<>>
            /\ k = Len(s) => z = <<>>
        BY <2>2, <2>3, <4>1, SplitTyped
      <4>. QED  BY <3>1, <4>1, <4>2
    <3>. QED  BY <2>2, <2>4, <3>2
  <2>6. f.packet.data = t /\ ~f.packet.L /\ (f.packet.M <=> more)
    BY <2>1, <2>3, <2>4 DEF FragNext
  <2>7. q.open /\ q.expected = Len(q.got) + Len(s) /\ q.got \in Seq(Nat)
    BY DEF Expects, Parts
  <2>8. PICK g \in Seq(Nat) : g = q.got \o t
    BY <2>5, <2>7, Joining
  <2>9. Len(g) = Len(q.got) + k /\ Len(q.got) \in Nat
    <3>1. Len(q.got \o t) = Len(q.got) + Len(t) /\ Len(q.got) \in Nat
      <4>1. PICK j \in Seq(Nat) : j = q.got
        BY <2>7
      <4>0. t \in Seq(Nat)
        BY <2>5
      <4>2. Len(j \o t) = Len(j) + Len(t) /\ Len(j) \in Nat
        BY <4>0, SMTT(30)
      <4>. QED  BY <4>1, <4>2
    <3>. QED  BY <2>5, <2>8, <3>1
  <2>10. /\ ~(Len(g) > q.expected) /\ (~more => Len(g) = q.expected)
         /\ q.expected = Len(g) + (Len(s) - k)
    <3>1. PICK j \in Nat : j = Len(q.got)
      BY <2>9
    <3>2. PICK l \in Nat : l = Len(s)
      BY <2>2
    <3>3. /\ ~(j + k > j + l) /\ (k = l => j + k = j + l) /\ j + l = j + k + (l - k)
      BY <2>2, <3>2, SMTT(30)
    <3>. QED  BY <2>2, <2>4, <2>7, <2>9, <3>1, <3>2, <3>3
  <2>a. PICK now : now = [open |-> TRUE, expected |-> q.expected, got |-> g]
    OBVIOUS
  <2>11. u = IF more THEN [in |-> now, result |-> "more", whole |-> <<>>]
             ELSE [in |-> NoParts, result |-> "complete", whole |-> g]
    BY <2>6, <2>7, <2>8, <2>10, <2>a DEF Push
  <2>12. CASE more
    <3>1. u.result = "more" /\ u.in = now
      BY <2>11, <2>12, SMTT(30)
    <3>2. now.open /\ now.expected = q.expected /\ now.got = g
      BY <2>a, PartsFields
    <3>. QED  BY <2>5, <2>10, <2>12, <3>1, <3>2 DEF Expects
  <2>13. CASE ~more
    <3>1. u.result = "complete" /\ u.in = NoParts
      BY <2>11, <2>13, SMTT(30)
    <3>. QED  BY <2>5, <2>13, <3>1 DEF Expects
  <2>. QED  BY <2>12, <2>13

<1>1.
  ASSUME IInv, PeapAck
  PROVE  IInv'
  <2> USE <1>1
  <2>   /\ TypeOK /\ EngineTypeOK /\ EngineInv /\ StreamInv /\ MethodInv
        /\ TurnInv /\ OuterInv /\ JoinInv /\ PeerInv /\ EarnedInv
    BY Given
  <2>   /\ worker = "handle" /\ method = "peap" /\ packet.kind = "ack" /\ ~Rejected /\ Counted
        /\ UNCHANGED <<engineVars, phase, in, msk, inner, after, earned, method, server>>
    BY DEF PeapAck, Handling, outside
  <2>   PICK f : f = FragNext(rest, FragmentSize)
    OBVIOUS
  <2>4. \/ Reply("send", NoFrag, FALSE) /\ rest' = rest
        \/ rest # <<>> /\ Reply("send", f.packet, TRUE) /\ rest' = f.rest
    BY DEF PeapAck, Ack, Pending
  <2>5. PICK frag, tls : Reply("send", frag, tls)
    BY <2>4
  <2>6. /\ worker' = "idle" /\ packet' = NoPacket /\ loop' \in {"recv", "over"}
        /\ loop' # "over" => loop = "reply"
    BY <2>5, ReplyFacts
  <2>   /\ InCall' = InCall /\ InHand' = InHand
        /\ UNCHANGED <<early, wrote, pending, inbound, outbound, call, client, established, stop>>
    BY PartsSame
  <2>   /\ call.op = "none" /\ call.at = "idle" /\ messages <= MaxMessageCount
        /\ phase \notin {"Failed", "Completed"}
    BY DEF TurnInv, EngineInv, CallInv
  <2>9. messages' \in 0 .. MaxMessageCount + 1 /\ messages' <= MaxMessageCount
    BY CountedTyped
  <2>    rest \in Seq(Nat) /\ delivered \in Seq(Nat) /\ peer.in \in Parts(Nat) /\ wrote \in Nat
    BY DEF TypeOK, EngineTypeOK
  <2>11. /\ f.packet \in Packets(Nat) /\ f.rest \in Seq(Nat)
         /\ \E k \in 0 .. Len(rest) : /\ f.packet.data = SubSeq(rest, 1, k)
                                      /\ f.rest = SubSeq(rest, k + 1, Len(rest))
    BY <1>NextShape
  <2>12. EngineInv'
    BY EngineSame
  <2>13. TypeOK'
    <3>1. /\ peer' \in [in : Parts(Nat), result : Results, whole : Seq(Nat)]
          /\ delivered' \in Seq(Nat) /\ rest' \in Seq(Nat)
      <4>1. CASE Reply("send", NoFrag, FALSE) /\ rest' = rest
        <5>1. UNCHANGED <<peer, delivered>>
          BY <4>1, ReplyFacts
        <5>. QED  BY <4>1, <5>1 DEF TypeOK
      <4>2. CASE Reply("send", f.packet, TRUE) /\ rest' = f.rest
        BY <2>11, <4>2, SentTyped
      <4>. QED  BY <2>4, <4>1, <4>2
    <3>. QED  BY <2>6, <2>9, <2>12, <3>1, NoPacketTyped, ZenonT(60) DEF TypeOK, EngineInv
  <2>14. StreamInv'
    <3>1. CASE loop' = "over"
      BY <3>1, StreamOver
    <3>2. CASE Reply("send", NoFrag, FALSE) /\ rest' = rest
      <4>1. UNCHANGED <<peer, delivered>>
        BY <3>2, ReplyFacts
      <4>. QED  BY <2>6, <3>2, <4>1, StreamKept
    <3>3. CASE loop' # "over" /\ Reply("send", f.packet, TRUE) /\ rest' = f.rest
      <4>1. loop = "reply" /\ delivered' = delivered \o f.packet.data
        BY <2>6, <3>3 DEF Reply
      <4>2. Stream(delivered, rest, InCall, outbound, pending, InHand, wrote)
        BY <4>1 DEF StreamInv, Running
      <4>3. PICK k \in 0 .. Len(rest) : /\ f.packet.data = SubSeq(rest, 1, k)
                                       /\ f.rest = SubSeq(rest, k + 1, Len(rest))
        BY <2>11
      <4>4. Stream(delivered \o SubSeq(rest, 1, k), SubSeq(rest, k + 1, Len(rest)), InCall, outbound,
                   pending, InHand, wrote)
        BY <4>2, StreamNext
      <4>. QED  BY <3>3, <4>1, <4>3, <4>4 DEF StreamInv
    <3>. QED  BY <2>4, <3>1, <3>2, <3>3
  <2>15. TurnInv'
    BY <2>5, <2>9, ReplyTurn
  <2>16. OuterInv'
    BY DEF OuterInv
  <2>17. JoinInv'
    BY <2>6, JoinKept
  <2>18. PeerInv'
    <3>1. CASE Reply("send", NoFrag, FALSE) /\ rest' = rest
      <4>1. UNCHANGED <<peer, delivered>>
        BY <3>1, ReplyFacts
      <4>. QED  BY <2>6, <3>1, <4>1, PeerKept
    <3>2. CASE rest # <<>> /\ Reply("send", f.packet, TRUE) /\ rest' = f.rest
      <4>1. loop = "reply" => Fits(Push(peer.in, f.packet), f.rest)
        <5> SUFFICES ASSUME loop = "reply"
                     PROVE  Fits(Push(peer.in, f.packet), f.rest)
          OBVIOUS
        <5>1. Expects(peer.in, rest)
          BY <3>2 DEF PeerInv, Expects
        <5>2. Push(peer.in, f.packet).result # "error" /\ Expects(Push(peer.in, f.packet).in, f.rest)
          BY <3>2, <5>1, <1>NextAccepted
        <5>. QED  BY <5>2 DEF Fits
      <4>. QED  BY <3>2, <4>1, SentPeer
    <3>. QED  BY <2>4, <3>1, <3>2
  <2>19. EarnedInv'
    BY DEF EarnedInv
  <2>. QED  BY <2>12, <2>13, <2>14, <2>15, <2>16, <2>17, <2>18, <2>19 DEF IInv, MethodInv
<1>. QED  BY <1>1

LEMMA PeapStartInv ==
  ASSUME IInv, PeapStart
  PROVE  IInv'
<1>   /\ TypeOK /\ EngineTypeOK /\ EngineInv /\ StreamInv /\ MethodInv
      /\ TurnInv /\ OuterInv /\ JoinInv /\ PeerInv /\ EarnedInv
  BY Given
<1>   /\ worker = "handle" /\ method = "peap" /\ packet.kind = "start" /\ ~Rejected /\ Counted
      /\ phase' = "TLSTunnel" /\ worker' = "engine" /\ CallStart
      /\ UNCHANGED <<rest, in, msk, inner, after, earned, method, server, packet, loop, peer, delivered>>
  BY DEF PeapStart, Handling, NoAnswer, outside
<1>   /\ call.op = "none" /\ messages <= MaxMessageCount /\ phase \notin {"Failed", "Completed"}
  BY DEF TurnInv
<1>   phase = "OuterIdentity" /\ rest = <<>>
  BY InPhase
<1>5. messages' \in 0 .. MaxMessageCount + 1 /\ messages' <= MaxMessageCount
  BY CountedTyped
<1>6. EngineInv'
  BY CallStartInv
<1>   /\ call' = [op |-> "start", at |-> "collect", out |-> <<>>, got |-> FALSE, result |-> "none"]
      /\ relay' = [relay EXCEPT !.at = "top"]
      /\ UNCHANGED <<early, wrote, pending, inbound, outbound, established, stop>>
  BY DEF CallStart, NoCall
<1>   call'.op = "start" /\ call'.at = "collect" /\ call'.out = <<>>
  OBVIOUS
<1>9. relay.at = "idle" /\ relay'.at = "top"
  <2>1. relay.at = "idle"
    BY DEF EngineInv, PhaseInv, IdleInv
  <2>2. relay \in [at : RelayAts, held : Nat]
    BY EngineTypeParts DEF RelayT
  <2>. QED  BY <2>1, <2>2, ZenonT(60)
<1>10. TypeOK'
  <2>1. "TLSTunnel" \in Phases
    BY DEF Phases
  <2>. QED  BY <1>5, <1>6, <2>1, ZenonT(60) DEF TypeOK, EngineInv
<1>11. StreamInv'
  <2>1. InCall' = <<>> /\ InCall = <<>>
    BY DEF InCall
  <2>2. InHand' = <<>> /\ InHand = <<>>
    BY <1>9 DEF InHand
  <2>. QED  BY <2>1, <2>2, StreamKept
<1>12. TurnInv'
  BY <1>5 DEF TurnInv
<1>13. OuterInv'
  BY DEF OuterInv
<1>14. JoinInv'
  BY JoinKept
<1>15. PeerInv'
  BY PeerKept
<1>16. EarnedInv'
  BY DEF EarnedInv, Inside
<1>. QED  BY <1>6, <1>10, <1>11, <1>12, <1>13, <1>14, <1>15, <1>16 DEF IInv, MethodInv

LEMMA PeapFragmentInv ==
  IInv /\ PeapFragment => IInv'
<1>WholePart.
  ASSUME NEW S, NEW w \in Seq(S)
  PROVE  SubSeq(w, 1, Len(w)) = w
    BY <1>WholePart, SMT

<1>JoinedParts.
  ASSUME NEW S, NEW w \in Seq(S), NEW n \in 0 .. Len(w), NEW m \in n .. Len(w)
  PROVE  SubSeq(w, 1, n) \o SubSeq(w, n + 1, m) = SubSeq(w, 1, m)
    BY <1>JoinedParts, SMT

\* Feed and Unprotect are given a record.
<1>CallRecordInv.
  ASSUME EngineInv, UNCHANGED phase, call.op = "none", NEW record \in Seq(Unit),
         \/ phase = "TLSTunnel" /\ CallFeed(record)
         \/ phase = "InnerMethod" /\ CallUnprotect(record)
  PROVE  EngineInv'
  <2> USE <1>CallRecordInv
  <2>   EngineRest /\ stop' = stop /\ ~stop
    BY DEF CallFeed, CallUnprotect, EngineRest, EngineInv, CallInv
  <2>2. client.at # "idle"
    BY DEF EngineInv, PhaseInv, Inside, ClientInv
  <2>3. PICK o, a, r, s :
          /\ call' = [op |-> o, at |-> a, out |-> s, got |-> FALSE, result |-> r]
          /\ \/ phase = "TLSTunnel" /\ o = "feed" /\ a = "return" /\ r = "error" /\ s = <<>>
             \/ phase = "TLSTunnel" /\ o = "feed" /\ a = "send" /\ r = "none" /\ s = record /\ ~established
             \/ phase = "InnerMethod" /\ o = "unprotect" /\ a = "send" /\ r = "none" /\ s = record
    BY DEF CallFeed, CallUnprotect, NoCall
  <2>   CallT' /\ call'.op = o /\ call'.at = a /\ call'.out = s /\ ~call'.got /\ call'.result = r
    <3>1. o \in Ops /\ a \in CallAts /\ r \in CallResults
      BY <2>3 DEF Ops, CallAts, CallResults
    <3>2. s \in IF o = "unprotect" \/ a = "send" THEN Seq(Unit) ELSE Seq(Nat)
      BY <2>3, EmptyIsTyped
    <3>. QED  BY <2>3, <3>1, <3>2, NewCall
  <2>5. EngineTypeOK' /\ ClientInv' /\ CountInv' /\ BarrierInv'
    <3>1. stop' \in BOOLEAN
      BY DEF EngineInv, EngineTypeOK
    <3>. QED  BY <3>1, MethodFrame
  <2>6. CallInv'
    BY <2>3 DEF CallInv
  <2>7. PhaseInv' /\ IdleInv'
    BY <2>2, <2>3 DEF EngineInv, EngineRest, PhaseInv, IdleInv
  <2>8. RelayInv'
    BY <2>3 DEF EngineInv, EngineRest, RelayInv
  <2>9. BacklogInv'
    BY <2>3 DEF EngineInv, EngineRest, BacklogInv, OnTheWay, InProgress, InHand
  <2>10. ConsumedInv'
    BY <2>3 DEF EngineInv, EngineRest, ConsumedInv, Consumed
  <2>11. SettledInv'
    BY <2>3 DEF EngineInv, EngineRest, SettledInv, Settled, Still, Consumed
  <2>. QED  BY <2>5, <2>6, <2>7, <2>8, <2>9, <2>10, <2>11 DEF EngineInv

\* However a message is cut and whatever lengths are declared, Push gives back
\* nothing, or the message.
<1>Joins.
  ASSUME NEW b \in Bodies, NEW n \in 0 .. Size(b) - 1, NEW k \in 1 .. Size(b) - n,
         NEW q \in Parts(Unit), NEW f \in Packets(Unit),
         q.got = SubSeq(Whole(b), 1, n), n = 0 => q = NoParts, n > 0 => q.open,
         f.data = SubSeq(Whole(b), n + 1, n + k), f.M = (n + k < Size(b))
  PROVE  /\ Push(q, f).result = "more" =>
              f.M /\ Push(q, f).in.open /\ Push(q, f).in.got = SubSeq(Whole(b), 1, n + k)
         /\ Push(q, f).result = "complete" =>
              ~f.M /\ Push(q, f).in = NoParts /\ Push(q, f).whole = Whole(b)
  <2> USE <1>Joins
  <2>1. PICK z \in Nat : z = Size(b)
    BY SizeTyped
  <2>2. PICK w \in Seq(Unit) : w = Whole(b)
    BY WholeTyped
  <2>3. Len(w) = z
    BY <2>1, <2>2, WholeTyped
  <2>4. n \in 0 .. z - 1 /\ k \in 1 .. z - n
    BY <2>1
  <2>5. /\ n \in Nat /\ k \in Nat /\ n \in 0 .. z /\ n + k \in n .. z
        /\ n = 0 \/ n > 0
        /\ ~(n + k < z) => n + k = z
        /\ n = 0 => n + 1 = 1
    BY <2>4, SMTT(30)
  <2>6. SubSeq(w, 1, n) \o SubSeq(w, n + 1, n + k) = SubSeq(w, 1, n + k)
    <3>1. n \in 0 .. Len(w) /\ n + k \in n .. Len(w)
      BY <2>3, <2>5
    <3>. QED  BY <3>1, <1>JoinedParts
  <2>7. ~f.M => SubSeq(w, 1, n + k) = w
    <3>1. SubSeq(w, 1, Len(w)) = w
      BY <1>WholePart
    <3>. QED  BY <2>1, <2>3, <2>5, <3>1
  <2>8. PICK g : g = SubSeq(w, 1, n + k)
    OBVIOUS
  <2>9. /\ q.got \o f.data = g
        /\ n = 0 => f.data = g
        /\ q.open \/ n = 0
    BY <2>2, <2>5, <2>6, <2>8
  <2>10. ~q.open => q = NoParts
    BY <2>9
  <2>11. f.L /\ ~q.open => f.data = g
    <3>1. n > 0 => q.open
      OBVIOUS
    <3>. QED  BY <2>5, <2>9, <3>1
  <2>12. PICK expected : expected = IF f.L THEN f.len ELSE q.expected
    OBVIOUS
  <2>13. PICK now : now = [open |-> TRUE, expected |-> expected, got |-> g]
    OBVIOUS
  <2>14. now.open /\ now.got = g
    BY <2>13, PartsFields
  <2>15. \/ Push(q, f).result = "error"
         \/ Push(q, f) = [in |-> NoParts, result |-> "complete", whole |-> g] /\ ~f.M
         \/ Push(q, f) = [in |-> now, result |-> "more", whole |-> <<>>] /\ f.M
    <3>1. CASE (f.L /\ (q.open \/ f.len = 0)) \/ (~f.L /\ ~q.open /\ f.M)
      <4>1. Push(q, f) = PushFails(q)
        BY <3>1 DEF Push
      <4>. QED  BY <4>1, SMTT(30) DEF PushFails
    <3>2. CASE ~f.L /\ ~q.open /\ ~f.M
      <4>1. Push(q, f) = [in |-> NoParts, result |-> "complete", whole |-> g]
        BY <2>9, <2>10, <2>5, <3>2 DEF Push
      <4>. QED  BY <3>2, <4>1
    <3>3. CASE (f.L /\ ~q.open /\ f.len # 0) \/ (~f.L /\ q.open)
      <4>1. g = IF f.L THEN f.data ELSE q.got \o f.data
        BY <2>9, <2>11, <3>3
      <4>2. Push(q, f) = IF Len(g) > expected \/ (~f.M /\ Len(g) # expected) THEN PushFails(now)
                         ELSE IF f.M THEN [in |-> now, result |-> "more", whole |-> <<>>]
                         ELSE [in |-> NoParts, result |-> "complete", whole |-> g]
        BY <2>12, <2>13, <3>3, <4>1 DEF Push
      <4>3. PushFails(now).result = "error"
        BY SMTT(30) DEF PushFails
      <4>4. f.M \in BOOLEAN
        BY DEF Packets
      <4>. QED  BY <4>2, <4>3, <4>4
    <3>4. f.L \in BOOLEAN /\ q.open \in BOOLEAN /\ f.M \in BOOLEAN
      BY DEF Packets, Parts
    <3>. QED  BY <3>1, <3>2, <3>3, <3>4
  <2>16. PICK u : u = Push(q, f)
    OBVIOUS
  <2>17. \/ u.result = "error"
         \/ ~f.M /\ u.in = NoParts /\ u.result = "complete" /\ u.whole = g
         \/ f.M /\ u.in = now /\ u.result = "more"
    <3>1. CASE u.result = "error"
      BY <3>1
    <3>2. CASE u = [in |-> NoParts, result |-> "complete", whole |-> g] /\ ~f.M
      BY <3>2, SMTT(30)
    <3>3. CASE u = [in |-> now, result |-> "more", whole |-> <<>>] /\ f.M
      BY <3>3, SMTT(30)
    <3>. QED  BY <2>15, <2>16, <3>1, <3>2, <3>3
  <2>18. /\ u.result = "more" => f.M /\ u.in.open /\ u.in.got = SubSeq(w, 1, n + k)
         /\ u.result = "complete" => ~f.M /\ u.in = NoParts /\ u.whole = w
    BY <2>7, <2>8, <2>14, <2>17
  <2>. QED  BY <2>2, <2>16, <2>18

<1>PushResults.
  ASSUME NEW q, NEW f
  PROVE  Push(q, f).result \in {"error", "more", "complete"}
    BY <1>PushResults, SMTT(30) DEF Push, PushFails

\* What a record in the call looks like.
<1>RecordCall.
  ASSUME NEW record, CallFeed(record) \/ CallUnprotect(record)
  PROVE  /\ call'.op \in {"feed", "unprotect"} /\ call'.at \in {"send", "return"}
         /\ call'.at = "send" => call'.out = record
         /\ call'.op = "feed" /\ call'.at = "return" => call'.out = <<>>
         /\ call'.at = "return" => call'.op = "feed"
         /\ UNCHANGED <<early, wrote, relay, pending, inbound, outbound, established, stop>>
  <2> USE <1>RecordCall
  <2>1. \/ call' = [op |-> "feed", at |-> "return", out |-> <<>>, got |-> FALSE, result |-> "error"]
        \/ call' = [op |-> "feed", at |-> "send", out |-> record, got |-> FALSE, result |-> "none"]
        \/ call' = [op |-> "unprotect", at |-> "send", out |-> record, got |-> FALSE, result |-> "none"]
    BY DEF CallFeed, CallUnprotect, NoCall
  <2>   UNCHANGED <<early, wrote, relay, pending, inbound, outbound, established, stop>>
    BY DEF CallFeed, CallUnprotect
  <2>3. CASE call' = [op |-> "feed", at |-> "return", out |-> <<>>, got |-> FALSE, result |-> "error"]
    BY <2>3
  <2>4. CASE call' = [op |-> "feed", at |-> "send", out |-> record, got |-> FALSE, result |-> "none"]
    BY <2>4
  <2>5. CASE call' = [op |-> "unprotect", at |-> "send", out |-> record, got |-> FALSE, result |-> "none"]
    BY <2>5
  <2>. QED  BY <2>1, <2>3, <2>4, <2>5

<1>1.
  ASSUME IInv, PeapFragment
  PROVE  IInv'
  <2> USE <1>1
  <2>   /\ TypeOK /\ EngineTypeOK /\ EngineInv /\ StreamInv /\ MethodInv
        /\ TurnInv /\ OuterInv /\ JoinInv /\ PeerInv /\ EarnedInv
    BY Given
  <2>   PICK p : p = Push(in, packet.frag)
    OBVIOUS
  <2>   /\ worker = "handle" /\ method = "peap" /\ packet.kind = "tls" /\ ~Rejected /\ Counted /\ in' = p.in
        /\ UNCHANGED <<rest, msk, inner, after, earned, method, server>>
    BY DEF PeapFragment, Handling, outside
  <2>   /\ call.op = "none" /\ call.at = "idle" /\ messages <= MaxMessageCount
        /\ phase \notin {"Failed", "Completed"} /\ packet.kind # "none"
    BY DEF TurnInv, EngineInv, CallInv
  <2>5. phase \in {"TLSTunnel", "InnerMethod"} /\ rest = <<>>
    BY InPhase
  <2>   messages' \in 0 .. MaxMessageCount + 1 /\ messages' <= MaxMessageCount
    BY CountedTyped
  <2>   in \in Parts(Unit) /\ packet.frag \in Packets(Unit)
    BY DEF TypeOK, Packets
  <2>   /\ p \in [in : Parts(Unit), result : Results, whole : Seq(Unit)]
        /\ p.result \in {"error", "more", "complete"}
    BY PushTyped, <1>PushResults
  <2>9. ASSUME p.result # "error"
        PROVE  \E b \in Bodies : \E n \in Nat : \E k \in 1 .. Size(b) - n :
                 /\ n \in 0 .. Size(b) - 1
                 /\ packet.frag.data = SubSeq(Whole(b), n + 1, n + k)
                 /\ packet.frag.M = (n + k < Size(b))
                 /\ Joined(b, n)
                 /\ server = [body |-> b, sent |-> IF packet.frag.M THEN n + k ELSE 0]
    <3>1. PICK b \in Bodies : \E n \in 0 .. Size(b) - 1 : \E k \in 1 .. Size(b) - n :
           /\ packet.frag.data = SubSeq(Whole(b), n + 1, n + k)
           /\ packet.frag.M = (n + k < Size(b))
           /\ Joined(b, n)
           /\ server = [body |-> b, sent |-> IF packet.frag.M THEN n + k ELSE 0]
      BY <2>9 DEF JoinInv
    <3>2. \A n \in 0 .. Size(b) - 1 : n \in Nat
      BY SMTT(30)
    <3>. QED  BY <3>1, <3>2
  <2>10. ASSUME NEW b \in Bodies, NEW n \in Nat, NEW k \in 1 .. Size(b) - n,
                n \in 0 .. Size(b) - 1,
                packet.frag.data = SubSeq(Whole(b), n + 1, n + k),
                packet.frag.M = (n + k < Size(b)),
                Joined(b, n)
         PROVE  /\ p.result = "more" => packet.frag.M /\ p.in.open /\ p.in.got = SubSeq(Whole(b), 1, n + k)
                /\ p.result = "complete" => ~packet.frag.M /\ p.in = NoParts /\ p.whole = Whole(b)
    <3>1. PICK f \in Packets(Unit) : f = packet.frag
      OBVIOUS
    <3>2. /\ in.got = SubSeq(Whole(b), 1, n) /\ (n = 0 => in = NoParts) /\ (n > 0 => in.open)
          /\ f.data = SubSeq(Whole(b), n + 1, n + k) /\ f.M = (n + k < Size(b))
      BY <2>10, <3>1 DEF Joined
    <3>4. /\ Push(in, f).result = "more" => f.M /\ Push(in, f).in.open /\ Push(in, f).in.got = SubSeq(Whole(b), 1, n + k)
          /\ Push(in, f).result = "complete" => ~f.M /\ Push(in, f).in = NoParts /\ Push(in, f).whole = Whole(b)
      BY <2>10, <3>2, <1>Joins, ZenonT(60)
    <3>. QED  BY <3>1, <3>4
  <2>11. ASSUME p.result # "error"
         PROVE  \E b \in Bodies : \E n \in Nat : \E k \in 1 .. Size(b) - n :
                  /\ packet.frag.M = (n + k < Size(b))
                  /\ server = [body |-> b, sent |-> IF packet.frag.M THEN n + k ELSE 0]
                  /\ p.result = "more" => packet.frag.M /\ p.in.open /\ p.in.got = SubSeq(Whole(b), 1, n + k)
                  /\ p.result = "complete" => ~packet.frag.M /\ p.in = NoParts /\ p.whole = Whole(b)
    BY <2>9, <2>10, <2>11
  <2>12. \/ p.result = "error" /\ Fail /\ UNCHANGED engineVars
         \/ p.result = "more" /\ Ack /\ UNCHANGED <<phase, engineVars>>
         \/ /\ p.result = "complete" /\ worker' = "engine"
            /\ \/ phase = "TLSTunnel" /\ CallFeed(p.whole)
               \/ phase = "InnerMethod" /\ CallUnprotect(p.whole)
            /\ UNCHANGED <<phase, packet, loop, peer, delivered>>
    <3>1. CASE p.result = "error"
      BY <3>1, SMTT(30) DEF PeapFragment
    <3>2. CASE p.result = "more"
      BY <3>2, SMTT(30) DEF PeapFragment
    <3>3. CASE p.result = "complete"
      <4>1. /\ IF phase = "TLSTunnel" THEN CallFeed(p.whole) ELSE CallUnprotect(p.whole)
            /\ worker' = "engine" /\ NoAnswer /\ UNCHANGED phase
        BY <3>3, SMTT(30) DEF PeapFragment
      <4>. QED  BY <2>5, <3>3, <4>1 DEF NoAnswer
    <3>. QED  BY <3>1, <3>2, <3>3
  <2>    in' \in Parts(Unit)
    OBVIOUS
  <2>14. CASE p.result = "error" /\ Fail /\ UNCHANGED engineVars
    <3>   /\ phase' = "Failed" /\ loop' = "over" /\ worker' = "idle" /\ packet' = NoPacket
          /\ UNCHANGED <<peer, delivered>>
      <4>1. PICK action \in {"error"} : phase' = "Failed" /\ Reply(action, NoFrag, FALSE)
        BY <2>14 DEF Fail
      <4>. QED  BY <4>1, ReplyFacts
    <3>   UNCHANGED <<early, wrote, pending, inbound, outbound, call, client, established, stop>>
      BY <2>14, PartsSame
    <3>3. EngineInv'
      BY <2>14, EngineSame
    <3>4. TypeOK'
      <4>1. "Failed" \in Phases
        BY DEF Phases
      <4>. QED  BY <3>3, <4>1, NoPacketTyped, ZenonT(60) DEF TypeOK, EngineInv
    <3>5. StreamInv'
      BY StreamOver
    <3>6. TurnInv'
      BY <2>14, ReplyTurn DEF Fail
    <3>7. OuterInv' /\ PeerInv'
      BY PeerKept DEF OuterInv
    <3>8. JoinInv'
      BY DEF JoinInv
    <3>9. EarnedInv'
      BY DEF EarnedInv, Inside
    <3>. QED  BY <3>3, <3>4, <3>5, <3>6, <3>7, <3>8, <3>9 DEF IInv, MethodInv
  <2>15. CASE p.result = "more" /\ Ack /\ UNCHANGED <<phase, engineVars>>
    <3>1. /\ loop' \in {"recv", "over"} /\ (loop' # "over" => loop = "reply")
          /\ worker' = "idle" /\ packet' = NoPacket /\ UNCHANGED <<peer, delivered, phase>>
      BY <2>15, ReplyFacts DEF Ack
    <3>   /\ InCall' = InCall /\ InHand' = InHand
          /\ UNCHANGED <<early, wrote, pending, inbound, outbound, call, client, established, stop>>
      BY <2>15, PartsSame
    <3>3. EngineInv'
      BY <2>15, EngineSame
    <3>4. TypeOK'
      BY <3>1, <3>3, NoPacketTyped, ZenonT(60) DEF TypeOK, EngineInv
    <3>5. StreamInv'
      BY <3>1, StreamKept
    <3>6. TurnInv'
      BY <2>15, <3>1, ReplyTurn DEF Ack
    <3>7. OuterInv' /\ PeerInv'
      BY <3>1, PeerKept DEF OuterInv
    <3>8. JoinInv'
      <4>0. PICK b \in Bodies, n \in Nat : \E k \in 1 .. Size(b) - n :
              /\ server = [body |-> b, sent |-> n + k] /\ n + k < Size(b)
              /\ p.in.open /\ p.in.got = SubSeq(Whole(b), 1, n + k)
        BY <2>11, <2>15
      <4>   PICK k \in 1 .. Size(b) - n :
              /\ server = [body |-> b, sent |-> n + k] /\ n + k < Size(b)
              /\ p.in.open /\ p.in.got = SubSeq(Whole(b), 1, n + k)
        BY <4>0
      <4>1. server.body = b /\ server.sent = n + k
        OBVIOUS
      <4>2. n + k # 0 /\ n + k < Size(b)
        <5>1. Size(b) \in Nat
          BY SizeTyped
        <5>2. n + k # 0
          BY <5>1, SMTT(30)
        <5>. QED  BY <5>2
      <4>3. in'.open /\ in'.got = SubSeq(Whole(b), 1, n + k)
        OBVIOUS
      <4>4. server'.body = b /\ server'.sent = n + k
        BY <4>1
      <4>. QED  BY <3>1, <4>2, <4>3, <4>4 DEF JoinInv, Joined
    <3>9. EarnedInv'
      BY <3>1 DEF EarnedInv
    <3>. QED  BY <3>3, <3>4, <3>5, <3>6, <3>7, <3>8, <3>9 DEF IInv, MethodInv
  <2>16. CASE /\ p.result = "complete" /\ worker' = "engine"
              /\ \/ phase = "TLSTunnel" /\ CallFeed(p.whole)
                 \/ phase = "InnerMethod" /\ CallUnprotect(p.whole)
              /\ UNCHANGED <<phase, packet, loop, peer, delivered>>
    <3>1. PICK record \in Seq(Unit) : record = p.whole
      OBVIOUS
    <3>2. \/ phase = "TLSTunnel" /\ CallFeed(record)
          \/ phase = "InnerMethod" /\ CallUnprotect(record)
      BY <2>16, <3>1
    <3>3. /\ call'.op \in {"feed", "unprotect"} /\ call'.at \in {"send", "return"}
          /\ call'.at = "send" => call'.out = record
          /\ call'.op = "feed" /\ call'.at = "return" => call'.out = <<>>
          /\ call'.at = "return" => call'.op = "feed"
          /\ UNCHANGED <<early, wrote, relay, pending, inbound, outbound, established, stop>>
      BY <3>2, <1>RecordCall
    <3>4. EngineInv'
      BY <2>16, <3>2, <1>CallRecordInv
    <3>5. TypeOK'
      BY <2>16, <3>4, ZenonT(60) DEF TypeOK, EngineInv
    <3>6. StreamInv'
      <4>1. InCall' = <<>> /\ InCall = <<>>
        BY <3>3 DEF InCall
      <4>2. InHand' = InHand
        BY <3>3 DEF InHand
      <4>. QED  BY <2>16, <3>3, <4>1, <4>2, StreamKept
    <3>7. TurnInv'
      BY <2>5, <2>16, <3>3 DEF TurnInv
    <3>8. OuterInv' /\ PeerInv'
      BY <2>16, <3>3, PeerKept DEF OuterInv
    <3>9. JoinInv'
      <4>0. PICK b \in Bodies : /\ server = [body |-> b, sent |-> 0]
                                /\ p.in = NoParts /\ p.whole = Whole(b)
        BY <2>11, <2>16
      <4>   server'.body = b /\ server'.sent = 0 /\ in' = NoParts /\ record = Whole(b)
        BY <3>1, <4>0
      <4>2. 0 < Size(b) /\ ~(0 > 0) /\ SubSeq(Whole(b), 1, 0) = <<>> /\ NoParts.got = <<>>
        <5>1. PICK w \in Seq(Unit) : w = Whole(b)
          BY WholeTyped
        <5>2. SubSeq(w, 1, 0) = <<>> /\ ~(0 > 0)
          BY SMTT(30)
        <5>3. 0 < Size(b)
          BY SMTT(30) DEF Size
        <5>. QED  BY <5>1, <5>2, <5>3 DEF NoParts
      <4>3. call'.at = "send" => call'.out \in Messages
        BY <3>3 DEF Messages
      <4>4. in'.got = SubSeq(Whole(b), 1, 0)
        BY <4>2
      <4>. QED  BY <2>16, <3>3, <4>2, <4>3, <4>4 DEF JoinInv, Joined
    <3>10. EarnedInv'
      BY <2>16, <3>3 DEF EarnedInv
    <3>. QED  BY <3>4, <3>5, <3>6, <3>7, <3>8, <3>9, <3>10 DEF IInv, MethodInv
  <2>. QED  BY <2>12, <2>14, <2>15, <2>16
<1>. QED  BY <1>1

-----------------------------------------------------------------------------
(* Rounds that are answered when a call has returned. *)

LEMMA ReleasedFacts ==
  ASSUME Released
  PROVE  /\ call'.op = "none" /\ call'.at = "idle" /\ InCall' = <<>> /\ InHand' = InHand
         /\ UNCHANGED <<early, wrote, pending, inbound, outbound, client, established, stop>>
<1>1. call' = NoCall /\ UNCHANGED <<early, wrote, relay, pending, inbound, outbound, client, established, stop>>
  BY DEF Released
<1>2. call'.op = "none" /\ call'.at = "idle"
  BY <1>1, NoCallNext
<1>. QED  BY <1>1, <1>2 DEF InCall, InHand

\* The round ends: with an error, with an ACK when TLS has nothing to say, or
\* with what the call has collected.
LEMMA AnswerInv ==
  /\ IInv /\ worker = "engine" /\ Released /\ call.at = "return"
  /\ UNCHANGED <<in, messages, msk, method, server>>
  /\ EngineInv' /\ EarnedInv' /\ inner' \in MsState /\ phase' \in Phases /\ after' \in Phases
  /\ earned' \subseteq {"verified", "innerSuccess", "proved"} \X Nat
  /\ \/ Reply("error", NoFrag, FALSE) /\ rest' = rest
     \/ phase' \notin {"Failed", "Completed"} /\ Ack /\ rest' = rest /\ InCall = <<>>
     \/ /\ phase' \notin {"Failed", "Completed"} /\ Emit(InCall) /\ InCall \in Seq(Nat)
        /\ early = 0 => InCall # <<>>
  => IInv'
<1>StreamEmit.
  ASSUME NEW d \in Seq(Nat), NEW c \in Seq(Nat), NEW o, NEW p, NEW h, NEW w \in Nat,
         NEW k \in 0 .. Len(c), Stream(d, <<>>, c, o, p, h, w)
  PROVE  Stream(d \o SubSeq(c, 1, k), SubSeq(c, k + 1, Len(c)), <<>>, o, p, h, w)
  <2> USE <1>StreamEmit
  <2>1. Len(d) \in Nat /\ Len(c) \in Nat
    BY SMTT(30)
  <2>2. /\ Len(d) + Len(<<>>) = Len(d) /\ Len(d) + Len(c) + Len(<<>>) = Len(d) + Len(c)
        /\ Len(d) + Len(<<>>) + Len(c) = Len(d) + Len(c) /\ Len(d) + Len(c) \in Nat
    BY <2>1, SMTT(30)
  <2>3. Stream(d, c, <<>>, o, p, h, w)
    BY <2>2, ContinuesShort DEF Stream
  <2>. QED  BY <2>3, StreamNext

\* Start cuts the payload in two.
<1>StartShape.
  ASSUME NEW s \in Seq(Nat), NEW f, f = FragStart(s, FragmentSize, IncludeLength)
  PROVE  /\ f.packet \in Packets(Nat) /\ f.rest \in Seq(Nat)
         /\ \E k \in 0 .. Len(s) : f.packet.data = SubSeq(s, 1, k) /\ f.rest = SubSeq(s, k + 1, Len(s))
  <2> USE <1>StartShape
  <2>   PICK k : k = Cut(s, FragmentSize)
    OBVIOUS
  <2>   k \in 0 .. Len(s) /\ Len(s) \in Nat
    BY CutBounds
  <2>3. SubSeq(s, 1, k) \in Seq(Nat) /\ SubSeq(s, k + 1, Len(s)) \in Seq(Nat)
    BY SplitTyped
  <2>4. /\ f.packet.data = SubSeq(s, 1, k) /\ f.rest = SubSeq(s, k + 1, Len(s))
    BY DEF FragStart
  <2>5. PICK l \in BOOLEAN, m \in BOOLEAN, n \in Nat :
          f.packet = [L |-> l, M |-> m, len |-> n, data |-> SubSeq(s, 1, k)]
    <3>1. /\ (Len(s) > FragmentSize \/ IncludeLength) \in BOOLEAN
          /\ (Len(s) > FragmentSize) \in BOOLEAN
          /\ (IF Len(s) > FragmentSize \/ IncludeLength THEN Len(s) ELSE 0) \in Nat
      BY SMTT(30)
    <3>2. f.packet = [L |-> Len(s) > FragmentSize \/ IncludeLength, M |-> Len(s) > FragmentSize,
                      len |-> IF Len(s) > FragmentSize \/ IncludeLength THEN Len(s) ELSE 0,
                      data |-> SubSeq(s, 1, k)]
      BY DEF FragStart
    <3>. QED  BY <3>1, <3>2
  <2>6. f.packet \in Packets(Nat)
    BY <2>3, <2>5, PacketTyped
  <2>. QED  BY <2>3, <2>4, <2>6

\* A first fragment is accepted by a server that joins nothing ...
<1>StartAccepted.
  ASSUME NEW s \in Seq(Nat), s # <<>>, NEW f, f = FragStart(s, FragmentSize, IncludeLength),
         NEW u, u = Push(NoParts, f.packet)
  PROVE  u.result # "error" /\ Expects(u.in, f.rest)
  <2> USE <1>StartAccepted
  <2>   PICK k : k = Cut(s, FragmentSize)
    OBVIOUS
  <2>2. /\ k \in 0 .. Len(s) /\ Len(s) \in Nat /\ k \in Nat /\ (k < Len(s) \/ k = Len(s))
        /\ (Len(s) > FragmentSize) <=> k < Len(s)
    BY CutBounds
  <2>3. PICK t : t = SubSeq(s, 1, k)
    OBVIOUS
  <2>4. PICK more \in BOOLEAN : more <=> k < Len(s)
    OBVIOUS
  <2>5. /\ Len(t) = k /\ Len(f.rest) = Len(s) - k
        /\ f.rest = <<>> <=> ~more
    <3>1. f.rest = SubSeq(s, k + 1, Len(s))
      BY DEF FragStart
    <3>2. /\ t \in Seq(Nat) /\ Len(t) = k /\ Len(f.rest) = Len(s) - k
          /\ k < Len(s) => f.rest # <<>>
          /\ k = Len(s) => f.rest = <<>>
      <4>1. PICK z : z = SubSeq(s, k + 1, Len(s))
        OBVIOUS
      <4>2. /\ t \in Seq(Nat) /\ Len(t) = k /\ Len(z) = Len(s) - k
            /\ k < Len(s) => z # <<>>
            /\ k = Len(s) => z = <<>>
        BY <2>2, <2>3, <4>1, SplitTyped
      <4>. QED  BY <3>1, <4>1, <4>2
    <3>. QED  BY <2>2, <2>4, <3>2
  <2>6. /\ f.packet.data = t
        /\ f.packet.L <=> more \/ IncludeLength
        /\ f.packet.M <=> more
        /\ f.packet.L => f.packet.len = Len(s)
    BY <2>2, <2>3, <2>4 DEF FragStart
  <2>7. Len(s) # 0 /\ ~(k > Len(s)) /\ (~more => k = Len(s)) /\ Len(s) = k + (Len(s) - k)
    <3>1. Len(s) # 0
      BY NonEmpty
    <3>. QED  BY <3>1, <2>2, <2>4, SMTT(30)
  <2>8. ~NoParts.open /\ NoParts.got = <<>>
    BY DEF NoParts
  <2>9. CASE f.packet.L
    <3>0. PICK now : now = [open |-> TRUE, expected |-> Len(s), got |-> t]
      OBVIOUS
    <3>1. u = IF more THEN [in |-> now, result |-> "more", whole |-> <<>>]
              ELSE [in |-> NoParts, result |-> "complete", whole |-> t]
      BY <2>5, <2>6, <2>7, <2>8, <2>9, <3>0 DEF Push
    <3>2. CASE more
      <4>1. u.result = "more" /\ u.in = now
        BY <3>1, <3>2, SMTT(30)
      <4>2. now.open /\ now.expected = Len(s) /\ now.got = t
        BY <3>0, PartsFields
      <4>. QED  BY <2>5, <2>7, <3>2, <4>1, <4>2 DEF Expects
    <3>3. CASE ~more
      <4>1. u.result = "complete" /\ u.in = NoParts
        BY <3>1, <3>3, SMTT(30)
      <4>. QED  BY <2>5, <3>3, <4>1 DEF Expects
    <3>. QED  BY <3>2, <3>3
  <2>10. CASE ~f.packet.L
    <3>1. ~more /\ u = [in |-> NoParts, result |-> "complete", whole |-> t]
      BY <2>6, <2>8, <2>10 DEF Push
    <3>2. u.result = "complete" /\ u.in = NoParts
      BY <3>1, SMTT(30)
    <3>. QED  BY <2>5, <3>1, <3>2 DEF Expects
  <2>. QED  BY <2>9, <2>10

\* ... unless there is nothing in it and it declares a length.
<1>EmptyStart.
  ASSUME NEW f, f = FragStart(<<>>, FragmentSize, IncludeLength), NEW u, u = Push(NoParts, f.packet)
  PROVE  u.in = NoParts /\ f.rest = <<>> /\ (u.result = "error" => IncludeLength)
  <2> USE <1>EmptyStart
  <2>1. PICK k : k = Cut(<<>>, FragmentSize)
    OBVIOUS
  <2>2. <<>> \in Seq(Nat) /\ Len(<<>>) = 0
    BY SMTT(30)
  <2>3. k \in 0 .. Len(<<>>) /\ ((Len(<<>>) > FragmentSize) <=> k < Len(<<>>))
    BY <2>1, <2>2, CutBounds
  <2>4. k = 0 /\ ~(0 > FragmentSize)
    BY <2>2, <2>3, SMTT(30)
  <2>5. SubSeq(<<>>, 0 + 1, 0) = <<>>
    BY SMTT(30)
  <2>6. /\ f.rest = <<>> /\ ~f.packet.M
        /\ f.packet.L <=> IncludeLength
        /\ f.packet.L => f.packet.len = 0
    BY <2>1, <2>2, <2>4, <2>5 DEF FragStart
  <2>7. ~NoParts.open
    BY DEF NoParts
  <2>8. CASE f.packet.L
    <3>1. u = [in |-> NoParts, result |-> "error", whole |-> <<>>]
      BY <2>6, <2>8 DEF Push, PushFails
    <3>2. u.in = NoParts
      BY <3>1, SMTT(30)
    <3>. QED  BY <2>6, <2>8, <3>2
  <2>9. CASE ~f.packet.L
    <3>1. u = [in |-> NoParts, result |-> "complete", whole |-> f.packet.data]
      BY <2>6, <2>7, <2>9 DEF Push
    <3>2. u.in = NoParts /\ u.result = "complete"
      BY <3>1, SMTT(30)
    <3>. QED  BY <2>6, <3>2
  <2>. QED  BY <2>8, <2>9

\* The first fragment of a message, or all of it.
<1>EmitTyped.
  ASSUME TypeOK, NEW s \in Seq(Nat), Emit(s)
  PROVE  /\ peer' \in [in : Parts(Nat), result : Results, whole : Seq(Nat)]
         /\ delivered' \in Seq(Nat) /\ rest' \in Seq(Nat)
         /\ \E frag, tls : Reply("send", frag, tls)
  <2> USE <1>EmitTyped
  <2>1. PICK f : f = FragStart(s, FragmentSize, IncludeLength)
    OBVIOUS
  <2>2. Reply("send", f.packet, TRUE) /\ rest' = f.rest
    BY <2>1 DEF Emit
  <2>3. f.packet \in Packets(Nat) /\ f.rest \in Seq(Nat)
    BY <2>1, <1>StartShape
  <2>. QED  BY <2>2, <2>3, SentTyped

<1>EmitStream.
  ASSUME TypeOK, StreamInv, method = "peap", rest = <<>>, Emit(InCall), InCall \in Seq(Nat),
         InCall' = <<>>, InHand' = InHand, UNCHANGED <<wrote, outbound, pending>>
  PROVE  StreamInv'
  <2> USE <1>EmitStream
  <2>1. PICK f : f = FragStart(InCall, FragmentSize, IncludeLength)
    OBVIOUS
  <2>   Reply("send", f.packet, TRUE) /\ rest' = f.rest
    BY <2>1 DEF Emit
  <2>3. PICK k \in 0 .. Len(InCall) : /\ f.packet.data = SubSeq(InCall, 1, k)
                                     /\ f.rest = SubSeq(InCall, k + 1, Len(InCall))
    BY <2>1, <1>StartShape
  <2>4. CASE loop = "reply"
    <3>1. delivered' = delivered \o f.packet.data
      BY <2>4 DEF Reply
    <3>2. Stream(delivered, <<>>, InCall, outbound, pending, InHand, wrote)
      BY <2>4 DEF StreamInv, Running
    <3>3. delivered \in Seq(Nat) /\ wrote \in Nat
      BY DEF TypeOK, EngineTypeOK
    <3>4. Stream(delivered \o SubSeq(InCall, 1, k), SubSeq(InCall, k + 1, Len(InCall)), <<>>, outbound,
                 pending, InHand, wrote)
      BY <3>2, <3>3, <1>StreamEmit
    <3>. QED  BY <2>3, <3>1, <3>4 DEF StreamInv
  <2>5. CASE loop # "reply"
    <3>1. loop' = "over"
      BY <2>5 DEF Reply
    <3>. QED  BY <3>1, StreamOver
  <2>. QED  BY <2>4, <2>5

<1>EmitPeer.
  ASSUME PeerInv, NEW s \in Seq(Nat), rest = <<>>, Emit(s), early' = early, early = 0 => s # <<>>
  PROVE  PeerInv'
  <2> USE <1>EmitPeer
  <2>1. PICK f : f = FragStart(s, FragmentSize, IncludeLength)
    OBVIOUS
  <2>2. Reply("send", f.packet, TRUE) /\ rest' = f.rest
    BY <2>1 DEF Emit
  <2>3. loop = "reply" => Fits(Push(peer.in, f.packet), f.rest)
    <3> SUFFICES ASSUME loop = "reply"
                 PROVE  Fits(Push(peer.in, f.packet), f.rest)
      OBVIOUS
    <3>1. peer.in = NoParts
      BY DEF PeerInv
    <3>2. CASE s # <<>>
      <4>1. Push(NoParts, f.packet).result # "error" /\ Expects(Push(NoParts, f.packet).in, f.rest)
        BY <2>1, <3>2, <1>StartAccepted
      <4>. QED  BY <3>1, <4>1 DEF Fits
    <3>3. CASE s = <<>>
      <4>1. /\ Push(NoParts, f.packet).in = NoParts /\ f.rest = <<>>
            /\ Push(NoParts, f.packet).result = "error" => IncludeLength
        BY <2>1, <3>3, <1>EmptyStart
      <4>. QED  BY <3>1, <3>3, <4>1 DEF Fits, Expects
    <3>. QED  BY <3>2, <3>3
  <2>. QED  BY <2>2, <2>3, SentPeer

<1>1.
  ASSUME IInv, worker = "engine", Released, call.at = "return",
         UNCHANGED <<in, messages, msk, method, server>>,
         EngineInv', EarnedInv', inner' \in MsState, phase' \in Phases, after' \in Phases,
         earned' \subseteq {"verified", "innerSuccess", "proved"} \X Nat,
         \/ Reply("error", NoFrag, FALSE) /\ rest' = rest
         \/ phase' \notin {"Failed", "Completed"} /\ Ack /\ rest' = rest /\ InCall = <<>>
         \/ /\ phase' \notin {"Failed", "Completed"} /\ Emit(InCall) /\ InCall \in Seq(Nat)
            /\ early = 0 => InCall # <<>>
  PROVE  IInv'
  <2> USE <1>1
  <2>   /\ TypeOK /\ EngineTypeOK /\ EngineInv /\ StreamInv /\ MethodInv
        /\ TurnInv /\ OuterInv /\ JoinInv /\ PeerInv /\ EarnedInv
    BY Given
  <2>   /\ call'.op = "none" /\ call'.at = "idle" /\ InCall' = <<>> /\ InHand' = InHand
        /\ UNCHANGED <<early, wrote, pending, inbound, outbound, client, established, stop>>
    BY ReleasedFacts
  <2>   rest = <<>> /\ method = "peap" /\ messages <= MaxMessageCount
    <3>1. rest = <<>> /\ call.op # "none" /\ messages <= MaxMessageCount
      BY DEF TurnInv
    <3>. QED  BY <3>1 DEF OuterInv, TypeOK
  <2>4. PICK action, frag, tls :
          /\ action \in {"error", "send"} /\ Reply(action, frag, tls)
          /\ action = "send" => phase' \notin {"Failed", "Completed"}
    <3>1. CASE Reply("error", NoFrag, FALSE)
      <4>1. PICK a \in {"error"} : Reply(a, NoFrag, FALSE)
        BY <3>1
      <4>2. a # "send"
        OBVIOUS
      <4>. QED  BY <4>1, <4>2
    <3>2. CASE phase' \notin {"Failed", "Completed"} /\ Ack
      BY <3>2 DEF Ack
    <3>3. CASE phase' \notin {"Failed", "Completed"} /\ Emit(InCall) /\ InCall \in Seq(Nat)
      BY <3>3, <1>EmitTyped
    <3>. QED  BY <3>1, <3>2, <3>3
  <2>5. /\ worker' = "idle" /\ packet' = NoPacket /\ loop' \in {"recv", "over"}
        /\ loop' # "over" => loop = "reply" /\ action = "send"
    BY <2>4, ReplyFacts
  <2>6. /\ StreamInv' /\ PeerInv'
        /\ peer' \in [in : Parts(Nat), result : Results, whole : Seq(Nat)]
        /\ delivered' \in Seq(Nat) /\ rest' \in Seq(Nat)
    <3>1. CASE Reply("error", NoFrag, FALSE) /\ rest' = rest
      <4>1. PICK a \in {"error"} : Reply(a, NoFrag, FALSE)
        BY <3>1
      <4>2. loop' = "over" /\ UNCHANGED <<peer, delivered>>
        BY <4>1, ReplyFacts
      <4>3. StreamInv' /\ PeerInv'
        BY <4>2, StreamOver, PeerKept
      <4>. QED  BY <3>1, <4>2, <4>3 DEF TypeOK
    <3>2. CASE Ack /\ rest' = rest /\ InCall = <<>>
      <4>   UNCHANGED <<peer, delivered>>
        BY <3>2, ReplyFacts DEF Ack
      <4>2. loop' # "over" => loop # "over"
        BY <2>5
      <4>3. StreamInv'
        BY <3>2, <4>2, StreamKept
      <4>4. PeerInv'
        BY <3>2, <4>2, PeerKept
      <4>. QED  BY <3>2, <4>3, <4>4 DEF TypeOK
    <3>3. CASE Emit(InCall) /\ InCall \in Seq(Nat) /\ (early = 0 => InCall # <<>>)
      <4>1. StreamInv'
        BY <3>3, <1>EmitStream
      <4>2. PeerInv'
        BY <3>3, <1>EmitPeer
      <4>. QED  BY <3>3, <4>1, <4>2, <1>EmitTyped
    <3>. QED  BY <3>1, <3>2, <3>3
  <2>7. TypeOK'
    BY <2>5, <2>6, NoPacketTyped, ZenonT(60) DEF TypeOK, EngineInv
  <2>8. TurnInv'
    BY <2>4, ReplyTurn
  <2>9. OuterInv'
    BY DEF OuterInv
  <2>10. JoinInv'
    BY <2>5, JoinKept
  <2>. QED  BY <2>6, <2>7, <2>8, <2>9, <2>10 DEF IInv, MethodInv
<1>. QED  BY <1>1

\* What a call that has returned has collected, and the key there cannot be yet.
LEMMA ReturnFacts ==
  ASSUME IInv, worker = "engine", call.at = "return", call.op \in {"start", "feed", "protect", "unprotect"}
  PROVE  /\ method = "peap" /\ msk = 0 /\ phase \in {"TLSTunnel", "InnerMethod"}
         /\ call.op \in {"start", "feed"} => phase = "TLSTunnel"
         /\ call.op \in {"protect", "unprotect"} => /\ phase = "InnerMethod" /\ established
                                                   /\ <<"verified", 0>> \in earned
         /\ call.op # "unprotect" => InCall = call.out /\ call.out \in Seq(Nat)
<1>   /\ TypeOK /\ EngineTypeOK /\ EngineInv /\ StreamInv /\ MethodInv
      /\ TurnInv /\ OuterInv /\ JoinInv /\ PeerInv /\ EarnedInv
  BY Given
<1>2. /\ call.op \in {"start", "feed"} => phase = "TLSTunnel"
      /\ call.op \in {"protect", "unprotect"} => phase = "InnerMethod" /\ established
  BY DEF EngineInv, PhaseInv, Inside
<1>3. method = "peap"
  BY DEF OuterInv, TypeOK
<1>4. msk = 0 /\ (phase = "InnerMethod" => <<"verified", 0>> \in earned)
  BY <1>2, <1>3 DEF EarnedInv, Inside
<1>5. call.op # "unprotect" => InCall = call.out /\ call.out \in Seq(Nat)
  BY DEF InCall, EngineTypeOK
<1>. QED  BY <1>2, <1>3, <1>4, <1>5

LEMMA ProtectReturnsInv ==
  ASSUME IInv, ProtectReturns
  PROVE  IInv'
<1>   /\ TypeOK /\ EngineTypeOK /\ EngineInv /\ StreamInv /\ MethodInv
      /\ TurnInv /\ OuterInv /\ JoinInv /\ PeerInv /\ EarnedInv
  BY Given
<1>   /\ worker = "engine" /\ call.op = "protect" /\ call.at = "return" /\ Released /\ phase' = after
      /\ Emit(call.out) /\ UNCHANGED <<in, messages, msk, inner, after, earned, method, server>>
  BY DEF ProtectReturns, Returned, outside
<1>   /\ method = "peap" /\ msk = 0 /\ phase = "InnerMethod" /\ established /\ <<"verified", 0>> \in earned
      /\ InCall = call.out /\ call.out \in Seq(Nat)
  BY ReturnFacts
<1>4. /\ after \in Inside \ {"Completed"}
      /\ after = "AwaitingOuterSuccess" => <<"innerSuccess", 0>> \in earned
  BY DEF EarnedInv
<1>5. call.result # "error" /\ (early = 0 => call.out # <<>>)
  BY DEF EngineInv, CallInv, BacklogInv
<1>6. EngineInv'
  BY <1>4, <1>5, ReleasedInv
<1>7. call'.op = "none"
  BY ReleasedFacts
<1>8. EarnedInv'
  BY <1>4, <1>7 DEF EarnedInv, Inside
<1>9. phase' \notin {"Failed", "Completed"} /\ phase' \in Phases /\ after' \in Phases
  BY <1>4 DEF Inside, Phases
<1>10. inner' \in MsState /\ earned' \subseteq {"verified", "innerSuccess", "proved"} \X Nat
  BY DEF TypeOK
<1>. QED  BY <1>5, <1>6, <1>8, <1>9, <1>10, AnswerInv

\* What onTLSStep does with what the engine has returned.
LEMMA HandshakeCases ==
  ASSUME HandshakeReturns
  PROVE  \/ Fail /\ UNCHANGED <<inner, earned, rest>>
         \/ /\ call.result # "error" /\ (call.got \/ call.out # <<>>) /\ Emit(call.out)
            /\ \/ UNCHANGED <<phase, inner, earned>>
               \/ /\ established /\ phase' = "InnerMethod" /\ inner' = MsReset
                  /\ earned' = earned \cup {<<"verified", 0>>}
         \/ /\ call.result # "error" /\ call.out = <<>> /\ Ack /\ UNCHANGED rest
            /\ \/ UNCHANGED <<phase, inner, earned>>
               \/ /\ call.result = "established" /\ phase' = "InnerMethod" /\ inner' = MsReset
                  /\ earned' = earned \cup {<<"verified", 0>>}
<1>0. call.op \in {"start", "feed"}
  BY DEF HandshakeReturns, Returned
<1>1. CASE call.result = "error" \/ (call.op = "start" /\ ~call.got)
  BY <1>1, SMTT(30) DEF HandshakeReturns
<1>2. CASE call.result # "error" /\ call.op = "start" /\ call.got
  <2>1. Emit(call.out) /\ UNCHANGED <<phase, inner, earned>>
    BY <1>2, SMTT(30) DEF HandshakeReturns
  <2>. QED  BY <1>2, <2>1
<1>3. CASE call.result # "error" /\ call.op = "feed" /\ call.out # <<>>
  <2>1. IF established THEN TunnelReady(Emit(call.out))
        ELSE Emit(call.out) /\ UNCHANGED <<phase, inner, earned>>
    BY <1>3, SMTT(30) DEF HandshakeReturns
  <2>. QED  BY <1>3, <2>1 DEF TunnelReady
<1>4. CASE call.result = "established" /\ call.op = "feed" /\ call.out = <<>>
  <2>1. TunnelReady(Ack /\ UNCHANGED rest)
    BY <1>4, SMTT(30) DEF HandshakeReturns
  <2>. QED  BY <1>4, <2>1 DEF TunnelReady
<1>5. CASE /\ call.result \notin {"error", "established"} /\ call.op = "feed" /\ call.out = <<>>
  <2>1. Ack /\ UNCHANGED <<phase, inner, earned, rest>>
    BY <1>5, SMTT(30) DEF HandshakeReturns
  <2>. QED  BY <1>5, <2>1
<1>. QED  BY <1>0, <1>1, <1>2, <1>3, <1>4, <1>5

LEMMA Verified ==
  ASSUME TypeOK
  PROVE  /\ MsReset \in MsState
         /\ earned \cup {<<"verified", 0>>} \subseteq {"verified", "innerSuccess", "proved"} \X Nat
         /\ earned \cup {<<"innerSuccess", 0>>} \subseteq {"verified", "innerSuccess", "proved"} \X Nat
<1>1. 0 \in Nat
  BY SMT
<1>2. /\ <<"verified", 0>> \in {"verified", "innerSuccess", "proved"} \X Nat
      /\ <<"innerSuccess", 0>> \in {"verified", "innerSuccess", "proved"} \X Nat
  BY <1>1
<1>3. earned \subseteq {"verified", "innerSuccess", "proved"} \X Nat
  BY DEF TypeOK
<1>. QED  BY <1>1, <1>2, <1>3 DEF MsReset, MsState

LEMMA HandshakeReturnsInv ==
  ASSUME IInv, HandshakeReturns
  PROVE  IInv'
<1>   /\ TypeOK /\ EngineTypeOK /\ EngineInv /\ StreamInv /\ MethodInv
      /\ TurnInv /\ OuterInv /\ JoinInv /\ PeerInv /\ EarnedInv
  BY Given
<1>   /\ worker = "engine" /\ call.op \in {"start", "feed"} /\ call.at = "return" /\ Released
      /\ UNCHANGED <<in, messages, msk, after, method, server>>
  BY DEF HandshakeReturns, Returned, outside
<1>   /\ method = "peap" /\ msk = 0 /\ phase = "TLSTunnel" /\ InCall = call.out /\ call.out \in Seq(Nat)
  BY ReturnFacts
<1>4. /\ call.got => call.out # <<>>
      /\ call.result = "established" => established
  BY DEF EngineInv, CallInv
<1>   call'.op = "none" /\ established' = established
  BY ReleasedFacts
<1>   after' \in Phases /\ inner \in MsState /\ earned \subseteq {"verified", "innerSuccess", "proved"} \X Nat
  BY DEF TypeOK
<1>7. CASE Fail /\ UNCHANGED <<inner, earned, rest>>
  <2>   phase' = "Failed" /\ Reply("error", NoFrag, FALSE)
    BY <1>7 DEF Fail
  <2>2. EngineInv'
    BY ReleasedInv
  <2>3. EarnedInv' /\ phase' \in Phases
    BY DEF EarnedInv, Inside, Phases
  <2>. QED  BY <1>7, <2>2, <2>3, AnswerInv
<1>8. CASE /\ call.result # "error" /\ phase' = phase /\ inner' = inner /\ earned' = earned
           /\ \/ call.out # <<>> /\ Emit(call.out)
              \/ call.out = <<>> /\ Ack /\ UNCHANGED rest
  <2>1. EngineInv'
    BY <1>8, ReleasedInv
  <2>2. EarnedInv' /\ phase' \in Phases /\ phase' \notin {"Failed", "Completed"}
    BY <1>8 DEF EarnedInv, Inside, Phases
  <2>3. inner' \in MsState /\ earned' \subseteq {"verified", "innerSuccess", "proved"} \X Nat
    BY <1>8
  <2>. QED  BY <1>8, <2>1, <2>2, <2>3, AnswerInv
<1>9. CASE /\ call.result # "error" /\ established /\ phase' = "InnerMethod" /\ inner' = MsReset
           /\ earned' = earned \cup {<<"verified", 0>>}
           /\ \/ call.out # <<>> /\ Emit(call.out)
              \/ call.out = <<>> /\ Ack /\ UNCHANGED rest
  <2>1. EngineInv'
    <3>1. phase' \in Inside
      BY <1>9 DEF Inside
    <3>. QED  BY <1>9, <3>1, ReleasedInv
  <2>2. EarnedInv' /\ phase' \in Phases /\ phase' \notin {"Failed", "Completed"}
    BY <1>9 DEF EarnedInv, Inside, Phases
  <2>3. inner' \in MsState /\ earned' \subseteq {"verified", "innerSuccess", "proved"} \X Nat
    BY <1>9, Verified
  <2>. QED  BY <1>9, <2>1, <2>2, <2>3, AnswerInv
<1>. QED  BY <1>4, <1>7, <1>8, <1>9, HandshakeCases

LEMMA InnerPacketInv ==
  ASSUME IInv, InnerPacket
  PROVE  IInv'
<1>   /\ TypeOK /\ EngineTypeOK /\ EngineInv /\ StreamInv /\ MethodInv
      /\ TurnInv /\ OuterInv /\ JoinInv /\ PeerInv /\ EarnedInv
  BY Given
<1>2. PICK body : body = IF call.out = <<>> THEN "none" ELSE call.out[1][1]
  OBVIOUS
<1>   PICK r : r = MsHandle(inner, body)
  OBVIOUS
<1>   /\ worker = "engine" /\ call.op = "unprotect" /\ call.at = "return"
      /\ UNCHANGED <<rest, in, messages, msk, method, server>>
  BY DEF InnerPacket, Returned, outside
<1>5. \/ Fail /\ Released /\ inner' \in {inner, r.ms} /\ UNCHANGED <<after, earned>>
      \/ /\ call.out # <<>> /\ CallProtect /\ NoAnswer /\ UNCHANGED <<worker, phase>>
         /\ \/ body = "avpSuccess" /\ after' = "AwaitingOuterSuccess" /\ UNCHANGED inner
            \/ after' = "AwaitingOuterFailure" /\ UNCHANGED inner
            \/ after' = phase /\ inner' = r.ms
         /\ earned' = IF body = "avpSuccess" THEN earned \cup {<<"innerSuccess", 0>>} ELSE earned
  <2>1. CASE \/ body \in {"none", "avpUnknown"}
             \/ body \notin {"avpSuccess", "avpFailure"} /\ r.action # "send"
    BY <1>2, <2>1 DEF InnerPacket
  <2>2. CASE ~(\/ body \in {"none", "avpUnknown"}
               \/ body \notin {"avpSuccess", "avpFailure"} /\ r.action # "send")
    <3>1. /\ CallProtect /\ NoAnswer /\ UNCHANGED <<worker, phase>>
          /\ CASE body = "avpSuccess" -> after' = "AwaitingOuterSuccess" /\ UNCHANGED inner
               [] body = "avpFailure" -> after' = "AwaitingOuterFailure" /\ UNCHANGED inner
               [] OTHER -> after' = phase /\ inner' = r.ms
          /\ earned' = IF body = "avpSuccess" THEN earned \cup {<<"innerSuccess", 0>>} ELSE earned
      BY <1>2, <2>2 DEF InnerPacket
    <3>   call.out # <<>>
      BY <1>2, <2>2
    <3>3. CASE body = "avpSuccess"
      BY <3>1, <3>3, SMTT(30)
    <3>4. CASE body = "avpFailure"
      BY <3>1, <3>4, SMTT(30)
    <3>5. CASE body \notin {"avpSuccess", "avpFailure"}
      BY <3>1, <3>5, SMTT(30)
    <3>. QED  BY <3>3, <3>4, <3>5
  <2>. QED  BY <2>1, <2>2
<1>   /\ method = "peap" /\ msk = 0 /\ phase = "InnerMethod" /\ established /\ <<"verified", 0>> \in earned
  BY ReturnFacts
<1>7. inner \in MsState /\ r.ms \in MsState
  BY MsHandleFacts DEF Proven, TypeOK
<1>8. CASE Fail /\ Released /\ inner' \in {inner, r.ms} /\ UNCHANGED <<after, earned>>
  <2>   phase' = "Failed" /\ Reply("error", NoFrag, FALSE)
    BY <1>8 DEF Fail
  <2>2. EngineInv'
    BY <1>8, ReleasedInv
  <2>3. call'.op = "none"
    BY <1>8, ReleasedFacts
  <2>4. EarnedInv' /\ phase' \in Phases
    BY <2>3 DEF EarnedInv, Inside, Phases
  <2>5. inner' \in MsState /\ after' \in Phases /\ earned' \subseteq {"verified", "innerSuccess", "proved"} \X Nat
    BY <1>7, <1>8 DEF TypeOK
  <2>. QED  BY <1>8, <2>2, <2>4, <2>5, AnswerInv
<1>9. CASE /\ call.out # <<>> /\ CallProtect /\ NoAnswer /\ UNCHANGED <<worker, phase>>
           /\ \/ body = "avpSuccess" /\ after' = "AwaitingOuterSuccess" /\ UNCHANGED inner
              \/ after' = "AwaitingOuterFailure" /\ UNCHANGED inner
              \/ after' = phase /\ inner' = r.ms
           /\ earned' = IF body = "avpSuccess" THEN earned \cup {<<"innerSuccess", 0>>} ELSE earned
  <2>1. EngineInv'
    BY <1>9, CallProtectInv
  <2>   /\ call' = [op |-> "protect", at |-> "write", out |-> <<>>, got |-> FALSE, result |-> "none"]
        /\ UNCHANGED <<early, wrote, relay, pending, inbound, outbound, client, established, stop>>
    BY <1>9 DEF CallProtect, NoCall
  <2>   call'.op = "protect" /\ call'.at = "write" /\ InHand' = InHand
    BY DEF InHand
  <2>   UNCHANGED <<packet, loop, peer, delivered, worker, phase>>
    BY <1>9 DEF NoAnswer
  <2>5. /\ after' \in Inside \ {"Completed"} /\ after' \in Phases /\ inner' \in MsState
        /\ after' = "AwaitingOuterSuccess" => <<"innerSuccess", 0>> \in earned'
    BY <1>7, <1>9 DEF Inside, Phases
  <2>6. /\ earned \subseteq earned' /\ earned' \subseteq {"verified", "innerSuccess", "proved"} \X Nat
    <3>1. earned' = earned \/ earned' = earned \cup {<<"innerSuccess", 0>>}
      BY <1>9
    <3>2. earned \subseteq {"verified", "innerSuccess", "proved"} \X Nat
      BY DEF TypeOK
    <3>. QED  BY <3>1, <3>2, Verified
  <2>7. TypeOK'
    BY <2>1, <2>5, <2>6, ZenonT(60) DEF TypeOK, EngineInv
  <2>8. StreamInv'
    <3>1. InCall = <<>> /\ InCall' = <<>>
      BY DEF InCall
    <3>. QED  BY <3>1, StreamKept
  <2>9. TurnInv'
    BY DEF TurnInv
  <2>10. OuterInv'
    BY DEF OuterInv
  <2>11. JoinInv'
    BY JoinKept
  <2>12. PeerInv'
    BY PeerKept
  <2>13. EarnedInv'
    BY <2>5, <2>6 DEF EarnedInv
  <2>. QED  BY <2>1, <2>7, <2>8, <2>9, <2>10, <2>11, <2>12, <2>13 DEF IInv, MethodInv
<1>. QED  BY <1>5, <1>8, <1>9
-----------------------------------------------------------------------------
(* The theorems. *)

\* A new engine, of a peer that has received nothing.
LEMMA EngineStarts ==
  ASSUME Init
  PROVE  EngineInv
<1>   /\ early = 0 /\ script \in Scripts
      /\ client = [at |-> "idle", pos |-> 1, ok |-> TRUE, sent |-> 0]
      /\ relay = [at |-> "idle", held |-> 0]
      /\ wrote = 0 /\ pending = <<>> /\ inbound = <<>> /\ outbound = <<>>
      /\ flushReq = FALSE /\ flushed = FALSE /\ handshakeDone = "none"
      /\ established = FALSE /\ stop = FALSE /\ wg = 0
      /\ call = [op |-> "none", at |-> "idle", out |-> <<>>, got |-> FALSE, result |-> "none"]
      /\ call = NoCall /\ phase = "OuterIdentity"
  BY DEF Init, EngineInit, NoCall
<1>   /\ client.at = "idle" /\ client.pos = 1 /\ client.ok /\ client.sent = 0
      /\ relay.at = "idle" /\ relay.held = 0
      /\ call.op = "none" /\ call.at = "idle" /\ call.out = <<>> /\ call.got = FALSE /\ call.result = "none"
  BY SMTT(30)
<1>   /\ 0 \in Nat /\ 0 \in 0 .. MaxEarly /\ 1 \in 1 .. Len(script) + 1
      /\ <<>> \in Seq(Nat) /\ <<>> \in Seq(Seq(Unit)) /\ Len(<<>>) = 0
      /\ 0 <= InboundCap /\ 0 <= OutboundCap /\ 0 <= PendingCap
  <2>1. Len(script) \in Nat /\ MaxEarly \in Nat
    BY EngineAssumption, SMTT(30)
  <2>2. InboundCap \in Nat /\ OutboundCap \in Nat /\ PendingCap \in Nat
    BY EngineAssumption
  <2>. QED  BY <2>1, <2>2, SMTT(30)
<1>4. EngineTypeOK
  <2>1. ClientT /\ RelayT
    BY DEF ClientT, RelayT, ClientAts, RelayAts
  <2>2. CallT
    BY DEF CallT, CallAts, CallResults, Ops
  <2>3. OutT /\ InT /\ FlagsT /\ RestT
    BY DEF OutT, InT, FlagsT, RestT
  <2>. QED  BY <2>1, <2>2, <2>3, EngineTypeParts
<1>5. CallInv /\ PhaseInv
  BY DEF CallInv, PhaseInv, Inside
<1>6. ClientInv /\ IdleInv
  BY DEF ClientInv, IdleInv, Past
<1>7. CountInv
  <2>1. 0 >= 0
    BY SMT
  <2>. QED  BY <2>1 DEF CountInv
<1>8. RelayInv /\ BarrierInv /\ ConsumedInv /\ SettledInv
  BY DEF RelayInv, BarrierInv, ConsumedInv, Consumed, SettledInv
<1>9. BacklogInv
  <2>1. InHand = <<>> /\ InProgress = 0
    BY DEF InHand, InProgress
  <2>2. OnTheWay + 1 <= client.pos + early + InProgress
    BY <2>1, SMTT(30) DEF OnTheWay
  <2>. QED  BY <2>2 DEF BacklogInv
<1>. QED  BY <1>4, <1>5, <1>6, <1>7, <1>8, <1>9 DEF EngineInv

LEMMA InitInv ==
  ASSUME Init
  PROVE  IInv
<1>   /\ method \in {"peap", "mschapv2"} /\ phase = "OuterIdentity" /\ after = "Failed"
      /\ rest = <<>> /\ in = NoParts /\ messages = 0 /\ msk = 0 /\ inner = MsReset
      /\ worker = "idle" /\ loop = "recv" /\ packet = NoPacket
      /\ server = NoMessage /\ peer = NoPeer /\ delivered = <<>> /\ earned = {}
      /\ wrote = 0 /\ pending = <<>> /\ inbound = <<>> /\ outbound = <<>>
      /\ client.at = "idle" /\ relay.at = "idle" /\ call = NoCall
  BY DEF Init, EngineInit
<1>   call.op = "none" /\ call.at = "idle" /\ call.out = <<>>
  BY DEF NoCall
<1>3. EngineInv
  BY EngineStarts
<1>4. MaxMessageCount \in Nat \ {0}
  BY PeapAssumption
<1>   0 \in 0 .. MaxMessageCount + 1 /\ 0 \in Nat /\ <<>> \in Seq(Nat) /\ <<>> \in Seq(Unit) /\ 0 <= MaxMessageCount
  BY <1>4, SMTT(30)
<1>6. TypeOK
  <2>1. NoParts \in Parts(Unit) /\ NoParts \in Parts(Nat) /\ "none" \in Results
    BY NoPartsTyped DEF Results
  <2>2. in \in Parts(Unit) /\ peer \in [in : Parts(Nat), result : Results, whole : Seq(Nat)]
    BY <2>1 DEF NoPeer
  <2>3. server \in [body : Bodies \cup {"none"}, sent : Nat] /\ inner \in MsState
    BY DEF NoMessage, MsReset, MsState
  <2>4. packet \in [kind : PeapPackets \cup MsPackets \cup {"none"},
                    frag : [L : BOOLEAN, M : BOOLEAN, len : Nat, data : Seq(Unit)]]
    BY DEF NoPacket, NoFrag
  <2>5. /\ EngineTypeOK /\ phase \in Phases /\ after \in Phases
        /\ earned \subseteq {"verified", "innerSuccess", "proved"} \X Nat
    BY <1>3 DEF Phases, EngineInv
  <2>. QED  BY <2>2, <2>3, <2>4, <2>5, ZenonT(60) DEF TypeOK
<1>7. StreamInv
  <2>1. InCall = <<>> /\ InHand = <<>>
    BY DEF InCall, InHand
  <2>2. Stream(<<>>, <<>>, <<>>, <<>>, <<>>, <<>>, 0)
    BY SMTT(30) DEF Stream, Continues
  <2>. QED  BY <2>1, <2>2 DEF StreamInv
<1>8. TurnInv /\ OuterInv
  <2>1. packet.kind = "none"
    BY DEF NoPacket
  <2>. QED  BY <2>1 DEF TurnInv, OuterInv
<1>9. JoinInv
  <2>1. server.body = "none" /\ server.sent = 0 /\ in.got = <<>>
    BY DEF NoMessage, NoParts
  <2>2. SubSeq(Whole("none"), 1, 0) = <<>> /\ Size("none") = 1
    BY NoPart, SizeTyped
  <2>3. ~(0 > 0) /\ 0 < 1 /\ 1 .. 0 = {} /\ Len(<<>>) = 0
    BY SMT
  <2>4. \A i \in 1 .. Len(inbound) : inbound[i] \in Messages
    BY <2>3
  <2>5. Joined(server.body, server.sent) /\ server.sent < Size(server.body)
    BY <2>1, <2>2, <2>3 DEF Joined
  <2>. QED  BY <2>4, <2>5 DEF JoinInv
<1>10. PeerInv
  BY DEF PeerInv, NoPeer
<1>11. EarnedInv
  BY DEF EarnedInv, Inside, MsReset
<1>. QED  BY <1>3, <1>6, <1>7, <1>8, <1>9, <1>10, <1>11 DEF IInv, MethodInv

LEMMA NextInv ==
  ASSUME IInv, [Next]_vars
  PROVE  IInv'
<1>1. CASE ServerSends \/ LoopEnds
  BY <1>1, ServerSendsInv, LoopEndsInv
<1>2. CASE WorkerStops \/ WorkerDone
  BY <1>2, WorkerStopsInv, WorkerDoneInv
<1>3. CASE MethodStep
  BY <1>3, MsRoundInv, PeapRejectsInv, PeapIdentityInv, PeapAckInv, PeapStartInv, PeapFragmentInv,
     HandshakeReturnsInv, InnerPacketInv, ProtectReturnsInv, OuterSuccessInv DEF MethodStep
<1>4. CASE (ClientStep \/ RelayStep \/ CallStep) /\ UNCHANGED peapVars
  BY <1>4, EngineStepPreserves
<1>5. CASE UNCHANGED vars
  <2>   UNCHANGED <<early, script, client, wrote, relay, pending, inbound, outbound, flushReq, flushed,
                    handshakeDone, established, stop, wg, call, method, phase, rest, in, messages, msk,
                    inner, after, worker, loop, packet, server, peer, delivered, earned>>
    BY <1>5 DEF vars, engineVars, peapVars
  <2>2. EngineInv'
    BY <1>5, EngineSame DEF IInv, vars
  <2>3. TypeOK' /\ StreamInv'
    BY <2>2, ZenonT(60) DEF IInv, TypeOK, StreamInv, Running, InCall, InHand, EngineInv
  <2>4. TurnInv' /\ OuterInv' /\ PeerInv'
    BY DEF IInv, MethodInv, TurnInv, OuterInv, PeerInv
  <2>5. EarnedInv'
    BY DEF IInv, MethodInv, EarnedInv
  <2>6. JoinInv'
    BY ZenonT(60) DEF IInv, MethodInv, JoinInv, Joined
  <2>. QED  BY <2>2, <2>3, <2>4, <2>5, <2>6 DEF IInv, MethodInv
<1>. QED  BY <1>1, <1>2, <1>3, <1>4, <1>5 DEF Next, WorkerStep

\* The invariant holds in every reachable state of the peer, of its engine and of
\* the server it talks to.
THEOREM Invariance == Spec => []IInv
<1>1. Init => IInv
  BY InitInv
<1>2. IInv /\ [Next]_vars => IInv'
  BY NextInv
<1>. QED  BY <1>1, <1>2, PTL DEF Spec

\* The TLS stream survives the relay, the quiet windows and the fragmenter,
\* however the goroutines are scheduled and wherever a window ends early: relay
\* and collect in tls.go, Start and Next in fragment.go.
THEOREM StreamSurvives == Spec => []TlsBytesInOrder
<1>1. IInv => TlsBytesInOrder
  BY SMTT(30) DEF IInv, StreamInv, Stream, TlsBytesInOrder
<1>. QED  BY <1>1, Invariance, PTL

\* The barrier of launch (requestFlush, drainPeer): once the engine is
\* established, every chunk of the handshake has left the pipe and the relay.
THEOREM BarrierFlushes == Spec => []FinalFlightFlushed
<1>1. ASSUME IInv PROVE FinalFlightFlushed
  <2> SUFFICES ASSUME established, ~stop
               PROVE  /\ client.pos > Len(script) /\ wrote >= client.sent
                      /\ relay.at = "put" => relay.held > client.sent
                      /\ \A i \in 1 .. Len(pending) : pending[i] > client.sent
    BY DEF FinalFlightFlushed
  <2>   EngineInv /\ EngineTypeOK
    BY <1>1 DEF IInv, EngineInv
  <2>2. client.ok /\ client.at \in {"publish", "over"}
    BY DEF EngineInv, ClientInv
  <2>3. client.pos = Len(script) + 1 /\ Len(script) \in Nat /\ wrote >= client.sent
    BY <2>2, EngineTypes DEF EngineFields, EngineInv, ClientInv, CountInv, Past
  <2>4. relay.at = "put" => relay.held > client.sent
    BY <2>2 DEF EngineInv, RelayInv, BarrierInv
  <2>5. pending = <<>> \/ (pending = <<wrote>> /\ wrote > client.sent)
    BY DEF EngineInv, RelayInv
  <2>6. \A i \in 1 .. Len(pending) : pending[i] > client.sent
    BY <2>5, SMTT(30)
  <2>7. client.pos > Len(script)
    BY <2>3, SMTT(30)
  <2>. QED  BY <2>3, <2>4, <2>6, <2>7
<1>2. IInv => FinalFlightFlushed
  BY <1>1
<1>. QED  BY <1>2, Invariance, PTL

\* If no window ends early, nothing is left behind when a round has been
\* answered: neither in the queue, nor in pending, nor in the relay's hand, nor
\* in the pipe (collect in tls.go).
THEOREM NothingLeftBehind == Spec => []AnswersAreWhole
<1>1. ASSUME IInv PROVE AnswersAreWhole
  <2> SUFFICES ASSUME early = 0, Running, worker = "idle", phase # "OuterIdentity"
               PROVE  outbound = <<>> /\ pending = <<>> /\ InHand = <<>> /\ ~Offered
    BY DEF AnswersAreWhole
  <2>1. EngineInv /\ TurnInv
    BY <1>1 DEF IInv, MethodInv
  <2>2. loop # "over"
    BY DEF Running
  <2>3. call.op = "none" /\ phase # "Failed"
    BY <2>1, <2>2 DEF TurnInv, EngineInv, PhaseInv
  <2>4. Settled
    BY <2>1, <2>3 DEF EngineInv, SettledInv
  <2>. QED  BY <2>3, <2>4 DEF Settled, Still, Consumed, InHand, Offered
<1>2. IInv => AnswersAreWhole
  BY <1>1
<1>. QED  BY <1>2, Invariance, PTL

\* Fragments are put together again in both directions: what Push gives to the
\* engine is a whole message of the server and nothing of it stays behind, and
\* what Start and Next send is one to a server that reassembles by the same rules
\* (fragment.go), which refuses only the empty message with a declared length
\* that Protect may send after a quiet window that ended early (tls.go:590).
THEOREM FragmentsFit == Spec => []FragmentsReassemble
<1>1. IInv => FragmentsReassemble
  BY DEF IInv, MethodInv, PeerInv, JoinInv, Joined, Messages, FragmentsReassemble
<1>. QED  BY <1>1, Invariance, PTL

\* There is no key without proof: MSCHAPv2 has verified the authenticator of the
\* challenge the key is made from, PEAP the server's identity and the inner
\* success, and the tunnel is up.
THEOREM KeysAreEarned == Spec => []KeyIsEarned
<1>1. IInv => KeyIsEarned
  BY DEF IInv, TypeOK, MethodInv, EarnedInv, EngineInv, PhaseInv, Inside, KeyIsEarned
<1>. QED  BY <1>1, Invariance, PTL
=============================================================================
