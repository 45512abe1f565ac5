------------------------------ MODULE TlsEngine ------------------------------
(***************************************************************************)
(* eap/peap/tls.go: the TLS engine.  Three goroutines meet here: the one   *)
(* that runs the TLS client's handshake, the relay between the pipe and    *)
(* the queues, and the EAP worker, which calls Start, Feed, Protect,       *)
(* Unprotect and Close.  The TLS client is external: a script of writes    *)
(* and reads on an unbuffered pipe.  What it writes are the chunks 1, 2,   *)
(* ...; a record of the peer is handed over as a whole.                    *)
(***************************************************************************)
EXTENDS Naturals, Sequences

CONSTANTS Scripts,     \* what TLS clients do: sequences of "w" and "r"
          InboundCap,  \* capacity of inbound (16)
          OutboundCap, \* capacity of outbound (32)
          PendingCap,  \* chunks the relay keeps when outbound is full (8)
          MaxEarly     \* bound of the model: on early

ASSUME EngineAssumption ==
  /\ Scripts \subseteq Seq({"w", "r"})
  /\ {InboundCap, OutboundCap, PendingCap} \subseteq Nat \ {0} /\ MaxEarly \in Nat

\* outbound holds a handshake and what windows that ended early left behind.  If
\* it fills up, the relay keeps chunks in pending, and a later chunk that finds
\* room in outbound overtakes them.
ASSUME QueueAssumption == \A s \in Scripts : Len(s) + MaxEarly < OutboundCap

VARIABLES early,      \* windows that have expired while something was under way
          script,     \* of the client of this engine
          client,     \* the goroutine of launch; sent, a history, counts its handshake's chunks
          wrote,      \* chunks the relay has read from the pipe
          relay,      \* the goroutine relay and the chunk in its hand
          pending,    \* of relay
          inbound, outbound,   \* the queues
          flushReq, flushed,   \* the barrier: requested, done
          handshakeDone,       \* the channel: "none" or what is in it
          established, stop, wg,
          call        \* the call of the EAP worker in progress

engineVars == <<early, script, client, wrote, relay, pending, inbound, outbound, flushReq, flushed,
                handshakeDone, established, stop, wg, call>>

NoCall == [op |-> "none", at |-> "idle", out |-> <<>>, got |-> FALSE, result |-> "none"]
Ops == {"none", "start", "feed", "protect", "unprotect", "close"}

\* What a TLS message of the peer holds, a flight of the handshake or an inner
\* packet, and a unit of it.
Bodies == {"flight", "identity", "foreign", "challenge", "msSuccess", "badSuccess", "msFailure",
           "avpSuccess", "avpFailure", "avpUnknown"}
Unit == Bodies \X Nat

EngineTypeOK ==
  /\ early \in 0 .. MaxEarly
  /\ script \in Scripts
  /\ client \in [at : {"idle", "run", "writing", "reading", "flush", "wait", "store", "publish",
                      "over"}, pos : 1 .. Len(script) + 1, ok : BOOLEAN, sent : Nat]
  /\ relay \in [at : {"idle", "top", "write", "readPeer", "put", "flushRead", "flushSend", "done"},
                held : Nat]
  /\ wrote \in Nat /\ wg \in Nat
  /\ pending \in Seq(Nat) /\ Len(pending) <= PendingCap
  /\ inbound \in Seq(Seq(Unit)) /\ Len(inbound) <= InboundCap
  /\ outbound \in Seq(Nat) /\ Len(outbound) <= OutboundCap
  /\ flushReq \in BOOLEAN /\ flushed \in BOOLEAN /\ handshakeDone \in {"none", "ok", "failed"}
  /\ established \in BOOLEAN /\ stop \in BOOLEAN
  /\ call.out \in IF call.op = "unprotect" \/ call.at = "send" THEN Seq(Unit) ELSE Seq(Nat)
  /\ call \in [op : Ops, at : {"idle", "send", "collect", "write", "read", "wait", "return"},
               out : {call.out}, got : BOOLEAN, result : {"none", "established", "error", "plain"}]

EngineInit ==
  /\ early = 0 /\ script \in Scripts
  /\ client = [at |-> "idle", pos |-> 1, ok |-> TRUE, sent |-> 0]
  /\ relay = [at |-> "idle", held |-> 0]
  /\ wrote = 0 /\ pending = <<>> /\ inbound = <<>> /\ outbound = <<>>
  /\ flushReq = FALSE /\ flushed = FALSE /\ handshakeDone = "none"
  /\ established = FALSE /\ stop = FALSE /\ wg = 0
  /\ call = NoCall

\* The client's end of the pipe has a writer: the handshake, or Protect.
Offered == client.at = "writing" \/ (call.op = "protect" /\ call.at = "write")
\* ... or a reader: the handshake, or readApplication.
Wanted == client.at = "reading" \/ (call.op = "unprotect" /\ call.at = "read")

-----------------------------------------------------------------------------
(* The goroutine of launch. *)

ClientSteps ==
  /\ client.at = "run"
  /\ client' = [client EXCEPT !.at = CASE client.pos > Len(script) -> "flush"
                                       [] client.pos <= Len(script) /\ script[client.pos] = "w" -> "writing"
                                       [] OTHER -> "reading"]
  /\ UNCHANGED <<early, script, wrote, relay, pending, inbound, outbound, flushReq, flushed,
                 handshakeDone, established, stop, wg, call>>

\* A mutant: a read is not interrupted by the close.
ClientFails_WriterOnly ==
  /\ client.at = "writing" /\ stop
  /\ client' = [client EXCEPT !.at = "flush", !.ok = FALSE]
  /\ UNCHANGED <<early, script, wrote, relay, pending, inbound, outbound, flushReq, flushed,
                 handshakeDone, established, stop, wg, call>>

\* The pipe was closed under the client.
ClientFails ==
  /\ client.at \in {"writing", "reading"} /\ stop
  /\ client' = [client EXCEPT !.at = "flush", !.ok = FALSE]
  /\ UNCHANGED <<early, script, wrote, relay, pending, inbound, outbound, flushReq, flushed,
                 handshakeDone, established, stop, wg, call>>

\* A mutant: the completion is published at once.
RequestFlush_Skipped ==
  /\ client.at = "flush"
  /\ client' = [client EXCEPT !.at = "store"]
  /\ UNCHANGED <<early, script, wrote, relay, pending, inbound, outbound, flushReq, flushed,
                 handshakeDone, established, stop, wg, call>>

RequestFlush ==
  /\ client.at = "flush"
  /\ \/ flushReq' = TRUE /\ client' = [client EXCEPT !.at = "wait"]
     \/ stop /\ client' = [client EXCEPT !.at = "store"] /\ UNCHANGED flushReq
  /\ UNCHANGED <<early, script, wrote, relay, pending, inbound, outbound, flushed, handshakeDone,
                 established, stop, wg, call>>

\* The barrier is passed, or the two seconds are over: the relay is gone or
\* sits in a write that nobody reads.
FlushDone ==
  /\ client.at = "wait" /\ (flushed \/ stop \/ relay.at \in {"write", "done"})
  /\ client' = [client EXCEPT !.at = "store"]
  /\ UNCHANGED <<early, script, wrote, relay, pending, inbound, outbound, flushReq, flushed,
                 handshakeDone, established, stop, wg, call>>

StoreEstablished ==
  /\ client.at = "store"
  /\ client' = [client EXCEPT !.at = "publish"] /\ established' = client.ok
  /\ UNCHANGED <<early, script, wrote, relay, pending, inbound, outbound, flushReq, flushed,
                 handshakeDone, stop, wg, call>>

Publish ==
  /\ client.at = "publish" /\ handshakeDone = "none"
  /\ client' = [client EXCEPT !.at = "over"]
  /\ handshakeDone' = IF client.ok THEN "ok" ELSE "failed"
  /\ UNCHANGED <<early, script, wrote, relay, pending, inbound, outbound, flushReq, flushed,
                 established, stop, wg, call>>

-----------------------------------------------------------------------------
(* The relay. *)

Room == OutboundCap - Len(outbound)

\* One turn of the loop up to its next blocking operation: inbound first, then
\* what is pending, then the barrier, then the pipe.
RelayTop ==
  /\ relay.at = "top"
  /\ \/ stop /\ relay' = [relay EXCEPT !.at = "done"] /\ UNCHANGED <<pending, outbound, flushReq>>
     \/ /\ inbound # <<>>
        /\ relay' = [relay EXCEPT !.at = "write"] /\ UNCHANGED <<pending, outbound, flushReq>>
     \/ /\ inbound = <<>> /\ ~stop
        /\ LET n == IF Len(pending) <= Room THEN Len(pending) ELSE Room
           IN  /\ outbound' = outbound \o SubSeq(pending, 1, n)
               /\ pending' = SubSeq(pending, n + 1, Len(pending))
        /\ IF pending' = <<>> /\ flushReq
           THEN relay' = [relay EXCEPT !.at = "flushRead"] /\ flushReq' = FALSE
           ELSE relay' = [relay EXCEPT !.at = "readPeer"] /\ UNCHANGED flushReq
  /\ UNCHANGED <<early, script, client, wrote, inbound, flushed, handshakeDone, established, stop,
                 wg, call>>

\* peer.Write returns when the client has read the record; a peer's flight the
\* client does not accept ends the handshake.
RelayWrites ==
  /\ relay.at = "write"
  /\ \/ /\ ~stop /\ client.at = "reading"
        /\ \/ client' = [client EXCEPT !.at = "run", !.pos = @ + 1]
           \/ client' = [client EXCEPT !.at = "flush", !.ok = FALSE]
        /\ inbound' = Tail(inbound) /\ relay' = [relay EXCEPT !.at = "top"] /\ UNCHANGED call
     \/ /\ ~stop /\ call.op = "unprotect" /\ call.at = "read"
        /\ call' = [call EXCEPT !.at = "return", !.result = "plain", !.out = Head(inbound)]
        /\ inbound' = Tail(inbound) /\ relay' = [relay EXCEPT !.at = "top"] /\ UNCHANGED client
     \/ stop /\ relay' = [relay EXCEPT !.at = "done"] /\ UNCHANGED <<client, inbound, call>>
  /\ UNCHANGED <<early, script, wrote, pending, outbound, flushReq, flushed, handshakeDone,
                 established, stop, wg>>

\* The writer goes on while the relay still holds the chunk.
TakeChunk ==
  /\ wrote' = wrote + 1
  /\ IF client.at = "writing"
     THEN client' = [client EXCEPT !.at = "run", !.pos = @ + 1, !.sent = @ + 1] /\ UNCHANGED call
     ELSE call' = [call EXCEPT !.at = "collect"] /\ UNCHANGED client

\* The read deadline is a poll: it matters only when the loop has other work.
RelayReads ==
  /\ relay.at = "readPeer" /\ (stop \/ Offered \/ inbound # <<>> \/ flushReq \/ pending # <<>>)
  /\ IF stop THEN relay' = [relay EXCEPT !.at = "done"] /\ UNCHANGED <<wrote, client, call>>
     ELSE IF Offered THEN TakeChunk /\ relay' = [at |-> "put", held |-> wrote + 1]
     ELSE relay' = [relay EXCEPT !.at = "top"] /\ UNCHANGED <<wrote, client, call>>
  /\ UNCHANGED <<early, script, pending, inbound, outbound, flushReq, flushed, handshakeDone,
                 established, stop, wg>>

RelayPuts ==
  /\ relay.at = "put"
  /\ \/ /\ Room > 0 \/ Len(pending) < PendingCap
        /\ IF Room > 0 THEN outbound' = Append(outbound, relay.held) /\ UNCHANGED pending
           ELSE pending' = Append(pending, relay.held) /\ UNCHANGED outbound
        /\ relay' = [at |-> "top", held |-> 0]
     \/ stop /\ relay' = [at |-> "done", held |-> 0] /\ UNCHANGED <<pending, outbound>>
  /\ UNCHANGED <<early, script, client, wrote, inbound, flushReq, flushed, handshakeDone,
                 established, stop, wg, call>>

\* The barrier: the pipe is read until it is quiet, what was read is queued.
RelayFlushReads ==
  /\ relay.at = "flushRead"
  /\ IF Offered
     THEN TakeChunk /\ pending' = Append(pending, wrote + 1) /\ UNCHANGED relay
     ELSE relay' = [relay EXCEPT !.at = "flushSend"] /\ UNCHANGED <<wrote, client, call, pending>>
  /\ UNCHANGED <<early, script, inbound, outbound, flushReq, flushed, handshakeDone, established,
                 stop, wg>>

RelayFlushSends ==
  /\ relay.at = "flushSend"
  /\ IF stop /\ Len(pending) > Room
     THEN relay' = [relay EXCEPT !.at = "done"] /\ UNCHANGED <<outbound, pending, flushed>>
     ELSE /\ Len(pending) <= Room
          /\ outbound' = outbound \o pending /\ pending' = <<>>
          /\ flushed' = TRUE /\ relay' = [relay EXCEPT !.at = "top"]
  /\ UNCHANGED <<early, script, client, wrote, inbound, flushReq, handshakeDone, established, stop,
                 wg, call>>

-----------------------------------------------------------------------------
(* The calls of the EAP worker.  CallX begins a call, the call is over when *)
(* call.at is "return".                                                     *)

\* launch: both goroutines are started, and counted.
CallStart ==
  /\ client' = [client EXCEPT !.at = "run"] /\ relay' = [relay EXCEPT !.at = "top"]
  /\ wg' = wg + 2
  /\ call' = [NoCall EXCEPT !.op = "start", !.at = "collect"]
  /\ UNCHANGED <<early, script, wrote, pending, inbound, outbound, flushReq, flushed, handshakeDone,
                 established, stop>>

\* An established engine takes no handshake record.
CallFeed(record) ==
  /\ call' = IF established THEN [NoCall EXCEPT !.op = "feed", !.at = "return", !.result = "error"]
             ELSE [NoCall EXCEPT !.op = "feed", !.at = "send", !.out = record]
  /\ UNCHANGED <<early, script, client, wrote, relay, pending, inbound, outbound, flushReq, flushed,
                 handshakeDone, established, stop, wg>>

CallUnprotect(record) ==
  /\ call' = [NoCall EXCEPT !.op = "unprotect", !.at = "send", !.out = record]
  /\ UNCHANGED <<early, script, client, wrote, relay, pending, inbound, outbound, flushReq, flushed,
                 handshakeDone, established, stop, wg>>

CallProtect ==
  /\ call' = [NoCall EXCEPT !.op = "protect", !.at = "write"]
  /\ UNCHANGED <<early, script, client, wrote, relay, pending, inbound, outbound, flushReq, flushed,
                 handshakeDone, established, stop, wg>>

\* Close: the pipe is closed too, and the wait for the relay is bounded.
CallClose ==
  /\ stop' = TRUE
  /\ call' = [NoCall EXCEPT !.op = "close", !.at = "wait"]
  /\ UNCHANGED <<early, script, client, wrote, relay, pending, inbound, outbound, flushReq, flushed,
                 handshakeDone, established, wg>>

QueueRecord ==
  /\ call.at = "send" /\ Len(inbound) < InboundCap
  /\ inbound' = Append(inbound, call.out)
  /\ call' = [call EXCEPT !.at = IF call.op = "feed" THEN "collect" ELSE "read", !.out = <<>>]
  /\ UNCHANGED <<early, script, client, wrote, relay, pending, outbound, flushReq, flushed,
                 handshakeDone, established, stop, wg>>

\* collect and drainOutbound take a chunk.
CollectChunk ==
  /\ call.at = "collect" /\ outbound # <<>>
  /\ call' = [call EXCEPT !.out = Append(@, Head(outbound)), !.got = TRUE]
  /\ outbound' = Tail(outbound)
  /\ UNCHANGED <<early, script, client, wrote, relay, pending, inbound, flushReq, flushed,
                 handshakeDone, established, stop, wg>>

\* A mutant: the completion ends the collection at once.
CollectDone_NoDrain ==
  /\ call.at = "collect" /\ call.op \in {"start", "feed"} /\ handshakeDone # "none"
  /\ call' = [call EXCEPT !.at = "return",
                          !.result = IF handshakeDone = "ok" THEN "established" ELSE "error"]
  /\ handshakeDone' = "none"
  /\ UNCHANGED <<early, script, client, wrote, relay, pending, inbound, outbound, flushReq, flushed,
                 established, stop, wg>>

\* The completion, seen at once or when the window expires: the queue is drained.
CollectDone ==
  /\ call.at = "collect" /\ call.op \in {"start", "feed"} /\ handshakeDone # "none"
  /\ call' = [call EXCEPT !.at = "return", !.out = @ \o outbound,
                          !.result = IF handshakeDone = "ok" THEN "established" ELSE "error"]
  /\ outbound' = <<>> /\ handshakeDone' = "none"
  /\ UNCHANGED <<early, script, client, wrote, relay, pending, inbound, flushReq, flushed,
                 established, stop, wg>>

\* Nothing moves before the worker or the peer acts: the relay polls and the
\* client reads or is over, or the relay sits in a write that nobody reads.
Quiet ==
  /\ outbound = <<>>
  /\ \/ /\ inbound = <<>> /\ pending = <<>> /\ relay.at \in {"top", "readPeer"}
        /\ ~Offered /\ client.at \in {"reading", "over"}
     \/ relay.at = "write" /\ ~Wanted /\ client.at \in {"writing", "over"}

\* The quiet window expires.  Start waits five seconds for its first chunk.
CollectQuiet ==
  /\ call.at = "collect" /\ (call.op # "protect" => handshakeDone = "none")
  /\ \/ Quiet /\ UNCHANGED early
     \/ /\ ~Quiet /\ early < MaxEarly /\ ~(call.op = "start" /\ ~call.got)
        /\ early' = early + 1
  /\ call' = [call EXCEPT !.at = "return"]
  /\ UNCHANGED <<script, client, wrote, relay, pending, inbound, outbound, flushReq, flushed,
                 handshakeDone, established, stop, wg>>

\* readApplication gives up after a second without plaintext.
ReadTimeout ==
  /\ call.op = "unprotect" /\ call.at = "read" /\ early < MaxEarly
  /\ early' = early + 1
  /\ call' = [call EXCEPT !.at = "return", !.result = "plain"]
  /\ UNCHANGED <<script, client, wrote, relay, pending, inbound, outbound, flushReq, flushed,
                 handshakeDone, established, stop, wg>>

CloseReturns ==
  /\ call.op = "close" /\ call.at = "wait" /\ wg = 0
  /\ call' = [call EXCEPT !.at = "return"]
  /\ UNCHANGED <<early, script, client, wrote, relay, pending, inbound, outbound, flushReq, flushed,
                 handshakeDone, established, stop, wg>>

ClientStep ==
  ClientSteps \/ ClientFails \/ RequestFlush \/ FlushDone \/ StoreEstablished \/ Publish
RelayStep ==
  \/ RelayTop \/ RelayWrites \/ RelayReads \/ RelayPuts \/ RelayFlushReads \/ RelayFlushSends
CallStep ==
  QueueRecord \/ CollectChunk \/ CollectDone \/ CollectQuiet \/ ReadTimeout \/ CloseReturns
=============================================================================
