# swan: TLA+ verification project

swan is a userspace, initiator-only IKEv2/ESP client library in Go. This
directory holds TLA+ models of it, the TLC configurations that check them on
small instances, and TLAPS proofs for every instance. Sources are cited
relative to `src/`.

## 1. The system

| Part | Where | State | Hard to get right |
|---|---|---|---|
| Handshake | `control/session.go`, `exchange.go`, `sa_init.go`, `auth.go`, `child_sa.go`, `eap_peer.go` | phase, SPIs, message IDs, checkpoint of the last request | COOKIE and INVALID_KE restarts, late and duplicated responses, the EAP loop |
| Running actor | `control/running.go`, `running_rekey.go`, `config_apply.go`, `collision.go`, `rekey.go`, `state.go` | `State`: phase, outstanding request, half-open rekey, active and retained SAs, response history; timers of `Run` | simultaneous rekeys, timeouts attributed to the wrong request, timers consumed while busy, repeated requests |
| Data-plane updates | `session.go` (`watchControlUpdates`), `esp/pipeline.go`, `tunnel.go` | channel of updates, inbound codecs, outbound codec, published child | make-before-break across two goroutines, an acknowledgement that races a timeout |
| ESP inbound | `esp/inflow.go`, `esp/replay.go` | highest sequence number, 64-bit window | window edges, order of authentication and window update |
| ESP outbound | `esp/outflow.go`, `esp/pipeline.go` | sequence counter, near-wrap flags | wrap-around, batches across a codec swap |
| Session, Tunnel | `session.go`, `tunnel.go`, `control/close.go` | lifecycle flags, worker goroutines, queues | stop against failure, draining, blocked writers |
| Event hub | `events/hub.go` | mailbox, replay ring, subscribers | close against waiters, overflow |
| SKF reassembly | `control/protected.go` | one reassembly buffer | interleaved and duplicated fragments |
| EAP, PEAP | `control/eap_peer.go`, `eap/...` | method state machine, fragment sender and receiver, the goroutines of the TLS engine | acknowledgements out of turn, inner against outer result, a flight collected by timers |
| Transport | `transport/workers.go`, `frame.go` | pools, batches, queues | buffers released exactly once, Close against blocked channels |
| Wire format, cryptography, configuration, debug | `wire/`, `xcrypto/`, `config.go`, `debug/` | none | pure functions of bytes |

The handshake builds a `State` and hands it to `Running.Run`, one goroutine
with one `select` loop. It talks to the peer through the transport workers and
to the data plane through the bounded channel `DataUpdates`, which
`Session.watchControlUpdates` serves; a child installation is acknowledged over
a channel inside the update. The ESP workers read the codecs that goroutine
publishes. Every component reports to the event hub, and `Session` starts,
watches and stops all of them.

## 2. Modules

| Module | Models |
|---|---|
| `AntiReplay` | what an inbound ESP SA promises: each number at most once, no refusal inside the window, no trace of what is not genuine |
| `EspInbound` | `Inbound.ProcessPooled` with `ReplayWindow`; implements `AntiReplay` |
| `EspOutbound` | `Outbound.process`, its flow triggers, `runOutbound`, and what runs beside them |
| `DataPlane` | the update channel, `watchControlUpdates`, `ReplaceChild`, `DropInboundSPI` |
| `Running` | `Run`, every case of its `select`, and all handlers below it |
| `ControlSystem` | `Running` and `DataPlane` composed; properties |
| `EventHub` | `Hub.run` and what it calls, and every call other goroutines make |
| `Session` | `Start`, `Stop`, `stop`, `fail` and the watcher goroutines of a `Session` |
| `Tunnel` | `Read`, `ReadBatch`, `Write` and `markEnded` over the queues shared with the ESP workers |
| `RxWorker`, `TxWorker` | the two transport workers |
| `Transport` | both, one explored at a time |
| `Fragments` | `collectSKFragment` and `openProtectedRawState` around it |
| `Handshake` | `runHandshake` and the graceful close, with a responder and a network |
| `Mschapv2`, `PeapFragments` | the MSCHAPv2 peer and the two fragmenters, as functions |
| `TlsEngine` | the calls and goroutines of the TLS engine |
| `Peap` | the EAP worker and the PEAP method over the three modules before, with an EAP server |
| `Claims` | a statement of the documentation that the code does not keep |
| `MC...` | the modules TLC is run on |
| `EspProofs` | theorems about the two codecs, which share no state |
| `ControlProofs`, `EventHubProofs`, `SessionProofs`, `TunnelProofs`, `TransportProofs`, `HandshakeProofs`, `PeapProofs` | the inductive invariant of each of these components, and the theorems that follow |

### ESP inbound

`highest` and `bitmap` are the fields of `ReplayWindow`; the bitmap is the set
of its one-bits, bit `d` standing for sequence number `highest - d`. A datagram
is a sequence number and the outcome of each check of `ProcessPooled` (SPI,
length, integrity, padding, next header). `count` is a history variable.
`Accepts`, `Record` and `Shifted` are the three parts of `ReplayWindow.Accept`.
`Reset` has no caller and is not an action.

### ESP outbound

`codec[c]` is the `Outbound` of child `c` (its counter modulo `SeqMod`, `wrapped`,
`warned`, the packet and byte counts). `worker` is the local state of
`runOutbound`: where it is, its batch, the codec it loaded and the frames it has
built. `process` is `EncryptWrapped`, `EncryptForeign` and `EncryptNumbered`, one
packet per step, so that a replacement of the codec, the DELETE of the replaced
child and a cancellation may fall between any two packets. A packet is "ip",
"foreign" (refused before it has a number) or "jumbo" (refused after). `warnAt` is
computed from the configured threshold as `childOutboundConfig` does; where the
conversion to `uint32` overflows, any result is possible. `sent` is a history
variable. `childClosed` is nil in every pipeline `Start` builds and the queues are
never closed, so these cases of the two `select`s are left out.

### Running actor

`st` is the `State`: `phase`, `id` (the current IKE SA), `next`
(NextRequestMessageID), `exp` and `has` (the expected response), `req`
(OutboundRequest, the checkpoint), `rekey` (RekeyContext), `active` and `old`
(ActiveChild, OldChild), `oldIKE` (OldIKE, empty or one context) and `hist`
(InboundHistory). `rto` and `oldRto` are the local timer variables of `Run`, `tm`
the soft-lifetime, retry and near-wrap triggers, `lease` the CP lease (its field `on`,
the IKE SA on which the last renewal was sent, is history). Every case
of the `select` is one action per outcome, for instance `RtoStale`, `RtoResend`,
`RtoAbandonsRekey`, `RtoAbandonsLease` and `RtoFatal` for `case <-rtoC`. What
`Run` does after a handler (`AfterPacket`, or nothing after an error) is part of
each packet action. The only place where a handler waits is `installChild`;
the handlers that call it are split there, and `install` holds what the rest of
the handler needs. No other action of the actor is possible meanwhile.

A CHILD_SA is a number: both its SPIs are drawn together. A message is what
the actor tells apart about it, and a response may have any outcome at any
time. The peer makes one request at a time, repeats it until it is answered,
and any earlier request may arrive again; it may ask for anything in `Inputs`.
A timer that is armed may fire at any time.

Two branches are left out because `OutstandingIsTimed` shows that no reachable
state takes them: an outstanding request without a checkpoint, and an old-SA
timer without an old-SA DELETE.

### Data plane

`watchControlUpdates` takes one update at a time. `ReplaceChild` publishes the
inbound table and the outbound codec in two stores, so it is two actions
(`StoreInbound`, `StoreOutbound`) and everything may happen between them.

### Event hub

`mailbox`, `retained`, `subs` and `stopped` are fields of `Hub`; `hub` is where its
goroutine is, the request it serves and the index of `dispatch`'s loop. The loop is
one action per test and per send (`RemoveClosed`, `FindOpen`, `PutEvent`), because
`Stream.Close` sets its marker from another goroutine between any two of them.
`call[p]` is where a caller is in `EmitSync`, or in `Subscribe` and `Stream.Close`;
each `select` is one action per case. A caller of `Subscribe` has one stream, which
carries its name. Events are numbered in the order the mailbox accepts them, so an
event a full mailbox refuses leaves no trace. The channel of a stream is `put`
(everything ever sent into it) and `fill` (how many of these are still there).
`latest`, `missed`, `opened` and `closed` are history variables. After `Close`, `run`
may still choose the mailbox case, as Go's `select` may.

### Session

The booleans under `s.mu`, `installed` (whose workers and cancel function the
Session holds) and `start[c]` (where the `c`-th call of `Start` is) are the state
of `Start`; a critical section is one step, and what lies between two is where the
others run. `proc[p]` is a goroutine that may end the session: `monitorTransport`
of each `Start`, `watchRunning`, `watchDataFatal`, or an application in `Stop`.
`stopper` is the one execution of `stop` with the snapshot it took, one action per
thing it waits for (`StopAwaitsRunning`, `StopWorkers`, `StopAwaitsEsp`,
`StopDrains`). The transport workers of a `Start` are one value, `workers[c]`: they
die when the wire fails and close when they are asked to, or never, when the wire
blocks. `log` has the events Started, Broken, Stopping and Stopped on the hub that all
calls of `Start` share, each with its origin: 0 for the session, or the call of `Start`
whose handshake failed (`HandshakeFails` emits Broken, `StartFails` goes on with Stopped).
Starting and the events of the handshake's stages are left out. `stopper.raced` records
that some `fail` had passed its test of `stopping` before `stop` set it, `stopper.late`
that the pipeline outlived the five seconds `stop` waits for it. `Tunnel.Close` is `Stop`
and a `markEnded` that has happened already.

### Tunnel

`flag`, `closed` and `ended` are set by `markEnded` in three steps (`MarkStep`).
`reader` and `writer` are where the application's calls are; every test of `closedFlag`
and every `select` of `read` and `Write` is an action, so `markEnded` falls between any
two. A packet is a number and a count of bytes not copied yet. What the pipeline and
`Session.stop` do to the two queues are actions of their own.

### Transport workers

The reader goroutine of `RxWorker` (`ReaderChecks`, `WireYields`, one `Classify...` per
datagram, `ReaderGivesUp`) and the loop of `Run` (`DeliverBatch`, `RunTicks`,
`DeliverAborted`, `RunDone`) share `batch` and the channels; `released` counts how often
each pooled buffer went back. The wire gives any mix of datagrams, alone or in batches,
with or without an error. `TxWorker` takes a group (`TakeFrame`), writes it as a batch or
frame by frame, and drains after `Close`; a write may fail, and a frame may be too
large. The workers share nothing, so `Transport` explores them side by side in one run.

### Handshake and SKF reassembly

`st` has the fields of `State` that the handshake depends on, `at` is the wait the
goroutine is in, `retries` that of the wait. `sent`, `answers` and `reply` are all
packets ever sent: any of them may arrive at any time, again or never, so loss,
duplication and reordering need no actions of their own. `Disposition` is
`classifyResponse`; a packet it ignores changes nothing but the timer, which the wait
starts again (`Discard`; `restarts`, a number modulo two, makes such a step visible). The
responder answers each request once and repeats that answer, cut into any number of
fragments in `Totals`, two cuts of one answer mixed in any order; it may refuse at
every point, ask for a cookie or another group, and send a request of its own. Keys
are the pair of key exchange values they come from, so two ends with different pairs
cannot read each other. The EAP method sends, completes or fails (`Peap` has its
inside). `Fail` is the whole of `fail`, the AUTHENTICATION_FAILED notify included;
`Close`, `CloseExchange` and `DeleteAnswered` are the graceful close.

`Fragments` is a function: a buffer and a packet give the next buffer and a verdict.
That a stored set has expired is a choice at each fragment.

### EAP, PEAP and the TLS engine

`worker` and `loop` are `eapPeerWorker.run` and `runEAP`; the server sends any packet of
`PeapPackets` in any round. It may cut a TLS message anywhere, declare a wrong length or
none, and break a message off with another one. (One case is left out: after a wrong
length, a message without a length of its own that makes up the declared one. No receiver
can tell the two from one message, and TLS refuses what it then gets.) `PeapIdentity`, `PeapStart`, `PeapFragment`, `PeapAck`,
`HandshakeReturns`, `ProtectReturns` and `OuterSuccess` are the branches of
`handleInner`, split where it waits for the engine. `PeapRejects` is every error path.
The engine is three goroutines: the TLS client of `launch`, external but for what
the code around it does and given as a script of writes and reads on an
unbuffered pipe; the `relay`, one action per test and channel operation; and the
call of the worker (`CollectChunk`, `CollectQuiet`, `CollectDone`, ...). A quiet window
ends when nothing is under way (`Quiet`), and up to `MaxEarly` times too early.
`delivered`, `peer`, `earned` and `client.sent` are history: what the server has received,
its reassembly by the rules of `PeapFragments`, what has been proved to the client, and
the number of chunks of the client's handshake that the relay has taken from the pipe.

## 3. Runs

| Run | Checks | Shows |
|---|---|---|
| `esp_inbound` | `WindowExact`, `ImplementsAntiReplay` | the bitmap is exact through every mix of new, late, repeated and forged datagrams |
| `esp_outbound` | `FramesAscend`, `WarnedBeforeWrap`, `WorkerEnds` | numbers rise per key and children never interleave, across replacements, drops and the wrap; a wrap ends the session, a cancelled session ends the worker |
| `event_hub` | `DeliveredInOrder`, `NothingLostSilently`, `SyncMeansProcessed`, `ClosedIsReleased`, `CallsReturn` | fan-out and replay against streams that open and close at every point of it, full channels, a full mailbox and `Close`; no caller is left waiting |
| `control_rekey` | `OutstandingIsTimed`, `OneRekeyAtATime`, `ActiveDecryptable`, `DeleteAfterSwitch`, `PlaneFollows`, `SwitchesAreAcknowledged` | rekeys of both SAs by both ends and on near-wrap, collisions, timeouts, DELETEs and unreadable requests of the peer, against every schedule of the data plane |
| `control_lease` | `DuplicatesInert`, `PendingIsRenewal`, `RequestsResolve` | lease renewal and CFG_SET while the peer may replace the CHILD and the IKE SA, retransmission, installation timeouts, cancellation, repeated requests over a one-entry history; no request waits forever |
| `session` | `OneStateOwner`, `StopLeavesNothing`, `EventsInOrder`, `SessionEnds` | a first `Start` that fails, a second, and `Stop` or a failure at any point of either; one owner of the control state, nothing left behind, events of the handshakes and of the session in order on one hub, and every cause of an end leads to it |
| `tunnel` | `ReadsAreExact`, `AcceptedBeforeEnd`, `BlockedCallsReturn` | no byte is lost, repeated or mixed for any buffer sizes, `Write` never claims a packet queued after the end, and no call blocks past it |
| `transport` | `NothingLostInOrder`, `BuffersReturned`, `CloseEnds` | order, exactly-once release (with the exception of section 4, which the property states: the rest of a group behind a failed write), what `Close` still sends, and that it ends both workers even if nobody takes what they deliver |
| `peap` | `TlsBytesInOrder`, `FinalFlightFlushed`, `AnswersAreWhole`, `FragmentsReassemble`, `KeyIsEarned`, `EngineStops` | the TLS stream survives relay, timers and fragmentation in both directions, also if a message is broken off; an MSK of MSCHAPv2 alone is exported only after the server's authenticator was verified, one of PEAP only inside a tunnel with a verified identity and after the inner success; the engine's goroutines end |
| `handshake` | `AnswersInLockStep`, `IdsUsedOnce`, `EstablishedIsMutual`, `FailureIsClean`, `EndsUnlessPacketsKeepComing` | whatever the network does, both ends agree when a session is handed over, a failure leaves nothing, and everything ends unless packets keep restarting the timer |
| `claim_handoff` | `OldDecryptsUntilDeleted` | violated: section 4 |
| `claim_tls_close` | `WorkerExits` | violated: section 4 |

In these modules the type invariant is a conjunct of an invariant of the run:
`OneStateOwner`, `ReadsAreExact`, `BuffersReturned`, `TlsBytesInOrder`,
`EstablishedIsMutual`. `AtMostOnce`, `HandoffConsistent` and the other type
invariants hold by the theorems of section 5 and are in no run.

### Bounds

`esp_inbound`: 3 slots and 8 sequence numbers, so that numbers enter, move
through and leave the window, and jumps by less than, exactly and more than the
window occur. The proofs cover 64 slots and 2^32 - 1 numbers.

`esp_outbound`: a counter of 3 values, two children and batches of two packets, so
that the wrap and a replacement each cut a batch at every place; a threshold that
fires at once and one whose conversion may give any value. The session may end,
hence `CHECK_DEADLOCK FALSE`.

`event_hub`: two streams and one caller of `EmitSync`, and one slot in the mailbox, in
a channel and in the history, so that each of them is full at some point and an
event is replayed to one stream while it is live for the other. `MaxEvents` bounds
plain `Emit` only, by the events accepted so far; an `EmitSync` is never held up by
it. Calls come to an end, hence `CHECK_DEADLOCK FALSE`. The proofs cover every size.

The control runs: two IKE SAs (one replacement, the first retained), three
CHILD_SAs in `control_rekey` (a second handoff before the first has ended), two
requests of each side per IKE SA, no retransmission in `control_rekey` (a timeout
is then one step) and one in `control_lease` (where a renewal on the first IKE SA can
meet its replacement), a history of one or two responses where
the code keeps four (so that requests are evicted), and channels of one to three
updates where the code has 16. In `control_rekey` the channel never fills; in
`control_lease` it does. `MaxRequests`, `MaxPeerMID`, `MaxSA` and
`MaxChild` are bounds of the model, not of the code: a behaviour that reaches
them stops, hence `CHECK_DEADLOCK FALSE`. `Inputs` selects which timers and which
peer requests a run feeds the actor.

`session`: two calls of `Start`, made in the order of their numbers, so that what a
failed one leaves meets its successor.

`tunnel`: batches with one packet of two bytes, or an empty packet and one of one
byte; buffers of no or one byte, so that every packet is larger than some buffer;
queues of one slot; three batches, three reads and two writes, which is enough for a
read that is blocked, one in the middle of a packet and one after the end.

`transport`: batches and queues of one or two against four datagrams and five frames,
so that each queue fills, a batch is cut by `Close`, and a group of frames is cut by
an error. Datagrams and frames run out, hence `CHECK_DEADLOCK FALSE`.

`peap`: a client whose last flight ends the handshake and one that waits for the
server's answer to it, fragments of one unit, six packets and two challenges, and
one quiet window that ends too early. The outbound queue does not fill
(`QueueAssumption`; the code has 32 slots where one flight has a few chunks). The dialogue is
over at some point, hence `CHECK_DEADLOCK FALSE`.

`handshake`: one retransmission, the code's three attempts at IKE_SA_INIT, three
EAP rounds where the code has 64, answers of up to three fragments, three answers
of the responder to IKE_SA_INIT in the network. Handshakes end, hence
`CHECK_DEADLOCK FALSE`.

### Fairness

`FairSpec` assumes weak fairness of the retransmission timer (`RtoStep`: an armed
Go timer fires and `select` chooses fairly among ready cases), of the end of a
wait in `installChild` (`InstallStep`) and of the data-plane goroutine
(`PlaneStep`). Nothing is assumed about the peer or the network. They serve
`RequestsResolve`; the other properties of the control runs need no fairness. `EspOutbound`'s
`FairSpec` schedules the worker and `watchDataFatal`, with strong fairness for the
worker's `ctx.Done` case: `select` picks at random among ready cases, so it cannot
pass over one forever. `EventHub`'s `FairSpec` schedules the hub goroutine and a
caller one of whose `select` cases is ready, and serves a blocked sender in the end
(strong fairness of its send): a Go channel queues its blocked senders in order.

`Session`, `Tunnel`, `Transport` and `Peap` assume weak fairness of their goroutines,
each of which takes a step when it can: the Go scheduler runs every goroutine that is
ready. `Session` also takes it that a handshake and an actor whose context is over
return. `Transport` adds that the wire's `Read` returns some day (`Session` closes the
wire's users, not the wire, so a reader blocked for ever is only waited for with a
timeout; `session` has that case), and assumes nothing of consumers, ticker and
producers. `Peap`'s `FairSpec` assumes nothing of the server, and only `EngineStops` and
`WorkerExits` need it. `Handshake` assumes that the EAP method returns and that the
retransmission timer fires, unless packets that restart it arrive for ever
(`RestartsForever`): each wait makes its timer anew after every packet it discards, stale,
foreign or unparseable, and after every incomplete fragment, which also restarts the
retries. Nothing is assumed of the responder and the network, so the liveness property has
the same exception.

## 4. Findings

With a run:

1. `claim_handoff`: a peer CHILD rekey overwrites `OldChild` while our DELETE of
   an earlier child is outstanding; the answer to that DELETE then drops the
   codec of a child nobody deleted.
2. `claim_tls_close`: `launch` does `e.wg.Add(2)` (`eap/peap/tls.go:369`) and nothing ever
   calls `Done`, so `Engine.Close` waits for ever at `e.wg.Wait()` and the worker that
   calls it never exits. The comments say that `Close` "stops the relay worker and
   releases the TLS session" (`tls.go:342`) and that the worker "exits promptly"
   (`control/eap_peer.go:229`). `runEAP` goes on after its own two seconds; each
   handshake with PEAP leaves a goroutine behind. `EngineStops` shows that the
   client and relay goroutines themselves do end.

Disagreements between text and code seen while modelling, without a run:

- `processOldIKEPacket` rejects message ID 0 before it looks into the history
  (`control/running_rekey.go:445`): if an IKE rekey is the peer's first request on an SA
  and the response is lost, no retransmission is answered, against the comment at
  832-834.
- An installation that timed out stays in the channel and is applied later; outbound
  traffic moves to a child the actor gave up ("The failed install did not touch the
  old child", `running_rekey.go:257`).
- `retryKind` is never assigned (`control/running.go:289`); an abandoned IKE rekey is
  retried as a CHILD rekey.
- A peer IKE rekey under a pending lease renewal leaves `leasePending` set; the next
  keepalive timeout is taken for a failed renewal ("DPD keepalive timeout alone stays
  fatal", `running.go:152-153`). `PendingIsRenewal` shows that there is no other way.
- A lease timer that fires while another request is outstanding is consumed
  (`running.go:309`); the lease is then neither renewed nor expired, against
  `src/README.md:161-162`.
- After an IKE rekey response the RTO is not reset while the old SA's DELETE is
  outstanding (`running.go:341`); a CFG_SET without an expiry moves the lease deadline
  (`control/config_apply.go:45`).
- A batch that loaded the old codec is submitted behind the DELETE of its child
  (`esp/pipeline.go:330`); the ESP workers go on after a peer CHILD_SA DELETE
  (`session.go:304`); the clamp of `NearWrapThreshold` is applied to a copy nothing
  reads (`session.go:361`); a wrap in the middle of a batch drops the frames encrypted
  before it (`esp/pipeline.go:341`).
- On a wire without `WriteBatch`, a write error returns before the rest of the group
  is released (`transport/workers.go:398-402`), while `frame.go:62-65` says that `Release`
  is called "on both success and error paths". `BuffersReturned` names these frames
  (`Stranded`) and shows that no others are kept.
- Every incomplete fragment of a response grants a new set of retransmissions, and every
  discarded packet a new interval, where `control/exchange.go:69-70` speaks of "exponential
  backoff up to MaxRetries".
- `fail` looks at `stopping` under the lock and emits Broken after it (`session.go:513-523`):
  Broken may follow Stopping, against "fatal runtime failures emit `Broken` first"
  (`README.md:177-178`). `EventsInOrder` shows that this is the only way. A `Stop` during a
  handshake may likewise see the handshake's Broken and Stopped after its own Stopping.
- `Protect` may have nothing to send after a quiet window that ended early (`tls.go:590`);
  with `IncludeLength`, `Start` makes of it a message that declares length 0, which the
  package's own `Push` refuses (`eap/peap/fragment.go:171`). `FragmentsReassemble` states it
  as its exception.

Seen in the models and contradicted by no text: all attempts at IKE_SA_INIT have message
ID 0, so a late answer to an earlier attempt ends a handshake that could have succeeded
(it fails safely, `EstablishedIsMutual`); a request of the responder before its last
answer is fatal; the monitor of a failed first `Start` can end a second one; a transport
worker that dies before `Start` has returned is noticed by the keepalive only.

## 5. Proofs

`EspProofs`, inbound, for every window size and range of sequence numbers
(`WindowAssumption`: both positive): `InboundInv` is the conjunction of `InboundTypeOK`,
`WindowExact` and `AtMostOnce`. At-most-once delivery is not inductive by itself:
`Accept` refuses a repeated number because the bitmap remembers it, so the proof
needs that the bitmap is an exact record (`WindowExact`). `AcceptsFresh` derives
that an accepted number was never delivered, `AdvanceExact` and `LateExact` are
the two branches of `Record`, `InboundNextInv` puts them together. For the refinement,
`AcceptsIffAdmissible` says that the bitmap test and the abstract test agree, and
every step of `EspInbound` is then a step of `AntiReplay`.

`EspProofs`, outbound, for every counter of more than two values, threshold, flow
limit, batch size, queue size and number of children (`OutboundAssumption`):
`FramesAscend` alone is not inductive, because nothing in it relates the frames
to the counters. `IInv` adds that every frame belongs to a child up to the one in
use, with a number below its codec's counter unless that has cycled (`Given`),
and that a codec at or past its threshold has warned (`Warned`, from which
`WarnedBeforeWrap` follows since the threshold lies below the last number).
`NumberedInv` is the step that needs all of it.

`EventHubProofs`, for every number of callers, every mailbox, channel and history
size, with a channel no smaller than the history (`HubAssumption`, which `NewHub`
establishes): `HubInvariant` shows `Spec => []IInv`, and all four safety invariants
follow. `MailInv` (waiting events are numbered without a gap above `latest`) makes
the event taken next `latest + 1`; `RingInv` (the history is the last events, without
a gap) is what lets a replay continue into live delivery; `SubsInv` (a stream is
registered once, on its one unanswered request) keeps the walk from delivering
twice; `WalkInv`, `PutInv` and `HadInv` say what streams ahead of and behind the
index have received; `SyncInv` follows the one request of an `EmitSync` from the
mailbox through the walk to `done`; `ClosedInv` says a closed stream behind the index
was closed during this event. One lemma `...Step` per part goes through the actions.

`ControlProofs`, for every retry limit, history size, channel capacity, number of
SAs and children, and selection of `Inputs` (`RunningAssumption`,
`UpdateCapAssumption`): `Invariance` shows `Spec => []IInv`, and every safety
invariant of the control runs except `PlaneFollows` follows from it, and so do `TypeOK`
and `HandoffConsistent`.
`SwitchesAlwaysAcknowledged` proves the action property of `control_rekey`. The
parts of `IInv` beyond the properties themselves are there for these reasons:

- `TimersOK` and `CoreOK` together are `OutstandingIsTimed` and `OneRekeyAtATime`;
  each handler changes State and timers in one step, so neither is preserved
  without the other.
- `InstallOK` says what a handler that resumes after `installChild` relies on: the
  child it waited for is the newest one drawn, and the rekey or the peer's
  request it serves is still the same. Nothing else of the actor runs
  meanwhile, but the data plane does.
- `CodecsOK` and `QueueOK` carry make-before-break through the channel:
  installations are queued in the order of their children, each one newer than
  the last acknowledged, and a queued deletion never names the child in use or
  the one being installed. Without the order, a late installation could follow a
  newer one and bring an abandoned child back under a DELETE, and
  `DeleteAfterSwitch` would not be inductive.
- `NumbersOK` ties the newest entry of `InboundHistory` to the peer's last
  answered request; `DuplicatesInert` needs it because a request that was evicted
  is refused only by comparison with the newest entry.
- `AskOK` restricts what the peer repeats to what it may ask.

`PendingIsRenewal` is inductive as it stands because it names the IKE SA of the renewal: a
replacement raises `st.id` above `lease.on`, and nothing lowers it again (`PendingSwitched`).

The proof has one lemma per group of actions (`RtoStepInv`, `TimerStepInv`,
`ResponseStepInv`, `InstallStepInv`, `PeerStepInv`, `OldSAStepInv`,
`PlaneStepInv`, ...) and `NextInv` collects them. Lemmas named `...Fields` say what
a helper of `Running` does to each field of State, lemmas named `...OK` that it
preserves the State part of `IInv`; handlers cite these instead of the
definitions.

`SessionProofs`, for any number of calls of `Start` (`MaxStartsAssumption`): `Invariance` shows
`Spec => []IInv`; the three safety invariants of the run follow. `StartInv` says that
`s.starting` and `s.started` are a lock: one call of `Start` is between its two critical
sections, and `installed` names it. `RunInv` places the Running actor: it exists only
when the handshake that built its State is over, and runs only in a started session.
`StopInv` makes `stop` a sequence of achievements: the snapshot it took under the lock
stays true although `Start` and the watchers go on, and each step finds the ones
before still done (`MarkPassed`, `CancelPassed`, `WorkersPassed`, `EspPassed`, `Ended`).
`OneStateOwner` needs that `close` is reached with `runningDone`, and `LiveInv` that no
context or worker is left that `installed` does not name: this is where a `Start` that
is overtaken by `Stop` has to take down what it has put up. `LogInv` ties each event to
the step that emits it, which makes the order of events a matter of the order of steps;
while a handshake is failing, its Broken is the last event of a call, so that its Stopped
follows without another call's events between them. `RaceInv` says that when no `fail` had
passed its test of `stopping`, none emits any more.

`TunnelProofs`, for all batches, buffer sizes and capacities
(`TunnelAssumption`): bytes are never in two places because copied slices, the slice
held in `pending`, the current batch and the queue follow one another (`GotInv`,
`QueueInv`, ordered by `Before`), and none is lost because the places cover each packet
(`CoverInv`). `HeldInv` says that the remainder is the end of a decrypted packet and
that nothing behind it has been touched, and `WaitInv` that `read` takes a batch only
when it holds nothing, without which a batch would overwrite one. `WriteInv` is the
argument for the second test of `closedFlag` in `Write`: the flag stays set, so a
writer that does not see it after its send was in time.

`TransportProofs`, for all batch sizes, capacities and numbers of datagrams and frames
(`RxAssumption`, `TxAssumption`); the workers share nothing, so `RxInv` and `TxInv` are proved
apart (`RxStep`, `TxStepInv`). Receiving: `Passed` counts the datagrams that have left the reader,
which classifies them in the order of their numbers; `PlaceInv` keeps the batch younger
than what went out, so that a flush by the ticker and one by a full batch leave the same
order; `ChannelInv` keeps the batches in the channel apart, and `ReleaseInv` says of every
buffer that it was released just when no one of the reader, the batch and the channels
holds it. Sending: `FramesInv` and `GroupInv` cut the queued frames into written,
in the group, and still in the channel, by counts; `FreedInv` gives the boundary up to which
buffers have gone back, which on a wire with `WriteBatch` is the start of the group and
on one without it the last write. `StrandInv` accounts for the frames of a group whose write
failed: each was released or lies behind the failed one (`WriteFrameStrands`).

`HandshakeProofs`, for every number of retransmissions, attempts at IKE_SA_INIT, EAP rounds
and answers, and every set of ways to cut one (`HandshakeAssumption`): `Invariance` shows
`Spec => []IInv`; the four safety invariants of the run follow. Nothing leaves the network in
this model, so the invariant has to exclude every old packet from every wait.
`NumbersOK` does it: in a wait the request in flight is the newest one and the answer read
last is the one before, so a copy of an earlier answer has the wrong message ID for
`classifyResponse`; `RoundsOK` is there because the message IDs are bounded only by the
loop of `runEAP`. A packet with the right ID may still be a fragment of another cut of the
same answer: `PiecesOK` says that the buffer holds pieces of one cut of the answer awaited,
each in its place, so that what `collectSKFragment` joins is whole (`ReadOK`); it needs that
the buffer is empty whenever an answer has been taken. `KeysOK` and `AnswersOK` are
`EstablishedIsMutual` before its time: a reply exists only if both ends derived the keys from
the same attempt, although COOKIE and INVALID_KE make several. `PhaseOK` ties the phase to
the wait, without which `fail` could be entered from a state that it does not wipe;
`WipedOK` and `NoticeOK` keep what `fail` leaves. Each action has its lemma (`RetransmitInv`,
`FinalAuthInv`, ...), and `FailsInv` serves every path that ends in `fail`. `restarts` is
apart from all of it (`StateOK`, `ParityOK`).

`PeapProofs`, for every set of TLS scripts, number of windows that end early, fragment size
and number of messages and challenges (`EngineAssumption`, `PeapAssumption`,
`QueueAssumption`): `Invariance` shows `Spec => []IInv`, and the five safety invariants of
the run follow. `QueueAssumption`, that a handshake and the chunks that early windows leave
behind fit into `outbound`, is needed: with a full queue a chunk can overtake `pending` (section 6).
`BacklogInv` turns it into room for each chunk, counting those under way against the
script; `RelayInv` then shows that `pending` is used inside the barrier only, for a chunk
that `Protect` wrote after the handshake, which is why nothing overtakes it. `StreamInv` is
`TlsBytesInOrder` without the types. `BarrierInv` is `FinalFlightFlushed` from the moment
the relay acknowledges the barrier, before `established` is set. `SettledInv` is
`AnswersAreWhole` through the steps of a call: with no early window a call starts and returns
while the client reads and no chunk is under way; it needs `ConsumedInv`, because a
handshake that is over is noticed by one call only. `JoinInv` relates the inbound
fragmenter to what the server has sent of its message, unless the fragment at hand is one
that `Push` refuses, as it does a message that breaks another one off (`InsteadRefused`);
`PeerInv` relates the server's reassembly to what the outbound fragmenter still has, and `EarnedInv` every phase to what was proved before
it. Each step of the engine keeps `EngineInv` and the stream by lemmas that do not
mention the method (`EngineStepInv`, `EngineStepPreserves`); the method's steps have one
lemma each (`PeapAckInv`, `PeapFragmentInv`, `AnswerInv`, ...).

Properties are stated with quantifiers over indices so that one formula serves both
tools. The modules take between two and seventeen minutes each. Most leaves name
Zenon, which is the faster prover for steps without arithmetic.

Only model-checked: `PlaneFollows`, because a deletion offered to a full channel is
dropped and an installation that timed out is applied later, so it depends on the
capacity and on `Inputs`; the liveness properties, which are out of this prover's reach;
and the claims of section 4.

## 6. Not modelled

- Wire encoding, cryptography, configuration checks and debug output have no state;
  the models take their result as an outcome. The adapters of `wire.go` turn a
  `PacketConn` or a byte stream into the datagrams the workers see.
- `eap.Worker` (`eap/worker.go`) is used by tests only; the library uses
  `eapPeerWorker`. `eap/methods` picks a constructor.
- In a running session every message is one packet: `openRunningPayloads` with
  fragments of the peer's requests and responses in the one buffer is not composed
  with `Running`. Our own fragmented requests are sent as one.
- A full outbound queue of the TLS engine (`QueueAssumption`). When all of `outbound` is
  drained while a chunk waits in `pending`, the relay may send a chunk it has just read
  before it; this needs more than 32 chunks in one flight.
- The contents of an assigned configuration, of events, and of payloads other than
  what decides a branch; local failures of the random source, a cipher or an encoder.
- What a pipeline that outlives the five seconds `stop` grants it does to the closed
  `pktOut`: `session` has the timeout (`stopper.late`), and `StopLeavesNothing` excepts it.
- The composition of all components in one model. They meet at interfaces that the
  models share: `Session` sees the actor, the workers and the pipeline by their ends,
  `Tunnel` sees the steps of `stop` and the pipeline's queues, `Handshake` the result of
  the method that `Peap` models, `Running` starts from the state that `Handshake` hands
  over.
- Liveness, and anything that needs induction over a recursive definition, is checked
  by TLC only.
