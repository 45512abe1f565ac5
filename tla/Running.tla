------------------------------- MODULE Running -------------------------------
(***************************************************************************)
(* The post-handshake control actor: Running.Run and everything it calls   *)
(* (control/running.go, control/running_rekey.go, control/config_apply.go).*)
(* One goroutine serves one select loop, so every case of the select is    *)
(* one action, and the actor's state is touched by no one else.  Its only  *)
(* wait inside a case is installChild, which is split at the wait.         *)
(*                                                                         *)
(* Around the actor: the peer, which answers requests and makes its own,   *)
(* and a network that loses, duplicates and delays everything.  A message  *)
(* is what the actor tells apart about it; a response may carry any        *)
(* outcome, a timer that is armed may fire at any time.  Local failures of *)
(* the random source, of a cipher or of the encoder are not modelled.      *)
(***************************************************************************)
EXTENDS DataPlane, FiniteSets

CONSTANTS MaxRetries,   \* Timeouts.MaxRetries
          MaxBackoff,   \* doublings from InitialRTO to MaxRTO
          HistoryCap,   \* MaxInboundResponseHistory (4 in the code)
          Inputs,       \* the kinds of input this instance feeds the actor
          FirstMID,     \* message IDs the handshake used up on the first IKE SA
          MaxRequests,  \* bound: requests of ours per IKE SA
          MaxPeerMID,   \* bound: requests of the peer per IKE SA
          MaxSA,        \* bound: IKE SAs
          MaxChild      \* bound: CHILD_SAs

ASSUME RunningAssumption ==
  /\ MaxRetries \in Nat /\ MaxBackoff \in Nat /\ HistoryCap \in Nat \ {0}
  /\ FirstMID \in Nat /\ MaxRequests \in Nat
  /\ MaxPeerMID \in Nat /\ MaxSA \in Nat /\ MaxChild \in Nat

VARIABLES st,       \* the *State the actor owns
          run,      \* "running", or how Run returned
          rto,      \* Run's retransmission timer of the current request
          oldRto,   \* Run's retransmission timer of the old IKE SA's DELETE
          tm,       \* ikeSoft, childSoft, retryTimer and the NearWrap channel
          lease,    \* the CP lease and its timer; history: the IKE SA its renewal was sent on
          install,  \* the wait inside installChild
          peer,     \* external: the peer's own requests on the current IKE SA
          deleted   \* history: children whose deletion both ends agreed on

actorVars == <<st, run, rto, oldRto, tm, lease, install, updates, peer, deleted>>

-----------------------------------------------------------------------------
(* State. *)

Phases == {"Running", "RekeyChildRequesting", "RekeyChildDeletingOld",
           "RekeyIkeRequesting", "RekeyIkeDeletingOld", "Stopped"}

\* State.OutboundRequest: the request being retransmitted, and the child a
\* rekey replaces or a DELETE names.
Requests  == {"none", "keepalive", "childRekey", "ikeRekey", "lease", "childDelete"}
NoRequest == [kind |-> "none", child |-> NoChild]
NoRekey   == [kind |-> "none", old |-> NoChild]
NoInstall == [stage |-> "none", by |-> "none", child |-> NoChild, mid |-> 0]

\* What the peer may ask for.  form is the one detail a handler looks at: the
\* lease expiry a CFG_SET carries, or whether a rekey proposal is acceptable.
PeerKinds == {"empty", "malformed", "unsupported", "cfgset", "deleteIKE",
              "deleteChild", "rekeyChild", "rekeyIKE"}
Forms     == {"none", "expiry", "noExpiry", "zeroExpiry", "ok", "bad", "badKE", "noProposal"}
PeerAsk   == [kind : PeerKinds, child : Nat, form : Forms]
NoAsk     == [kind |-> "empty", child |-> NoChild, form |-> "bad"]

FormsOf(kind) ==
  CASE kind = "cfgset" -> {"expiry", "noExpiry", "zeroExpiry"}
    [] kind = "rekeyChild" -> {"ok", "bad", "badKE", "noProposal"}
    [] kind = "rekeyIKE" -> {"ok", "bad", "noProposal"}
    [] OTHER -> {"none"}

ChildrenOf(kind) == IF kind \in {"deleteChild", "rekeyChild"} THEN 1..st.spis ELSE {NoChild}

Asks == UNION {[kind : {k}, child : ChildrenOf(k), form : FormsOf(k)] : k \in PeerKinds \cap Inputs}

\* OldIKEContext, with the external facts about the peer's side of that SA:
\* its next message ID, and whether it still waits for the response that
\* created the new SA, a copy of which may be in flight.
OldContext == [id : Nat, next : Nat, exp : Nat, has : BOOLEAN, hist : Seq(Nat),
               peerNext : Nat, rekeyMID : Nat, waiting : BOOLEAN, inFlight : BOOLEAN]

StateType ==
  [phase : Phases, id : Nat, next : Nat, exp : Nat, has : BOOLEAN,
   req : [kind : Requests, child : Nat],
   rekey : [kind : {"none", "child", "ike"}, old : Nat],
   active : Nat, old : Nat, oldIKE : Seq(OldContext), hist : Seq(Nat), spis : Nat]

ActorTypeOK ==
  /\ st \in StateType /\ Len(st.hist) <= HistoryCap
  /\ run \in {"running", "clean", "failed", "cancelled"}
  /\ rto \in [armed : BOOLEAN, id : Nat, retries : 0..MaxRetries, backoff : 0..MaxBackoff]
  /\ oldRto \in [armed : BOOLEAN, retries : 0..MaxRetries]
  /\ tm \in [ike : BOOLEAN, child : BOOLEAN, retry : BOOLEAN, wrap : BOOLEAN]
  /\ lease \in [timer : BOOLEAN, pending : BOOLEAN, expiry : BOOLEAN, past : BOOLEAN, on : Nat]
  /\ install \in [stage : {"none", "enqueue", "wait"}, by : {"none", "local", "peer"},
                  child : Nat, mid : Nat]
  /\ peer \in [next : Nat, ask : PeerAsk]
  /\ deleted \in SUBSET Nat

\* The handshake hands over an IKE SA and one CHILD_SA; Run arms the soft
\* timers, and the lease timer if there is a lease.
ActorInit(leased) ==
  /\ st = [phase |-> "Running", id |-> 1, next |-> FirstMID, exp |-> 0, has |-> FALSE,
           req |-> NoRequest, rekey |-> NoRekey, active |-> 1, old |-> NoChild,
           oldIKE |-> <<>>, hist |-> <<>>, spis |-> 1]
  /\ run = "running"
  /\ rto = [armed |-> FALSE, id |-> 0, retries |-> 0, backoff |-> 0]
  /\ oldRto = [armed |-> FALSE, retries |-> 0]
  /\ tm = [ike |-> TRUE, child |-> TRUE, retry |-> FALSE, wrap |-> FALSE]
  /\ lease = [timer |-> leased, pending |-> FALSE, expiry |-> leased, past |-> FALSE, on |-> 0]
  /\ install = NoInstall
  /\ peer = [next |-> 0, ask |-> NoAsk]
  /\ deleted = {}

-----------------------------------------------------------------------------
(* Helpers. *)

Actor == run = "running" /\ install = NoInstall

RequestsLeft == st.next < MaxRequests + (IF st.id = 1 THEN FirstMID ELSE 0)

OldExpected(s) == s.oldIKE # <<>> /\ s.oldIKE[1].has

safeToRekey ==
  /\ st.phase = "Running"
  /\ ~st.has
  /\ st.rekey = NoRekey
  /\ st.oldIKE = <<>>

\* beginRequest, and the checkpoint its callers store.
BeginRequest(s, kind, child) ==
  [s EXCEPT !.exp = s.next, !.next = s.next + 1, !.has = TRUE,
            !.req = [kind |-> kind, child |-> child]]

\* A response was accepted: the request is no longer outstanding.
Completed(s) == [s EXCEPT !.has = FALSE, !.req = NoRequest]

abandonRekey(s) ==
  [s EXCEPT !.rekey = NoRekey, !.req = NoRequest, !.old = NoChild,
            !.oldIKE = <<>>, !.has = FALSE, !.phase = "Running"]

\* A mutant: a full history keeps its oldest entries.
rememberResponse_KeepsOldest(s, mid) ==
  [s EXCEPT !.hist = IF Len(s.hist) < HistoryCap THEN Append(s.hist, mid) ELSE @]

rememberResponse(s, mid) ==
  [s EXCEPT !.hist = IF Len(s.hist) < HistoryCap THEN Append(s.hist, mid)
                                                 ELSE Append(Tail(s.hist), mid)]

\* A mutant: the replaced IKE SA is forgotten.
SwitchIKE_NoRetention(s, ctx) ==
  [s EXCEPT !.id = s.id + 1, !.next = 0, !.exp = 0, !.has = FALSE, !.req = NoRequest,
            !.hist = <<>>, !.rekey = NoRekey, !.phase = "RekeyIkeDeletingOld"]

\* The new IKE SA of a finished rekey: fresh numbering, empty history, the
\* replaced SA retained in OldIKE.
SwitchIKE(s, ctx) ==
  [s EXCEPT !.id = s.id + 1, !.next = 0, !.exp = 0, !.has = FALSE, !.req = NoRequest,
            !.hist = <<>>, !.oldIKE = Append(s.oldIKE, ctx), !.rekey = NoRekey,
            !.phase = "RekeyIkeDeletingOld"]

\* A mutant: the phase is not restored.
finishOldIKEDelete_NoPhase(s) == [s EXCEPT !.oldIKE = <<>>]

finishOldIKEDelete(s) == [s EXCEPT !.oldIKE = <<>>, !.phase = "Running"]

\* The timer state every successful start of a request sets up in Run.
Armed(mid) == [armed |-> TRUE, id |-> mid, retries |-> 0, backoff |-> 0]

\* Mutants: a request started by a packet is not timed; every packet restarts
\* the ladder of the outstanding request.
AfterPacket_NewRequestUntimed ==
  /\ rto' = IF ~st'.has /\ ~OldExpected(st')
            THEN [armed |-> FALSE, id |-> 0, retries |-> 0, backoff |-> 0]
            ELSE rto
  /\ oldRto' = [oldRto EXCEPT !.armed = OldExpected(st')]

AfterPacket_RestartsLadder ==
  /\ rto' = IF st'.has THEN Armed(st'.exp)
            ELSE IF ~OldExpected(st')
            THEN [armed |-> FALSE, id |-> 0, retries |-> 0, backoff |-> 0]
            ELSE rto
  /\ oldRto' = [oldRto EXCEPT !.armed = OldExpected(st')]

\* What Run does after a packet was processed without error.
AfterPacket ==
  /\ rto' = IF st'.has /\ rto.id # st'.exp THEN Armed(st'.exp)
            ELSE IF ~st'.has /\ ~OldExpected(st')
            THEN [armed |-> FALSE, id |-> 0, retries |-> 0, backoff |-> 0]
            ELSE rto
  /\ oldRto' = [oldRto EXCEPT !.armed = OldExpected(st')]

\* What Run does after an error: nothing.
AfterError == UNCHANGED <<rto, oldRto>>

\* leaseRetryOrExpire: whether it is an error, and the lease it leaves.
LeaseExpired == lease.expiry /\ lease.past

\* A mutant: leasePending survives a failed renewal.
LeaseRetried_KeepsPending == [lease EXCEPT !.timer = @ \/ (lease.expiry /\ ~lease.past)]

LeaseRetried == [lease EXCEPT !.pending = FALSE, !.timer = @ \/ (lease.expiry /\ ~lease.past)]

\* The tail of applyConfigUpdate: the expiry is stored, and armLeaseTimer
\* renews deadline and timer from it unless it is zero.
LeaseArmed(expiry) ==
  IF expiry THEN [lease EXCEPT !.timer = TRUE, !.expiry = TRUE, !.past = FALSE]
            ELSE [lease EXCEPT !.expiry = FALSE]

-----------------------------------------------------------------------------
(* case <-rtoC: the current request went unanswered. *)

RtoStale ==
  /\ Actor /\ rto.armed /\ ~st.has
  /\ rto' = [rto EXCEPT !.armed = FALSE]
  /\ UNCHANGED <<st, run, oldRto, tm, lease, install, updates, peer, deleted>>

RtoResend ==
  /\ Actor /\ rto.armed /\ st.has
  /\ rto.retries < MaxRetries
  /\ st.req # NoRequest
  /\ rto' = [rto EXCEPT !.retries = @ + 1,
                        !.backoff = IF @ < MaxBackoff THEN @ + 1 ELSE @]
  /\ UNCHANGED <<st, run, oldRto, tm, lease, install, updates, peer, deleted>>

\* A rekey is given up; the session keeps the SA it has and tries again later.
RtoAbandonsRekey ==
  /\ Actor /\ rto.armed /\ st.has
  /\ rto.retries >= MaxRetries
  /\ st.rekey # NoRekey
  /\ st' = abandonRekey(st)
  /\ tm' = [tm EXCEPT !.retry = TRUE]
  /\ rto' = [rto EXCEPT !.armed = FALSE, !.retries = 0, !.backoff = 0]
  /\ UNCHANGED <<run, oldRto, lease, install, updates, peer, deleted>>

RtoAbandonsLease ==
  /\ Actor /\ rto.armed /\ st.has
  /\ rto.retries >= MaxRetries
  /\ st.rekey = NoRekey /\ lease.pending
  /\ st' = Completed(st)
  /\ lease' = LeaseRetried
  /\ run' = IF LeaseExpired THEN "failed" ELSE run
  /\ rto' = [rto EXCEPT !.armed = FALSE, !.retries = 0, !.backoff = 0]
  /\ UNCHANGED <<oldRto, tm, install, updates, peer, deleted>>

\* Anything else that stays unanswered ends the session.  (Run also fails when
\* an outstanding request has no checkpoint; OutstandingIsTimed shows that no
\* reachable state takes that branch.)
RtoFatal ==
  /\ Actor /\ rto.armed /\ st.has
  /\ rto.retries >= MaxRetries
  /\ st.rekey = NoRekey /\ ~lease.pending
  /\ run' = "failed"
  /\ rto' = [rto EXCEPT !.armed = FALSE]
  /\ UNCHANGED <<st, oldRto, tm, lease, install, updates, peer, deleted>>

-----------------------------------------------------------------------------
(* case <-oldRtoC: the old IKE SA's DELETE went unanswered.  The timer never *)
(* fires without one (OutstandingIsTimed).                                   *)

OldRtoResend ==
  /\ Actor /\ oldRto.armed /\ OldExpected(st)
  /\ oldRto.retries < MaxRetries
  /\ oldRto' = [oldRto EXCEPT !.retries = @ + 1]
  /\ UNCHANGED <<st, run, rto, tm, lease, install, updates, peer, deleted>>

\* Best effort: the DELETE is dropped, the retained context is not.
OldRtoGivesUp ==
  /\ Actor /\ oldRto.armed /\ OldExpected(st)
  /\ oldRto.retries >= MaxRetries
  /\ st' = [st EXCEPT !.oldIKE[1].has = FALSE]
  /\ oldRto' = [armed |-> FALSE, retries |-> 0]
  /\ UNCHANGED <<run, rto, tm, lease, install, updates, peer, deleted>>

-----------------------------------------------------------------------------
(* The tick and the lifetime timers.  A timer that fires while safeToRekey  *)
(* is false is consumed.                                                     *)

Tick ==
  /\ Actor /\ ~st.has /\ RequestsLeft /\ "tick" \in Inputs
  /\ st' = BeginRequest(st, "keepalive", NoChild)
  /\ rto' = [rto EXCEPT !.armed = TRUE, !.id = st.next, !.retries = 0]
  /\ UNCHANGED <<run, oldRto, tm, lease, install, updates, peer, deleted>>

startIKERekey ==
  [BeginRequest(st, "ikeRekey", NoChild) EXCEPT
     !.rekey = [kind |-> "ike", old |-> NoChild], !.phase = "RekeyIkeRequesting"]

startChildRekey ==
  [BeginRequest(st, "childRekey", st.active) EXCEPT
     !.rekey = [kind |-> "child", old |-> st.active], !.phase = "RekeyChildRequesting"]

\* Run arms the RTO after startChildRekey and after a retry even when there is
\* no active child and nothing was sent.
RekeyChildOrNothing ==
  /\ st' = IF st.active # NoChild THEN startChildRekey ELSE st
  /\ rto' = Armed(st'.exp)

IkeSoft ==
  /\ Actor /\ tm.ike /\ "ikeSoft" \in Inputs
  /\ tm' = [tm EXCEPT !.ike = FALSE]
  /\ IF safeToRekey
     THEN RequestsLeft /\ st' = startIKERekey /\ rto' = Armed(st.next)
     ELSE UNCHANGED <<st, rto>>
  /\ UNCHANGED <<run, oldRto, lease, install, updates, peer, deleted>>

ChildSoft ==
  /\ Actor /\ tm.child /\ "childSoft" \in Inputs
  /\ tm' = [tm EXCEPT !.child = FALSE]
  /\ IF safeToRekey THEN RequestsLeft /\ RekeyChildOrNothing ELSE UNCHANGED <<st, rto>>
  /\ UNCHANGED <<run, oldRto, lease, install, updates, peer, deleted>>

NearWrap ==
  /\ Actor /\ tm.wrap
  /\ tm' = [tm EXCEPT !.wrap = FALSE]
  /\ IF safeToRekey /\ st.active # NoChild
     THEN RequestsLeft /\ st' = startChildRekey /\ rto' = Armed(st.next)
     ELSE UNCHANGED <<st, rto>>
  /\ UNCHANGED <<run, oldRto, lease, install, updates, peer, deleted>>

\* retryKind is never assigned, so its zero value RekeyChild decides what a
\* retry does after any abandoned rekey.
RetryTimer ==
  /\ Actor /\ tm.retry
  /\ tm' = [tm EXCEPT !.retry = FALSE]
  /\ IF safeToRekey THEN RequestsLeft /\ RekeyChildOrNothing ELSE UNCHANGED <<st, rto>>
  /\ UNCHANGED <<run, oldRto, lease, install, updates, peer, deleted>>

LeaseTimer ==
  /\ Actor /\ lease.timer
  /\ IF safeToRekey /\ lease.expiry
     THEN /\ RequestsLeft
          /\ st' = BeginRequest(st, "lease", NoChild)
          /\ rto' = Armed(st.next)
          /\ lease' = [lease EXCEPT !.timer = FALSE, !.pending = TRUE, !.on = st.id]
     ELSE lease' = [lease EXCEPT !.timer = FALSE] /\ UNCHANGED <<st, rto>>
  /\ UNCHANGED <<run, oldRto, tm, install, updates, peer, deleted>>

-----------------------------------------------------------------------------
(* processResponse: the authenticated response to the outstanding request.  *)
(* Which branch runs is decided by Rekey and leasePending, not by the       *)
(* request.                                                                  *)

\* The peer holds the current IKE SA: it is not still waiting for the response
\* that created it.
PeerReady == \A i \in 1..Len(st.oldIKE) : ~st.oldIKE[i].waiting

Response == Actor /\ st.has /\ PeerReady

\* An unusable response, or the active child went away meanwhile.
ResponseEndsRekey ==
  /\ Response /\ st.rekey # NoRekey
  /\ st' = abandonRekey(st)
  /\ tm' = [tm EXCEPT !.retry = TRUE]
  /\ AfterError
  /\ UNCHANGED <<run, lease, install, updates, peer, deleted>>

\* finishChildRekeyResponse up to its wait in installChild.
ResponseChildRekey ==
  /\ Response /\ st.rekey.kind = "child"
  /\ st.active # NoChild /\ st.active = st.rekey.old
  /\ st.spis < MaxChild
  /\ st' = [st EXCEPT !.spis = @ + 1]
  /\ install' = [stage |-> "enqueue", by |-> "local", child |-> st.spis + 1, mid |-> 0]
  /\ UNCHANGED <<run, rto, oldRto, tm, lease, updates, peer, deleted>>

\* finishIKERekeyResponse with sendOldIKEDelete.
ResponseIKERekey ==
  /\ Response /\ st.rekey.kind = "ike"
  /\ st.id < MaxSA
  /\ st' = SwitchIKE(st, [id |-> st.id, next |-> st.next + 1, exp |-> st.next, has |-> TRUE,
                          hist |-> st.hist, peerNext |-> peer.next, rekeyMID |-> 0,
                          waiting |-> FALSE, inFlight |-> FALSE])
  /\ peer' = [next |-> 0, ask |-> NoAsk]
  /\ tm' = [tm EXCEPT !.ike = TRUE]
  /\ AfterPacket
  /\ UNCHANGED <<run, lease, install, updates, deleted>>

\* History: the peer confirmed the DELETE of the child our request named.
ConfirmDelete ==
  deleted' = deleted \cup (IF st.req.kind = "childDelete" THEN {st.req.child} ELSE {})

\* finishLeaseResponse with a CFG_REPLY (applyConfigUpdate in replace mode).
ResponseLeaseRenewed(expiry, changed) ==
  /\ Response /\ st.rekey = NoRekey /\ lease.pending
  /\ st.req.kind = "lease"
  /\ expiry # lease.expiry => changed
  /\ st' = Completed(st)
  /\ lease' = [LeaseArmed(expiry) EXCEPT !.pending = FALSE]
  /\ IF changed THEN Offer(Assigned) ELSE UNCHANGED updates
  /\ ConfirmDelete
  /\ AfterPacket
  /\ UNCHANGED <<run, tm, install, peer>>

\* finishLeaseResponse without a usable CFG_REPLY.  An expired lease is
\* reported as the error of this packet, which Run ignores like any other; an
\* undecodable reply is an error in either case.
ResponseLeaseRefused(undecodable) ==
  /\ Response /\ st.rekey = NoRekey /\ lease.pending
  /\ undecodable => st.req.kind = "lease"
  /\ st' = Completed(st)
  /\ lease' = LeaseRetried
  /\ ConfirmDelete
  /\ IF undecodable \/ LeaseExpired THEN AfterError ELSE AfterPacket
  /\ UNCHANGED <<run, tm, install, updates, peer>>

\* The default branch: a keepalive or the DELETE of the old child, which
\* finishDeleteOldChild completes.
ResponsePlain ==
  /\ Response /\ st.rekey = NoRekey /\ ~lease.pending
  /\ IF st.phase = "RekeyChildDeletingOld"
     THEN /\ st' = [Completed(st) EXCEPT !.old = NoChild, !.phase = "Running"]
          /\ Offer(Deleted(st.old))
     ELSE st' = Completed(st) /\ UNCHANGED updates
  /\ ConfirmDelete
  /\ AfterPacket
  /\ UNCHANGED <<run, tm, lease, install, peer>>

\* Any packet processed without error and without effect on the state: a
\* response nobody waits for, a fragment, a retransmission answered from
\* InboundHistory.
IgnoredPacket ==
  /\ Actor
  /\ UNCHANGED st
  /\ AfterPacket
  /\ UNCHANGED <<run, tm, lease, install, updates, peer, deleted>>

-----------------------------------------------------------------------------
(* installChild: the wait for the data plane.  The rest of the handler that *)
(* called it runs when the wait ends.                                       *)

InstallEnqueue ==
  /\ run = "running" /\ install.stage = "enqueue"
  /\ HasRoom
  /\ updates' = Append(updates, Installed(install.child))
  /\ install' = [install EXCEPT !.stage = "wait"]
  /\ UNCHANGED <<st, run, rto, oldRto, tm, lease, peer, deleted>>

\* A mutant: the acknowledgement is not awaited.
InstallAcked_NotAwaited == run = "running" /\ install.stage = "wait"

InstallAcked == run = "running" /\ install.stage = "wait" /\ acked = install.child

\* The rest of finishChildRekeyResponse, with sendDeleteOldChild.
InstalledLocal ==
  /\ InstallAcked /\ install.by = "local"
  /\ st' = [BeginRequest(st, "childDelete", st.active) EXCEPT
              !.active = install.child, !.old = st.active, !.rekey = NoRekey,
              !.phase = "RekeyChildDeletingOld"]
  /\ tm' = [tm EXCEPT !.child = TRUE]
  /\ install' = NoInstall
  /\ AfterPacket
  /\ UNCHANGED <<run, lease, updates, peer, deleted>>

\* The peer's request has been answered: it may go on to its next one.
PeerAnswered(m) == peer' = [next |-> IF m = peer.next THEN m + 1 ELSE peer.next, ask |-> NoAsk]

\* The rest of processPeerChildRekey.
InstalledPeer ==
  /\ InstallAcked /\ install.by = "peer"
  /\ st' = rememberResponse([st EXCEPT !.old = st.active, !.active = install.child], install.mid)
  /\ PeerAnswered(install.mid)
  /\ tm' = [tm EXCEPT !.child = TRUE]
  /\ install' = NoInstall
  /\ AfterPacket
  /\ UNCHANGED <<run, lease, updates, deleted>>

\* time.After(2 * time.Second) wins.  A rekey of ours is abandoned, a request
\* of the peer stays unanswered.
InstallTimeout ==
  /\ run = "running" /\ install.stage = "wait" /\ "ackTimeout" \in Inputs
  /\ IF install.by = "local"
     THEN st' = abandonRekey(st) /\ tm' = [tm EXCEPT !.retry = TRUE]
     ELSE UNCHANGED <<st, tm>>
  /\ install' = NoInstall
  /\ AfterError
  /\ UNCHANGED <<run, lease, updates, peer, deleted>>

-----------------------------------------------------------------------------
(* Requests of the peer on the current IKE SA.  The peer has a window of    *)
(* one: it retransmits a request until it is answered, and any earlier      *)
(* request may arrive once more.                                            *)

\* processPacket: not in InboundHistory, and not below its newest entry.
Fresh(m) ==
  /\ \A i \in 1..Len(st.hist) : st.hist[i] # m
  /\ st.hist # <<>> => m > st.hist[Len(st.hist)]

\* The peer's request m reaches a handler.
PeerRequest(m) ==
  /\ Actor /\ PeerReady
  /\ m < MaxPeerMID
  /\ Fresh(m)

\* What it may ask: a retransmission repeats the request.
MayAsk(m) == IF m = peer.next /\ peer.ask # NoAsk THEN {peer.ask} ELSE Asks

Unanswered(m, a) == peer' = IF m = peer.next THEN [peer EXCEPT !.ask = a] ELSE peer

\* An exchange type Run does not serve is ignored, a payload it cannot use is
\* an error; neither is answered.
PeerUnserved(m, a) ==
  /\ a.kind \in {"malformed", "unsupported"}
  /\ Unanswered(m, a)
  /\ UNCHANGED st
  /\ IF a.kind = "malformed" THEN AfterError ELSE AfterPacket
  /\ UNCHANGED <<run, tm, lease, install, updates, deleted>>

PeerEmpty(m, a) ==
  /\ a.kind = "empty"
  /\ st' = rememberResponse(st, m)
  /\ PeerAnswered(m)
  /\ AfterPacket
  /\ UNCHANGED <<run, tm, lease, install, updates, deleted>>

\* CFG_SET: applyConfigUpdate in merge mode.
MergedExpiry(form) == form = "expiry" \/ (form = "noExpiry" /\ lease.expiry)

PeerCfgSet(m, a, changed) ==
  /\ a.kind = "cfgset"
  /\ MergedExpiry(a.form) # lease.expiry => changed
  /\ lease' = LeaseArmed(MergedExpiry(a.form))
  /\ IF changed THEN Offer(Assigned) ELSE UNCHANGED updates
  /\ st' = rememberResponse(st, m)
  /\ PeerAnswered(m)
  /\ AfterPacket
  /\ UNCHANGED <<run, tm, install, deleted>>

\* The peer deletes the IKE SA: ClearSession, and Run returns nil.
ClearSession(s) ==
  [s EXCEPT !.phase = "Stopped", !.has = FALSE, !.req = NoRequest, !.rekey = NoRekey,
            !.active = NoChild, !.old = NoChild, !.oldIKE = <<>>, !.hist = <<>>]

PeerDeletesIKE(m, a) ==
  /\ a.kind = "deleteIKE"
  /\ st' = ClearSession(st)
  /\ PeerAnswered(m)
  /\ AfterPacket
  /\ run' = "clean"
  /\ lease' = LeaseArmed(FALSE)
  /\ UNCHANGED <<tm, install, updates, deleted>>

\* The peer deletes a child: the retained one, the active one, or one that is
\* unknown here.
PeerDeletesChild(m, a) ==
  /\ a.kind = "deleteChild"
  /\ LET c == a.child
         s == IF c = st.old
              THEN [st EXCEPT !.old = NoChild,
                              !.phase = IF @ = "RekeyChildDeletingOld" THEN "Running" ELSE @]
              ELSE IF c = st.active THEN [st EXCEPT !.active = NoChild] ELSE st
     IN  /\ st' = rememberResponse(s, m)
         /\ IF c \in {st.old, st.active} THEN Offer(Deleted(c)) ELSE UNCHANGED updates
         /\ deleted' = deleted \cup {c}
  /\ PeerAnswered(m)
  /\ AfterPacket
  /\ UNCHANGED <<run, tm, lease, install>>

\* Every other answer of processCreateChild leaves the state as it is:
\* CHILD_SA_NOT_FOUND, NO_PROPOSAL_CHOSEN or TEMPORARY_FAILURE.
PeerRefused(m, s) ==
  /\ st' = rememberResponse(s, m)
  /\ PeerAnswered(m)
  /\ AfterPacket
  /\ UNCHANGED <<run, tm, lease, install, updates, deleted>>

\* An error after the state became s: nothing is answered.
PeerRejected(m, a, s) ==
  /\ st' = s
  /\ Unanswered(m, a)
  /\ AfterError
  /\ UNCHANGED <<run, tm, lease, install, updates, deleted>>

\* The state after a collision with our own rekey was lost, or without one.
Yielded(kind) == IF st.rekey.kind = kind THEN abandonRekey(st) ELSE st

\* processPeerChildRekey up to its wait in installChild.  weWin is the outcome
\* of decideNonceCollision.
PeerRekeysChild(m, a, weWin) ==
  /\ a.kind = "rekeyChild"
  /\ weWin => st.rekey.kind = "child"
  /\ IF a.child # st.active THEN PeerRefused(m, st)
     ELSE IF a.form = "bad" THEN PeerRejected(m, a, st)
     ELSE IF weWin THEN PeerRefused(m, st)
     ELSE IF a.form = "noProposal" THEN PeerRefused(m, Yielded("child"))
     ELSE IF a.form = "badKE" THEN PeerRejected(m, a, Yielded("child"))
     ELSE /\ st.spis < MaxChild
          /\ st' = [Yielded("child") EXCEPT !.spis = @ + 1]
          /\ install' = [stage |-> "enqueue", by |-> "peer", child |-> st.spis + 1, mid |-> m]
          /\ Unanswered(m, a)
          /\ UNCHANGED <<run, rto, oldRto, tm, lease, updates, deleted>>

\* processPeerIKERekey.  The response goes out under the old keys and is
\* remembered in the old context.
PeerRekeysIKE(m, a, weWin) ==
  /\ a.kind = "rekeyIKE"
  /\ weWin => st.rekey.kind = "ike"
  /\ IF weWin \/ st.rekey.kind = "child" \/ st.oldIKE # <<>> THEN PeerRefused(m, st)
     ELSE IF a.form = "bad" THEN PeerRejected(m, a, Yielded("ike"))
     ELSE IF a.form = "noProposal" THEN PeerRefused(m, Yielded("ike"))
     ELSE /\ st.id < MaxSA
          /\ st' = SwitchIKE(Yielded("ike"),
                     [id |-> st.id, next |-> st.next, exp |-> st.exp, has |-> FALSE,
                      hist |-> Append(st.hist, m), peerNext |-> m + 1, rekeyMID |-> m,
                      waiting |-> TRUE, inFlight |-> TRUE])
          /\ peer' = [next |-> 0, ask |-> NoAsk]
          /\ tm' = [tm EXCEPT !.ike = TRUE]
          /\ AfterPacket
          /\ UNCHANGED <<run, lease, install, updates, deleted>>

-----------------------------------------------------------------------------
(* processOldIKEPacket: packets on the SPIs of the replaced IKE SA. *)

OldSA == Actor /\ st.oldIKE # <<>>

OldIKEResponse ==
  /\ OldSA /\ st.oldIKE[1].has
  /\ st' = finishOldIKEDelete(st)
  /\ AfterPacket
  /\ UNCHANGED <<run, tm, lease, install, updates, peer, deleted>>

\* The peer repeats the request that created the new IKE SA, because it has
\* not seen the response.  Message ID 0 is rejected before the lookup.
OldIKERetransmit ==
  /\ OldSA /\ st.oldIKE[1].waiting
  /\ IF st.oldIKE[1].rekeyMID = 0
     THEN UNCHANGED st /\ AfterError
     ELSE st' = [st EXCEPT !.oldIKE[1].inFlight = TRUE] /\ AfterPacket
  /\ UNCHANGED <<run, tm, lease, install, updates, peer, deleted>>

\* Any other request of the peer on the old SA is answered; its DELETE ends
\* the retention.
OldIKERequest(isDelete) ==
  /\ OldSA /\ ~st.oldIKE[1].waiting
  /\ st.oldIKE[1].peerNext \in 1..MaxPeerMID
  /\ st' = IF isDelete THEN finishOldIKEDelete(st)
           ELSE [st EXCEPT !.oldIKE[1].hist = Append(@, st.oldIKE[1].peerNext),
                           !.oldIKE[1].peerNext = @ + 1]
  /\ AfterPacket
  /\ UNCHANGED <<run, tm, lease, install, updates, peer, deleted>>

-----------------------------------------------------------------------------
(* The end of Run, and what happens around the actor. *)

\* ctx is cancelled by Session.stop; installChild gives up as well.
Cancel ==
  /\ run = "running" /\ "cancel" \in Inputs
  /\ run' = "cancelled"
  /\ install' = NoInstall
  /\ st' = IF install.by = "local" THEN abandonRekey(st) ELSE st
  /\ UNCHANGED <<rto, oldRto, tm, lease, updates, peer, deleted>>

\* External: the response to the peer's IKE rekey arrives, or is lost.
RekeyResponseArrives ==
  /\ run = "running" /\ st.oldIKE # <<>> /\ st.oldIKE[1].inFlight
  /\ st' = [st EXCEPT !.oldIKE[1].waiting = FALSE, !.oldIKE[1].inFlight = FALSE]
  /\ UNCHANGED <<run, rto, oldRto, tm, lease, install, updates, peer, deleted>>

RekeyResponseLost ==
  /\ run = "running" /\ st.oldIKE # <<>> /\ st.oldIKE[1].inFlight
  /\ st' = [st EXCEPT !.oldIKE[1].inFlight = FALSE]
  /\ UNCHANGED <<run, rto, oldRto, tm, lease, install, updates, peer, deleted>>

\* The wall clock passes leaseDeadline.
DeadlinePasses ==
  /\ run = "running" /\ lease.expiry /\ ~lease.past
  /\ lease' = [lease EXCEPT !.past = TRUE]
  /\ UNCHANGED <<st, run, rto, oldRto, tm, install, updates, peer, deleted>>

\* The outbound codec signals that its sequence numbers run out.
NearWrapSignal ==
  /\ run = "running" /\ "nearWrap" \in Inputs /\ ~tm.wrap
  /\ tm' = [tm EXCEPT !.wrap = TRUE]
  /\ UNCHANGED <<st, run, rto, oldRto, lease, install, updates, peer, deleted>>

-----------------------------------------------------------------------------
RtoStep == RtoStale \/ RtoResend \/ RtoAbandonsRekey \/ RtoAbandonsLease \/ RtoFatal

OldRtoStep == OldRtoResend \/ OldRtoGivesUp

TimerStep == Tick \/ IkeSoft \/ ChildSoft \/ NearWrap \/ RetryTimer \/ LeaseTimer

ResponseStep ==
  \/ ResponseEndsRekey \/ ResponseChildRekey \/ ResponseIKERekey \/ ResponsePlain
  \/ \E expiry, changed \in BOOLEAN : ResponseLeaseRenewed(expiry, changed)
  \/ \E undecodable \in BOOLEAN : ResponseLeaseRefused(undecodable)

InstallStep == InstallEnqueue \/ InstalledLocal \/ InstalledPeer \/ InstallTimeout

PeerStep ==
  \E m \in 0..peer.next :
    /\ PeerRequest(m)
    /\ \E a \in MayAsk(m) :
         \/ PeerUnserved(m, a) \/ PeerEmpty(m, a)
         \/ PeerDeletesIKE(m, a) \/ PeerDeletesChild(m, a)
         \/ \E b \in BOOLEAN : PeerCfgSet(m, a, b) \/ PeerRekeysChild(m, a, b)
                               \/ PeerRekeysIKE(m, a, b)

OldSAStep ==
  \/ OldIKEResponse \/ OldIKERetransmit
  \/ \E isDelete \in BOOLEAN : OldIKERequest(isDelete)

Environment == RekeyResponseArrives \/ RekeyResponseLost \/ DeadlinePasses \/ NearWrapSignal

ActorNext == RtoStep \/ OldRtoStep \/ TimerStep \/ ResponseStep \/ IgnoredPacket
             \/ InstallStep \/ PeerStep \/ OldSAStep \/ Cancel \/ Environment
=============================================================================
