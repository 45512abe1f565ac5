---------------------------- MODULE ControlSystem ----------------------------
(***************************************************************************)
(* The running session: the control actor of Running and the goroutine of  *)
(* DataPlane that applies its updates, composed over the channel between   *)
(* them.  The actor never touches the data plane's state and the data      *)
(* plane never touches the actor's; both touch updates, and the actor      *)
(* reads the acknowledgement.                                              *)
(***************************************************************************)
EXTENDS Running

vars == <<actorVars, planeVars>>

\* The handshake negotiated child 1, with a CP lease or without.
Init == PlaneInit(1) /\ ActorInit("lease" \in Inputs)

ActorStep == ActorNext /\ UNCHANGED planeVars

PlaneStep ==
  /\ WatchControlUpdates
  /\ UNCHANGED <<st, run, rto, oldRto, tm, lease, install, peer, deleted>>

Next == ActorStep \/ PlaneStep

Spec == Init /\ [][Next]_vars

\* The timers of Run fire (time passes, and select is fair among its ready
\* cases), the data-plane goroutine is scheduled, and a wait in installChild
\* ends when its acknowledgement or its two-second timer is there.
Fairness ==
  /\ WF_vars(RtoStep /\ UNCHANGED planeVars)
  /\ WF_vars(InstallStep /\ UNCHANGED planeVars)
  /\ WF_vars(PlaneStep)

FairSpec == Spec /\ Fairness

-----------------------------------------------------------------------------
(* Safety. *)

TypeOK == ActorTypeOK /\ PlaneTypeOK

\* Run never loses track of a request it waits for: while a response is
\* expected there is a checkpoint to retransmit, the retransmission timer is
\* armed for that very message ID, and it is the newest ID given out; the old
\* IKE SA's timer is armed just while its DELETE is unanswered.  (If this
\* failed, the actor would wait forever: tick, rekeys and the lease timer all
\* stand back while HasExpectedResponse is set.)
OutstandingIsTimed ==
  run = "running" =>
    /\ st.has => /\ rto.armed /\ rto.id = st.exp
                 /\ st.req # NoRequest
                 /\ st.next = st.exp + 1
    /\ oldRto.armed <=> OldExpected(st)

\* The actor never builds two new IKE SAs, or a new IKE SA and a new CHILD_SA
\* of its own, at once: a half-open rekey is the one outstanding request, the
\* phase names it, and no replaced IKE SA is still retained; at most one ever
\* is.
OneRekeyAtATime ==
  /\ st.rekey # NoRekey =>
       /\ st.has /\ st.oldIKE = <<>>
       /\ st.req.kind = (IF st.rekey.kind = "ike" THEN "ikeRekey" ELSE "childRekey")
  /\ st.phase = "RekeyIkeRequesting" <=> st.rekey.kind = "ike"
  /\ st.phase = "RekeyChildRequesting" <=> st.rekey.kind = "child"
  /\ Len(st.oldIKE) <= 1
  /\ st.phase = "RekeyIkeDeletingOld" <=> st.oldIKE # <<>>

\* The two children of a handoff stay apart: the retained child is never the
\* active one, the phase that waits for its DELETE has one, and a half-open
\* child rekey still replaces the active child unless the peer deleted that.
HandoffConsistent ==
  /\ st.old # NoChild => st.old # st.active
  /\ st.phase = "RekeyChildDeletingOld" => st.old # NoChild
  /\ st.rekey.kind = "child" => st.active \in {st.rekey.old, NoChild}

\* Make before break: what the actor regards as the active child can be
\* decrypted, and the codec that encrypts belongs to a child whose answers can
\* be decrypted, however late the data plane applies its updates.
ActiveDecryptable ==
  /\ st.active # NoChild => st.active \in inTable
  /\ outCodec \in inTable

\* "This must never happen before the data-plane ack": while the actor asks the
\* peer to delete a replaced child, nothing is encrypted under that child.
DeleteAfterSwitch == st.req.kind = "childDelete" => outCodec # st.req.child

\* A request of the peer that was answered is never executed again, however
\* often and however late it is repeated: it is found in InboundHistory or is
\* older than everything in it.
DuplicatesInert == run = "running" => \A m \in 0..peer.next : m < peer.next => ~Fresh(m)

\* leasePending means that the outstanding request is the renewal, so that the
\* next response or timeout is handled as the renewal's.  It outlives its request
\* in one case only: the peer has replaced the IKE SA on which the renewal was
\* sent, which drops the request and leaves leasePending set.
PendingIsRenewal ==
  run = "running" /\ lease.pending =>
    \/ st.has /\ st.req.kind = "lease" /\ lease.on = st.id
    \/ lease.on < st.id

\* Every update has been applied and the actor is not waiting for one.
Settled == run = "running" /\ install = NoInstall /\ updates = <<>> /\ storing = NoChild

\* Once every update is applied, the data plane encrypts under the child the
\* actor regards as active, and the tunnel has ended if there is none.
PlaneFollows ==
  Settled => IF st.active = NoChild THEN ended ELSE outCodec = st.active /\ ~ended

-----------------------------------------------------------------------------
(* Action properties. *)

\* What a step may do to the SAs in use: the active child only gives way to a
\* child the data plane has acknowledged, or to a DELETE of the peer; the IKE
\* SA only to its successor, which retains it.
SwitchesAreAcknowledged ==
  [][/\ st'.active # st.active => st'.active \in {acked, NoChild}
     /\ st'.id # st.id => st'.id = st.id + 1 /\ Len(st'.oldIKE) = 1 /\ st'.oldIKE[1].id = st.id
    ]_vars

-----------------------------------------------------------------------------
(* Liveness. *)

\* No request waits forever: it is answered, given up or it ends the session,
\* whatever else arrives meanwhile, and the actor is free for the next one.
RequestsResolve == []<>(run # "running" \/ ~st.has)
=============================================================================
