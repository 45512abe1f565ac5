--------------------------- MODULE ControlProofs ----------------------------
(***************************************************************************)
(* What ControlSystem's safety properties rest on: the inductive invariant *)
(* IInv of the running session, what the helpers of Running make of a      *)
(* State, that every step preserves IInv (the steps that answer what the   *)
(* actor itself began, then those that answer the peer and the caller),    *)
(* and the theorems about every behaviour of the specification.            *)
(***************************************************************************)
EXTENDS ControlSystem, TLAPS

-----------------------------------------------------------------------------
(* The inductive invariant. *)

\* The actor's State by itself.
CoreOK(s) ==
  /\ s.has => s.req # NoRequest /\ s.next = s.exp + 1
  /\ s.rekey # NoRekey =>
       /\ s.has /\ s.oldIKE = <<>>
       /\ s.req.kind = (IF s.rekey.kind = "ike" THEN "ikeRekey" ELSE "childRekey")
  /\ s.rekey.kind = "none" => s.rekey = NoRekey
  /\ s.phase = "RekeyIkeRequesting" <=> s.rekey.kind = "ike"
  /\ s.phase = "RekeyChildRequesting" <=> s.rekey.kind = "child"
  /\ s.phase = "RekeyIkeDeletingOld" <=> s.oldIKE # <<>>
  /\ Len(s.oldIKE) <= 1

\* The children the State names.
ChildrenOK(s) ==
  /\ s.old # NoChild => s.old # s.active
  /\ s.phase = "RekeyChildDeletingOld" => s.old # NoChild
  /\ s.rekey.kind = "child" => s.active \in {s.rekey.old, NoChild}
  /\ s.active <= s.spis /\ s.old <= s.spis
  /\ s.req.kind = "childDelete" => s.req.child <= s.spis

\* The timers follow the outstanding requests.
TimersOK ==
  run = "running" =>
    /\ st.has => rto.armed /\ rto.id = st.exp
    /\ oldRto.armed <=> OldExpected(st)

\* What the rest of a handler finds when its wait in installChild ends.
InstallOK ==
  install # NoInstall =>
    /\ install.stage \in {"enqueue", "wait"} /\ install.by \in {"local", "peer"}
    /\ install.child = st.spis
    /\ st.active # NoChild /\ st.active < st.spis /\ st.old < st.spis
    /\ st.req.kind = "childDelete" => st.req.child < st.spis
    /\ install.by = "local" => st.rekey.kind = "child" /\ st.active = st.rekey.old
    /\ install.by = "peer" => st.rekey.kind # "child" /\ install.mid = peer.next

\* The newest remembered response is the one to the peer's last request.
NumbersOK ==
  run = "running" /\ peer.next # 0 =>
    st.hist # <<>> /\ st.hist[Len(st.hist)] = peer.next - 1

\* What the peer repeats is something it could ask.
AskOK ==
  peer.ask # NoAsk =>
    /\ peer.ask.kind \in Inputs
    /\ peer.ask.kind = "rekeyChild" => peer.ask.child # NoChild

\* The codecs in use.
CodecsOK ==
  /\ outCodec = current /\ outCodec \in inTable
  /\ acked # NoChild => outCodec = acked
  /\ storing # NoChild => storing \in inTable /\ storing > acked
  /\ acked <= st.spis /\ storing <= st.spis
  /\ st.active # NoChild => st.active \in inTable
  /\ install # NoInstall =>
       /\ acked = install.child => install.child \in inTable
       /\ install.stage = "enqueue" => acked < install.child /\ storing < install.child
  /\ st.req.kind = "childDelete" =>
       outCodec # st.req.child /\ (storing # NoChild => storing # st.req.child)

\* One update in the channel, given State s, installation n, the child a
\* acknowledged last and the child o being stored: a deletion names neither the
\* child in use nor the one being installed, an installation is still to come.
UpdateOK(u, s, n, a, o) ==
  /\ u.child <= s.spis
  /\ u.kind = "deleted" =>
       /\ s.active # NoChild => u.child # s.active
       /\ n # NoInstall => u.child # n.child
  /\ u.kind = "installed" =>
       /\ u.child > a /\ u.child > o
       /\ n.stage = "enqueue" => u.child < n.child
       /\ s.req.kind = "childDelete" => u.child # s.req.child

\* Installations are applied in the order of their children.
Ordered(q) ==
  \A i, j \in 1..Len(q) :
    i < j /\ q[i].kind = "installed" /\ q[j].kind = "installed" => q[i].child < q[j].child

QueueOK ==
  /\ \A i \in 1..Len(updates) : UpdateOK(updates[i], st, install, acked, storing)
  /\ Ordered(updates)

IInv ==
  /\ TypeOK /\ CoreOK(st) /\ ChildrenOK(st) /\ TimersOK /\ InstallOK
  /\ NumbersOK /\ AskOK /\ PendingIsRenewal /\ CodecsOK /\ QueueOK

-----------------------------------------------------------------------------
(* What the helpers of Running make of a State, field by field. *)

RequestType == [kind : Requests, child : Nat]
RekeyType   == [kind : {"none", "child", "ike"}, old : Nat]

\* The constants of the model have their types.
LEMMA ConstantTypes ==
  /\ NoRequest \in RequestType /\ NoRekey \in RekeyType /\ NoChild \in Nat
  /\ NoRequest.kind = "none" /\ NoRekey.kind = "none" /\ NoChild = 0
  /\ {"Running", "RekeyChildRequesting", "RekeyChildDeletingOld",
      "RekeyIkeRequesting", "RekeyIkeDeletingOld", "Stopped"} \subseteq Phases
  /\ <<>> \in Seq(Nat) /\ <<>> \in Seq(OldContext)
  BY DEF NoRequest, NoRekey, NoChild, Requests, RequestType, RekeyType, Phases

\* The peer is not asking for anything.
LEMMA NoAskTyped == NoAsk \in PeerAsk
  BY Zenon DEF NoAsk, PeerAsk, PeerKinds, Forms, NoChild

\* The fields of a State have their types.
LEMMA FieldTypes ==
  ASSUME NEW s \in StateType
  PROVE  /\ s.phase \in Phases /\ s.id \in Nat /\ s.next \in Nat /\ s.exp \in Nat
         /\ s.has \in BOOLEAN /\ s.req \in RequestType /\ s.req.child \in Nat /\ s.rekey \in RekeyType
         /\ s.active \in Nat /\ s.old \in Nat /\ s.oldIKE \in Seq(OldContext)
         /\ s.hist \in Seq(Nat) /\ s.spis \in Nat
  BY Zenon DEF StateType, RequestType, RekeyType

\* beginRequest takes the next message ID.
LEMMA BeginRequestFields ==
  ASSUME NEW s \in StateType, NEW k \in Requests, NEW c \in Nat
  PROVE  LET t == BeginRequest(s, k, c) IN
         /\ t \in StateType
         /\ t.phase = s.phase /\ t.id = s.id /\ t.next = s.next + 1
         /\ t.exp = s.next /\ t.has /\ t.req.kind = k /\ t.req.child = c
         /\ t.rekey = s.rekey /\ t.active = s.active /\ t.old = s.old
         /\ t.oldIKE = s.oldIKE /\ t.hist = s.hist /\ t.spis = s.spis
<1>. DEFINE r == [kind |-> k, child |-> c]
<1>1. r \in RequestType /\ r.kind = k /\ r.child = c /\ s.next \in Nat /\ s.next + 1 \in Nat
  BY DEF StateType, RequestType
<1>2. BeginRequest(s, k, c) = [s EXCEPT !.exp = s.next, !.next = s.next + 1, !.has = TRUE, !.req = r]
  BY Zenon DEF BeginRequest
<1>. HIDE DEF r
<1>3. BeginRequest(s, k, c) \in StateType
  BY <1>1, <1>2, ZenonT(30) DEF StateType, RequestType
<1>4. BeginRequest(s, k, c).req = r
  BY <1>1, <1>2, Zenon DEF StateType
<1>. QED  BY <1>1, <1>2, <1>3, <1>4 DEF StateType

\* An answered request is no longer outstanding.
LEMMA CompletedFields ==
  ASSUME NEW s \in StateType
  PROVE  LET t == Completed(s) IN
         /\ t \in StateType
         /\ t.phase = s.phase /\ t.id = s.id /\ t.next = s.next /\ t.exp = s.exp
         /\ t.has = FALSE /\ t.req = NoRequest /\ t.rekey = s.rekey
         /\ t.active = s.active /\ t.old = s.old /\ t.oldIKE = s.oldIKE
         /\ t.hist = s.hist /\ t.spis = s.spis
  BY ConstantTypes, Zenon DEF Completed, StateType, RequestType

\* A new inbound SPI is the next number.
LEMMA AllocateFields ==
  ASSUME NEW s \in StateType
  PROVE  LET t == [s EXCEPT !.spis = @ + 1] IN
         /\ t \in StateType
         /\ t.phase = s.phase /\ t.id = s.id /\ t.next = s.next /\ t.exp = s.exp
         /\ t.has = s.has /\ t.req = s.req /\ t.rekey = s.rekey
         /\ t.active = s.active /\ t.old = s.old /\ t.oldIKE = s.oldIKE
         /\ t.hist = s.hist /\ t.spis = s.spis + 1
<1>1. s.spis + 1 \in Nat
  BY FieldTypes
<1>. QED  BY <1>1, Zenon DEF StateType

\* abandonRekey returns to Running without a retained SA.
LEMMA AbandonRekeyFields ==
  ASSUME NEW s \in StateType
  PROVE  LET t == abandonRekey(s) IN
         /\ t \in StateType
         /\ t.phase = "Running" /\ t.id = s.id /\ t.next = s.next /\ t.exp = s.exp
         /\ t.has = FALSE /\ t.req = NoRequest /\ t.rekey = NoRekey
         /\ t.active = s.active /\ t.old = NoChild /\ t.oldIKE = <<>>
         /\ t.hist = s.hist /\ t.spis = s.spis
  BY ConstantTypes, Zenon DEF abandonRekey, StateType, RequestType, RekeyType

\* finishOldIKEDelete drops the retained IKE SA.
LEMMA FinishOldIKEDeleteFields ==
  ASSUME NEW s \in StateType
  PROVE  LET t == finishOldIKEDelete(s) IN
         /\ t \in StateType
         /\ t.phase = "Running" /\ t.id = s.id /\ t.next = s.next /\ t.exp = s.exp
         /\ t.has = s.has /\ t.req = s.req /\ t.rekey = s.rekey
         /\ t.active = s.active /\ t.old = s.old /\ t.oldIKE = <<>>
         /\ t.hist = s.hist /\ t.spis = s.spis
  BY ConstantTypes, Zenon DEF finishOldIKEDelete, StateType

\* ClearSession leaves nothing to negotiate.
LEMMA ClearSessionFields ==
  ASSUME NEW s \in StateType
  PROVE  LET t == ClearSession(s) IN
         /\ t \in StateType
         /\ t.phase = "Stopped" /\ t.id = s.id /\ t.next = s.next /\ t.exp = s.exp
         /\ t.has = FALSE /\ t.req = NoRequest /\ t.rekey = NoRekey
         /\ t.active = NoChild /\ t.old = NoChild /\ t.oldIKE = <<>>
         /\ t.hist = <<>> /\ t.spis = s.spis
  BY ConstantTypes, ZenonT(30) DEF ClearSession, StateType, RequestType, RekeyType

\* SwitchIKE numbers afresh and retains the replaced SA.
LEMMA SwitchIKEFields ==
  ASSUME NEW s \in StateType, NEW ctx \in OldContext
  PROVE  LET t == SwitchIKE(s, ctx) IN
         /\ t \in StateType
         /\ t.phase = "RekeyIkeDeletingOld" /\ t.id = s.id + 1 /\ t.next = 0
         /\ t.exp = 0 /\ t.has = FALSE /\ t.req = NoRequest /\ t.rekey = NoRekey
         /\ t.active = s.active /\ t.old = s.old /\ t.oldIKE = Append(s.oldIKE, ctx)
         /\ t.hist = <<>> /\ t.spis = s.spis
<1>1. Append(s.oldIKE, ctx) \in Seq(OldContext) /\ s.id + 1 \in Nat /\ 0 \in Nat
  BY DEF StateType
<1>. QED  BY <1>1, ConstantTypes, ZenonT(60) DEF SwitchIKE, StateType, RequestType, RekeyType

\* rememberResponse puts the message ID last and keeps HistoryCap entries.
LEMMA RememberResponseFields ==
  ASSUME NEW s \in StateType, Len(s.hist) <= HistoryCap, NEW m \in Nat
  PROVE  LET t == rememberResponse(s, m) IN
         /\ t \in StateType
         /\ t.phase = s.phase /\ t.id = s.id /\ t.next = s.next /\ t.exp = s.exp
         /\ t.has = s.has /\ t.req = s.req /\ t.rekey = s.rekey
         /\ t.active = s.active /\ t.old = s.old /\ t.oldIKE = s.oldIKE
         /\ t.spis = s.spis
         /\ t.hist # <<>> /\ t.hist[Len(t.hist)] = m /\ Len(t.hist) <= HistoryCap
<1>. DEFINE h == IF Len(s.hist) < HistoryCap THEN Append(s.hist, m) ELSE Append(Tail(s.hist), m)
<1>1. s.hist \in Seq(Nat) /\ HistoryCap \in Nat \ {0}
  BY RunningAssumption, Zenon DEF StateType
<1>2. h \in Seq(Nat) /\ Len(h) <= HistoryCap /\ h # <<>> /\ h[Len(h)] = m
  BY <1>1, SMTT(30)
<1>3. rememberResponse(s, m) = [s EXCEPT !.hist = h]
  BY Zenon DEF rememberResponse
<1>. HIDE DEF h
<1>. QED  BY <1>2, <1>3, ZenonT(30) DEF StateType

\* Giving up a rekey leaves a consistent State.
LEMMA AbandonRekeyOK ==
  ASSUME NEW s \in StateType, ChildrenOK(s)
  PROVE  CoreOK(abandonRekey(s)) /\ ChildrenOK(abandonRekey(s))
<1>. DEFINE t == abandonRekey(s)
<1>1. /\ t.phase = "Running" /\ t.rekey = NoRekey /\ t.req = NoRequest /\ ~t.has
      /\ t.oldIKE = <<>> /\ t.old = NoChild /\ t.active = s.active /\ t.spis = s.spis
  BY AbandonRekeyFields, Zenon
<1>2. s.active \in Nat /\ s.spis \in Nat
  BY Zenon DEF StateType
<1>. HIDE DEF t
<1>3. CoreOK(t)
  BY <1>1, ConstantTypes DEF CoreOK
<1>4. ChildrenOK(t)
  BY <1>1, <1>2, ConstantTypes DEF ChildrenOK
<1>. QED  BY <1>3, <1>4, Zenon DEF t

\* So does completing a request that is not a rekey.
LEMMA CompletedOK ==
  ASSUME NEW s \in StateType, CoreOK(s), ChildrenOK(s), s.rekey = NoRekey
  PROVE  CoreOK(Completed(s)) /\ ChildrenOK(Completed(s))
  BY CompletedFields, ConstantTypes, Zenon DEF CoreOK, ChildrenOK

\* Remembering a response touches nothing but the history.
LEMMA RememberResponseOK ==
  ASSUME NEW s \in StateType, CoreOK(s), ChildrenOK(s), Len(s.hist) <= HistoryCap, NEW m \in Nat
  PROVE  CoreOK(rememberResponse(s, m)) /\ ChildrenOK(rememberResponse(s, m))
  BY RememberResponseFields, ZenonT(60) DEF CoreOK, ChildrenOK

\* The retained child is gone, and with it the phase that waits for its DELETE.
DropOld(s) ==
  [s EXCEPT !.old = NoChild, !.phase = IF @ = "RekeyChildDeletingOld" THEN "Running" ELSE @]

\* Dropping the retained child touches nothing else.
LEMMA DropOldFields ==
  ASSUME NEW s \in StateType
  PROVE  LET t == DropOld(s) IN
         /\ t \in StateType
         /\ t.phase = (IF s.phase = "RekeyChildDeletingOld" THEN "Running" ELSE s.phase)
         /\ t.id = s.id /\ t.next = s.next /\ t.exp = s.exp
         /\ t.has = s.has /\ t.req = s.req /\ t.rekey = s.rekey
         /\ t.active = s.active /\ t.old = NoChild /\ t.oldIKE = s.oldIKE
         /\ t.hist = s.hist /\ t.spis = s.spis
  BY ConstantTypes, Zenon DEF DropOld, StateType

\* Dropping the retained child leaves a consistent State.
LEMMA DropOldOK ==
  ASSUME NEW s \in StateType, CoreOK(s), ChildrenOK(s)
  PROVE  CoreOK(DropOld(s)) /\ ChildrenOK(DropOld(s))
  BY DropOldFields, ConstantTypes, FieldTypes DEF CoreOK, ChildrenOK

\* The end of the retention of an IKE SA.
LEMMA FinishOldIKEDeleteOK ==
  ASSUME NEW s \in StateType, CoreOK(s), ChildrenOK(s), s.oldIKE # <<>>
  PROVE  CoreOK(finishOldIKEDelete(s)) /\ ChildrenOK(finishOldIKEDelete(s))
  BY FinishOldIKEDeleteFields, ConstantTypes DEF CoreOK, ChildrenOK

\* A finished IKE rekey retains exactly the replaced SA.
LEMMA SwitchIKEOK ==
  ASSUME NEW s \in StateType, CoreOK(s), ChildrenOK(s), NEW ctx \in OldContext, s.oldIKE = <<>>
  PROVE  LET t == SwitchIKE(s, ctx) IN
         /\ CoreOK(t) /\ ChildrenOK(t) /\ Len(t.oldIKE) = 1 /\ t.oldIKE[1] = ctx
<1>. DEFINE t == SwitchIKE(s, ctx)
<1>1. /\ t.oldIKE = Append(s.oldIKE, ctx) /\ t.phase = "RekeyIkeDeletingOld" /\ ~t.has
      /\ t.rekey = NoRekey /\ t.req = NoRequest
      /\ t.active = s.active /\ t.old = s.old /\ t.spis = s.spis
  BY SwitchIKEFields, Zenon
<1>. HIDE DEF t
<1>2. Len(t.oldIKE) = 1 /\ t.oldIKE[1] = ctx /\ t.oldIKE # <<>>
  BY <1>1 DEF StateType
<1>3. CoreOK(t)
  BY <1>1, <1>2, ConstantTypes DEF CoreOK
<1>4. ChildrenOK(t)
  BY <1>1, ConstantTypes, Zenon DEF ChildrenOK
<1>. QED  BY <1>2, <1>3, <1>4, Zenon DEF t

\* Updating the retained IKE SA in place.
LEMMA OldContextFields ==
  ASSUME NEW s \in StateType, s.oldIKE # <<>>, NEW c \in OldContext
  PROVE  LET t == [s EXCEPT !.oldIKE = [s.oldIKE EXCEPT ![1] = c]] IN
         /\ t \in StateType
         /\ t.phase = s.phase /\ t.id = s.id /\ t.next = s.next /\ t.exp = s.exp
         /\ t.has = s.has /\ t.req = s.req /\ t.rekey = s.rekey /\ t.active = s.active
         /\ t.old = s.old /\ t.hist = s.hist /\ t.spis = s.spis
         /\ t.oldIKE # <<>> /\ Len(t.oldIKE) = Len(s.oldIKE) /\ t.oldIKE[1] = c
<1>. DEFINE q == [s.oldIKE EXCEPT ![1] = c]
<1>1. s.oldIKE \in Seq(OldContext)
  BY Zenon DEF StateType
<1>2. q \in Seq(OldContext) /\ Len(q) = Len(s.oldIKE) /\ q # <<>> /\ q[1] = c
  BY <1>1
<1>. HIDE DEF q
<1>3. [s EXCEPT !.oldIKE = q] \in StateType
  BY <1>2, Zenon DEF StateType
<1>4. [s EXCEPT !.oldIKE = q].oldIKE = q
  BY Zenon DEF StateType
<1>. QED  BY <1>2, <1>3, <1>4, Zenon DEF q, StateType

\* Updating it in place leaves a consistent State.
LEMMA OldContextOK ==
  ASSUME NEW s \in StateType, CoreOK(s), ChildrenOK(s), s.oldIKE # <<>>, NEW c \in OldContext
  PROVE  LET t == [s EXCEPT !.oldIKE = [s.oldIKE EXCEPT ![1] = c]] IN CoreOK(t) /\ ChildrenOK(t)
<1>. DEFINE t == [s EXCEPT !.oldIKE = [s.oldIKE EXCEPT ![1] = c]]
<1>1. /\ t.phase = s.phase /\ t.next = s.next /\ t.exp = s.exp /\ t.has = s.has
      /\ t.req = s.req /\ t.rekey = s.rekey /\ t.active = s.active /\ t.old = s.old
      /\ t.spis = s.spis /\ t.oldIKE # <<>> /\ Len(t.oldIKE) = Len(s.oldIKE)
  BY OldContextFields, ZenonT(60)
<1>. HIDE DEF t
<1>2. CoreOK(t) /\ ChildrenOK(t)
  BY <1>1, Zenon DEF CoreOK, ChildrenOK
<1>. QED  BY <1>2, Zenon DEF t

-----------------------------------------------------------------------------
(* The other variables of the actor. *)

RtoType     == [armed : BOOLEAN, id : Nat, retries : 0..MaxRetries, backoff : 0..MaxBackoff]
OldRtoType  == [armed : BOOLEAN, retries : 0..MaxRetries]
TmType      == [ike : BOOLEAN, child : BOOLEAN, retry : BOOLEAN, wrap : BOOLEAN]
LeaseType   == [timer : BOOLEAN, pending : BOOLEAN, expiry : BOOLEAN, past : BOOLEAN, on : Nat]
InstallType == [stage : {"none", "enqueue", "wait"}, by : {"none", "local", "peer"},
                child : Nat, mid : Nat]
PeerType    == [next : Nat, ask : PeerAsk]

\* Arming, disarming and resetting the retransmission timer.
LEMMA RtoTypes ==
  ASSUME rto \in RtoType, NEW m \in Nat
  PROVE  /\ Armed(m) \in RtoType /\ Armed(m).armed /\ Armed(m).id = m
         /\ [armed |-> FALSE, id |-> 0, retries |-> 0, backoff |-> 0] \in RtoType
         /\ [rto EXCEPT !.armed = FALSE] \in RtoType
         /\ [rto EXCEPT !.armed = FALSE, !.retries = 0, !.backoff = 0] \in RtoType
         /\ [rto EXCEPT !.armed = TRUE, !.id = m, !.retries = 0] \in RtoType
<1>. 0 \in Nat /\ 0 \in 0..MaxRetries /\ 0 \in 0..MaxBackoff
  BY RunningAssumption
<1>. QED  BY Zenon DEF Armed, RtoType

\* The lifetime, retry and near-wrap triggers.
LEMMA TmTypes ==
  ASSUME tm \in TmType
  PROVE  /\ [tm EXCEPT !.ike = TRUE] \in TmType /\ [tm EXCEPT !.ike = FALSE] \in TmType
         /\ [tm EXCEPT !.child = TRUE] \in TmType /\ [tm EXCEPT !.child = FALSE] \in TmType
         /\ [tm EXCEPT !.retry = TRUE] \in TmType /\ [tm EXCEPT !.retry = FALSE] \in TmType
         /\ [tm EXCEPT !.wrap = TRUE] \in TmType /\ [tm EXCEPT !.wrap = FALSE] \in TmType
  BY Zenon DEF TmType

\* A failed renewal, and a configuration with or without an expiry.
LEMMA LeaseTypes ==
  ASSUME lease \in LeaseType, NEW b \in BOOLEAN
  PROVE  /\ LeaseRetried \in LeaseType /\ ~LeaseRetried.pending
         /\ LeaseArmed(b) \in LeaseType /\ LeaseArmed(b).pending = lease.pending /\ LeaseArmed(b).on = lease.on
         /\ [LeaseArmed(b) EXCEPT !.pending = FALSE] \in LeaseType
         /\ ~[LeaseArmed(b) EXCEPT !.pending = FALSE].pending
<1>1. LeaseRetried \in LeaseType /\ ~LeaseRetried.pending
  BY Zenon DEF LeaseRetried, LeaseType
<1>2. LeaseArmed(b) \in LeaseType /\ LeaseArmed(b).pending = lease.pending /\ LeaseArmed(b).on = lease.on
  BY ZenonT(30) DEF LeaseArmed, LeaseType
<1>. QED  BY <1>1, <1>2, Zenon DEF LeaseType

-----------------------------------------------------------------------------
(* What Run does after a packet, after an error, and around the data plane. *)

\* AfterPacket keeps every outstanding request timed: one that was outstanding
\* before, or one that the packet started in its place.
LEMMA PacketTimers ==
  ASSUME IInv, run = "running", st' \in StateType, AfterPacket,
         st'.has => st.has /\ st'.exp \in {st.exp, st.next}
  PROVE  TimersOK' /\ rto' \in RtoType /\ oldRto' \in OldRtoType
<1>1. rto \in RtoType /\ oldRto \in OldRtoType /\ st'.exp \in Nat /\ st.exp \in Nat
  BY Zenon DEF IInv, TypeOK, ActorTypeOK, RtoType, OldRtoType, StateType
<1>2. rto' \in RtoType
  BY <1>1, RtoTypes, Zenon DEF AfterPacket
<1>3. oldRto' \in OldRtoType /\ (oldRto'.armed <=> OldExpected(st'))
  <2>1. OldExpected(st') \in BOOLEAN
    BY Zenon DEF OldExpected
  <2>2. oldRto' = [oldRto EXCEPT !.armed = OldExpected(st')]
    BY Zenon DEF AfterPacket
  <2>. QED  BY <1>1, <2>1, <2>2, Zenon DEF OldRtoType
<1>4. ASSUME st'.has PROVE rto'.armed /\ rto'.id = st'.exp
  <2>1. st.has /\ rto.armed /\ rto.id = st.exp /\ st.next = st.exp + 1
    BY <1>4, Zenon DEF IInv, TimersOK, CoreOK
  <2>2. CASE rto.id # st'.exp
    BY <1>1, <1>4, <2>2, RtoTypes, Zenon DEF AfterPacket
  <2>3. CASE rto.id = st'.exp
    BY <1>4, <2>1, <2>3, Zenon DEF AfterPacket
  <2>. QED  BY <2>2, <2>3, Zenon
<1>. QED  BY <1>2, <1>3, <1>4, Zenon DEF TimersOK, OldExpected

\* After an error the timers are right as they are if nothing was started.
LEMMA ErrorTimers ==
  ASSUME IInv, run = "running", AfterError,
         st'.has => st.has /\ st'.exp = st.exp,
         OldExpected(st') <=> OldExpected(st)
  PROVE  TimersOK' /\ rto' \in RtoType /\ oldRto' \in OldRtoType
  BY Zenon DEF IInv, TypeOK, ActorTypeOK, RtoType, OldRtoType, AfterError, TimersOK, OldExpected

\* An update the actor may offer: the deletion of a child that is neither in
\* use nor being installed, or a configuration.
Harmless(u) ==
  /\ u \in Update /\ u.kind # "installed" /\ u.child <= st.spis
  /\ u.kind = "deleted" => install = NoInstall /\ (st'.active # NoChild => u.child # st'.active)

\* A step of the actor that takes no new child into use does not disturb the
\* data plane, whatever harmless update it offers.
LEMMA ActorKeepsPlane ==
  ASSUME IInv, UNCHANGED planeVars, install' = install, st'.spis = st.spis,
         st'.active \in {st.active, NoChild},
         st'.req = st.req \/ st'.req.kind # "childDelete",
         updates' = updates \/ \E u : Harmless(u) /\ Offer(u)
  PROVE  CodecsOK' /\ QueueOK' /\ PlaneTypeOK'
<1>. UNCHANGED <<acked, inTable, outCodec, current, ended, storing>>
  BY Zenon DEF planeVars
<1>1. CodecsOK'
  BY Zenon DEF IInv, CodecsOK
<1>2. \A u : UpdateOK(u, st, install, acked, storing) => UpdateOK(u, st', install', acked', storing')
  BY Zenon DEF UpdateOK
<1>3. CASE updates' = updates
  <2>1. QueueOK'
    BY <1>2, <1>3, Zenon DEF IInv, QueueOK, Ordered
  <2>. QED  BY <1>1, <1>3, <2>1, Zenon DEF IInv, TypeOK, PlaneTypeOK
<1>4. CASE \E u : Harmless(u) /\ Offer(u)
  <2>1. PICK u : Harmless(u) /\ Offer(u)
    BY <1>4, Zenon
  <2>2. CASE HasRoom
    <3>. updates \in Seq(Update) /\ u \in Update /\ UpdateCap \in Nat
      BY <2>1, UpdateCapAssumption, Zenon DEF IInv, TypeOK, PlaneTypeOK, Harmless
    <3>1. updates' = Append(updates, u) /\ Len(updates) < UpdateCap
      BY <2>1, <2>2, Zenon DEF Offer, HasRoom
    <3>2. UpdateOK(u, st', install', acked', storing')
      BY <2>1, Zenon DEF Harmless, UpdateOK
    <3>3. \A i \in 1..Len(updates') : UpdateOK(updates'[i], st', install', acked', storing')
      BY <1>2, <3>1, <3>2 DEF IInv, QueueOK
    <3>4. Ordered(updates')
      BY <2>1, <3>1 DEF IInv, QueueOK, Ordered, Harmless
    <3>5. PlaneTypeOK'
      BY <3>1 DEF IInv, TypeOK, PlaneTypeOK
    <3>. QED  BY <1>1, <3>3, <3>4, <3>5, Zenon DEF QueueOK
  <2>3. CASE ~HasRoom
    BY <1>3, <2>1, <2>3, Zenon DEF Offer
  <2>. QED  BY <2>2, <2>3, Zenon
<1>. QED  BY <1>3, <1>4, Zenon

-----------------------------------------------------------------------------
(* Frames: what steps that leave parts of the state alone preserve. *)

\* The types as the lemmas above use them.
LEMMA Typed ==
  ASSUME IInv
  PROVE  /\ st \in StateType /\ Len(st.hist) <= HistoryCap
         /\ run \in {"running", "clean", "failed", "cancelled"}
         /\ rto \in RtoType /\ oldRto \in OldRtoType /\ tm \in TmType /\ lease \in LeaseType
         /\ install \in InstallType /\ peer \in PeerType /\ deleted \in SUBSET Nat
  BY Zenon DEF IInv, TypeOK, ActorTypeOK, RtoType, OldRtoType, TmType, LeaseType, InstallType, PeerType

\* The types of the next state, put together.
LEMMA TypedNext ==
  ASSUME st' \in StateType, Len(st'.hist) <= HistoryCap,
         run' \in {"running", "clean", "failed", "cancelled"},
         rto' \in RtoType, oldRto' \in OldRtoType, tm' \in TmType, lease' \in LeaseType,
         install' \in InstallType, peer' \in PeerType, deleted' \in SUBSET Nat, PlaneTypeOK'
  PROVE  TypeOK'
  BY Zenon DEF TypeOK, ActorTypeOK, RtoType, OldRtoType, TmType, LeaseType, InstallType, PeerType

\* No handler is waiting.
LEMMA NotInstalling ==
  ASSUME install' = NoInstall
  PROVE  InstallOK' /\ install' \in InstallType
  BY Zenon DEF InstallOK, NoInstall, InstallType, NoChild

\* Nothing arrives from the peer and no response is remembered.
LEMMA SamePeer ==
  ASSUME IInv, peer' = peer, st'.hist = st.hist, run' = "running" => run = "running"
  PROVE  NumbersOK' /\ AskOK' /\ peer' \in PeerType
  BY Typed, Zenon DEF IInv, NumbersOK, AskOK

\* The State, the installation, the peer and the data plane stay as they are.
LEMMA SameState ==
  ASSUME IInv, UNCHANGED <<st, install, updates, peer, planeVars>>,
         run' = "running" => run = "running"
  PROVE  /\ st' \in StateType /\ Len(st'.hist) <= HistoryCap
         /\ CoreOK(st') /\ ChildrenOK(st') /\ InstallOK' /\ install' \in InstallType
         /\ NumbersOK' /\ AskOK' /\ peer' \in PeerType
         /\ CodecsOK' /\ QueueOK' /\ PlaneTypeOK'
<1>1. CodecsOK' /\ QueueOK' /\ PlaneTypeOK'
  BY ActorKeepsPlane, Zenon
<1>2. NumbersOK' /\ AskOK' /\ peer' \in PeerType
  BY SamePeer, Zenon
<1>3. InstallOK'
  BY Zenon DEF IInv, InstallOK
<1>. QED  BY <1>1, <1>2, <1>3, Typed, Zenon DEF IInv

-----------------------------------------------------------------------------
(* What handlers have in common. *)

\* A handler that takes no child into use and ends within its step.
LEMMA Handled ==
  ASSUME IInv, Actor, UNCHANGED <<planeVars, install>>,
         st' \in StateType, Len(st'.hist) <= HistoryCap, CoreOK(st'), ChildrenOK(st'),
         st'.spis = st.spis, st'.active \in {st.active, NoChild},
         st'.req = st.req \/ st'.req.kind # "childDelete",
         updates' = updates \/ \E u : Harmless(u) /\ Offer(u),
         run' \in {"running", "clean", "failed", "cancelled"},
         TimersOK', rto' \in RtoType, oldRto' \in OldRtoType, tm' \in TmType, lease' \in LeaseType,
         peer' \in PeerType, NumbersOK', AskOK', deleted' \in SUBSET Nat, PendingIsRenewal'
  PROVE  IInv'
<1>1. CodecsOK' /\ QueueOK' /\ PlaneTypeOK'
  BY ActorKeepsPlane, Zenon
<1>2. InstallOK' /\ install' \in InstallType
  BY NotInstalling, Zenon DEF Actor
<1>3. TypeOK'
  BY <1>1, <1>2, TypedNext, Zenon
<1>. QED  BY <1>1, <1>2, <1>3, Zenon DEF IInv

\* A handler that has allocated the SPI of a new child and waits for the data
\* plane, after it made State s of st.
LEMMA ChildAllocated ==
  ASSUME IInv, Actor, UNCHANGED <<planeVars, run, rto, oldRto, tm, lease, updates, deleted>>,
         NEW s \in StateType, CoreOK(s), ChildrenOK(s), Len(s.hist) <= HistoryCap,
         s.spis = st.spis, s.active = st.active, s.active # NoChild,
         s.req = st.req \/ s.req.kind # "childDelete",
         s.has => st.has /\ s.exp = st.exp, OldExpected(s) <=> OldExpected(st),
         st' = [s EXCEPT !.spis = @ + 1],
         NEW by \in {"local", "peer"}, NEW mid \in Nat,
         install' = [stage |-> "enqueue", by |-> by, child |-> st.spis + 1, mid |-> mid],
         by = "local" => s.rekey.kind = "child" /\ s.active = s.rekey.old,
         by = "peer" => s.rekey.kind # "child" /\ mid = peer'.next,
         peer' \in PeerType, NumbersOK', AskOK', PendingIsRenewal'
  PROVE  IInv'
<1>. USE Typed
<1>1. /\ st' \in StateType /\ st'.spis = st.spis + 1 /\ st.spis \in Nat
      /\ st'.phase = s.phase /\ st'.next = s.next /\ st'.exp = s.exp /\ st'.has = s.has
      /\ st'.req = s.req /\ st'.rekey = s.rekey /\ st'.active = s.active /\ st'.old = s.old
      /\ st'.oldIKE = s.oldIKE /\ st'.hist = s.hist
  BY FieldTypes, AllocateFields, ZenonT(60)
<1>2. /\ s.active \in Nat /\ s.old \in Nat /\ s.req.child \in Nat
      /\ acked \in Nat /\ storing \in Nat /\ updates \in Seq(Update)
  BY FieldTypes, Zenon DEF IInv, TypeOK, PlaneTypeOK
<1>3. /\ install' \in InstallType /\ install'.child = st.spis + 1 /\ install'.stage = "enqueue"
      /\ install'.by = by /\ install'.mid = mid /\ install = NoInstall /\ install.stage = "none"
  BY <1>1 DEF InstallType, Actor, NoInstall
<1>4. CoreOK(st')
  BY <1>1, ZenonT(60) DEF CoreOK
<1>5. ChildrenOK(st') /\ s.active <= st.spis /\ s.old <= st.spis
  BY <1>1, <1>2, SMTT(30) DEF ChildrenOK
<1>6. s.req.kind = "childDelete" => s.req.child <= st.spis
  BY Zenon DEF ChildrenOK
<1>7. InstallOK'
  BY <1>1, <1>2, <1>3, <1>5, <1>6, SMTT(30) DEF InstallOK
<1>8. TimersOK'
  BY <1>1, Zenon DEF IInv, TimersOK, OldExpected
<1>9. UNCHANGED <<acked, inTable, outCodec, current, ended, storing>>
  BY Zenon DEF planeVars
<1>10. CodecsOK'
  <2>1. CodecsOK
    BY Zenon DEF IInv
  <2>2. acked < st.spis + 1 /\ storing < st.spis + 1
    BY <1>1, <1>2, <2>1 DEF CodecsOK
  <2>3. install' # NoInstall =>
          /\ acked' = install'.child => install'.child \in inTable'
          /\ install'.stage = "enqueue" => acked' < install'.child /\ storing' < install'.child
    BY <1>2, <1>3, <1>9, <2>2
  <2>. QED  BY <1>1, <1>2, <1>9, <2>1, <2>2, <2>3, SMTT(30) DEF CodecsOK
<1>11. QueueOK'
  <2>1. ASSUME NEW i \in 1..Len(updates) PROVE UpdateOK(updates[i], st', install', acked', storing')
    <3>1. updates[i] \in Update
      BY <1>2
    <3>2. updates[i].child \in Nat
      BY <3>1, Zenon DEF Update
    <3>3. UpdateOK(updates[i], st, install, acked, storing)
      BY Zenon DEF IInv, QueueOK
    <3>4. updates[i].child <= st.spis /\ updates[i].child < st.spis + 1
      BY <1>1, <3>2, <3>3 DEF UpdateOK
    <3>5. updates[i].child <= st'.spis /\ updates[i].child < install'.child
      BY <1>1, <1>3, <3>2, <3>4
    <3>6. updates[i].child # install'.child
      BY <1>1, <1>3, <3>2, <3>4
    <3>. QED  BY <1>1, <1>9, <3>3, <3>5, <3>6 DEF UpdateOK
  <2>. QED  BY <2>1, Zenon DEF IInv, QueueOK
<1>12. PlaneTypeOK'
  BY <1>9, Zenon DEF IInv, TypeOK, PlaneTypeOK
<1>13. TypeOK'
  BY <1>1, <1>3, <1>12, TypedNext, Zenon
<1>. QED  BY <1>4, <1>5, <1>7, <1>8, <1>10, <1>11, <1>13, Zenon DEF IInv

\* A new IKE SA has replaced the current one, after State s was made of st.
LEMMA IKESwitched ==
  ASSUME IInv, Actor, UNCHANGED <<planeVars, run, lease, install, updates, deleted>>,
         NEW s \in StateType, CoreOK(s), ChildrenOK(s), s.spis = st.spis, s.active = st.active,
         s.oldIKE = <<>>, NEW ctx \in OldContext, st' = SwitchIKE(s, ctx),
         peer' = [next |-> 0, ask |-> NoAsk], tm' = [tm EXCEPT !.ike = TRUE], AfterPacket,
         PendingIsRenewal'
  PROVE  IInv'
<1>. USE Typed
<1>1. /\ st' \in StateType /\ st'.hist = <<>> /\ st'.spis = st.spis /\ st'.active = st.active
      /\ st'.req = NoRequest /\ ~st'.has
  BY SwitchIKEFields, Zenon
<1>2. CoreOK(st') /\ ChildrenOK(st')
  BY SwitchIKEOK, Zenon
<1>3. TimersOK' /\ rto' \in RtoType /\ oldRto' \in OldRtoType
  BY <1>1, PacketTimers, Zenon DEF Actor
<1>4. peer' \in PeerType /\ NumbersOK' /\ AskOK'
  BY Zenon DEF PeerType, NumbersOK, AskOK, NoAsk, PeerAsk, PeerKinds, Forms, NoChild
<1>5. Len(st'.hist) <= HistoryCap /\ st'.req.kind # "childDelete"
  BY <1>1, RunningAssumption, ConstantTypes
<1>. QED  BY <1>1, <1>2, <1>3, <1>4, <1>5, TmTypes, Handled, Zenon

-----------------------------------------------------------------------------
(* case <-rtoC and case <-oldRtoC. *)

\* An unanswered request: resent, given up or fatal.
LEMMA RtoStepInv ==
  ASSUME IInv, RtoStep, UNCHANGED planeVars
  PROVE  IInv'
<1>. USE Typed
<1>1. CASE RtoStale
  <2>1. UNCHANGED <<st, run, oldRto, tm, lease, install, updates, peer, deleted>> /\ ~st.has
        /\ rto' = [rto EXCEPT !.armed = FALSE]
    BY <1>1, Zenon DEF RtoStale
  <2>2. rto' \in RtoType
    BY <2>1, RtoTypes, Zenon
  <2>3. TimersOK' /\ PendingIsRenewal'
    BY <2>1, Zenon DEF IInv, TimersOK, PendingIsRenewal, OldExpected
  <2>. QED  BY <2>1, <2>2, <2>3, SameState, TypedNext, Zenon DEF IInv
<1>2. CASE RtoResend
  <2>1. UNCHANGED <<st, run, oldRto, tm, lease, install, updates, peer, deleted>>
    BY <1>2, Zenon DEF RtoResend
  <2>2. rto' \in RtoType /\ rto'.armed = rto.armed /\ rto'.id = rto.id
    <3>1. rto.retries + 1 \in 0..MaxRetries
          /\ (IF rto.backoff < MaxBackoff THEN rto.backoff + 1 ELSE rto.backoff) \in 0..MaxBackoff
      BY <1>2, RunningAssumption, SMTT(30) DEF RtoResend, RtoType
    <3>. QED  BY <1>2, <3>1, Zenon DEF RtoResend, RtoType
  <2>3. TimersOK' /\ PendingIsRenewal'
    BY <2>1, <2>2, Zenon DEF IInv, TimersOK, PendingIsRenewal, OldExpected
  <2>. QED  BY <2>1, <2>2, <2>3, SameState, TypedNext, Zenon DEF IInv
<1>3. CASE RtoAbandonsRekey
  <2>1. /\ UNCHANGED <<run, oldRto, lease, install, updates, peer, deleted>>
        /\ st' = abandonRekey(st) /\ st.rekey # NoRekey /\ st.has /\ install = NoInstall
        /\ tm' = [tm EXCEPT !.retry = TRUE]
        /\ rto' = [rto EXCEPT !.armed = FALSE, !.retries = 0, !.backoff = 0]
    BY <1>3, Zenon DEF RtoAbandonsRekey, Actor
  <2>2. rto' \in RtoType /\ tm' \in TmType
    BY <2>1, RtoTypes, TmTypes, Zenon
  <2>3. CoreOK(st') /\ ChildrenOK(st')
    BY <2>1, AbandonRekeyOK, Zenon DEF IInv
  <2>4. TimersOK' /\ PendingIsRenewal'
    BY <2>1, AbandonRekeyFields, Zenon DEF IInv, TimersOK, PendingIsRenewal, OldExpected, CoreOK
  <2>5. CodecsOK' /\ QueueOK' /\ PlaneTypeOK'
    BY <2>1, AbandonRekeyFields, ConstantTypes, ActorKeepsPlane, Zenon
  <2>. QED  BY <2>1, <2>2, <2>3, <2>4, <2>5, AbandonRekeyFields, SamePeer, NotInstalling, TypedNext, Zenon DEF IInv
<1>4. CASE RtoAbandonsLease
  <2>1. /\ UNCHANGED <<oldRto, tm, install, updates, peer, deleted>>
        /\ st' = Completed(st) /\ st.rekey = NoRekey /\ st.has /\ install = NoInstall
        /\ lease' = LeaseRetried /\ run = "running" /\ run' \in {"running", "failed"}
        /\ rto' = [rto EXCEPT !.armed = FALSE, !.retries = 0, !.backoff = 0]
    BY <1>4, Zenon DEF RtoAbandonsLease, Actor
  <2>2. rto' \in RtoType /\ lease' \in LeaseType
    BY <2>1, RtoTypes, LeaseTypes, Zenon
  <2>3. CoreOK(st') /\ ChildrenOK(st')
    BY <2>1, CompletedOK, Zenon DEF IInv
  <2>4. TimersOK' /\ PendingIsRenewal'
    BY <2>1, CompletedFields, LeaseTypes, Zenon DEF IInv, TimersOK, PendingIsRenewal, OldExpected, CoreOK
  <2>5. CodecsOK' /\ QueueOK' /\ PlaneTypeOK'
    BY <2>1, CompletedFields, ConstantTypes, ActorKeepsPlane, Zenon
  <2>. QED  BY <2>1, <2>2, <2>3, <2>4, <2>5, CompletedFields, SamePeer, NotInstalling, TypedNext, ZenonT(30) DEF IInv
<1>5. CASE RtoFatal
  <2>1. UNCHANGED <<st, oldRto, tm, lease, install, updates, peer, deleted>> /\ run' = "failed"
        /\ rto' = [rto EXCEPT !.armed = FALSE]  /\ run = "running"
    BY <1>5, Zenon DEF RtoFatal, Actor
  <2>2. rto' \in RtoType
    BY <2>1, RtoTypes, Zenon
  <2>3. TimersOK' /\ PendingIsRenewal'
    BY <2>1, Zenon DEF TimersOK, PendingIsRenewal
  <2>. QED  BY <2>1, <2>2, <2>3, SameState, TypedNext, Zenon DEF IInv
<1>. QED  BY <1>1, <1>2, <1>3, <1>4, <1>5, Zenon DEF RtoStep

\* An unanswered DELETE of the old IKE SA: resent or given up.
LEMMA OldRtoStepInv ==
  ASSUME IInv, OldRtoStep, UNCHANGED planeVars
  PROVE  IInv'
<1>. USE Typed
<1>1. CASE OldRtoResend
  <2>1. UNCHANGED <<st, run, rto, tm, lease, install, updates, peer, deleted>>
    BY <1>1, Zenon DEF OldRtoResend
  <2>2. oldRto' \in OldRtoType /\ oldRto'.armed = oldRto.armed
    <3>1. oldRto.retries + 1 \in 0..MaxRetries
      BY <1>1, RunningAssumption DEF OldRtoResend, OldRtoType
    <3>. QED  BY <1>1, <3>1, Zenon DEF OldRtoResend, OldRtoType
  <2>3. TimersOK' /\ PendingIsRenewal'
    BY <2>1, <2>2, Zenon DEF IInv, TimersOK, PendingIsRenewal, OldExpected
  <2>. QED  BY <2>1, <2>2, <2>3, SameState, TypedNext, Zenon DEF IInv
<1>2. CASE OldRtoGivesUp
  <2>. DEFINE c == [st.oldIKE[1] EXCEPT !.has = FALSE]
  <2>1. /\ UNCHANGED <<run, rto, tm, lease, install, updates, peer, deleted>>
        /\ oldRto' = [armed |-> FALSE, retries |-> 0] /\ install = NoInstall
        /\ st.oldIKE # <<>> /\ st' = [st EXCEPT !.oldIKE = [st.oldIKE EXCEPT ![1] = c]]
    BY <1>2, Zenon DEF OldRtoGivesUp, Actor, OldExpected
  <2>2. st.oldIKE[1] \in OldContext
    BY <2>1 DEF StateType
  <2>3. c \in OldContext /\ ~c.has
    BY <2>2, Zenon DEF OldContext
  <2>. HIDE DEF c
  <2>4. /\ st' \in StateType /\ st'.hist = st.hist /\ st'.spis = st.spis /\ st'.active = st.active
        /\ st'.req = st.req /\ st'.has = st.has /\ st'.exp = st.exp /\ st'.oldIKE[1] = c /\ st'.id = st.id
    BY <2>1, <2>3, OldContextFields, ZenonT(60)
  <2>5. CoreOK(st') /\ ChildrenOK(st')
    BY <2>1, <2>3, OldContextOK, Zenon DEF IInv
  <2>6. TimersOK' /\ PendingIsRenewal'
    BY <2>1, <2>3, <2>4, Zenon DEF IInv, TimersOK, PendingIsRenewal, OldExpected
  <2>7. CodecsOK' /\ QueueOK' /\ PlaneTypeOK'
    BY <2>1, <2>4, ActorKeepsPlane, Zenon
  <2>8. oldRto' \in OldRtoType
    BY <2>1, RunningAssumption DEF OldRtoType
  <2>. QED
    BY <2>1, <2>4, <2>5, <2>6, <2>7, <2>8, SamePeer, NotInstalling, TypedNext, Zenon DEF IInv
<1>. QED  BY <1>1, <1>2, Zenon DEF OldRtoStep

-----------------------------------------------------------------------------
(* The tick and the lifetime timers. *)

\* What a new request of ours preserves when none was outstanding.
LEMMA RequestStarted ==
  ASSUME IInv, Actor, ~st.has, UNCHANGED <<planeVars, run, oldRto, install, updates, peer, deleted>>,
         st' \in StateType, CoreOK(st'), ChildrenOK(st'),
         st'.oldIKE = st.oldIKE, st'.hist = st.hist, st'.spis = st.spis, st'.active = st.active,
         st'.req.kind # "childDelete", st'.exp = st.next, st'.has,
         rto' \in RtoType, rto'.armed, rto'.id = st.next,
         tm' \in TmType, lease' \in LeaseType, PendingIsRenewal'
  PROVE  IInv'
<1>1. CodecsOK' /\ QueueOK' /\ PlaneTypeOK'
  BY ActorKeepsPlane, Zenon
<1>2. TimersOK'
  BY Zenon DEF IInv, TimersOK, OldExpected
<1>3. NumbersOK' /\ AskOK' /\ peer' \in PeerType
  BY SamePeer, Zenon
<1>4. InstallOK' /\ install' \in InstallType
  BY NotInstalling, Zenon DEF Actor
<1>5. TypeOK'
  BY <1>1, <1>3, <1>4, Typed, TypedNext, Zenon
<1>. QED  BY <1>1, <1>2, <1>3, <1>4, <1>5, Zenon DEF IInv

\* startIKERekey leaves a consistent State.
LEMMA StartIKERekeyOK ==
  ASSUME IInv, safeToRekey
  PROVE  LET t == startIKERekey IN
         /\ t \in StateType /\ CoreOK(t) /\ ChildrenOK(t) /\ t.oldIKE = st.oldIKE
         /\ t.hist = st.hist /\ t.spis = st.spis /\ t.active = st.active
         /\ t.req.kind = "ikeRekey" /\ t.exp = st.next /\ t.has /\ t.id = st.id
<1>. DEFINE r == [kind |-> "ike", old |-> NoChild]
            b == BeginRequest(st, "ikeRekey", NoChild)
            t == startIKERekey
<1>1. r \in RekeyType /\ r.kind = "ike"
  BY ConstantTypes, Zenon DEF RekeyType
<1>2. t = [b EXCEPT !.rekey = r, !.phase = "RekeyIkeRequesting"]
  BY Zenon DEF startIKERekey
<1>. HIDE DEF r, t
<1>3. "ikeRekey" \in Requests /\ "RekeyIkeRequesting" \in Phases /\ NoChild \in Nat /\ st \in StateType
  BY Typed, Zenon DEF Requests, Phases, NoChild
<1>4. /\ t \in StateType /\ t.phase = "RekeyIkeRequesting" /\ t.rekey = r /\ t.next = st.next + 1
      /\ t.exp = st.next /\ t.has /\ t.req.kind = "ikeRekey" /\ t.oldIKE = st.oldIKE /\ t.id = st.id
      /\ t.active = st.active /\ t.old = st.old /\ t.hist = st.hist /\ t.spis = st.spis
  <2>1. /\ b \in StateType /\ b.next = st.next + 1 /\ b.exp = st.next /\ b.has /\ b.req.kind = "ikeRekey"
        /\ b.oldIKE = st.oldIKE /\ b.active = st.active /\ b.old = st.old
        /\ b.hist = st.hist /\ b.spis = st.spis /\ b.id = st.id
    BY <1>1, <1>3, BeginRequestFields
  <2>. HIDE DEF b
  <2>2. t \in StateType
    BY <1>1, <1>2, <1>3, <2>1, Zenon DEF StateType, RekeyType
  <2>. QED  BY <1>2, <2>1, <2>2, Zenon DEF StateType
<1>5. CoreOK(t)
  <2>1. t.oldIKE = <<>> /\ Len(t.oldIKE) <= 1
    BY <1>4 DEF safeToRekey
  <2>2. t.req # NoRequest /\ t.rekey # NoRekey /\ t.rekey.kind = r.kind
    BY <1>1, <1>4, ConstantTypes, Zenon
  <2>. QED  BY <1>1, <1>4, <2>1, <2>2, Zenon DEF CoreOK
<1>6. ChildrenOK(t)
  BY <1>1, <1>4, Zenon DEF IInv, ChildrenOK
<1>. QED  BY <1>4, <1>5, <1>6, Zenon DEF t

\* startChildRekey leaves a consistent State.
LEMMA StartChildRekeyOK ==
  ASSUME IInv, safeToRekey
  PROVE  LET t == startChildRekey IN
         /\ t \in StateType /\ CoreOK(t) /\ ChildrenOK(t) /\ t.oldIKE = st.oldIKE
         /\ t.hist = st.hist /\ t.spis = st.spis /\ t.active = st.active
         /\ t.req.kind = "childRekey" /\ t.exp = st.next /\ t.has /\ t.id = st.id
<1>. DEFINE r == [kind |-> "child", old |-> st.active]
            b == BeginRequest(st, "childRekey", st.active)
            t == startChildRekey
<1>1. r \in RekeyType /\ r.kind = "child" /\ r.old = st.active /\ st.active \in Nat
  BY Typed, Zenon DEF RekeyType, StateType
<1>2. t = [b EXCEPT !.rekey = r, !.phase = "RekeyChildRequesting"]
  BY Zenon DEF startChildRekey
<1>. HIDE DEF r, t
<1>3. "childRekey" \in Requests /\ "RekeyChildRequesting" \in Phases /\ st \in StateType
  BY Typed, Zenon DEF Requests, Phases
<1>4. /\ t \in StateType /\ t.phase = "RekeyChildRequesting" /\ t.rekey = r /\ t.next = st.next + 1
      /\ t.exp = st.next /\ t.has /\ t.req.kind = "childRekey" /\ t.oldIKE = st.oldIKE /\ t.id = st.id
      /\ t.active = st.active /\ t.old = st.old /\ t.hist = st.hist /\ t.spis = st.spis
  <2>1. /\ b \in StateType /\ b.next = st.next + 1 /\ b.exp = st.next /\ b.has /\ b.req.kind = "childRekey"
        /\ b.oldIKE = st.oldIKE /\ b.active = st.active /\ b.old = st.old
        /\ b.hist = st.hist /\ b.spis = st.spis /\ b.id = st.id
    BY <1>1, <1>3, BeginRequestFields
  <2>. HIDE DEF b
  <2>2. t \in StateType
    BY <1>1, <1>2, <1>3, <2>1, Zenon DEF StateType, RekeyType
  <2>. QED  BY <1>2, <2>1, <2>2, Zenon DEF StateType
<1>5. CoreOK(t)
  <2>1. t.oldIKE = <<>> /\ Len(t.oldIKE) <= 1
    BY <1>4 DEF safeToRekey
  <2>2. t.req # NoRequest /\ t.rekey # NoRekey /\ t.rekey.kind = r.kind
    BY <1>1, <1>4, ConstantTypes, Zenon
  <2>. QED  BY <1>1, <1>4, <2>1, <2>2, Zenon DEF CoreOK
<1>6. ChildrenOK(t)
  BY <1>1, <1>4, Zenon DEF IInv, ChildrenOK
<1>. QED  BY <1>4, <1>5, <1>6, Zenon DEF t

\* A renewal that the old IKE SA still waits for is one of an older IKE SA.
LEMMA PendingSwitched ==
  ASSUME IInv, UNCHANGED <<run, lease>>, st'.id = st.id + 1
  PROVE  PendingIsRenewal'
<1>1. lease.on \in Nat /\ st.id \in Nat
  BY Typed, FieldTypes, Zenon DEF LeaseType
<1>2. lease.on = st.id => lease.on < st.id + 1
  BY <1>1, SMTT(30)
<1>3. lease.on < st.id => lease.on < st.id + 1
  BY <1>1, SMTT(30)
<1>. QED  BY <1>2, <1>3, Zenon DEF IInv, PendingIsRenewal

\* A timer that fires while the actor is busy is only consumed.
LEMMA TimerConsumed ==
  ASSUME IInv, Actor, UNCHANGED <<planeVars, st, run, oldRto, install, updates, peer, deleted>>,
         rto' = rto \/ (~st.has /\ rto' \in RtoType), tm' \in TmType,
         lease' \in LeaseType, lease'.pending => lease.pending, lease'.on = lease.on
  PROVE  IInv'
<1>1. TimersOK' /\ PendingIsRenewal' /\ rto' \in RtoType
  BY Typed, Zenon DEF IInv, TimersOK, PendingIsRenewal, OldExpected
<1>. QED  BY <1>1, Typed, SameState, TypedNext, Zenon DEF IInv

\* startChildRekey where Run arms the timer even if nothing was sent.
LEMMA RekeyChildOrNothingInv ==
  ASSUME IInv, Actor, safeToRekey, RekeyChildOrNothing,
         UNCHANGED <<planeVars, run, oldRto, lease, install, updates, peer, deleted>>,
         tm' \in TmType
  PROVE  IInv'
<1>. USE Typed
<1>1. ~st.has /\ st.next \in Nat /\ st.exp \in Nat
  BY Zenon DEF safeToRekey, StateType
<1>2. CASE st.active # NoChild
  <2>1. st' = startChildRekey /\ rto' = Armed(st'.exp)
    BY <1>2, Zenon DEF RekeyChildOrNothing
  <2>2. rto' \in RtoType /\ rto'.armed /\ rto'.id = st.next
    BY <1>1, <2>1, StartChildRekeyOK, RtoTypes, ZenonT(30)
  <2>3. PendingIsRenewal'
    BY <1>1, <2>1, StartChildRekeyOK, Zenon DEF IInv, PendingIsRenewal
  <2>. QED  BY <1>1, <2>1, <2>2, <2>3, StartChildRekeyOK, RequestStarted, Zenon
<1>3. CASE st.active = NoChild
  <2>1. st' = st /\ rto' = Armed(st.exp)
    BY <1>3, Zenon DEF RekeyChildOrNothing
  <2>2. rto' \in RtoType
    BY <1>1, <2>1, RtoTypes, ZenonT(30)
  <2>. QED  BY <1>1, <2>1, <2>2, TimerConsumed, Zenon
<1>. QED  BY <1>2, <1>3, Zenon

\* A tick or a lifetime timer: a new request, or nothing.
LEMMA TimerStepInv ==
  ASSUME IInv, TimerStep, UNCHANGED planeVars
  PROVE  IInv'
<1>. USE Typed
<1>. st.next \in Nat
  BY Zenon DEF StateType
<1>1. CASE Tick
  <2>1. /\ UNCHANGED <<run, oldRto, tm, lease, install, updates, peer, deleted>>
        /\ Actor /\ ~st.has /\ st' = BeginRequest(st, "keepalive", NoChild)
        /\ rto' = [rto EXCEPT !.armed = TRUE, !.id = st.next, !.retries = 0]
    BY <1>1, Zenon DEF Tick
  <2>2. rto' \in RtoType /\ rto'.armed /\ rto'.id = st.next
    BY <2>1, RtoTypes, Zenon DEF RtoType
  <2>3. "keepalive" \in Requests /\ NoChild \in Nat
    BY Zenon DEF Requests, NoChild
  <2>4. /\ st' \in StateType /\ st'.phase = st.phase /\ st'.next = st.next + 1 /\ st'.exp = st.next
        /\ st'.id = st.id /\ st'.has /\ st'.req.kind = "keepalive" /\ st'.rekey = st.rekey /\ st'.active = st.active
        /\ st'.old = st.old /\ st'.oldIKE = st.oldIKE /\ st'.hist = st.hist /\ st'.spis = st.spis
    BY <2>1, <2>3, BeginRequestFields, SMTT(30)
  <2>5. CoreOK(st') /\ ChildrenOK(st')
    BY <2>1, <2>4, ConstantTypes, ZenonT(60) DEF IInv, CoreOK, ChildrenOK
  <2>6. PendingIsRenewal'
    BY <2>1, <2>4, Zenon DEF IInv, PendingIsRenewal, Actor
  <2>. QED  BY <2>1, <2>2, <2>4, <2>5, <2>6, RequestStarted, Zenon
<1>2. CASE IkeSoft
  <2>1. /\ UNCHANGED <<run, oldRto, lease, install, updates, peer, deleted>>
        /\ Actor /\ tm' = [tm EXCEPT !.ike = FALSE]
    BY <1>2, Zenon DEF IkeSoft
  <2>2. tm' \in TmType
    BY <2>1, TmTypes, Zenon
  <2>3. CASE safeToRekey
    <3>1. st' = startIKERekey /\ rto' = Armed(st.next) /\ ~st.has
      BY <1>2, <2>3, Zenon DEF IkeSoft, safeToRekey
    <3>2. rto' \in RtoType /\ rto'.armed /\ rto'.id = st.next
      BY <3>1, RtoTypes, Zenon
    <3>3. PendingIsRenewal'
      BY <2>1, <2>3, <3>1, StartIKERekeyOK, Zenon DEF IInv, PendingIsRenewal, Actor
    <3>. QED  BY <2>1, <2>2, <2>3, <3>1, <3>2, <3>3, StartIKERekeyOK, RequestStarted, Zenon
  <2>4. CASE ~safeToRekey
    BY <1>2, <2>1, <2>2, <2>4, TimerConsumed, Zenon DEF IkeSoft
  <2>. QED  BY <2>3, <2>4, Zenon
<1>3. CASE ChildSoft
  <2>1. /\ UNCHANGED <<run, oldRto, lease, install, updates, peer, deleted>>
        /\ Actor /\ tm' = [tm EXCEPT !.child = FALSE]
    BY <1>3, Zenon DEF ChildSoft
  <2>2. tm' \in TmType
    BY <2>1, TmTypes, Zenon
  <2>3. CASE safeToRekey
    BY <1>3, <2>1, <2>2, <2>3, RekeyChildOrNothingInv, Zenon DEF ChildSoft
  <2>4. CASE ~safeToRekey
    BY <1>3, <2>1, <2>2, <2>4, TimerConsumed, Zenon DEF ChildSoft
  <2>. QED  BY <2>3, <2>4, Zenon
<1>4. CASE NearWrap
  <2>1. /\ UNCHANGED <<run, oldRto, lease, install, updates, peer, deleted>>
        /\ Actor /\ tm' = [tm EXCEPT !.wrap = FALSE]
    BY <1>4, Zenon DEF NearWrap
  <2>2. tm' \in TmType
    BY <2>1, TmTypes, Zenon
  <2>3. CASE safeToRekey /\ st.active # NoChild
    <3>1. st' = startChildRekey /\ rto' = Armed(st.next) /\ ~st.has
      BY <1>4, <2>3, Zenon DEF NearWrap, safeToRekey
    <3>2. rto' \in RtoType /\ rto'.armed /\ rto'.id = st.next
      BY <3>1, RtoTypes, Zenon
    <3>3. PendingIsRenewal'
      BY <2>1, <2>3, <3>1, StartChildRekeyOK, Zenon DEF IInv, PendingIsRenewal, Actor
    <3>. QED  BY <2>1, <2>2, <2>3, <3>1, <3>2, <3>3, StartChildRekeyOK, RequestStarted, ZenonT(60)
  <2>4. CASE ~(safeToRekey /\ st.active # NoChild)
    BY <1>4, <2>1, <2>2, <2>4, TimerConsumed, Zenon DEF NearWrap
  <2>. QED  BY <2>3, <2>4, Zenon
<1>5. CASE RetryTimer
  <2>1. /\ UNCHANGED <<run, oldRto, lease, install, updates, peer, deleted>>
        /\ Actor /\ tm' = [tm EXCEPT !.retry = FALSE]
    BY <1>5, Zenon DEF RetryTimer
  <2>2. tm' \in TmType
    BY <2>1, TmTypes, Zenon
  <2>3. CASE safeToRekey
    BY <1>5, <2>1, <2>2, <2>3, RekeyChildOrNothingInv, Zenon DEF RetryTimer
  <2>4. CASE ~safeToRekey
    BY <1>5, <2>1, <2>2, <2>4, TimerConsumed, Zenon DEF RetryTimer
  <2>. QED  BY <2>3, <2>4, Zenon
<1>6. CASE LeaseTimer
  <2>1. UNCHANGED <<run, oldRto, tm, install, updates, peer, deleted>> /\ Actor
    BY <1>6, Zenon DEF LeaseTimer
  <2>2. CASE safeToRekey /\ lease.expiry
    <3>1. /\ st' = BeginRequest(st, "lease", NoChild) /\ rto' = Armed(st.next) /\ ~st.has
          /\ lease' = [lease EXCEPT !.timer = FALSE, !.pending = TRUE, !.on = st.id]
      BY <1>6, <2>2, Zenon DEF LeaseTimer, safeToRekey
    <3>2. rto' \in RtoType /\ rto'.armed /\ rto'.id = st.next
      BY <3>1, RtoTypes, Zenon
    <3>3. lease' \in LeaseType /\ lease'.on = st.id
      BY <3>1, FieldTypes, Zenon DEF LeaseType
    <3>4. "lease" \in Requests /\ NoChild \in Nat
      BY Zenon DEF Requests, NoChild
    <3>5. /\ st' \in StateType /\ st'.phase = st.phase /\ st'.next = st.next + 1 /\ st'.exp = st.next
          /\ st'.id = st.id /\ st'.has /\ st'.req.kind = "lease" /\ st'.rekey = st.rekey /\ st'.active = st.active
          /\ st'.old = st.old /\ st'.oldIKE = st.oldIKE /\ st'.hist = st.hist /\ st'.spis = st.spis
      BY <3>1, <3>4, BeginRequestFields
    <3>6. CoreOK(st') /\ ChildrenOK(st')
      BY <3>1, <3>5, ConstantTypes, ZenonT(60) DEF IInv, CoreOK, ChildrenOK
    <3>7. PendingIsRenewal'
      BY <3>3, <3>5, Zenon DEF PendingIsRenewal
    <3>. QED  BY <2>1, <3>1, <3>2, <3>3, <3>5, <3>6, <3>7, RequestStarted, ZenonT(60)
  <2>3. CASE ~(safeToRekey /\ lease.expiry)
    <3>1. UNCHANGED <<st, rto>> /\ lease' = [lease EXCEPT !.timer = FALSE]
      BY <1>6, <2>3, Zenon DEF LeaseTimer
    <3>2. lease' \in LeaseType /\ lease'.pending = lease.pending /\ lease'.on = lease.on
      BY <3>1, Zenon DEF LeaseType
    <3>. QED  BY <2>1, <3>1, <3>2, TimerConsumed, Zenon
  <2>. QED  BY <2>2, <2>3, Zenon
<1>. QED  BY <1>1, <1>2, <1>3, <1>4, <1>5, <1>6, Zenon DEF TimerStep

-----------------------------------------------------------------------------
(* Responses. *)

\* An accepted response: every branch of processResponse.
LEMMA ResponseStepInv ==
  ASSUME IInv, ResponseStep, UNCHANGED planeVars
  PROVE  IInv'
<1>. USE Typed
<1>0. /\ Actor /\ st.has /\ run = "running"
      /\ deleted \cup (IF st.req.kind = "childDelete" THEN {st.req.child} ELSE {}) \in SUBSET Nat
  BY FieldTypes, Zenon DEF ResponseStep, Response, ResponseEndsRekey, ResponseChildRekey, ResponseIKERekey,
     ResponsePlain, ResponseLeaseRenewed, ResponseLeaseRefused, Actor
<1>1. CASE ResponseEndsRekey
  <2>1. /\ st.rekey # NoRekey /\ st' = abandonRekey(st) /\ tm' = [tm EXCEPT !.retry = TRUE]
        /\ AfterError /\ UNCHANGED <<run, lease, install, updates, peer, deleted>>
    BY <1>1, Zenon DEF ResponseEndsRekey
  <2>2. CoreOK(st') /\ ChildrenOK(st')
    BY <2>1, AbandonRekeyOK, Zenon DEF IInv
  <2>3. /\ st' \in StateType /\ ~st'.has /\ st'.req = NoRequest /\ st'.active = st.active
        /\ st'.oldIKE = <<>> /\ st'.hist = st.hist /\ st'.spis = st.spis /\ st'.id = st.id
    BY <2>1, AbandonRekeyFields, Zenon
  <2>4. st.oldIKE = <<>> /\ st.req.kind # "lease"
    BY <2>1, Zenon DEF IInv, CoreOK
  <2>5. TimersOK' /\ rto' \in RtoType /\ oldRto' \in OldRtoType
    BY <1>0, <2>1, <2>3, <2>4, ErrorTimers, Zenon DEF OldExpected
  <2>6. PendingIsRenewal'
    BY <1>0, <2>1, <2>3, <2>4, Zenon DEF IInv, PendingIsRenewal
  <2>. QED  BY <1>0, <2>1, <2>2, <2>3, <2>5, <2>6, ConstantTypes, TmTypes, SamePeer, Handled, Zenon
<1>2. CASE ResponseChildRekey
  <2>1. /\ st.rekey.kind = "child" /\ st.active # NoChild /\ st.active = st.rekey.old
        /\ st' = [st EXCEPT !.spis = @ + 1]
        /\ install' = [stage |-> "enqueue", by |-> "local", child |-> st.spis + 1, mid |-> 0]
        /\ UNCHANGED <<run, rto, oldRto, tm, lease, updates, peer, deleted>>
    BY <1>2, Zenon DEF ResponseChildRekey
  <2>2. PendingIsRenewal' /\ st'.hist = st.hist
    BY <2>1, AllocateFields, ZenonT(60) DEF IInv, PendingIsRenewal
  <2>. QED  BY <1>0, <2>1, <2>2, SamePeer, ChildAllocated, Zenon DEF IInv
<1>3. CASE ResponseIKERekey
  <2>. DEFINE ctx == [id |-> st.id, next |-> st.next + 1, exp |-> st.next, has |-> TRUE,
                      hist |-> st.hist, peerNext |-> peer.next, rekeyMID |-> 0,
                      waiting |-> FALSE, inFlight |-> FALSE]
  <2>1. /\ st.rekey.kind = "ike" /\ st' = SwitchIKE(st, ctx) /\ peer' = [next |-> 0, ask |-> NoAsk]
        /\ tm' = [tm EXCEPT !.ike = TRUE] /\ AfterPacket
        /\ UNCHANGED <<run, lease, install, updates, deleted>>
    BY <1>3, Zenon DEF ResponseIKERekey
  <2>2. ctx \in OldContext
    BY FieldTypes DEF OldContext, PeerType
  <2>. HIDE DEF ctx
  <2>3. st.oldIKE = <<>> /\ st.req.kind # "lease"
    BY <2>1, ConstantTypes, Zenon DEF IInv, CoreOK
  <2>4. PendingIsRenewal'
    BY <2>1, <2>2, SwitchIKEFields, PendingSwitched, Zenon
  <2>. QED  BY <1>0, <2>1, <2>2, <2>3, <2>4, IKESwitched, Zenon DEF IInv
<1>4. CASE ResponsePlain
  <2>1. /\ st.rekey = NoRekey /\ ~lease.pending /\ AfterPacket
        /\ UNCHANGED <<run, tm, lease, install, peer>> /\ deleted' \in SUBSET Nat
    BY <1>0, <1>4, Zenon DEF ResponsePlain, ConfirmDelete
  <2>2. PendingIsRenewal'
    BY <2>1, Zenon DEF PendingIsRenewal
  <2>3. CoreOK(Completed(st)) /\ ChildrenOK(Completed(st)) /\ Completed(st) \in StateType
    BY <2>1, CompletedOK, CompletedFields, ZenonT(30) DEF IInv
  <2>4. CASE st.phase = "RekeyChildDeletingOld"
    <3>1. st' = DropOld(Completed(st)) /\ Offer(Deleted(st.old))
      BY <1>4, <2>4, CompletedFields, ZenonT(30) DEF ResponsePlain, DropOld
    <3>2. CoreOK(st') /\ ChildrenOK(st')
      BY <2>3, <3>1, DropOldOK, Zenon
    <3>3. /\ st' \in StateType /\ ~st'.has /\ st'.req = NoRequest /\ st'.active = st.active
          /\ st'.hist = st.hist /\ st'.spis = st.spis
      <4>. DEFINE b == Completed(st)
      <4>1. ~b.has /\ b.req = NoRequest /\ b.active = st.active /\ b.hist = st.hist /\ b.spis = st.spis
        BY CompletedFields, ZenonT(30)
      <4>2. b \in StateType /\ st' = DropOld(b)
        BY <2>3, <3>1, Zenon
      <4>. HIDE DEF b
      <4>. QED  BY <4>1, <4>2, DropOldFields, Zenon
    <3>4. Harmless(Deleted(st.old))
      BY <1>0, <2>4, <3>3, FieldTypes, Zenon DEF Harmless, Deleted, Update, IInv, ChildrenOK, Actor
    <3>5. TimersOK' /\ rto' \in RtoType /\ oldRto' \in OldRtoType
      BY <1>0, <2>1, <3>3, PacketTimers, Zenon
    <3>. QED  BY <1>0, <2>1, <2>2, <3>1, <3>2, <3>3, <3>4, <3>5, ConstantTypes, SamePeer, Handled, Zenon
  <2>5. CASE st.phase # "RekeyChildDeletingOld"
    <3>1. st' = Completed(st) /\ updates' = updates
      BY <1>4, <2>5, Zenon DEF ResponsePlain
    <3>2. TimersOK' /\ rto' \in RtoType /\ oldRto' \in OldRtoType
      BY <1>0, <2>1, <3>1, CompletedFields, PacketTimers, Zenon
    <3>. QED  BY <1>0, <2>1, <2>2, <2>3, <3>1, <3>2, CompletedFields, ConstantTypes, SamePeer, Handled, ZenonT(30)
  <2>. QED  BY <2>4, <2>5, Zenon
<1>5. CASE \E expiry, changed \in BOOLEAN : ResponseLeaseRenewed(expiry, changed)
  <2>1. PICK expiry \in BOOLEAN, changed \in BOOLEAN : ResponseLeaseRenewed(expiry, changed)
    BY <1>5, Zenon
  <2>2. /\ st.rekey = NoRekey /\ st' = Completed(st) /\ AfterPacket
        /\ lease' = [LeaseArmed(expiry) EXCEPT !.pending = FALSE]
        /\ UNCHANGED <<run, tm, install, peer>> /\ deleted' \in SUBSET Nat
        /\ updates' = updates \/ Offer(Assigned)
    BY <1>0, <2>1, Zenon DEF ResponseLeaseRenewed, ConfirmDelete
  <2>3. lease' \in LeaseType /\ PendingIsRenewal'
    BY <2>2, LeaseTypes, Zenon DEF PendingIsRenewal
  <2>4. CoreOK(st') /\ ChildrenOK(st')
    BY <2>2, CompletedOK, Zenon DEF IInv
  <2>5. Harmless(Assigned)
    BY FieldTypes, ConstantTypes DEF Harmless, Assigned, Update
  <2>6. TimersOK' /\ rto' \in RtoType /\ oldRto' \in OldRtoType
    BY <1>0, <2>2, CompletedFields, PacketTimers, Zenon
  <2>. QED  BY <1>0, <2>2, <2>3, <2>4, <2>5, <2>6, CompletedFields, ConstantTypes, SamePeer, Handled, Zenon
<1>6. CASE \E undecodable \in BOOLEAN : ResponseLeaseRefused(undecodable)
  <2>1. PICK undecodable \in BOOLEAN : ResponseLeaseRefused(undecodable)
    BY <1>6, Zenon
  <2>2. /\ st.rekey = NoRekey /\ st' = Completed(st) /\ (AfterError \/ AfterPacket)
        /\ lease' = LeaseRetried
        /\ UNCHANGED <<run, tm, install, updates, peer>> /\ deleted' \in SUBSET Nat
    BY <1>0, <2>1, Zenon DEF ResponseLeaseRefused, ConfirmDelete
  <2>3. lease' \in LeaseType /\ PendingIsRenewal'
    BY <2>2, LeaseTypes, Zenon DEF PendingIsRenewal
  <2>4. CoreOK(st') /\ ChildrenOK(st')
    BY <2>2, CompletedOK, Zenon DEF IInv
  <2>5. TimersOK' /\ rto' \in RtoType /\ oldRto' \in OldRtoType
    BY <1>0, <2>2, CompletedFields, PacketTimers, ErrorTimers, ZenonT(30) DEF OldExpected
  <2>. QED  BY <1>0, <2>2, <2>3, <2>4, <2>5, CompletedFields, ConstantTypes, SamePeer, Handled, Zenon
<1>. QED  BY <1>1, <1>2, <1>3, <1>4, <1>5, <1>6, Zenon DEF ResponseStep

\* A packet without effect on the state.
LEMMA IgnoredPacketInv ==
  ASSUME IInv, IgnoredPacket, UNCHANGED planeVars
  PROVE  IInv'
<1>. USE Typed
<1>1. Actor /\ AfterPacket /\ UNCHANGED <<st, run, tm, lease, install, updates, peer, deleted>>
  BY Zenon DEF IgnoredPacket
<1>2. st.has => st.exp \in {st.exp, st.next}
  BY Zenon
<1>3. TimersOK' /\ rto' \in RtoType /\ oldRto' \in OldRtoType
  BY <1>1, <1>2, PacketTimers, Zenon DEF Actor
<1>4. PendingIsRenewal'
  BY <1>1, Zenon DEF IInv, PendingIsRenewal
<1>. QED  BY <1>1, <1>3, <1>4, SameState, TypedNext, Zenon DEF IInv

-----------------------------------------------------------------------------
(* installChild: the wait for the data plane, and how it ends. *)

\* The handoff of finishChildRekeyResponse and of processPeerChildRekey.
HandoffLocal(s, c) ==
  [BeginRequest(s, "childDelete", s.active) EXCEPT
     !.active = c, !.old = s.active, !.rekey = NoRekey, !.phase = "RekeyChildDeletingOld"]

HandoffPeer(s, c) == [s EXCEPT !.old = s.active, !.active = c]

\* The peer's handoff only exchanges the children.
LEMMA HandoffPeerFields ==
  ASSUME NEW s \in StateType, NEW c \in Nat
  PROVE  LET t == HandoffPeer(s, c) IN
         /\ t \in StateType
         /\ t.phase = s.phase /\ t.id = s.id /\ t.next = s.next /\ t.exp = s.exp
         /\ t.has = s.has /\ t.req = s.req /\ t.rekey = s.rekey
         /\ t.active = c /\ t.old = s.active /\ t.oldIKE = s.oldIKE
         /\ t.hist = s.hist /\ t.spis = s.spis
  BY Zenon DEF HandoffPeer, StateType

\* Our handoff takes the new child into use and asks to delete the old one.
LEMMA HandoffLocalFields ==
  ASSUME NEW s \in StateType, NEW c \in Nat
  PROVE  LET t == HandoffLocal(s, c) IN
         /\ t \in StateType
         /\ t.phase = "RekeyChildDeletingOld" /\ t.id = s.id /\ t.next = s.next + 1
         /\ t.exp = s.next /\ t.has /\ t.req.kind = "childDelete" /\ t.req.child = s.active
         /\ t.rekey = NoRekey /\ t.active = c /\ t.old = s.active
         /\ t.oldIKE = s.oldIKE /\ t.hist = s.hist /\ t.spis = s.spis
<1>. DEFINE b == BeginRequest(s, "childDelete", s.active)
<1>1. /\ "childDelete" \in Requests /\ s.active \in Nat /\ NoRekey \in RekeyType
      /\ "RekeyChildDeletingOld" \in Phases
  BY FieldTypes, ConstantTypes, Zenon DEF Requests
<1>2. /\ b \in StateType /\ b.id = s.id /\ b.next = s.next + 1 /\ b.exp = s.next /\ b.has
      /\ b.req.kind = "childDelete" /\ b.req.child = s.active /\ b.active = s.active
      /\ b.oldIKE = s.oldIKE /\ b.hist = s.hist /\ b.spis = s.spis
  BY <1>1, BeginRequestFields, SMTT(30)
<1>. DEFINE d == HandoffPeer(b, c)
<1>3. HandoffLocal(s, c) = [d EXCEPT !.rekey = NoRekey, !.phase = "RekeyChildDeletingOld"]
  BY <1>2, ZenonT(30) DEF HandoffLocal, HandoffPeer, StateType
<1>. HIDE DEF b
<1>4. d \in StateType
  BY <1>2, HandoffPeerFields, Zenon
<1>5. /\ d.id = s.id /\ d.next = s.next + 1 /\ d.exp = s.next /\ d.has
      /\ d.req.kind = "childDelete" /\ d.req.child = s.active /\ d.active = c /\ d.old = s.active
      /\ d.oldIKE = s.oldIKE /\ d.hist = s.hist /\ d.spis = s.spis
  BY <1>2, HandoffPeerFields, ZenonT(60)
<1>. HIDE DEF d
<1>6. HandoffLocal(s, c) \in StateType
  BY <1>1, <1>3, <1>4, ZenonT(30) DEF StateType, RekeyType
<1>. QED  BY <1>3, <1>4, <1>5, <1>6, ZenonT(60) DEF StateType

\* What a wait that is over leaves to the data plane: the acknowledged child is
\* the newest one, so no installation is left to apply.
LEMMA InstallSwitched ==
  ASSUME IInv, InstallAcked, install' = NoInstall, UNCHANGED <<planeVars, updates>>,
         st'.spis = st.spis, st'.active = install.child,
         st'.req.kind = "childDelete" => st'.req.child \in Nat /\ st'.req.child < st.spis
  PROVE  CodecsOK' /\ QueueOK' /\ PlaneTypeOK'
<1>. UNCHANGED <<acked, inTable, outCodec, current, ended, storing>>
  BY Zenon DEF planeVars
<1>1. /\ install # NoInstall /\ install'.stage = "none" /\ acked = install.child
  BY DEF InstallAcked, NoInstall
<1>2. /\ install.child = st.spis /\ st.active \in Nat /\ st.spis \in Nat /\ storing \in Nat
      /\ st.active < st.spis /\ acked \in Nat
  <2>1. install.child = st.spis /\ st.active < st.spis
    BY <1>1, Zenon DEF IInv, InstallOK
  <2>2. storing \in Nat /\ acked \in Nat
    BY Zenon DEF IInv, TypeOK, PlaneTypeOK
  <2>3. st.active \in Nat /\ st.spis \in Nat
    BY Typed, FieldTypes, Zenon
  <2>. QED  BY <2>1, <2>2, <2>3, Zenon
<1>3. storing = NoChild /\ acked # NoChild /\ outCodec = acked /\ install.child \in inTable
  BY <1>1, <1>2, ConstantTypes, SMTT(30) DEF IInv, CodecsOK
<1>4. CodecsOK'
  BY <1>1, <1>2, <1>3, SMTT(30) DEF IInv, CodecsOK
<1>5. ASSUME NEW i \in 1..Len(updates)
      PROVE  UpdateOK(updates[i], st', install', acked', storing')
  <2>1. UpdateOK(updates[i], st, install, acked, storing) /\ updates[i] \in Update
    BY SMTT(30) DEF IInv, QueueOK, TypeOK, PlaneTypeOK
  <2>2. updates[i].kind # "installed"
    <3>1. updates[i].child \in Nat
      BY <2>1, Zenon DEF Update
    <3>2. /\ updates[i].child <= st.spis
          /\ updates[i].kind = "installed" => updates[i].child > acked
      BY <2>1, Zenon DEF UpdateOK
    <3>. QED  BY <1>1, <1>2, <3>1, <3>2, SMTT(30)
  <2>. QED  BY <1>1, <1>2, <2>1, <2>2, Zenon DEF UpdateOK
<1>. QED  BY <1>4, <1>5, Zenon DEF IInv, QueueOK, TypeOK, PlaneTypeOK

\* A wait that is given up leaves the new child to the data plane, unused.
LEMMA InstallAbandoned ==
  ASSUME IInv, install' = NoInstall, UNCHANGED <<planeVars, updates>>,
         st' = st \/ st' = abandonRekey(st)
  PROVE  CodecsOK' /\ QueueOK' /\ PlaneTypeOK' /\ InstallOK' /\ install' \in InstallType
<1>. UNCHANGED <<acked, inTable, outCodec, current, ended, storing>>
  BY Zenon DEF planeVars
<1>1. /\ st'.spis = st.spis /\ st'.active = st.active
      /\ st'.req = st.req \/ st'.req.kind # "childDelete"
  <2>1. CASE st' = abandonRekey(st)
    BY <2>1, Typed, AbandonRekeyFields, ConstantTypes, Zenon
  <2>. QED  BY <2>1, Zenon
<1>2. install'.stage = "none"
  BY Zenon DEF NoInstall
<1>3. CodecsOK'
  BY <1>1, <1>2, Zenon DEF IInv, CodecsOK
<1>4. \A u : UpdateOK(u, st, install, acked, storing) => UpdateOK(u, st', install', acked', storing')
  BY <1>1, <1>2, Zenon DEF UpdateOK
<1>. QED  BY <1>3, <1>4, NotInstalling, Zenon DEF IInv, QueueOK, TypeOK, PlaneTypeOK

\* installChild, up to the end of the handler that called it.
LEMMA InstallStepInv ==
  ASSUME IInv, InstallStep, UNCHANGED planeVars
  PROVE  IInv'
<1>. USE Typed
<1>0. /\ run = "running" /\ install # NoInstall /\ install.child = st.spis
      /\ install.child \in Nat /\ install.mid \in Nat /\ install.by \in {"local", "peer"}
      /\ st.spis \in Nat /\ st.active \in Nat /\ st.active # NoChild /\ st.active < st.spis
      /\ st.next \in Nat /\ st.exp \in Nat /\ st.old \in Nat
  <2>1. run = "running" /\ install.stage \in {"enqueue", "wait"}
    BY Zenon DEF InstallStep, InstallEnqueue, InstalledLocal, InstalledPeer, InstallTimeout, InstallAcked
  <2>2. install # NoInstall
    BY <2>1 DEF NoInstall
  <2>. QED  BY <2>1, <2>2, FieldTypes, Zenon DEF IInv, InstallOK, InstallType
<1>. acked \in Nat /\ storing \in Nat /\ updates \in Seq(Update) /\ Len(updates) <= UpdateCap
  BY Zenon DEF IInv, TypeOK, PlaneTypeOK
<1>. UNCHANGED <<acked, inTable, outCodec, current, ended, storing>>
  BY Zenon DEF planeVars
<1>1. CASE InstallEnqueue
  <2>. DEFINE u == Installed(install.child)
  <2>1. /\ install.stage = "enqueue" /\ updates' = Append(updates, u) /\ Len(updates) < UpdateCap
        /\ install' = [install EXCEPT !.stage = "wait"]
        /\ UNCHANGED <<st, run, rto, oldRto, tm, lease, peer, deleted>>
    BY <1>1, Zenon DEF InstallEnqueue, HasRoom
  <2>2. /\ install' \in InstallType /\ install'.stage = "wait" /\ install'.by = install.by
        /\ install'.child = install.child /\ install'.mid = install.mid /\ install' # NoInstall
    BY <2>1, Zenon DEF InstallType, NoInstall
  <2>3. u \in Update /\ u.kind = "installed" /\ u.child = st.spis
    BY <1>0, Zenon DEF Installed, Update
  <2>. HIDE DEF u
  <2>4. InstallOK'
    BY <1>0, <2>1, <2>2, Zenon DEF IInv, InstallOK
  <2>5. CodecsOK' /\ acked < install.child /\ storing < install.child
    BY <1>0, <2>1, <2>2 DEF IInv, CodecsOK
  <2>6. UpdateOK(u, st', install', acked', storing')
    BY <1>0, <2>1, <2>2, <2>3, <2>5 DEF IInv, InstallOK, UpdateOK
  <2>7. \A v : UpdateOK(v, st, install, acked, storing) => UpdateOK(v, st', install', acked', storing')
    BY <1>0, <2>1, <2>2, Zenon DEF UpdateOK
  <2>8. \A i \in 1..Len(updates') : UpdateOK(updates'[i], st', install', acked', storing')
    <3>1. SUFFICES ASSUME NEW i \in 1..Len(updates')
                   PROVE  UpdateOK(updates'[i], st', install', acked', storing')
      BY Zenon
    <3>2. CASE i \in 1..Len(updates)
      <4>1. updates'[i] = updates[i]
        BY <2>1, <3>2
      <4>. QED  BY <2>7, <3>2, <4>1, Zenon DEF IInv, QueueOK
    <3>3. CASE i \notin 1..Len(updates)
      <4>1. updates'[i] = u
        BY <2>1, <2>3, <3>1, <3>3
      <4>. QED  BY <2>6, <4>1, Zenon
    <3>. QED  BY <3>2, <3>3, Zenon
  <2>9. Ordered(updates')
    <3>1. \A i \in 1..Len(updates) : updates[i].kind = "installed" => updates[i].child < u.child
      BY <1>0, <2>1, <2>3, Zenon DEF IInv, QueueOK, UpdateOK
    <3>. QED  BY <2>1, <2>3, <3>1 DEF IInv, QueueOK, Ordered
  <2>10. PlaneTypeOK'
    BY <2>1, <2>3, UpdateCapAssumption DEF IInv, TypeOK, PlaneTypeOK
  <2>11. TimersOK' /\ PendingIsRenewal'
    BY <2>1, Zenon DEF IInv, TimersOK, PendingIsRenewal, OldExpected
  <2>12. NumbersOK' /\ AskOK' /\ peer' \in PeerType
    BY <2>1, SamePeer, Zenon
  <2>13. TypeOK'
    BY <2>1, <2>2, <2>10, TypedNext, Zenon
  <2>. QED  BY <2>1, <2>4, <2>5, <2>8, <2>9, <2>11, <2>12, <2>13, ZenonT(30) DEF IInv, QueueOK
<1>2. CASE InstalledLocal
  <2>1. /\ InstallAcked /\ install.by = "local" /\ st' = HandoffLocal(st, install.child)
        /\ tm' = [tm EXCEPT !.child = TRUE] /\ install' = NoInstall /\ AfterPacket
        /\ UNCHANGED <<run, lease, updates, peer, deleted>>
    BY <1>2, Zenon DEF InstalledLocal, HandoffLocal
  <2>2. /\ st' \in StateType /\ st'.phase = "RekeyChildDeletingOld" /\ st'.next = st.next + 1
        /\ st'.exp = st.next /\ st'.has /\ st'.req.kind = "childDelete" /\ st'.req.child = st.active
        /\ st'.rekey = NoRekey /\ st'.active = install.child /\ st'.old = st.active
        /\ st'.oldIKE = st.oldIKE /\ st'.hist = st.hist /\ st'.spis = st.spis /\ st'.id = st.id
    <3>0. PICK c \in Nat : c = install.child
      BY <1>0, Zenon
    <3>. DEFINE t == HandoffLocal(st, c)
    <3>1. /\ t \in StateType /\ t.phase = "RekeyChildDeletingOld" /\ t.next = st.next + 1
          /\ t.exp = st.next /\ t.has /\ t.req.kind = "childDelete" /\ t.req.child = st.active
          /\ t.rekey = NoRekey /\ t.active = c /\ t.old = st.active
          /\ t.oldIKE = st.oldIKE /\ t.hist = st.hist /\ t.spis = st.spis /\ t.id = st.id
      BY HandoffLocalFields, SMTT(30)
    <3>2. st' = t
      BY <2>1, <3>0, Zenon
    <3>. HIDE DEF t
    <3>. QED  BY <3>0, <3>1, <3>2, Zenon
  <2>3. st.rekey # NoRekey /\ st.has /\ st.oldIKE = <<>> /\ st.req.kind = "childRekey"
    BY <1>0, <2>1, ConstantTypes, Zenon DEF IInv, InstallOK, CoreOK
  <2>4. CoreOK(st')
    BY <2>2, <2>3, ConstantTypes DEF CoreOK
  <2>5. ChildrenOK(st')
    BY <1>0, <2>2, ConstantTypes DEF ChildrenOK
  <2>6. CodecsOK' /\ QueueOK' /\ PlaneTypeOK'
    BY <1>0, <2>1, <2>2, InstallSwitched, Zenon
  <2>7. TimersOK' /\ rto' \in RtoType /\ oldRto' \in OldRtoType
    BY <1>0, <2>1, <2>2, <2>3, PacketTimers, Zenon
  <2>8. PendingIsRenewal'
    BY <1>0, <2>1, <2>2, <2>3, Zenon DEF IInv, PendingIsRenewal
  <2>9. NumbersOK' /\ AskOK' /\ peer' \in PeerType
    BY <2>1, <2>2, SamePeer, Zenon
  <2>10. InstallOK' /\ install' \in InstallType
    BY <2>1, NotInstalling, Zenon
  <2>11. TypeOK'
    BY <2>1, <2>2, <2>6, <2>7, <2>9, <2>10, TmTypes, TypedNext, ZenonT(60)
  <2>. QED  BY <2>4, <2>5, <2>6, <2>7, <2>8, <2>9, <2>10, <2>11, ZenonT(60) DEF IInv
<1>3. CASE InstalledPeer
  <2>. DEFINE b == HandoffPeer(st, install.child)
  <2>1. /\ InstallAcked /\ install.by = "peer" /\ st' = rememberResponse(b, install.mid)
        /\ PeerAnswered(install.mid)
        /\ tm' = [tm EXCEPT !.child = TRUE] /\ install' = NoInstall /\ AfterPacket
        /\ UNCHANGED <<run, lease, updates, deleted>>
    BY <1>3, Zenon DEF InstalledPeer, HandoffPeer
  <2>2. st.rekey.kind # "child" /\ install.mid = peer.next
    BY <1>0, <2>1, Zenon DEF IInv, InstallOK
  <2>3. /\ b \in StateType /\ b.phase = st.phase /\ b.next = st.next /\ b.exp = st.exp
        /\ b.has = st.has /\ b.req = st.req /\ b.rekey = st.rekey /\ b.active = install.child
        /\ b.old = st.active /\ b.oldIKE = st.oldIKE /\ b.hist = st.hist /\ b.spis = st.spis
        /\ b.id = st.id
    BY <1>0, HandoffPeerFields, ZenonT(30)
  <2>. HIDE DEF b
  <2>4. CoreOK(b)
    BY <2>3, Zenon DEF IInv, CoreOK
  <2>5. ChildrenOK(b)
    <3>1. ChildrenOK(st)
      BY Zenon DEF IInv
    <3>. QED  BY <1>0, <2>2, <2>3, <3>1, SMTT(30) DEF ChildrenOK
  <2>6. CoreOK(st') /\ ChildrenOK(st')
    BY <1>0, <2>1, <2>3, <2>4, <2>5, RememberResponseOK, Zenon
  <2>7. /\ st' \in StateType /\ st'.exp = st.exp /\ st'.has = st.has /\ st'.req = st.req
        /\ st'.active = install.child /\ st'.spis = st.spis /\ st'.id = st.id
        /\ st'.hist # <<>> /\ st'.hist[Len(st'.hist)] = install.mid /\ Len(st'.hist) <= HistoryCap
    BY <1>0, <2>1, <2>3, RememberResponseFields, ZenonT(60)
  <2>8. st.req.kind = "childDelete" => st.req.child \in Nat /\ st.req.child < st.spis
    BY <1>0, FieldTypes, Zenon DEF IInv, InstallOK
  <2>9. CodecsOK' /\ QueueOK' /\ PlaneTypeOK'
    BY <1>0, <2>1, <2>7, <2>8, InstallSwitched, Zenon
  <2>10. TimersOK' /\ rto' \in RtoType /\ oldRto' \in OldRtoType
    BY <1>0, <2>1, <2>7, PacketTimers, Zenon
  <2>11. PendingIsRenewal'
    BY <1>0, <2>1, <2>7, Zenon DEF IInv, PendingIsRenewal
  <2>12. NumbersOK' /\ AskOK' /\ peer' \in PeerType
    <3>1. peer' = [next |-> peer.next + 1, ask |-> NoAsk] /\ peer.next \in Nat
      BY <2>1, <2>2, Zenon DEF PeerAnswered, PeerType
    <3>2. peer'.next = peer.next + 1 /\ peer'.ask = NoAsk
      BY <3>1, Zenon
    <3>3. peer' \in PeerType
      BY <3>1, NoAskTyped DEF PeerType
    <3>4. NumbersOK'
      BY <2>2, <2>7, <3>1, <3>2 DEF NumbersOK
    <3>. QED  BY <3>2, <3>3, <3>4, Zenon DEF AskOK
  <2>13. InstallOK' /\ install' \in InstallType
    BY <2>1, NotInstalling, Zenon
  <2>14. TypeOK'
    BY <2>1, <2>7, <2>9, <2>10, <2>12, <2>13, TmTypes, TypedNext, Zenon
  <2>. QED  BY <2>6, <2>9, <2>10, <2>11, <2>12, <2>13, <2>14, Zenon DEF IInv
<1>4. CASE InstallTimeout
  <2>1. /\ install' = NoInstall /\ AfterError /\ UNCHANGED <<run, lease, updates, peer, deleted>>
        /\ \/ install.by = "local" /\ st' = abandonRekey(st) /\ tm' = [tm EXCEPT !.retry = TRUE]
           \/ UNCHANGED <<st, tm>>
    BY <1>4, Zenon DEF InstallTimeout
  <2>2. CodecsOK' /\ QueueOK' /\ PlaneTypeOK' /\ InstallOK' /\ install' \in InstallType
    BY <2>1, InstallAbandoned, Zenon
  <2>3. CASE install.by = "local" /\ st' = abandonRekey(st) /\ tm' = [tm EXCEPT !.retry = TRUE]
    <3>1. st.rekey # NoRekey /\ st.has /\ st.oldIKE = <<>> /\ st.req.kind = "childRekey"
      BY <1>0, <2>3, ConstantTypes, Zenon DEF IInv, InstallOK, CoreOK
    <3>2. CoreOK(st') /\ ChildrenOK(st')
      BY <2>3, AbandonRekeyOK, Zenon DEF IInv
    <3>3. st' \in StateType /\ ~st'.has /\ st'.oldIKE = <<>> /\ st'.hist = st.hist /\ st'.id = st.id
      BY <2>3, AbandonRekeyFields, Zenon
    <3>4. TimersOK' /\ rto' \in RtoType /\ oldRto' \in OldRtoType
      BY <1>0, <2>1, <3>1, <3>3, ErrorTimers, Zenon DEF OldExpected
    <3>5. PendingIsRenewal'
      BY <1>0, <2>1, <3>1, <3>3, Zenon DEF IInv, PendingIsRenewal
    <3>6. NumbersOK' /\ AskOK' /\ peer' \in PeerType
      BY <2>1, <3>3, SamePeer, Zenon
    <3>7. TypeOK'
      BY <2>1, <2>2, <2>3, <3>3, <3>4, <3>6, TmTypes, TypedNext, Zenon
    <3>. QED  BY <2>2, <3>2, <3>4, <3>5, <3>6, <3>7, Zenon DEF IInv
  <2>4. CASE UNCHANGED <<st, tm>>
    <3>1. TimersOK' /\ rto' \in RtoType /\ oldRto' \in OldRtoType
      BY <1>0, <2>1, <2>4, ErrorTimers, Zenon
    <3>2. PendingIsRenewal'
      BY <2>1, <2>4, Zenon DEF IInv, PendingIsRenewal
    <3>3. NumbersOK' /\ AskOK' /\ peer' \in PeerType
      BY <2>1, <2>4, SamePeer, Zenon
    <3>4. TypeOK'
      BY <2>1, <2>2, <2>4, <3>1, <3>3, TypedNext, Zenon
    <3>. QED  BY <2>2, <2>4, <3>1, <3>2, <3>3, <3>4, Zenon DEF IInv
  <2>. QED  BY <2>1, <2>3, <2>4, Zenon
<1>. QED  BY <1>1, <1>2, <1>3, <1>4, Zenon DEF InstallStep

\* The cancellation of Run, inside installChild or outside.
LEMMA CancelInv ==
  ASSUME IInv, Cancel, UNCHANGED planeVars
  PROVE  IInv'
<1>. USE Typed
<1>1. /\ install' = NoInstall /\ run' = "cancelled" /\ (st' = st \/ st' = abandonRekey(st))
      /\ UNCHANGED <<rto, oldRto, tm, lease, updates, peer, deleted>>
  BY Zenon DEF Cancel
<1>2. CodecsOK' /\ QueueOK' /\ PlaneTypeOK' /\ InstallOK' /\ install' \in InstallType
  BY <1>1, InstallAbandoned, Zenon
<1>3. st' \in StateType /\ st'.hist = st.hist /\ CoreOK(st') /\ ChildrenOK(st')
  <2>1. CASE st' = abandonRekey(st)
    BY <2>1, AbandonRekeyFields, AbandonRekeyOK, Zenon DEF IInv
  <2>2. CASE st' = st
    BY <2>2, Zenon DEF IInv
  <2>. QED  BY <1>1, <2>1, <2>2, Zenon
<1>4. NumbersOK' /\ AskOK' /\ peer' \in PeerType
  BY <1>1, <1>3, SamePeer, Zenon
<1>5. TimersOK' /\ PendingIsRenewal'
  BY <1>1, Zenon DEF TimersOK, PendingIsRenewal
<1>6. TypeOK'
  BY <1>1, <1>2, <1>3, <1>4, TypedNext, Zenon
<1>. QED  BY <1>2, <1>3, <1>4, <1>5, <1>6, Zenon DEF IInv

-----------------------------------------------------------------------------
(* Requests of the peer. *)

\* A fresh request is the peer's next one: an answered one is remembered or
\* older than what is remembered.
LEMMA FreshIsNext ==
  ASSUME IInv, NEW m \in 0..peer.next, PeerRequest(m)
  PROVE  m = peer.next /\ m \in Nat /\ Actor /\ run = "running"
<1>1. peer.next \in Nat /\ m \in Nat /\ st.hist \in Seq(Nat) /\ Actor /\ run = "running"
  BY Typed, FieldTypes DEF PeerType, PeerRequest, Actor
<1>2. CASE peer.next # 0
  <2>1. st.hist # <<>> /\ st.hist[Len(st.hist)] = peer.next - 1
    BY <1>1, <1>2, Zenon DEF IInv, NumbersOK
  <2>2. m > peer.next - 1
    BY <2>1, Zenon DEF PeerRequest, Fresh
  <2>. QED  BY <1>1, <2>2
<1>. QED  BY <1>1, <1>2

\* What the peer asks is one of the requests this instance feeds the actor.
LEMMA AskTypes ==
  ASSUME IInv, NEW m \in Nat, NEW a \in MayAsk(m)
  PROVE  /\ a \in PeerAsk /\ a.child \in Nat /\ a.kind \in Inputs
         /\ a.kind = "rekeyChild" => a.child # NoChild
<1>1. CASE peer.ask # NoAsk /\ a = peer.ask
  BY <1>1, Typed, Zenon DEF IInv, AskOK, PeerType, PeerAsk
<1>2. CASE a \in Asks
  <2>1. PICK k \in PeerKinds \cap Inputs : a \in [kind : {k}, child : ChildrenOf(k), form : FormsOf(k)]
    BY <1>2, Zenon DEF Asks
  <2>2. FormsOf(k) \subseteq Forms
    BY Zenon DEF FormsOf, Forms
  <2>3. ChildrenOf(k) \subseteq Nat /\ (k = "rekeyChild" => NoChild \notin ChildrenOf(k))
    BY Typed, FieldTypes DEF ChildrenOf, NoChild
  <2>4. a.kind = k /\ a.child \in ChildrenOf(k)
    BY <2>1, Zenon
  <2>5. a \in PeerAsk
    BY <2>1, <2>2, <2>3, Zenon DEF PeerAsk
  <2>. QED  BY <2>1, <2>3, <2>4, <2>5, Zenon
<1>. QED  BY <1>1, <1>2, Zenon DEF MayAsk

\* The peer's bookkeeping after an answer ...
LEMMA PeerAnsweredTypes ==
  ASSUME IInv, PeerAnswered(peer.next)
  PROVE  peer' \in PeerType /\ AskOK' /\ peer'.next = peer.next + 1 /\ peer.next \in Nat
<1>1. peer' = [next |-> peer.next + 1, ask |-> NoAsk] /\ peer.next \in Nat
  BY Typed, Zenon DEF PeerAnswered, PeerType
<1>2. peer' \in PeerType
  BY <1>1, NoAskTyped DEF PeerType
<1>. QED  BY <1>1, <1>2, Zenon DEF AskOK

\* ... and after silence.
LEMMA UnansweredTypes ==
  ASSUME IInv, NEW a \in MayAsk(peer.next), Unanswered(peer.next, a), st'.hist = st.hist, run' = run
  PROVE  peer' \in PeerType /\ NumbersOK' /\ AskOK' /\ peer'.next = peer.next
<1>1. peer' = [peer EXCEPT !.ask = a] /\ peer \in PeerType /\ peer.next \in Nat
  BY Typed, Zenon DEF Unanswered, PeerType
<1>2. peer'.next = peer.next /\ peer'.ask = a
  BY <1>1, Zenon DEF PeerType
<1>3. a \in PeerAsk /\ a.kind \in Inputs /\ (a.kind = "rekeyChild" => a.child # NoChild)
  BY <1>1, AskTypes, Zenon
<1>4. peer' \in PeerType
  BY <1>1, <1>3, Zenon DEF PeerType
<1>. QED  BY <1>2, <1>3, <1>4, Zenon DEF IInv, NumbersOK, AskOK

\* A State s a handler may reach before it answers: st itself, st after a lost
\* collision, or st without a child the peer deleted.
Mild(s) ==
  /\ s \in StateType /\ CoreOK(s) /\ ChildrenOK(s)
  /\ s.hist = st.hist /\ s.spis = st.spis /\ s.active \in {st.active, NoChild} /\ s.oldIKE = st.oldIKE
  /\ s.has => st.has /\ s.exp = st.exp
  /\ s.req = st.req \/ s.req.kind # "childDelete"
  /\ s.id = st.id
  /\ lease.pending => (s.has /\ s.req.kind = "lease" /\ lease.on = s.id) \/ lease.on < s.id

\* st itself.
LEMMA MildSame ==
  ASSUME IInv, Actor
  PROVE  Mild(st)
  BY Typed, Zenon DEF IInv, Mild, PendingIsRenewal, Actor

\* A lost collision abandons our rekey; a renewal is never what it abandons.
LEMMA MildYielded ==
  ASSUME IInv, Actor, NEW k \in {"child", "ike"}
  PROVE  Mild(Yielded(k)) /\ Yielded(k).active = st.active /\ Yielded(k).rekey.kind # k
<1>. USE Typed
<1>1. CASE st.rekey.kind = k
  <2>1. Yielded(k) = abandonRekey(st)
    BY <1>1, Zenon DEF Yielded
  <2>2. st.rekey # NoRekey /\ st.oldIKE = <<>> /\ st.req.kind # "lease"
    BY <1>1, ConstantTypes, Zenon DEF IInv, CoreOK
  <2>3. lease.pending => lease.on < st.id
    BY <2>2, Zenon DEF IInv, PendingIsRenewal, Actor
  <2>. DEFINE t == abandonRekey(st)
  <2>4. /\ t \in StateType /\ t.hist = st.hist /\ t.spis = st.spis /\ t.active = st.active
        /\ t.oldIKE = <<>> /\ ~t.has /\ t.req = NoRequest /\ t.rekey = NoRekey /\ t.id = st.id
    BY AbandonRekeyFields, Zenon
  <2>5. CoreOK(t) /\ ChildrenOK(t)
    BY AbandonRekeyOK, Zenon DEF IInv
  <2>. HIDE DEF t
  <2>6. Mild(t)
    BY <2>2, <2>3, <2>4, <2>5, ConstantTypes, Zenon DEF Mild
  <2>. QED  BY <2>1, <2>4, <2>6, ConstantTypes, Zenon DEF t
<1>2. CASE st.rekey.kind # k
  <2>1. Yielded(k) = st
    BY <1>2, Zenon DEF Yielded
  <2>. QED  BY <1>2, <2>1, MildSame, Zenon
<1>. QED  BY <1>1, <1>2, Zenon

\* A handler that reached State s and answered.
LEMMA AnsweredInv ==
  ASSUME IInv, Actor, UNCHANGED <<planeVars, run, tm, install>>, NEW s, Mild(s),
         st' = rememberResponse(s, peer.next), PeerAnswered(peer.next), AfterPacket,
         lease' \in LeaseType, lease'.pending = lease.pending, lease'.on = lease.on, deleted' \in SUBSET Nat,
         updates' = updates \/ \E u : Harmless(u) /\ Offer(u)
  PROVE  IInv'
<1>. USE Typed
<1>1. peer' \in PeerType /\ AskOK' /\ peer'.next = peer.next + 1 /\ peer.next \in Nat
  BY PeerAnsweredTypes, Zenon
<1>2. s \in StateType /\ CoreOK(s) /\ ChildrenOK(s) /\ Len(s.hist) <= HistoryCap
  BY Zenon DEF Mild
<1>3. /\ st' \in StateType /\ st'.exp = s.exp /\ st'.has = s.has /\ st'.req = s.req
      /\ st'.active = s.active /\ st'.spis = s.spis /\ st'.id = s.id
      /\ st'.hist # <<>> /\ st'.hist[Len(st'.hist)] = peer.next /\ Len(st'.hist) <= HistoryCap
  BY <1>1, <1>2, RememberResponseFields, ZenonT(60)
<1>4. CoreOK(st') /\ ChildrenOK(st')
  BY <1>1, <1>2, RememberResponseOK, Zenon
<1>5. NumbersOK'
  BY <1>1, <1>3 DEF NumbersOK
<1>6. run = "running" /\ (st'.has => st.has /\ st'.exp = st.exp)
  BY <1>3, Zenon DEF Mild, Actor
<1>7. TimersOK' /\ rto' \in RtoType /\ oldRto' \in OldRtoType
  BY <1>3, <1>6, PacketTimers, Zenon
<1>8. PendingIsRenewal'
  BY <1>3, Zenon DEF Mild, PendingIsRenewal
<1>9. /\ st'.spis = st.spis /\ st'.active \in {st.active, NoChild}
      /\ st'.req = st.req \/ st'.req.kind # "childDelete"
  BY <1>3, Zenon DEF Mild
<1>. QED  BY <1>1, <1>3, <1>4, <1>5, <1>7, <1>8, <1>9, Handled, ZenonT(60)

\* A handler that reached State s and did not answer.
LEMMA SilentInv ==
  ASSUME IInv, Actor, UNCHANGED <<planeVars, run, tm, lease, install, updates, deleted>>,
         NEW s, Mild(s), st' = s, NEW a \in MayAsk(peer.next), Unanswered(peer.next, a),
         AfterError \/ AfterPacket
  PROVE  IInv'
<1>. USE Typed
<1>1. /\ st' \in StateType /\ CoreOK(st') /\ ChildrenOK(st') /\ st'.hist = st.hist
      /\ st'.spis = st.spis /\ st'.active \in {st.active, NoChild} /\ st'.oldIKE = st.oldIKE
      /\ st'.req = st.req \/ st'.req.kind # "childDelete"
  BY Zenon DEF Mild
<1>2. run = "running" /\ (st'.has => st.has /\ st'.exp = st.exp)
  BY Zenon DEF Mild, Actor
<1>3. peer' \in PeerType /\ NumbersOK' /\ AskOK'
  BY <1>1, UnansweredTypes, Zenon
<1>4. TimersOK' /\ rto' \in RtoType /\ oldRto' \in OldRtoType
  <2>1. CASE AfterError
    BY <1>1, <1>2, <2>1, ErrorTimers, Zenon DEF OldExpected
  <2>2. CASE AfterPacket
    BY <1>1, <1>2, <2>2, PacketTimers, Zenon
  <2>. QED  BY <2>1, <2>2, Zenon
<1>5. PendingIsRenewal'
  BY Zenon DEF Mild, PendingIsRenewal
<1>. QED  BY <1>1, <1>3, <1>4, <1>5, Handled, Zenon

\* The active child is gone.
DropActive(s) == [s EXCEPT !.active = NoChild]

\* Without the active child the State is as good as before.
LEMMA MildDropActive ==
  ASSUME IInv, Actor
  PROVE  Mild(DropActive(st)) /\ DropActive(st).active = NoChild
<1>. DEFINE t == DropActive(st)
<1>1. t \in StateType
  BY Typed, ConstantTypes, ZenonT(30) DEF DropActive, StateType
<1>2. /\ t.phase = st.phase /\ t.next = st.next /\ t.exp = st.exp /\ t.has = st.has /\ t.req = st.req
      /\ t.rekey = st.rekey /\ t.active = NoChild /\ t.old = st.old /\ t.oldIKE = st.oldIKE
      /\ t.hist = st.hist /\ t.spis = st.spis /\ t.id = st.id
  BY Typed, Zenon DEF DropActive, StateType
<1>. HIDE DEF t
<1>3. CoreOK(t)
  BY <1>2, ZenonT(60) DEF IInv, CoreOK
<1>4. ChildrenOK(t)
  BY <1>2, Typed, FieldTypes, ConstantTypes DEF IInv, ChildrenOK
<1>5. Mild(t)
  BY <1>1, <1>2, <1>3, <1>4, MildSame, Zenon DEF Mild
<1>. QED  BY <1>2, <1>5, Zenon DEF t

\* So is the State without the retained child.
LEMMA MildDropOld ==
  ASSUME IInv, Actor
  PROVE  Mild(DropOld(st)) /\ DropOld(st).active = st.active
<1>. DEFINE t == DropOld(st)
<1>1. /\ t \in StateType /\ t.exp = st.exp /\ t.has = st.has /\ t.req = st.req
      /\ t.active = st.active /\ t.oldIKE = st.oldIKE /\ t.hist = st.hist /\ t.spis = st.spis /\ t.id = st.id
  BY Typed, DropOldFields, Zenon
<1>2. CoreOK(t) /\ ChildrenOK(t)
  BY Typed, DropOldOK, Zenon DEF IInv
<1>. HIDE DEF t
<1>3. Mild(t)
  BY <1>1, <1>2, MildSame, Zenon DEF Mild
<1>. QED  BY <1>1, <1>3, Zenon DEF t

\* The peer deletes a child: the retained one, the active one or another.
LEMMA PeerDeletesChildInv ==
  ASSUME IInv, Actor, UNCHANGED planeVars, NEW a \in MayAsk(peer.next), a.child \in Nat,
         PeerDeletesChild(peer.next, a)
  PROVE  IInv'
<1>. USE Typed
<1>. DEFINE c == a.child
            s == IF c = st.old THEN DropOld(st) ELSE IF c = st.active THEN DropActive(st) ELSE st
<1>1. /\ st' = rememberResponse(s, peer.next) /\ deleted' = deleted \cup {c}
      /\ IF c \in {st.old, st.active} THEN Offer(Deleted(c)) ELSE UNCHANGED updates
      /\ PeerAnswered(peer.next) /\ AfterPacket /\ UNCHANGED <<run, tm, lease, install>>
  BY Zenon DEF PeerDeletesChild, DropOld, DropActive
<1>2. Mild(s)
  BY MildSame, MildDropOld, MildDropActive, Zenon
<1>3. c = st.active /\ c # st.old => s.active = NoChild
  BY MildDropActive, Zenon
<1>4. peer.next \in Nat /\ Len(s.hist) <= HistoryCap
  BY <1>2, Zenon DEF PeerType, Mild
<1>. HIDE DEF s
<1>5. st'.active = s.active /\ s.active \in {st.active, NoChild}
  BY <1>1, <1>2, <1>4, RememberResponseFields, Zenon DEF Mild
<1>6. c \in {st.old, st.active} => Harmless(Deleted(c))
  <2>1. Deleted(c) \in Update /\ Deleted(c).kind = "deleted" /\ Deleted(c).child = c
    BY Zenon DEF Deleted, Update
  <2>2. st.old # NoChild => st.old # st.active
    BY Zenon DEF IInv, ChildrenOK
  <2>3. st.old <= st.spis /\ st.active <= st.spis
    BY Zenon DEF IInv, ChildrenOK
  <2>. QED  BY <1>3, <1>5, <2>1, <2>2, <2>3, Zenon DEF Harmless, Actor
<1>. QED  BY <1>1, <1>2, <1>6, AnsweredInv, Zenon

\* The peer rekeys the active child: refused, rejected or waiting for the data
\* plane.
LEMMA PeerRekeysChildInv ==
  ASSUME IInv, Actor, UNCHANGED planeVars, NEW a \in MayAsk(peer.next), NEW b,
         a.kind = "rekeyChild" => a.child # NoChild,
         PeerRekeysChild(peer.next, a, b)
  PROVE  IInv'
<1>. USE Typed
<1>. DEFINE y == Yielded("child")
<1>1. Mild(st) /\ Mild(y) /\ y.active = st.active /\ y.rekey.kind # "child"
  BY MildSame, MildYielded, Zenon
<1>2. CASE PeerRefused(peer.next, st) \/ PeerRefused(peer.next, y)
  BY <1>1, <1>2, AnsweredInv, Zenon DEF PeerRefused
<1>3. CASE PeerRejected(peer.next, a, st) \/ PeerRejected(peer.next, a, y)
  BY <1>1, <1>3, SilentInv, ZenonT(60) DEF PeerRejected
<1>. DEFINE i == [stage |-> "enqueue", by |-> "peer", child |-> st.spis + 1, mid |-> peer.next]
<1>4. CASE /\ a.child = st.active /\ st' = [y EXCEPT !.spis = @ + 1] /\ install' = i
           /\ Unanswered(peer.next, a) /\ UNCHANGED <<run, rto, oldRto, tm, lease, updates, deleted>>
  <2>. HIDE DEF y
  <2>1. /\ y \in StateType /\ CoreOK(y) /\ ChildrenOK(y) /\ Len(y.hist) <= HistoryCap
        /\ y.spis = st.spis /\ y.hist = st.hist
        /\ y.has => st.has /\ y.exp = st.exp
        /\ y.req = st.req \/ y.req.kind # "childDelete"
    BY <1>1, Zenon DEF Mild
  <2>2. OldExpected(y) <=> OldExpected(st)
    BY <1>1, Zenon DEF Mild, OldExpected
  <2>3. st'.hist = st.hist /\ st'.has = y.has /\ st'.req = y.req /\ st'.id = y.id
    BY <1>4, <2>1, AllocateFields, Zenon
  <2>4. peer' \in PeerType /\ NumbersOK' /\ AskOK' /\ peer'.next = peer.next /\ peer.next \in Nat
    BY <1>4, <2>3, UnansweredTypes, Zenon DEF PeerType
  <2>5. PendingIsRenewal'
    BY <1>1, <1>4, <2>3, Zenon DEF Mild, PendingIsRenewal
  <2>6. a.kind = "rekeyChild"
    BY Zenon DEF PeerRekeysChild
  <2>. QED  BY <1>1, <1>4, <2>1, <2>2, <2>4, <2>5, <2>6, ChildAllocated, ZenonT(60)
<1>. QED  BY <1>2, <1>3, <1>4, Zenon DEF PeerRekeysChild

\* The peer rekeys the IKE SA: refused, rejected or done.
LEMMA PeerRekeysIKEInv ==
  ASSUME IInv, Actor, UNCHANGED planeVars, NEW a \in MayAsk(peer.next), NEW b,
         a.kind \in Inputs, PeerRekeysIKE(peer.next, a, b)
  PROVE  IInv'
<1>. USE Typed
<1>. DEFINE y == Yielded("ike")
            ctx == [id |-> st.id, next |-> st.next, exp |-> st.exp, has |-> FALSE,
                    hist |-> Append(st.hist, peer.next), peerNext |-> peer.next + 1,
                    rekeyMID |-> peer.next, waiting |-> TRUE, inFlight |-> TRUE]
<1>1. Mild(st) /\ Mild(y) /\ y.active = st.active
  BY MildSame, MildYielded, Zenon
<1>2. CASE PeerRefused(peer.next, st) \/ PeerRefused(peer.next, y)
  BY <1>1, <1>2, AnsweredInv, Zenon DEF PeerRefused
<1>3. CASE PeerRejected(peer.next, a, y)
  BY <1>1, <1>3, SilentInv, Zenon DEF PeerRejected
<1>4. CASE /\ st.oldIKE = <<>> /\ st' = SwitchIKE(y, ctx) /\ peer' = [next |-> 0, ask |-> NoAsk]
           /\ tm' = [tm EXCEPT !.ike = TRUE] /\ AfterPacket
           /\ UNCHANGED <<run, lease, install, updates, deleted>>
  <2>1. peer.next \in Nat /\ Append(st.hist, peer.next) \in Seq(Nat)
    BY FieldTypes, SMTT(30) DEF PeerType
  <2>2. ctx \in OldContext
    <3>1. st.id \in Nat /\ st.next \in Nat /\ st.exp \in Nat /\ peer.next + 1 \in Nat
      BY <2>1, FieldTypes, SMTT(30)
    <3>. QED  BY <2>1, <3>1, ZenonT(30) DEF OldContext
  <2>. HIDE DEF y, ctx
  <2>3. /\ y \in StateType /\ CoreOK(y) /\ ChildrenOK(y) /\ y.spis = st.spis /\ y.oldIKE = <<>>
        /\ y.id = st.id
    BY <1>1, <1>4, Zenon DEF Mild
  <2>4. PendingIsRenewal'
    <3>1. st'.id = y.id + 1
      BY <1>4, <2>2, <2>3, SwitchIKEFields, ZenonT(30)
    <3>. QED  BY <1>4, <2>3, <3>1, PendingSwitched, Zenon
  <2>. QED  BY <1>1, <1>4, <2>2, <2>3, <2>4, IKESwitched, ZenonT(60)
<1>. QED  BY <1>2, <1>3, <1>4, Zenon DEF PeerRekeysIKE

\* A request of the peer, whatever it asks.
LEMMA PeerStepInv ==
  ASSUME IInv, PeerStep, UNCHANGED planeVars
  PROVE  IInv'
<1>. USE Typed
<1>1. PICK m \in 0..peer.next : PeerRequest(m) /\ \E a \in MayAsk(m) :
         \/ PeerUnserved(m, a) \/ PeerEmpty(m, a) \/ PeerDeletesIKE(m, a) \/ PeerDeletesChild(m, a)
         \/ \E b \in BOOLEAN : PeerCfgSet(m, a, b) \/ PeerRekeysChild(m, a, b)
                               \/ PeerRekeysIKE(m, a, b)
  BY Zenon DEF PeerStep
<1>2. m = peer.next /\ peer.next \in Nat /\ Actor /\ run = "running"
  BY <1>1, FreshIsNext, Zenon
<1>3. PICK a \in MayAsk(peer.next) :
         \/ PeerUnserved(peer.next, a) \/ PeerEmpty(peer.next, a) \/ PeerDeletesIKE(peer.next, a)
         \/ PeerDeletesChild(peer.next, a)
         \/ \E b \in BOOLEAN : PeerCfgSet(peer.next, a, b) \/ PeerRekeysChild(peer.next, a, b)
                               \/ PeerRekeysIKE(peer.next, a, b)
  BY <1>1, <1>2, Zenon
<1>4. a.child \in Nat /\ a.kind \in Inputs /\ (a.kind = "rekeyChild" => a.child # NoChild)
  BY <1>2, AskTypes, Zenon
<1>5. Mild(st)
  BY <1>2, MildSame, Zenon
<1>6. CASE PeerUnserved(peer.next, a)
  BY <1>2, <1>5, <1>6, SilentInv, ZenonT(60) DEF PeerUnserved
<1>7. CASE PeerEmpty(peer.next, a)
  BY <1>2, <1>5, <1>7, AnsweredInv, ZenonT(60) DEF PeerEmpty
<1>8. CASE PeerDeletesIKE(peer.next, a)
  <2>1. /\ st' = ClearSession(st) /\ PeerAnswered(peer.next) /\ AfterPacket /\ run' = "clean"
        /\ lease' = LeaseArmed(FALSE) /\ UNCHANGED <<tm, install, updates, deleted>>
    BY <1>8, Zenon DEF PeerDeletesIKE
  <2>2. /\ st' \in StateType /\ st'.phase = "Stopped" /\ ~st'.has /\ st'.req = NoRequest
        /\ st'.rekey = NoRekey /\ st'.active = NoChild /\ st'.old = NoChild /\ st'.oldIKE = <<>>
        /\ st'.hist = <<>> /\ st'.spis = st.spis
    BY <2>1, ClearSessionFields, ZenonT(30)
  <2>3. CoreOK(st')
    BY <2>2, ConstantTypes DEF CoreOK
  <2>4. ChildrenOK(st')
    BY <2>2, FieldTypes, ConstantTypes DEF ChildrenOK
  <2>5. peer' \in PeerType /\ AskOK'
    BY <2>1, PeerAnsweredTypes, Zenon
  <2>6. TimersOK' /\ rto' \in RtoType /\ oldRto' \in OldRtoType
    BY <1>2, <2>1, <2>2, PacketTimers, Zenon
  <2>7. lease' \in LeaseType /\ PendingIsRenewal' /\ NumbersOK'
    BY <2>1, LeaseTypes, ZenonT(30) DEF PendingIsRenewal, NumbersOK
  <2>8. Len(st'.hist) <= HistoryCap /\ st'.req.kind # "childDelete"
    BY <2>2, RunningAssumption, ConstantTypes
  <2>. QED  BY <1>2, <2>1, <2>2, <2>3, <2>4, <2>5, <2>6, <2>7, <2>8, Handled, ZenonT(60)
<1>9. CASE PeerDeletesChild(peer.next, a)
  BY <1>2, <1>4, <1>9, PeerDeletesChildInv, ZenonT(60)
<1>10. ASSUME NEW b \in BOOLEAN, PeerCfgSet(peer.next, a, b) PROVE IInv'
  <2>1. MergedExpiry(a.form) \in BOOLEAN
    BY Zenon DEF MergedExpiry, LeaseType
  <2>2. /\ lease' = LeaseArmed(MergedExpiry(a.form)) /\ (updates' = updates \/ Offer(Assigned))
        /\ st' = rememberResponse(st, peer.next) /\ PeerAnswered(peer.next) /\ AfterPacket
        /\ UNCHANGED <<run, tm, install, deleted>>
    BY <1>10, Zenon DEF PeerCfgSet
  <2>3. lease' \in LeaseType /\ lease'.pending = lease.pending /\ lease'.on = lease.on
    BY <2>1, <2>2, LeaseTypes, ZenonT(30)
  <2>4. Harmless(Assigned)
    BY FieldTypes, ConstantTypes DEF Harmless, Assigned, Update
  <2>. QED  BY <1>2, <1>5, <2>2, <2>3, <2>4, AnsweredInv, ZenonT(60)
<1>11. ASSUME NEW b \in BOOLEAN, PeerRekeysChild(peer.next, a, b) PROVE IInv'
  BY <1>2, <1>4, <1>11, PeerRekeysChildInv, Zenon
<1>12. ASSUME NEW b \in BOOLEAN, PeerRekeysIKE(peer.next, a, b) PROVE IInv'
  BY <1>2, <1>4, <1>12, PeerRekeysIKEInv, ZenonT(60)
<1>. QED  BY <1>3, <1>6, <1>7, <1>8, <1>9, <1>10, <1>11, <1>12, ZenonT(60)

-----------------------------------------------------------------------------
(* The replaced IKE SA, and what happens around the actor. *)

\* A step that only updates the retained IKE SA.
LEMMA ContextInv ==
  ASSUME IInv, UNCHANGED <<planeVars, run, tm, lease, install, updates, peer, deleted>>,
         st.oldIKE # <<>>, NEW c \in OldContext,
         st' = [st EXCEPT !.oldIKE = [st.oldIKE EXCEPT ![1] = c]],
         run = "running", AfterPacket \/ (AfterError /\ c.has = st.oldIKE[1].has)
  PROVE  IInv'
<1>. USE Typed
<1>1. /\ st' \in StateType /\ st'.hist = st.hist /\ st'.spis = st.spis /\ st'.active = st.active
      /\ st'.old = st.old /\ st'.rekey = st.rekey /\ st'.req = st.req /\ st'.has = st.has
      /\ st'.exp = st.exp /\ st'.oldIKE # <<>> /\ st'.oldIKE[1] = c /\ st'.id = st.id
  BY OldContextFields
<1>2. CoreOK(st') /\ ChildrenOK(st')
  BY OldContextOK, Zenon DEF IInv
<1>3. CodecsOK' /\ QueueOK' /\ PlaneTypeOK'
  BY <1>1, ActorKeepsPlane, Zenon
<1>4. InstallOK'
  BY <1>1, Zenon DEF IInv, InstallOK
<1>5. NumbersOK' /\ AskOK' /\ peer' \in PeerType
  BY <1>1, SamePeer, Zenon
<1>6. TimersOK' /\ rto' \in RtoType /\ oldRto' \in OldRtoType
  <2>1. CASE AfterPacket
    BY <1>1, <2>1, PacketTimers, Zenon
  <2>2. CASE AfterError /\ c.has = st.oldIKE[1].has
    BY <1>1, <2>2, ErrorTimers, Zenon DEF OldExpected
  <2>. QED  BY <2>1, <2>2, Zenon
<1>7. PendingIsRenewal'
  BY <1>1, Zenon DEF IInv, PendingIsRenewal
<1>8. TypeOK'
  BY <1>1, <1>3, <1>5, <1>6, TypedNext, ZenonT(60)
<1>. QED  BY <1>2, <1>3, <1>4, <1>5, <1>6, <1>7, <1>8, ZenonT(60) DEF IInv

\* The retained IKE SA is dropped.
LEMMA RetentionEndsInv ==
  ASSUME IInv, UNCHANGED <<planeVars, run, tm, lease, install, updates, peer, deleted>>,
         Actor, st.oldIKE # <<>>, st' = finishOldIKEDelete(st), AfterPacket
  PROVE  IInv'
<1>. USE Typed
<1>1. /\ st' \in StateType /\ st'.hist = st.hist /\ st'.spis = st.spis /\ st'.active = st.active
      /\ st'.req = st.req /\ st'.has = st.has /\ st'.exp = st.exp /\ st'.id = st.id
  BY FinishOldIKEDeleteFields, Zenon
<1>2. CoreOK(st') /\ ChildrenOK(st')
  BY FinishOldIKEDeleteOK, Zenon DEF IInv
<1>3. NumbersOK' /\ AskOK' /\ peer' \in PeerType
  BY <1>1, SamePeer, Zenon
<1>4. TimersOK' /\ rto' \in RtoType /\ oldRto' \in OldRtoType
  BY <1>1, PacketTimers, Zenon DEF Actor
<1>5. PendingIsRenewal'
  BY <1>1, Zenon DEF IInv, PendingIsRenewal
<1>. QED  BY <1>1, <1>2, <1>3, <1>4, <1>5, Handled, ZenonT(60)

\* A packet on the replaced IKE SA.
LEMMA OldSAStepInv ==
  ASSUME IInv, OldSAStep, UNCHANGED planeVars
  PROVE  IInv'
<1>. USE Typed
<1>. DEFINE o == st.oldIKE[1]
<1>1. Actor /\ run = "running" /\ st.oldIKE # <<>>
  BY Zenon DEF OldSAStep, OldIKEResponse, OldIKERetransmit, OldIKERequest, OldSA, Actor
<1>2. o \in OldContext
  BY <1>1, FieldTypes
<1>3. CASE OldIKEResponse
  BY <1>1, <1>3, RetentionEndsInv, Zenon DEF OldIKEResponse
<1>4. CASE OldIKERetransmit
  <2>1. UNCHANGED <<run, tm, lease, install, updates, peer, deleted>>
    BY <1>4, Zenon DEF OldIKERetransmit
  <2>2. CASE o.rekeyMID = 0
    <3>1. st' = st /\ AfterError
      BY <1>4, <2>2, Zenon DEF OldIKERetransmit
    <3>2. TimersOK' /\ rto' \in RtoType /\ oldRto' \in OldRtoType
      BY <1>1, <3>1, ErrorTimers, Zenon
    <3>3. PendingIsRenewal'
      BY <2>1, <3>1, Zenon DEF IInv, PendingIsRenewal
    <3>. QED  BY <2>1, <3>1, <3>2, <3>3, SameState, TypedNext, ZenonT(60) DEF IInv
  <2>3. CASE o.rekeyMID # 0
    <3>. DEFINE c == [o EXCEPT !.inFlight = TRUE]
    <3>1. st' = [st EXCEPT !.oldIKE = [st.oldIKE EXCEPT ![1] = c]] /\ AfterPacket
      BY <1>4, <2>3, Zenon DEF OldIKERetransmit
    <3>2. c \in OldContext
      BY <1>2, ZenonT(30) DEF OldContext
    <3>. HIDE DEF c
    <3>. QED  BY <1>1, <2>1, <3>1, <3>2, ContextInv, ZenonT(60)
  <2>. QED  BY <2>2, <2>3, Zenon
<1>5. ASSUME NEW isDelete \in BOOLEAN, OldIKERequest(isDelete) PROVE IInv'
  <2>1. UNCHANGED <<run, tm, lease, install, updates, peer, deleted>> /\ AfterPacket
    BY <1>5, Zenon DEF OldIKERequest
  <2>2. CASE isDelete
    BY <1>1, <1>5, <2>1, <2>2, RetentionEndsInv, ZenonT(60) DEF OldIKERequest
  <2>3. CASE ~isDelete
    <3>. DEFINE h == Append(o.hist, o.peerNext)
                c == [o EXCEPT !.hist = h, !.peerNext = o.peerNext + 1]
    <3>1. st' = [st EXCEPT !.oldIKE = [st.oldIKE EXCEPT ![1] = c]]
      <4>1. st' = [st EXCEPT !.oldIKE[1].hist = h, !.oldIKE[1].peerNext = @ + 1]
        BY <1>5, <2>3, Zenon DEF OldIKERequest
      <4>2. st.oldIKE \in Seq(OldContext) /\ 1 \in DOMAIN st.oldIKE
        BY <1>1, FieldTypes
      <4>. HIDE DEF h
      <4>. QED  BY <1>2, <4>1, <4>2, ZenonT(30) DEF StateType, OldContext
    <3>2. h \in Seq(Nat) /\ o.peerNext + 1 \in Nat
      BY <1>2, SMTT(30) DEF OldContext
    <3>. HIDE DEF h
    <3>3. c \in OldContext
      BY <1>2, <3>2, ZenonT(30) DEF OldContext
    <3>. HIDE DEF c
    <3>. QED  BY <1>1, <2>1, <3>1, <3>3, ContextInv, ZenonT(60)
  <2>. QED  BY <2>2, <2>3, Zenon
<1>. QED  BY <1>3, <1>4, <1>5, ZenonT(60) DEF OldSAStep

\* The network, the clock and the outbound codec.
LEMMA EnvironmentInv ==
  ASSUME IInv, Environment, UNCHANGED planeVars
  PROVE  IInv'
<1>. USE Typed
<1>. DEFINE o == st.oldIKE[1]
<1>1. CASE RekeyResponseArrives \/ RekeyResponseLost
  <2>1. /\ run = "running" /\ st.oldIKE # <<>> /\ AfterError
        /\ UNCHANGED <<run, tm, lease, install, updates, peer, deleted>>
    BY <1>1, Zenon DEF RekeyResponseArrives, RekeyResponseLost, AfterError
  <2>2. o \in OldContext
    BY <2>1, FieldTypes
  <2>3. PICK w \in {o.waiting, FALSE} :
          st' = [st EXCEPT !.oldIKE = [st.oldIKE EXCEPT ![1] = [o EXCEPT !.waiting = w, !.inFlight = FALSE]]]
    <3>1. CASE RekeyResponseLost
      <4>1. st' = [st EXCEPT !.oldIKE = [st.oldIKE EXCEPT ![1] = [o EXCEPT !.inFlight = FALSE]]]
        BY <3>1, Zenon DEF RekeyResponseLost
      <4>2. [o EXCEPT !.inFlight = FALSE] = [o EXCEPT !.waiting = o.waiting, !.inFlight = FALSE]
        BY <2>2, ZenonT(30) DEF OldContext
      <4>. QED  BY <4>1, <4>2, Zenon
    <3>2. CASE RekeyResponseArrives
      <4>1. st' = [st EXCEPT !.oldIKE[1].waiting = FALSE, !.oldIKE[1].inFlight = FALSE]
        BY <3>2, Zenon DEF RekeyResponseArrives
      <4>2. st.oldIKE \in Seq(OldContext) /\ 1 \in DOMAIN st.oldIKE
        BY <2>1, FieldTypes
      <4>3. st' = [st EXCEPT !.oldIKE = [st.oldIKE EXCEPT ![1] = [o EXCEPT !.waiting = FALSE, !.inFlight = FALSE]]]
        BY <2>2, <4>1, <4>2, ZenonT(30) DEF StateType, OldContext
      <4>. QED  BY <4>3, Zenon
    <3>. QED  BY <1>1, <3>1, <3>2, Zenon
  <2>. DEFINE c == [o EXCEPT !.waiting = w, !.inFlight = FALSE]
  <2>4. c \in OldContext /\ c.has = o.has
    BY <2>2, <2>3, Zenon DEF OldContext
  <2>5. st' = [st EXCEPT !.oldIKE = [st.oldIKE EXCEPT ![1] = c]]
    BY <2>3, Zenon
  <2>. HIDE DEF c
  <2>. QED  BY <2>1, <2>4, <2>5, ContextInv, Zenon
<1>2. CASE DeadlinePasses
  <2>1. /\ lease' = [lease EXCEPT !.past = TRUE]
        /\ UNCHANGED <<st, run, rto, oldRto, tm, install, updates, peer, deleted>>
    BY <1>2, Zenon DEF DeadlinePasses
  <2>2. lease' \in LeaseType /\ lease'.pending = lease.pending /\ lease'.on = lease.on
    BY <2>1, Zenon DEF LeaseType
  <2>3. TimersOK' /\ PendingIsRenewal'
    BY <2>1, <2>2, Zenon DEF IInv, TimersOK, PendingIsRenewal, OldExpected
  <2>. QED  BY <2>1, <2>2, <2>3, SameState, TypedNext, ZenonT(60) DEF IInv
<1>3. CASE NearWrapSignal
  <2>1. /\ tm' = [tm EXCEPT !.wrap = TRUE]
        /\ UNCHANGED <<st, run, rto, oldRto, lease, install, updates, peer, deleted>>
    BY <1>3, Zenon DEF NearWrapSignal
  <2>2. TimersOK' /\ PendingIsRenewal'
    BY <2>1, Zenon DEF IInv, TimersOK, PendingIsRenewal, OldExpected
  <2>. QED  BY <2>1, <2>2, TmTypes, SameState, TypedNext, ZenonT(60) DEF IInv
<1>. QED  BY <1>1, <1>2, <1>3, Zenon DEF Environment

-----------------------------------------------------------------------------
(* The data plane. *)

\* Taking the oldest update leaves the later ones, in order.
LEMMA TailOfUpdates ==
  ASSUME IInv, updates # <<>>, updates' = Tail(updates)
  PROVE  /\ Head(updates) \in Update /\ Head(updates).child \in Nat
         /\ UpdateOK(Head(updates), st, install, acked, storing)
         /\ updates' \in Seq(Update) /\ Len(updates') <= UpdateCap /\ Ordered(updates')
         /\ \A i \in 1..Len(updates') :
              /\ updates'[i] \in Update /\ UpdateOK(updates'[i], st, install, acked, storing)
              /\ Head(updates).kind = "installed" /\ updates'[i].kind = "installed"
                   => Head(updates).child < updates'[i].child
<1>1. updates \in Seq(Update) /\ Len(updates) <= UpdateCap /\ UpdateCap \in Nat
  BY UpdateCapAssumption, Zenon DEF IInv, TypeOK, PlaneTypeOK
<1>2. Head(updates) = updates[1] /\ 1 \in 1..Len(updates) /\ Head(updates) \in Update
  BY <1>1
<1>3. updates' \in Seq(Update) /\ Len(updates') = Len(updates) - 1
  BY <1>1
<1>4. \A i \in 1..Len(updates') : i + 1 \in 1..Len(updates) /\ updates'[i] = updates[i + 1] /\ 1 < i + 1
  BY <1>1, <1>3
<1>5. Ordered(updates')
  BY <1>4 DEF IInv, QueueOK, Ordered
<1>6. ASSUME NEW i \in 1..Len(updates')
      PROVE  /\ updates'[i] \in Update /\ UpdateOK(updates'[i], st, install, acked, storing)
             /\ Head(updates).kind = "installed" /\ updates'[i].kind = "installed"
                  => Head(updates).child < updates'[i].child
  BY <1>2, <1>3, <1>4 DEF IInv, QueueOK, Ordered
<1>7. Head(updates).child \in Nat
  BY <1>2, Zenon DEF Update
<1>. QED  BY <1>1, <1>2, <1>3, <1>5, <1>6, <1>7 DEF IInv, QueueOK

\* watchControlUpdates applies one update, or the second half of one.
LEMMA PlaneStepInv ==
  ASSUME IInv, PlaneStep
  PROVE  IInv'
<1>. USE Typed
<1>0. UNCHANGED <<st, run, rto, oldRto, tm, lease, install, peer, deleted>>
  BY Zenon DEF PlaneStep
<1>1. acked \in Nat /\ storing \in Nat /\ st.spis \in Nat /\ inTable \in SUBSET Nat /\ outCodec \in Nat
      /\ current \in Nat /\ ended \in BOOLEAN
  BY FieldTypes, Zenon DEF IInv, TypeOK, PlaneTypeOK
<1>2. SUFFICES CodecsOK' /\ QueueOK' /\ PlaneTypeOK'
  <2>1. CoreOK(st') /\ ChildrenOK(st') /\ TimersOK' /\ InstallOK' /\ PendingIsRenewal'
    BY <1>0, Zenon DEF IInv, TimersOK, InstallOK, PendingIsRenewal, OldExpected
  <2>2. NumbersOK' /\ AskOK'
    BY <1>0, SamePeer, Zenon
  <2>3. TypeOK'
    BY <1>0, <1>2, TypedNext, Zenon
  <2>. QED  BY <1>2, <2>1, <2>2, <2>3, ZenonT(60) DEF IInv
<1>. DEFINE c == Head(updates).child
<1>3. CASE StoreInbound
  <2>1. /\ storing = NoChild /\ updates # <<>> /\ Head(updates).kind = "installed"
        /\ updates' = Tail(updates) /\ inTable' = inTable \cup {c} /\ storing' = c
        /\ UNCHANGED <<acked, outCodec, current, ended>>
    BY <1>3, Zenon DEF StoreInbound, Take
  <2>2. /\ c \in Nat /\ c <= st.spis /\ c > acked
        /\ install.stage = "enqueue" => c < install.child
        /\ st.req.kind = "childDelete" => c # st.req.child
    BY <2>1, TailOfUpdates, Zenon DEF UpdateOK
  <2>. HIDE DEF c
  <2>3. CodecsOK'
    BY <1>0, <1>1, <2>1, <2>2, ZenonT(60) DEF IInv, CodecsOK
  <2>4. ASSUME NEW i \in 1..Len(updates')
        PROVE  UpdateOK(updates'[i], st', install', acked', storing')
    <3>1. UpdateOK(updates'[i], st, install, acked, storing)
      BY <2>1, TailOfUpdates, ZenonT(30)
    <3>2. updates'[i].kind = "installed" => c < updates'[i].child
      BY <2>1, TailOfUpdates, Zenon DEF c
    <3>3. updates'[i].child \in Nat
      BY <2>1, TailOfUpdates, Zenon DEF Update
    <3>. QED  BY <1>0, <2>1, <2>2, <3>1, <3>2, <3>3, ZenonT(60) DEF UpdateOK
  <2>5. PlaneTypeOK'
    BY <1>1, <2>1, <2>2, TailOfUpdates, ZenonT(60) DEF PlaneTypeOK
  <2>. QED  BY <2>1, <2>3, <2>4, <2>5, TailOfUpdates, ZenonT(60) DEF QueueOK
<1>4. CASE StoreOutbound
  <2>1. /\ storing # NoChild /\ outCodec' = storing /\ current' = storing /\ acked' = storing
        /\ storing' = NoChild /\ UNCHANGED <<updates, inTable, ended>>
    BY <1>4, Zenon DEF StoreOutbound
  <2>2. install # NoInstall => install.child \in Nat /\ install.child > NoChild
    BY FieldTypes, ConstantTypes, SMTT(30) DEF IInv, InstallOK, InstallType
  <2>3. install.stage = "enqueue" => install # NoInstall
    BY SMTT(30) DEF NoInstall
  <2>4. CodecsOK'
    BY <1>0, <1>1, <2>1, <2>2, ConstantTypes, SMTT(30) DEF IInv, CodecsOK
  <2>5. ASSUME NEW i \in 1..Len(updates)
        PROVE  UpdateOK(updates[i], st', install', acked', storing')
    <3>1. UpdateOK(updates[i], st, install, acked, storing) /\ updates[i] \in Update
      BY DEF IInv, QueueOK, TypeOK, PlaneTypeOK
    <3>2. updates[i].child \in Nat
      BY <3>1, Zenon DEF Update
    <3>. QED  BY <1>0, <1>1, <2>1, <3>1, <3>2, ConstantTypes, SMTT(30) DEF UpdateOK
  <2>6. PlaneTypeOK'
    BY <1>1, <2>1, ConstantTypes, Zenon DEF IInv, TypeOK, PlaneTypeOK
  <2>. QED  BY <2>1, <2>4, <2>5, <2>6, ZenonT(60) DEF IInv, QueueOK
<1>5. CASE ChildDeleted
  <2>1. /\ storing = NoChild /\ updates # <<>> /\ Head(updates).kind = "deleted"
        /\ updates' = Tail(updates) /\ UNCHANGED <<acked, outCodec, current, storing>>
        /\ \/ inTable' = inTable /\ ended' = TRUE
           \/ current # c /\ inTable' = inTable \ {c} /\ ended' = ended
    BY <1>5, Zenon DEF ChildDeleted, Take
  <2>2. /\ st.active # NoChild => c # st.active
        /\ install # NoInstall => c # install.child
    BY <2>1, TailOfUpdates, Zenon DEF UpdateOK
  <2>. HIDE DEF c
  <2>3. CodecsOK'
    BY <1>0, <1>1, <2>1, <2>2, Zenon DEF IInv, CodecsOK
  <2>4. ASSUME NEW i \in 1..Len(updates')
        PROVE  UpdateOK(updates'[i], st', install', acked', storing')
    BY <1>0, <2>1, TailOfUpdates, ZenonT(60)
  <2>5. PlaneTypeOK'
    BY <1>1, <2>1, TailOfUpdates, ZenonT(30) DEF PlaneTypeOK
  <2>. QED  BY <2>1, <2>3, <2>4, <2>5, TailOfUpdates, Zenon DEF QueueOK
<1>6. CASE AssignedUpdated
  <2>1. /\ updates # <<>> /\ updates' = Tail(updates)
        /\ UNCHANGED <<acked, inTable, outCodec, current, ended, storing>>
    BY <1>6, Zenon DEF AssignedUpdated, Take, planeVars
  <2>2. CodecsOK'
    BY <1>0, <2>1, ZenonT(60) DEF IInv, CodecsOK
  <2>3. ASSUME NEW i \in 1..Len(updates')
        PROVE  UpdateOK(updates'[i], st', install', acked', storing')
    BY <1>0, <2>1, TailOfUpdates, Zenon
  <2>4. PlaneTypeOK'
    BY <1>1, <2>1, TailOfUpdates, Zenon DEF PlaneTypeOK
  <2>. QED  BY <2>1, <2>2, <2>3, <2>4, TailOfUpdates, ZenonT(60) DEF QueueOK
<1>. QED  BY <1>3, <1>4, <1>5, <1>6, ZenonT(60) DEF PlaneStep, WatchControlUpdates

-----------------------------------------------------------------------------
(* The invariant. *)

\* The handshake hands over a State that satisfies it.
LEMMA InitInv == Init => IInv
<1>. SUFFICES ASSUME Init PROVE IInv
  BY Zenon
<1>. DEFINE leased == "lease" \in Inputs
<1>1. /\ updates = <<>> /\ acked = NoChild /\ inTable = {1} /\ outCodec = 1 /\ current = 1
      /\ ended = FALSE /\ storing = NoChild
  BY Zenon DEF Init, PlaneInit
<1>2. /\ st = [phase |-> "Running", id |-> 1, next |-> FirstMID, exp |-> 0, has |-> FALSE,
               req |-> NoRequest, rekey |-> NoRekey, active |-> 1, old |-> NoChild,
               oldIKE |-> <<>>, hist |-> <<>>, spis |-> 1]
      /\ run = "running" /\ install = NoInstall /\ deleted = {}
      /\ rto = [armed |-> FALSE, id |-> 0, retries |-> 0, backoff |-> 0]
      /\ oldRto = [armed |-> FALSE, retries |-> 0]
      /\ tm = [ike |-> TRUE, child |-> TRUE, retry |-> FALSE, wrap |-> FALSE]
      /\ lease = [timer |-> leased, pending |-> FALSE, expiry |-> leased, past |-> FALSE, on |-> 0]
      /\ peer = [next |-> 0, ask |-> NoAsk]
  BY ZenonT(30) DEF Init, ActorInit
<1>3. st \in StateType /\ Len(st.hist) <= HistoryCap
  <2>1. 0 \in Nat /\ 1 \in Nat /\ FirstMID \in Nat /\ "Running" \in Phases
    BY RunningAssumption, ConstantTypes, Zenon
  <2>2. st \in StateType
    BY <1>2, <2>1, ConstantTypes, ZenonT(30) DEF StateType, RequestType, RekeyType
  <2>3. st.hist = <<>>
    BY <1>2, Zenon
  <2>. QED  BY <2>2, <2>3, RunningAssumption
<1>4. /\ rto \in RtoType /\ oldRto \in OldRtoType /\ tm \in TmType
  <2>. 0 \in Nat /\ 0 \in 0..MaxRetries /\ 0 \in 0..MaxBackoff
    BY RunningAssumption, SMTT(30)
  <2>. QED  BY <1>2, Zenon DEF RtoType, OldRtoType, TmType
<1>5. lease \in LeaseType /\ ~lease.pending
  BY <1>2, SMTT(30) DEF LeaseType
<1>6. peer \in PeerType /\ peer.next = 0 /\ peer.ask = NoAsk
  BY <1>2, NoAskTyped, Zenon DEF PeerType
<1>7. install \in InstallType /\ install.stage = "none"
  BY <1>2, Zenon DEF InstallType, NoInstall, NoChild
<1>8. PlaneTypeOK
  <2>1. updates \in Seq(Update) /\ Len(updates) <= UpdateCap
    BY <1>1, UpdateCapAssumption
  <2>2. acked \in Nat /\ inTable \in SUBSET Nat /\ outCodec \in Nat /\ current \in Nat /\ storing \in Nat
    BY <1>1, ConstantTypes
  <2>. QED  BY <1>1, <2>1, <2>2, ZenonT(30) DEF PlaneTypeOK
<1>9. TypeOK
  BY <1>2, <1>3, <1>4, <1>5, <1>6, <1>7, <1>8, Zenon
     DEF TypeOK, ActorTypeOK, RtoType, OldRtoType, TmType, LeaseType, InstallType, PeerType
<1>10. CoreOK(st) /\ ChildrenOK(st)
  BY <1>2, ConstantTypes, SMTT(30) DEF CoreOK, ChildrenOK
<1>11. TimersOK /\ PendingIsRenewal /\ NumbersOK /\ AskOK /\ InstallOK
  BY <1>2, <1>5, <1>6, Zenon DEF TimersOK, PendingIsRenewal, NumbersOK, AskOK, InstallOK, OldExpected
<1>12. CodecsOK /\ QueueOK
  BY <1>1, <1>2, ConstantTypes, SMTT(30) DEF CodecsOK, QueueOK, Ordered
<1>. QED  BY <1>9, <1>10, <1>11, <1>12, ZenonT(60) DEF IInv

\* Every step of the actor and of the data plane preserves it.
LEMMA NextInv == IInv /\ [Next]_vars => IInv'
<1>. SUFFICES ASSUME IInv, [Next]_vars PROVE IInv'
  BY Zenon
<1>1. CASE ActorStep
  BY <1>1, RtoStepInv, OldRtoStepInv, TimerStepInv, ResponseStepInv, IgnoredPacketInv, InstallStepInv,
     PeerStepInv, OldSAStepInv, CancelInv, EnvironmentInv, Zenon DEF ActorStep, ActorNext
<1>2. CASE PlaneStep
  BY <1>2, PlaneStepInv, Zenon
<1>3. CASE UNCHANGED vars
  <2>1. UNCHANGED <<st, run, rto, oldRto, tm, lease, install, updates, peer, deleted, planeVars>>
    BY <1>3, Zenon DEF vars, actorVars
  <2>2. TimersOK' /\ PendingIsRenewal'
    BY <2>1, Zenon DEF IInv, TimersOK, PendingIsRenewal, OldExpected
  <2>. QED  BY <2>1, <2>2, Typed, SameState, TypedNext, ZenonT(60) DEF IInv
<1>. QED  BY <1>1, <1>2, <1>3, Zenon DEF Next

\* The invariant holds in every reachable state.
THEOREM Invariance == Spec => []IInv
  BY InitInv, NextInv, PTL DEF Spec

-----------------------------------------------------------------------------
(* The properties the invariant implies. *)

\* The variables of the actor and of the data plane keep their types; the
\* history of answered requests and the update channel keep their bounds.
THEOREM TypeCorrect == Spec => []TypeOK
<1>1. IInv => TypeOK
  BY Zenon DEF IInv
<1>. QED  BY <1>1, Invariance, PTL

\* Run never loses track of a request it waits for.
THEOREM OutstandingAlwaysTimed == Spec => []OutstandingIsTimed
<1>1. IInv => OutstandingIsTimed
  BY Zenon DEF IInv, CoreOK, TimersOK, OutstandingIsTimed
<1>. QED  BY <1>1, Invariance, PTL

\* At most one half-open rekey, named by the phase, and at most one replaced
\* IKE SA.
THEOREM OneRekeyAlways == Spec => []OneRekeyAtATime
<1>1. IInv => OneRekeyAtATime
  BY Zenon DEF IInv, CoreOK, OneRekeyAtATime
<1>. QED  BY <1>1, Invariance, PTL

\* The active, the retained and the replaced child stay apart.
THEOREM HandoffAlwaysConsistent == Spec => []HandoffConsistent
<1>1. IInv => HandoffConsistent
  BY Zenon DEF IInv, ChildrenOK, HandoffConsistent
<1>. QED  BY <1>1, Invariance, PTL

\* Make before break: the active child and the child that encrypts can be
\* decrypted, for every capacity of the channel and every delay of the data
\* plane.
THEOREM ActiveAlwaysDecryptable == Spec => []ActiveDecryptable
<1>1. IInv => ActiveDecryptable
  BY Zenon DEF IInv, CodecsOK, ActiveDecryptable
<1>. QED  BY <1>1, Invariance, PTL

\* Nothing is encrypted under a child whose DELETE is outstanding.
THEOREM DeleteOnlyAfterSwitch == Spec => []DeleteAfterSwitch
<1>1. IInv => DeleteAfterSwitch
  BY Zenon DEF IInv, CodecsOK, DeleteAfterSwitch
<1>. QED  BY <1>1, Invariance, PTL

\* An answered request of the peer is never executed again, for every size of
\* InboundHistory.
THEOREM DuplicatesAlwaysInert == Spec => []DuplicatesInert
<1>1. IInv => DuplicatesInert
  <2>. SUFFICES ASSUME IInv, run = "running", NEW m \in 0..peer.next, m < peer.next, Fresh(m) PROVE FALSE
    BY Zenon DEF DuplicatesInert
  <2>1. peer.next \in Nat /\ peer.next # 0
    BY Typed DEF PeerType
  <2>2. st.hist # <<>> /\ st.hist[Len(st.hist)] = peer.next - 1
    BY <2>1, Zenon DEF IInv, NumbersOK
  <2>. QED  BY <2>1, <2>2 DEF Fresh
<1>. QED  BY <1>1, Invariance, PTL

\* While leasePending is set, the outstanding request is the renewal, or the IKE SA
\* on which the renewal was sent has been replaced (running.go:746).
THEOREM PendingAlwaysRenewal == Spec => []PendingIsRenewal
<1>1. IInv => PendingIsRenewal
  BY Zenon DEF IInv
<1>. QED  BY <1>1, Invariance, PTL

-----------------------------------------------------------------------------
(* What a step may do to the SAs in use. *)

\* The IKE SA stays, and the active child stays, goes, or gives way to the one
\* acknowledged last.
Keeps == st'.id = st.id /\ st'.active \in {st.active, acked, NoChild}

\* The IKE SA gives way to its successor, which retains it.
Succeeds ==
  /\ st'.active = st.active /\ st'.id = st.id + 1
  /\ Len(st'.oldIKE) = 1 /\ st'.oldIKE[1].id = st.id

\* The timers of Run never switch anything.
LEMMA TimersKeep ==
  ASSUME IInv, RtoStep \/ OldRtoStep \/ TimerStep
  PROVE  Keeps
<1>. USE Typed
<1>1. \/ st' = st \/ st' = abandonRekey(st) \/ st' = Completed(st) \/ OldRtoGivesUp
      \/ \E k \in {"keepalive", "lease"} : st' = BeginRequest(st, k, NoChild)
      \/ st' = startIKERekey \/ st' = startChildRekey
  BY Zenon DEF RtoStep, OldRtoStep, TimerStep, RtoStale, RtoResend, RtoAbandonsRekey, RtoAbandonsLease,
     RtoFatal, OldRtoResend, Tick, IkeSoft, ChildSoft, NearWrap, RetryTimer, LeaseTimer,
     RekeyChildOrNothing
<1>2. CASE st' = st
  BY <1>2, Zenon DEF Keeps
<1>3. CASE st' = abandonRekey(st)
  BY <1>3, AbandonRekeyFields, Zenon DEF Keeps
<1>4. CASE st' = Completed(st)
  BY <1>4, CompletedFields, ZenonT(30) DEF Keeps
<1>5. CASE OldRtoGivesUp
  BY <1>5, Zenon DEF OldRtoGivesUp, StateType, Keeps
<1>6. ASSUME NEW k \in {"keepalive", "lease"}, st' = BeginRequest(st, k, NoChild) PROVE Keeps
  <2>1. k \in Requests /\ NoChild \in Nat
    BY ConstantTypes, Zenon DEF Requests
  <2>. QED  BY <1>6, <2>1, BeginRequestFields, SMTT(30) DEF Keeps
<1>7. CASE st' = startIKERekey
  <2>. DEFINE b == BeginRequest(st, "ikeRekey", NoChild)
  <2>1. b \in StateType /\ b.id = st.id /\ b.active = st.active
    BY BeginRequestFields, ConstantTypes, SMTT(30) DEF Requests
  <2>2. st' = [b EXCEPT !.rekey = [kind |-> "ike", old |-> NoChild], !.phase = "RekeyIkeRequesting"]
    BY <1>7, Zenon DEF startIKERekey
  <2>. HIDE DEF b
  <2>. QED  BY <2>1, <2>2, Zenon DEF StateType, Keeps
<1>8. CASE st' = startChildRekey
  <2>. DEFINE b == BeginRequest(st, "childRekey", st.active)
  <2>1. b \in StateType /\ b.id = st.id /\ b.active = st.active
    <3>1. "childRekey" \in Requests /\ st.active \in Nat
      BY FieldTypes, Zenon DEF Requests
    <3>. QED  BY <3>1, BeginRequestFields, SMTT(30)
  <2>2. st' = [b EXCEPT !.rekey = [kind |-> "child", old |-> st.active], !.phase = "RekeyChildRequesting"]
    BY <1>8, Zenon DEF startChildRekey
  <2>. HIDE DEF b
  <2>. QED  BY <2>1, <2>2, Zenon DEF StateType, Keeps
<1>. QED  BY <1>1, <1>2, <1>3, <1>4, <1>5, <1>6, <1>7, <1>8, Zenon

\* A response switches the IKE SA only when it finishes our rekey of it.
LEMMA ResponsesKeepOrSucceed ==
  ASSUME IInv, ResponseStep
  PROVE  Keeps \/ Succeeds
<1>. USE Typed
<1>1. CASE ResponseEndsRekey
  BY <1>1, AbandonRekeyFields, Zenon DEF ResponseEndsRekey, Keeps
<1>2. CASE ResponseChildRekey
  BY <1>2, AllocateFields, Zenon DEF ResponseChildRekey, Keeps
<1>3. CASE ResponseIKERekey
  <2>. DEFINE ctx == [id |-> st.id, next |-> st.next + 1, exp |-> st.next, has |-> TRUE,
                      hist |-> st.hist, peerNext |-> peer.next, rekeyMID |-> 0,
                      waiting |-> FALSE, inFlight |-> FALSE]
  <2>1. st.rekey.kind = "ike" /\ st' = SwitchIKE(st, ctx)
    BY <1>3, Zenon DEF ResponseIKERekey
  <2>2. ctx \in OldContext /\ ctx.id = st.id
    BY FieldTypes, SMTT(30) DEF OldContext, PeerType
  <2>. HIDE DEF ctx
  <2>3. st.oldIKE = <<>>
    <3>1. CoreOK(st)
      BY Zenon DEF IInv
    <3>2. st.phase = "RekeyIkeRequesting" /\ (st.oldIKE # <<>> => st.phase = "RekeyIkeDeletingOld")
      BY <2>1, <3>1, Zenon DEF CoreOK
    <3>. QED  BY <3>2, Zenon
  <2>4. st'.id = st.id + 1 /\ st'.active = st.active
    BY <2>1, <2>2, SwitchIKEFields, ZenonT(30)
  <2>5. Len(st'.oldIKE) = 1 /\ st'.oldIKE[1] = ctx
    BY <2>1, <2>2, <2>3, SwitchIKEOK, Zenon DEF IInv
  <2>. QED  BY <2>2, <2>4, <2>5, Zenon DEF Succeeds
<1>4. CASE st' = Completed(st)
  BY <1>4, CompletedFields, Zenon DEF Keeps
<1>5. CASE ResponsePlain
  <2>. DEFINE b == Completed(st)
  <2>1. b \in StateType /\ b.id = st.id /\ b.active = st.active
    BY CompletedFields, ZenonT(30)
  <2>2. st' = b \/ st' = [b EXCEPT !.old = NoChild, !.phase = "Running"]
    BY <1>5, Zenon DEF ResponsePlain
  <2>. HIDE DEF b
  <2>. QED  BY <2>1, <2>2, Zenon DEF StateType, Keeps
<1>. QED  BY <1>1, <1>2, <1>3, <1>4, <1>5, Zenon DEF ResponseStep, ResponseLeaseRenewed, ResponseLeaseRefused

\* Our handoff keeps the IKE SA.
LEMMA HandoffLocalKeeps ==
  ASSUME NEW s \in StateType, NEW c \in Nat
  PROVE  HandoffLocal(s, c).id = s.id /\ HandoffLocal(s, c).active = c
  BY HandoffLocalFields, SMTT(30)

\* A wait in installChild that succeeds takes the acknowledged child into use.
LEMMA InstallsKeep ==
  ASSUME IInv, InstallStep
  PROVE  Keeps
<1>. USE Typed
<1>. st.hist \in Seq(Nat) /\ install.child \in Nat /\ install.mid \in Nat
  BY FieldTypes, Zenon DEF InstallType
<1>1. CASE InstallEnqueue
  BY <1>1, Zenon DEF InstallEnqueue, Keeps
<1>2. CASE InstalledLocal
  <2>1. PICK c \in Nat : c = install.child
    BY Zenon
  <2>2. st' = HandoffLocal(st, c) /\ acked = c
    BY <1>2, <2>1, Zenon DEF InstalledLocal, HandoffLocal, InstallAcked
  <2>3. HandoffLocal(st, c).id = st.id /\ HandoffLocal(st, c).active = c
    BY HandoffLocalKeeps, Zenon
  <2>. QED  BY <2>2, <2>3, Zenon DEF Keeps
<1>3. CASE InstalledPeer
  <2>. DEFINE b == HandoffPeer(st, install.child)
  <2>1. st' = rememberResponse(b, install.mid) /\ acked = install.child
    BY <1>3, Zenon DEF InstalledPeer, HandoffPeer, InstallAcked
  <2>2. b \in StateType /\ b.id = st.id /\ b.active = install.child /\ b.hist = st.hist
    BY HandoffPeerFields, ZenonT(30)
  <2>. HIDE DEF b
  <2>3. st'.id = b.id /\ st'.active = b.active
    BY <2>1, <2>2, RememberResponseFields, Zenon
  <2>. QED  BY <2>1, <2>2, <2>3, Zenon DEF Keeps
<1>4. CASE InstallTimeout
  BY <1>4, AbandonRekeyFields, Zenon DEF InstallTimeout, Keeps
<1>. QED  BY <1>1, <1>2, <1>3, <1>4, Zenon DEF InstallStep

\* The rekey a lost collision abandons leaves the SAs in use alone.
LEMMA YieldedKeeps ==
  ASSUME IInv, NEW k
  PROVE  Yielded(k).id = st.id /\ Yielded(k).active = st.active
  BY Typed, AbandonRekeyFields, ZenonT(30) DEF Yielded

\* A request of the peer switches the IKE SA only as its rekey of it, and a
\* child only by its DELETE.
LEMMA PeersKeepOrSucceed ==
  ASSUME IInv, PeerStep
  PROVE  Keeps \/ Succeeds
<1>. USE Typed
<1>1. PICK m \in 0..peer.next : PeerRequest(m) /\ \E a \in MayAsk(m) :
         \/ PeerUnserved(m, a) \/ PeerEmpty(m, a) \/ PeerDeletesIKE(m, a) \/ PeerDeletesChild(m, a)
         \/ \E b \in BOOLEAN : PeerCfgSet(m, a, b) \/ PeerRekeysChild(m, a, b)
                               \/ PeerRekeysIKE(m, a, b)
  BY Zenon DEF PeerStep
<1>2. m \in Nat /\ Actor
  BY <1>1, FreshIsNext, Zenon
<1>3. PICK a \in MayAsk(m) :
         \/ PeerUnserved(m, a) \/ PeerEmpty(m, a) \/ PeerDeletesIKE(m, a) \/ PeerDeletesChild(m, a)
         \/ \E b \in BOOLEAN : PeerCfgSet(m, a, b) \/ PeerRekeysChild(m, a, b)
                               \/ PeerRekeysIKE(m, a, b)
  BY <1>1, Zenon
<1>4. ASSUME NEW s, Mild(s), s.id = st.id, st' = s \/ st' = rememberResponse(s, m)
      PROVE  Keeps
  <2>1. s \in StateType /\ Len(s.hist) <= HistoryCap /\ s.active \in {st.active, NoChild}
    BY <1>4, Zenon DEF Mild
  <2>2. st'.id = s.id /\ st'.active = s.active
    BY <1>2, <1>4, <2>1, RememberResponseFields, SMTT(30)
  <2>. QED  BY <1>4, <2>1, <2>2, Zenon DEF Keeps
<1>5. Mild(st) /\ Mild(Yielded("child")) /\ Mild(Yielded("ike"))
  BY <1>2, MildSame, MildYielded, Zenon
<1>6. ASSUME NEW s, s = st \/ s = Yielded("child") \/ s = Yielded("ike"),
             PeerRefused(m, s) \/ PeerRejected(m, a, s)
      PROVE  Keeps
  BY <1>4, <1>5, <1>6, YieldedKeeps, Zenon DEF PeerRefused, PeerRejected
<1>7. CASE PeerUnserved(m, a) \/ PeerEmpty(m, a) \/ \E b \in BOOLEAN : PeerCfgSet(m, a, b)
  BY <1>4, <1>5, <1>7, Zenon DEF PeerUnserved, PeerEmpty, PeerCfgSet
<1>8. CASE PeerDeletesIKE(m, a)
  BY <1>8, ClearSessionFields, Zenon DEF PeerDeletesIKE, Keeps
<1>9. CASE PeerDeletesChild(m, a)
  <2>1. PICK s \in {st, DropOld(st), DropActive(st)} : st' = rememberResponse(s, m)
    BY <1>9, Zenon DEF PeerDeletesChild, DropOld, DropActive
  <2>2. DropOld(st).id = st.id /\ DropActive(st).id = st.id
    BY DropOldFields, Zenon DEF DropActive, StateType
  <2>3. Mild(s) /\ s.id = st.id
    BY <1>2, <1>5, <2>1, <2>2, MildDropOld, MildDropActive, Zenon
  <2>. QED  BY <1>4, <2>1, <2>3, Zenon
<1>10. ASSUME NEW b \in BOOLEAN, PeerRekeysChild(m, a, b) PROVE Keeps
  <2>. DEFINE y == Yielded("child")
  <2>1. CASE st' = [y EXCEPT !.spis = @ + 1]
    <3>1. y \in StateType /\ y.id = st.id /\ y.active = st.active
      BY <1>5, YieldedKeeps, ZenonT(30) DEF Mild
    <3>. HIDE DEF y
    <3>. QED  BY <2>1, <3>1, AllocateFields, Zenon DEF Keeps
  <2>. QED  BY <1>6, <1>10, <2>1, Zenon DEF PeerRekeysChild
<1>11. ASSUME NEW b \in BOOLEAN, PeerRekeysIKE(m, a, b) PROVE Keeps \/ Succeeds
  <2>. DEFINE y == Yielded("ike")
              ctx == [id |-> st.id, next |-> st.next, exp |-> st.exp, has |-> FALSE,
                      hist |-> Append(st.hist, m), peerNext |-> m + 1, rekeyMID |-> m,
                      waiting |-> TRUE, inFlight |-> TRUE]
  <2>1. CASE st.oldIKE = <<>> /\ st' = SwitchIKE(y, ctx)
    <3>1. Append(st.hist, m) \in Seq(Nat) /\ m + 1 \in Nat
      BY <1>2, FieldTypes, SMTT(30)
    <3>2. ctx \in OldContext /\ ctx.id = st.id
      <4>1. st.id \in Nat /\ st.next \in Nat /\ st.exp \in Nat /\ m \in Nat
        BY <1>2, FieldTypes, Zenon
      <4>. QED  BY <3>1, <4>1, ZenonT(30) DEF OldContext
    <3>3. y \in StateType /\ CoreOK(y) /\ ChildrenOK(y) /\ y.oldIKE = <<>>
      BY <1>5, <2>1, Zenon DEF Mild
    <3>4. y.id = st.id /\ y.active = st.active
      BY YieldedKeeps, Zenon
    <3>. HIDE DEF y, ctx
    <3>5. st'.id = y.id + 1 /\ st'.active = y.active
      BY <2>1, <3>2, <3>3, SwitchIKEFields, ZenonT(30)
    <3>6. Len(st'.oldIKE) = 1 /\ st'.oldIKE[1] = ctx
      BY <2>1, <3>2, <3>3, SwitchIKEOK, Zenon
    <3>. QED  BY <3>2, <3>4, <3>5, <3>6, ZenonT(60) DEF Succeeds
  <2>. QED  BY <1>6, <1>11, <2>1, ZenonT(60) DEF PeerRekeysIKE
<1>. QED  BY <1>3, <1>7, <1>8, <1>9, <1>10, <1>11, ZenonT(60)

\* The rest of what happens to the actor switches nothing.
LEMMA OthersKeep ==
  ASSUME IInv, IgnoredPacket \/ OldSAStep \/ Cancel \/ Environment
  PROVE  Keeps
<1>. USE Typed
<1>1. CASE IgnoredPacket
  BY <1>1, Zenon DEF IgnoredPacket, Keeps
<1>2. CASE OldSAStep
  <2>1. \/ st' = st \/ st' = finishOldIKEDelete(st) \/ st' = [st EXCEPT !.oldIKE[1].inFlight = TRUE]
        \/ st' = [st EXCEPT !.oldIKE[1].hist = Append(@, st.oldIKE[1].peerNext),
                            !.oldIKE[1].peerNext = @ + 1]
    BY <1>2, Zenon DEF OldSAStep, OldIKEResponse, OldIKERetransmit, OldIKERequest
  <2>2. CASE st' = finishOldIKEDelete(st)
    BY <2>2, FinishOldIKEDeleteFields, Zenon DEF Keeps
  <2>. QED  BY <2>1, <2>2, ZenonT(30) DEF StateType, Keeps
<1>3. CASE Cancel
  BY <1>3, AbandonRekeyFields, Zenon DEF Cancel, Keeps
<1>4. CASE Environment
  BY <1>4, ZenonT(30) DEF Environment, RekeyResponseArrives, RekeyResponseLost, DeadlinePasses, NearWrapSignal,
     StateType, Keeps
<1>. QED  BY <1>1, <1>2, <1>3, <1>4, Zenon

\* The active child only gives way to a child the data plane has acknowledged
\* or to a DELETE of the peer, and the IKE SA only to the successor that retains
\* it: the proof behind "This must never happen before the data-plane ack".
THEOREM SwitchesAlwaysAcknowledged == Spec => SwitchesAreAcknowledged
<1>1. ASSUME IInv, [Next]_vars
      PROVE  [/\ st'.active # st.active => st'.active \in {acked, NoChild}
              /\ st'.id # st.id => st'.id = st.id + 1 /\ Len(st'.oldIKE) = 1
                                   /\ st'.oldIKE[1].id = st.id
             ]_vars
  <2>1. CASE Next
    <3>1. ASSUME ActorStep PROVE Keeps \/ Succeeds
      BY <1>1, <3>1, TimersKeep, ResponsesKeepOrSucceed, InstallsKeep, PeersKeepOrSucceed, OthersKeep, ZenonT(60)
         DEF ActorStep, ActorNext
    <3>2. ASSUME PlaneStep PROVE Keeps
      BY <3>2, Zenon DEF PlaneStep, Keeps
    <3>3. Keeps \/ Succeeds
      BY <2>1, <3>1, <3>2, Zenon DEF Next
    <3>. QED  BY <3>3, Zenon DEF Keeps, Succeeds
  <2>2. CASE UNCHANGED vars
    BY <2>2, Zenon
  <2>. QED  BY <1>1, <2>1, <2>2, Zenon
<1>. QED  BY <1>1, Invariance, PTL DEF Spec, SwitchesAreAcknowledged
=============================================================================
