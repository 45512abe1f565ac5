--------------------------- MODULE EventHubProofs ---------------------------
(***************************************************************************)
(* Safety of the event hub for every number of callers and every capacity: *)
(* the inductive invariant, the steps that keep it, and what follows.      *)
(***************************************************************************)
EXTENDS EventHub, TLAPS

-----------------------------------------------------------------------------
(* The inductive invariant. *)

Busy == hub.at \in {"check", "put"}
Serving == hub.at \in {"select", "check", "put"}

\* Events wait in the mailbox in order, none is missing before the drain.
MailInv ==
  /\ latest <= emitted
  /\ \A i \in 1..Len(mailbox) :
       mailbox[i].kind = "emit" => latest < mailbox[i].event /\ mailbox[i].event <= emitted
  /\ \A i, j \in 1..Len(mailbox) :
       mailbox[i].kind = "emit" /\ mailbox[j].kind = "emit" /\ i < j
         => mailbox[i].event < mailbox[j].event
  /\ Serving =>
       \A e \in latest + 1 .. emitted :
         \E i \in 1..Len(mailbox) : mailbox[i].kind = "emit" /\ mailbox[i].event = e

\* The ring holds the last events, and no gap.
RingInv ==
  /\ Len(retained) = Replay \/ Len(retained) = latest
  /\ \A j \in 1..Len(retained) : retained[j] + Len(retained) = latest + j

\* A subscriber is registered once, on its one request: Distinct, because a request
\* not yet answered is the only one (OneRequest) and its sender is not in subs
\* (Unanswered).
Distinct == \A i, j \in 1..Len(subs) : i # j => subs[i] # subs[j]

OneRequest ==
  \A s \in Subscribers : \A i \in 1..Len(mailbox) :
    mailbox[i] = Subscribing(s) =>
      /\ call[s] \in {"waiting", "nil"} /\ reply[s] = "none"
      /\ \A j \in 1..Len(mailbox) : mailbox[j] = Subscribing(s) => i = j

Unanswered ==
  \A s \in Subscribers :
    /\ call[s] \in {"idle", "sending"} => reply[s] = "none"
    /\ reply[s] = "none" =>
         (\A j \in 1..Len(subs) : subs[j] # s) /\ ~IsClosed(s) /\ call[s] # "open"

SubsInv == Distinct /\ OneRequest /\ Unanswered

\* The walk carries the latest event and has not been past what lies ahead.
WalkInv ==
  /\ Busy => hub.event = latest /\ latest > 0
  /\ hub.at = "put" => hub.i <= Len(subs)
  /\ ~Busy => hub.by = Nobody /\ hub.i = 1
  /\ Busy => \A j \in 1..Len(subs) : j >= hub.i =>
               \A k \in 1..Len(put[subs[j]]) : put[subs[j]][k] < latest

PutInv ==
  /\ DeliveredInOrder
  /\ \A s \in Subscribers : \A k \in 1..Len(put[s]) : put[s][k] <= latest

\* e has been put into the channel of s, or its full channel refused it.
Had(s, e) == e \in missed[s] \/ \E k \in 1..Len(put[s]) : put[s][k] = e

\* A stream the walk has passed has had the latest event, the others all before it.
HadInv ==
  Serving => \A s \in Subscribers : \A j \in 1..Len(subs) : \A e \in 1..latest :
    /\ subs[j] = s /\ ~IsClosed(s) /\ e + Replay > opened[s]
    /\ (Busy /\ j >= hub.i) => e < latest
    => Had(s, e)

\* A caller of EmitSync has one request: in the mailbox, with the hub, or done.
NoMail(p) == \A i \in 1..Len(mailbox) : mailbox[i].by # p
OneMail(p) == \A i, j \in 1..Len(mailbox) : mailbox[i].by = p /\ mailbox[j].by = p => i = j

Sync(p) ==
  /\ call[p] \in {"idle", "sending"} => p \notin done /\ hub.by # p /\ NoMail(p)
  /\ OneMail(p)
  /\ hub.by = p \/ p \in done => NoMail(p)
  /\ hub.by = p => p \notin done
  /\ call[p] = "true" => p \in done

SyncInv == \A p \in Syncers : Sync(p)

\* The walk over a later event has met no closed stream behind it.
Released(s) ==
  /\ closed[s] <= latest
  /\ \A k \in 1..Len(put[s]) : put[s][k] <= closed[s]
  /\ hub.at = "put" /\ subs[hub.i] = s => closed[s] = latest
  /\ latest > closed[s] =>
       /\ hub.at = "select" => \A j \in 1..Len(subs) : subs[j] # s
       /\ Busy => \A j \in 1..Len(subs) : j < hub.i => subs[j] # s

ClosedInv == \A s \in Subscribers : IsClosed(s) => Released(s)

IInv == /\ TypeOK /\ MailInv /\ RingInv /\ SubsInv /\ WalkInv
        /\ PutInv /\ HadInv /\ SyncInv /\ ClosedInv
-----------------------------------------------------------------------------
(* Sequences. *)

LEMMA TailFacts ==
  ASSUME NEW S, NEW q \in Seq(S), q # <<>>
  PROVE  /\ Tail(q) \in Seq(S) /\ Len(Tail(q)) = Len(q) - 1
         /\ Len(q) \in Nat \ {0}
         /\ Head(q) = q[1] /\ q[1] \in S
         /\ \A i \in 1..Len(Tail(q)) : i + 1 \in 1..Len(q) /\ Tail(q)[i] = q[i + 1]
  OBVIOUS

LEMMA AppendFacts ==
  ASSUME NEW S, NEW q \in Seq(S), NEW x \in S
  PROVE  /\ Append(q, x) \in Seq(S) /\ Len(Append(q, x)) = Len(q) + 1
         /\ Len(q) \in Nat
         /\ Append(q, x)[Len(q) + 1] = x
         /\ \A i \in 1..Len(q) : Append(q, x)[i] = q[i]
  OBVIOUS

LEMMA RemoveAtFacts ==
  ASSUME NEW S, NEW q \in Seq(S), NEW i \in 1..Len(q)
  PROVE  /\ RemoveAt(q, i) \in Seq(S) /\ Len(RemoveAt(q, i)) = Len(q) - 1
         /\ Len(q) \in Nat \ {0}
         /\ \A j \in 1..Len(RemoveAt(q, i)) :
              /\ j < i => RemoveAt(q, i)[j] = q[j]
              /\ j >= i => RemoveAt(q, i)[j] = q[j + 1]
<1> DEFINE a == SubSeq(q, 1, i - 1)
           b == SubSeq(q, i + 1, Len(q))
<1>1. Len(q) \in Nat \ {0} /\ i \in Nat /\ 1 <= i /\ i <= Len(q)
  OBVIOUS
<1>2. a \in Seq(S) /\ Len(a) = i - 1 /\ \A j \in 1..i - 1 : a[j] = q[j]
  BY <1>1, SMTT(30)
<1>3. b \in Seq(S) /\ Len(b) = Len(q) - i /\ \A j \in 1..Len(q) - i : b[j] = q[i + j]
  BY <1>1, SMTT(30)
<1>c. \A p, r \in Seq(S) :
        /\ p \o r \in Seq(S) /\ Len(p \o r) = Len(p) + Len(r)
        /\ \A j \in 1..Len(p) + Len(r) : (p \o r)[j] = IF j <= Len(p) THEN p[j] ELSE r[j - Len(p)]
  OBVIOUS
<1>r. RemoveAt(q, i) = a \o b
  BY Zenon DEF RemoveAt
<1> HIDE DEF a, b
<1>4. /\ RemoveAt(q, i) \in Seq(S) /\ Len(RemoveAt(q, i)) = Len(a) + Len(b)
      /\ \A j \in 1..Len(a) + Len(b) :
           RemoveAt(q, i)[j] = IF j <= Len(a) THEN a[j] ELSE b[j - Len(a)]
  <2>1. a \in Seq(S) /\ b \in Seq(S)
    BY <1>2, <1>3, Zenon
  <2>2. /\ a \o b \in Seq(S) /\ Len(a \o b) = Len(a) + Len(b)
        /\ \A j \in 1..Len(a) + Len(b) : (a \o b)[j] = IF j <= Len(a) THEN a[j] ELSE b[j - Len(a)]
    BY <1>c, <2>1, Zenon
  <2> QED
    BY <1>r, <2>2, Zenon
<1>5. Len(a) + Len(b) = Len(q) - 1
  BY <1>1, <1>2, <1>3
<1>6. ASSUME NEW j \in 1..Len(q) - 1, j < i
      PROVE  RemoveAt(q, i)[j] = q[j]
  <2>1. j \in 1..i - 1 /\ j <= Len(a) /\ j \in 1..Len(a) + Len(b)
    BY <1>1, <1>2, <1>5, <1>6
  <2> QED
    BY <1>2, <1>4, <2>1, Zenon
<1>7. ASSUME NEW j \in 1..Len(q) - 1, j >= i
      PROVE  RemoveAt(q, i)[j] = q[j + 1]
  <2>1. ~(j <= Len(a)) /\ j - Len(a) \in 1..Len(q) - i /\ j \in 1..Len(a) + Len(b)
    BY <1>1, <1>2, <1>5, <1>7
  <2>2. b[j - Len(a)] = q[i + (j - Len(a))] /\ i + (j - Len(a)) = j + 1
    BY <1>1, <1>2, <1>3, <1>7, <2>1
  <2> QED
    BY <1>4, <2>1, <2>2, Zenon
<1> QED
  BY <1>1, <1>4, <1>5, <1>6, <1>7, Zenon

LEMMA ShiftFacts ==
  ASSUME NEW S, NEW q \in Seq(S), NEW x \in S, q # <<>>
  PROVE  /\ Append(Tail(q), x) \in Seq(S) /\ Len(Append(Tail(q), x)) = Len(q)
         /\ Append(Tail(q), x)[Len(q)] = x
         /\ \A i \in 1..Len(q) - 1 : Append(Tail(q), x)[i] = q[i + 1]
<1> DEFINE t == Tail(q)
<1>1. /\ t \in Seq(S) /\ Len(t) = Len(q) - 1 /\ Len(q) \in Nat \ {0}
      /\ \A i \in 1..Len(t) : t[i] = q[i + 1]
  BY TailFacts, Zenon
<1> HIDE DEF t
<1>2. /\ Append(t, x) \in Seq(S) /\ Len(Append(t, x)) = Len(t) + 1
      /\ Append(t, x)[Len(t) + 1] = x /\ \A i \in 1..Len(t) : Append(t, x)[i] = t[i]
  BY <1>1, AppendFacts
<1>3. Len(t) + 1 = Len(q)
  BY <1>1
<1> QED
  BY <1>1, <1>2, <1>3, Zenon DEF t

-----------------------------------------------------------------------------
(* What taking a request and sending one do to the mailbox. *)

LEMMA RequestFacts ==
  /\ \A r \in Request :
       \/ /\ r.kind = "emit" /\ r.event \in Events /\ r.by \in Syncers \cup {Nobody}
       \/ /\ r.kind \in {"subscribe", "unsubscribe"} /\ r.by \in Subscribers
          /\ r.kind = "subscribe" => r = Subscribing(r.by)
  /\ \A e \in Events, p \in Syncers \cup {Nobody} : Emitting(e, p) \in Request
  /\ \A s \in Subscribers : Subscribing(s) \in Request /\ Unsubscribing(s) \in Request
  BY DEF Request, Emitting, Subscribing, Unsubscribing, None

LEMMA EmittingFacts ==
  ASSUME TypeOK, NEW p \in Syncers \cup {Nobody}
  PROVE  /\ Emitting(emitted + 1, p) \in Request
         /\ Emitting(emitted + 1, p).kind = "emit" /\ Emitting(emitted + 1, p).by = p
         /\ \A s \in Subscribers : Emitting(emitted + 1, p) # Subscribing(s)
<1>1. emitted + 1 \in Events
  BY DEF TypeOK, Events
<1>2. /\ Emitting(emitted + 1, p).kind = "emit" /\ Emitting(emitted + 1, p).by = p
  BY Zenon DEF Emitting
<1>3. \A s \in Subscribers : Subscribing(s).kind = "subscribe"
  BY Zenon DEF Subscribing
<1> QED
  BY <1>1, <1>2, <1>3, RequestFacts, Zenon

LEMMA TakeFacts ==
  ASSUME TypeOK, mailbox # <<>>, mailbox' = Tail(mailbox)
  PROVE  /\ mailbox' \in Seq(Request) /\ Len(mailbox') = Len(mailbox) - 1
         /\ Len(mailbox) \in Nat \ {0} /\ Len(mailbox') <= MailboxCap
         /\ Head(mailbox) = mailbox[1] /\ mailbox[1] \in Request
         /\ \A i \in 1..Len(mailbox') :
              i \in Nat /\ i + 1 \in 1..Len(mailbox) /\ mailbox'[i] = mailbox[i + 1]
<1>1. mailbox \in Seq(Request) /\ Len(mailbox) <= MailboxCap /\ MailboxCap \in Nat
  BY HubAssumption, Zenon DEF TypeOK
<1> QED
  BY <1>1, TailFacts

LEMMA SendFacts ==
  ASSUME TypeOK, NEW req \in Request, Send(req)
  PROVE  /\ mailbox' \in Seq(Request) /\ Len(mailbox') = Len(mailbox) + 1
         /\ Len(mailbox) \in Nat /\ Len(mailbox') <= MailboxCap
         /\ mailbox'[Len(mailbox')] = req
         /\ \A i \in 1..Len(mailbox') :
              i = Len(mailbox') \/ (i \in 1..Len(mailbox) /\ mailbox'[i] = mailbox[i])
         /\ \A i \in 1..Len(mailbox) : i \in 1..Len(mailbox') /\ mailbox'[i] = mailbox[i]
<1>1. mailbox \in Seq(Request) /\ Len(mailbox) < MailboxCap /\ MailboxCap \in Nat
      /\ mailbox' = Append(mailbox, req)
  BY HubAssumption, Zenon DEF TypeOK, Send, HasRoom
<1> QED
  BY <1>1, AppendFacts

-----------------------------------------------------------------------------
(* Each conjunct of IInv is kept by every step. *)

\* The mailbox holds the events latest + 1 .. emitted, in this order.
LEMMA HeadIsNext ==
  ASSUME TypeOK, MailInv, Serving, mailbox # <<>>, mailbox[1].kind = "emit"
  PROVE  mailbox[1].event = latest + 1
<1>1. /\ mailbox[1] \in Request /\ Len(mailbox) \in Nat \ {0} /\ latest \in Nat /\ emitted \in Nat
  BY TailFacts, Zenon DEF TypeOK
<1>2. mailbox[1].event \in Nat
  BY <1>1, RequestFacts, Zenon DEF Events
<1>3. latest < mailbox[1].event /\ mailbox[1].event <= emitted
  BY <1>1 DEF MailInv
<1>4. latest + 1 \in latest + 1 .. emitted
  BY <1>1, <1>2, <1>3
<1>5. PICK i \in 1..Len(mailbox) : mailbox[i].kind = "emit" /\ mailbox[i].event = latest + 1
  BY <1>4, Zenon DEF MailInv
<1>6. i = 1 \/ mailbox[1].event < mailbox[i].event
  BY <1>1, <1>5 DEF MailInv
<1> QED
  BY <1>1, <1>2, <1>3, <1>5, <1>6

LEMMA MailStep ==
  ASSUME TypeOK, MailInv, Next
  PROVE  MailInv'
<1> USE DEF Serving
<1>0. latest \in Nat /\ emitted \in Nat /\ mailbox \in Seq(Request) /\ Len(mailbox) \in Nat
  BY DEF TypeOK
<1>1. CASE Dispatch
  <2>1. /\ mailbox # <<>> /\ mailbox' = Tail(mailbox) /\ Head(mailbox).kind = "emit"
        /\ latest' = Head(mailbox).event /\ emitted' = emitted /\ hub.at = "select"
    BY <1>1, Zenon DEF Dispatch, TakeRequest
  <2>2. latest' = latest + 1
    BY <2>1, TakeFacts, HeadIsNext, Zenon
  <2>3. latest' <= emitted'
    BY <2>1, TakeFacts DEF MailInv
  <2>4. ASSUME NEW i \in 1..Len(mailbox'), mailbox'[i].kind = "emit"
        PROVE  latest' < mailbox'[i].event /\ mailbox'[i].event <= emitted'
    BY <2>1, <2>4, TakeFacts DEF MailInv
  <2>5. ASSUME NEW i \in 1..Len(mailbox'), NEW j \in 1..Len(mailbox'),
               mailbox'[i].kind = "emit", mailbox'[j].kind = "emit", i < j
        PROVE  mailbox'[i].event < mailbox'[j].event
    BY <2>1, <2>5, TakeFacts DEF MailInv
  <2>6. ASSUME NEW e \in latest' + 1 .. emitted'
        PROVE  \E i \in 1..Len(mailbox') : mailbox'[i].kind = "emit" /\ mailbox'[i].event = e
    <3>1. e \in latest + 1 .. emitted /\ e # latest'
      BY <1>0, <2>1, <2>2
    <3>2. PICK i \in 1..Len(mailbox) : mailbox[i].kind = "emit" /\ mailbox[i].event = e
      BY <2>1, <3>1, Zenon DEF MailInv
    <3>3. i # 1
      BY <2>1, <3>1, <3>2, TakeFacts, Zenon
    <3>4. i - 1 \in 1..Len(mailbox') /\ mailbox'[i - 1] = mailbox[i]
      BY <2>1, <3>2, <3>3, TakeFacts
    <3> QED
      BY <3>2, <3>4, Zenon
  <2> QED
    BY <2>3, <2>4, <2>5, <2>6, Zenon DEF MailInv
<1>2. CASE HandleSubscribe \/ HandleUnsubscribe \/ DrainOne
  <2>1. /\ mailbox # <<>> /\ mailbox' = Tail(mailbox)
        /\ latest' = latest /\ emitted' = emitted /\ hub' = hub
        /\ Serving => Head(mailbox).kind # "emit"
    BY <1>2, Zenon DEF HandleSubscribe, HandleUnsubscribe, DrainOne, TakeRequest
  <2>2. ASSUME NEW i \in 1..Len(mailbox'), mailbox'[i].kind = "emit"
        PROVE  latest' < mailbox'[i].event /\ mailbox'[i].event <= emitted'
    BY <2>1, <2>2, TakeFacts DEF MailInv
  <2>3. ASSUME NEW i \in 1..Len(mailbox'), NEW j \in 1..Len(mailbox'),
               mailbox'[i].kind = "emit", mailbox'[j].kind = "emit", i < j
        PROVE  mailbox'[i].event < mailbox'[j].event
    BY <2>1, <2>3, TakeFacts DEF MailInv
  <2>4. ASSUME Serving, NEW e \in latest + 1 .. emitted
        PROVE  \E i \in 1..Len(mailbox') : mailbox'[i].kind = "emit" /\ mailbox'[i].event = e
    <3>1. PICK i \in 1..Len(mailbox) : mailbox[i].kind = "emit" /\ mailbox[i].event = e
      BY <2>4, Zenon DEF MailInv
    <3>2. i # 1
      BY <2>1, <2>4, <3>1, TakeFacts, Zenon
    <3>3. i - 1 \in 1..Len(mailbox') /\ mailbox'[i - 1] = mailbox[i]
      BY <2>1, <3>1, <3>2, TakeFacts
    <3> QED
      BY <3>1, <3>3, Zenon
  <2> QED
    BY <2>1, <2>2, <2>3, <2>4, Zenon DEF MailInv
<1>3. ASSUME NEW p \in Syncers \cup {Nobody}, Send(Emitting(emitted + 1, p)),
             emitted' = emitted + 1, UNCHANGED <<latest, hub>>
      PROVE  MailInv'
  <2>1. Emitting(emitted + 1, p) \in Request
    BY <1>0, RequestFacts DEF Events
  <2>2. /\ mailbox'[Len(mailbox')].kind = "emit" /\ mailbox'[Len(mailbox')].event = emitted + 1
    BY <1>3, <2>1, SendFacts DEF Emitting
  <2>3. ASSUME NEW i \in 1..Len(mailbox'), mailbox'[i].kind = "emit"
        PROVE  latest' < mailbox'[i].event /\ mailbox'[i].event <= emitted'
    <3>1. CASE i = Len(mailbox')
      BY <1>0, <1>3, <2>2, <3>1 DEF MailInv
    <3>2. CASE i \in 1..Len(mailbox) /\ mailbox'[i] = mailbox[i]
      <4>1. mailbox[i].event \in Nat
        BY <1>0, <2>3, <3>2, RequestFacts DEF Events
      <4> QED
        BY <1>0, <1>3, <2>3, <3>2, <4>1 DEF MailInv
    <3> QED
      BY <1>3, <2>1, <3>1, <3>2, SendFacts, Zenon
  <2>4. ASSUME NEW i \in 1..Len(mailbox'), NEW j \in 1..Len(mailbox'),
               mailbox'[i].kind = "emit", mailbox'[j].kind = "emit", i < j
        PROVE  mailbox'[i].event < mailbox'[j].event
    <3>1. i \in 1..Len(mailbox) /\ mailbox'[i] = mailbox[i] /\ mailbox[i].event \in Nat
      <4>1. i \in 1..Len(mailbox) /\ mailbox'[i] = mailbox[i]
        BY <1>3, <2>1, <2>4, SendFacts
      <4> QED
        BY <1>0, <2>4, <4>1, RequestFacts DEF Events
    <3>2. CASE j = Len(mailbox')
      BY <1>0, <2>2, <2>4, <3>1, <3>2 DEF MailInv
    <3>3. CASE j \in 1..Len(mailbox) /\ mailbox'[j] = mailbox[j]
      BY <2>4, <3>1, <3>3, Zenon DEF MailInv
    <3> QED
      BY <1>3, <2>1, <3>2, <3>3, SendFacts, Zenon
  <2>5. ASSUME Serving, NEW e \in latest + 1 .. emitted + 1
        PROVE  \E i \in 1..Len(mailbox') : mailbox'[i].kind = "emit" /\ mailbox'[i].event = e
    <3>1. CASE e = emitted + 1
      <4>1. Len(mailbox') \in 1..Len(mailbox')
        BY <1>0, <1>3, <2>1, SendFacts
      <4> QED
        BY <2>2, <3>1, <4>1, Zenon
    <3>2. CASE e \in latest + 1 .. emitted
      <4>1. PICK i \in 1..Len(mailbox) : mailbox[i].kind = "emit" /\ mailbox[i].event = e
        BY <2>5, <3>2, Zenon DEF MailInv
      <4> QED
        BY <1>3, <2>1, <4>1, SendFacts, Zenon
    <3> QED
      BY <1>0, <3>1, <3>2
  <2> QED
    BY <1>0, <1>3, <2>3, <2>4, <2>5 DEF MailInv
<1>4. ASSUME NEW s \in Subscribers, NEW req \in {Subscribing(s), Unsubscribing(s)}, Send(req),
             UNCHANGED <<latest, emitted, hub>>
      PROVE  MailInv'
  <2>1. req \in Request /\ req.kind # "emit"
    BY RequestFacts, Zenon DEF Subscribing, Unsubscribing
  <2>2. /\ Len(mailbox') \in Nat /\ mailbox'[Len(mailbox')].kind # "emit"
        /\ \A i \in 1..Len(mailbox') : mailbox'[i].kind = "emit" =>
              i \in 1..Len(mailbox) /\ mailbox'[i] = mailbox[i]
        /\ \A i \in 1..Len(mailbox) : i \in 1..Len(mailbox') /\ mailbox'[i] = mailbox[i]
    BY <1>4, <2>1, SendFacts
  <2>3. \A i \in 1..Len(mailbox') : mailbox'[i].kind = "emit" =>
          latest < mailbox'[i].event /\ mailbox'[i].event <= emitted
    BY <2>2, Zenon DEF MailInv
  <2>4. ASSUME NEW i \in 1..Len(mailbox'), NEW j \in 1..Len(mailbox'),
               mailbox'[i].kind = "emit", mailbox'[j].kind = "emit", i < j
        PROVE  mailbox'[i].event < mailbox'[j].event
    BY <2>2, <2>4, Zenon DEF MailInv
  <2>5. ASSUME Serving, NEW e \in latest + 1 .. emitted
        PROVE  \E i \in 1..Len(mailbox') : mailbox'[i].kind = "emit" /\ mailbox'[i].event = e
    BY <2>2, <2>5 DEF MailInv
  <2> QED
    BY <1>4, <2>3, <2>4, <2>5, Zenon DEF MailInv
<1>5. CASE UNCHANGED <<mailbox, latest, emitted>> /\ (Serving' => Serving)
  BY <1>5, Zenon DEF MailInv
<1>6. CASE Emit
  BY <1>3, <1>5, <1>6, Zenon DEF Emit
<1>7. CASE \E p \in Syncers : SyncStep(p)
  BY <1>3, <1>5, <1>7, Zenon DEF SyncStep, EmitSyncCall, EmitSyncSend, EmitSyncDone, EmitSyncStopped, hubVars
<1>8. CASE \E s \in Subscribers : StreamStep(s)
  BY <1>4, <1>5, <1>8, Zenon DEF StreamStep, SubscribeCall, SubscribeSend, SubscribeReply,
     SubscribeStopped, Receive, StreamClose, Unsubscribe, hubVars
<1>9. CASE RemoveClosed \/ FindOpen \/ PutEvent \/ Dispatched \/ BeginDrain \/ HubExit
  <2>1. hub \in [at : {"select", "check", "put", "drain", "exited"}, event : Nat,
                 by : Syncers \cup {Nobody}, i : Nat \ {0}]
    BY DEF TypeOK, Events, None
  <2> QED
    BY <1>5, <1>9, <2>1, Zenon DEF RemoveClosed, FindOpen, PutEvent, Dispatched, BeginDrain, HubExit, AtSelect
<1>10. CASE HubClose
  BY <1>5, <1>10, Zenon DEF HubClose, hubVars
<1> QED
  BY <1>1, <1>2, <1>6, <1>7, <1>8, <1>9, <1>10, Zenon DEF Next, HubStep

\* The steps outside the hub goroutine.
Caller == Emit \/ HubClose \/ (\E p \in Syncers : SyncStep(p)) \/ (\E s \in Subscribers : StreamStep(s))

LEMMA CallerFrame ==
  ASSUME Caller
  PROVE  UNCHANGED <<retained, subs, hub, latest, put, missed, opened, reply, done>>
  BY Zenon DEF Caller, Emit, HubClose, SyncStep, StreamStep, EmitSyncCall, EmitSyncSend, EmitSyncDone,
     EmitSyncStopped, SubscribeCall, SubscribeSend, SubscribeReply, SubscribeStopped, Receive,
     StreamClose, Unsubscribe, hubVars, streamVars

LEMMA NextSplit ==
  ASSUME Next
  PROVE  Caller \/ HubStep
  BY Zenon DEF Next, Caller

LEMMA HubTyped ==
  ASSUME TypeOK
  PROVE  hub \in [at : {"select", "check", "put", "drain", "exited"}, event : Nat,
                  by : Syncers \cup {Nobody}, i : Nat \ {0}]
  BY DEF TypeOK, Events, None

LEMMA SubsRemoved ==
  ASSUME TypeOK, NEW i \in 1..Len(subs), subs' = RemoveAt(subs, i)
  PROVE  /\ subs' \in Seq(Subscribers) /\ Len(subs') = Len(subs) - 1 /\ Len(subs) \in Nat
         /\ \A j \in 1..Len(subs') : j < i => j \in 1..Len(subs) /\ subs'[j] = subs[j]
         /\ \A j \in 1..Len(subs') : j >= i => j + 1 \in 1..Len(subs) /\ subs'[j] = subs[j + 1]
<1>1. subs \in Seq(Subscribers)
  BY Zenon DEF TypeOK
<1>2. /\ subs' \in Seq(Subscribers) /\ Len(subs') = Len(subs) - 1 /\ Len(subs) \in Nat
      /\ \A j \in 1..Len(subs') : (j < i => subs'[j] = subs[j]) /\ (j >= i => subs'[j] = subs[j + 1])
  BY <1>1, RemoveAtFacts
<1>3. ASSUME NEW j \in 1..Len(subs') PROVE j \in 1..Len(subs) /\ j + 1 \in 1..Len(subs)
  BY <1>2
<1> QED
  BY <1>2, <1>3, Zenon

LEMMA RingStep ==
  ASSUME TypeOK, MailInv, RingInv, Next
  PROVE  RingInv'
<1>0. /\ retained \in Seq(Events) /\ Len(retained) \in Nat /\ Len(retained) <= Replay
      /\ latest \in Nat /\ Replay \in Nat
      /\ \A j \in 1..Len(retained) : retained[j] \in Nat
  BY HubAssumption DEF TypeOK, Events
<1>1. CASE Dispatch
  <2>1. mailbox # <<>> /\ Head(mailbox).kind = "emit" /\ Serving /\ mailbox' = Tail(mailbox)
    BY <1>1, Zenon DEF Dispatch, TakeRequest, Serving
  <2>2. Head(mailbox).event = latest + 1
    BY <2>1, TakeFacts, HeadIsNext, Zenon
  <2>3. latest' = latest + 1 /\ retained' = Retain(latest + 1) /\ latest + 1 \in Events
    BY <1>0, <1>1, <2>2 DEF Dispatch, Events
  <2>4. CASE Replay = 0
    BY <1>0, <2>3, <2>4 DEF Retain, RingInv
  <2>5. CASE Replay # 0 /\ Len(retained) = Replay
    <3>1. retained # <<>> /\ retained' = Append(Tail(retained), latest + 1)
      BY <1>0, <2>3, <2>5 DEF Retain
    <3>3. /\ Len(retained') = Replay /\ retained'[Replay] = latest + 1
          /\ \A j \in 1..Replay - 1 : retained'[j] = retained[j + 1]
      <4> DEFINE q == Append(Tail(retained), latest + 1)
      <4>1. /\ Len(q) = Len(retained) /\ q[Len(retained)] = latest + 1
            /\ \A i \in 1..Len(retained) - 1 : q[i] = retained[i + 1]
        <5>1. retained \in Seq(Events) /\ latest + 1 \in Events /\ retained # <<>>
          BY <1>0, <2>3, <3>1, Zenon
        <5> QED
          BY <5>1, ShiftFacts
      <4>2. retained' = q
        BY <3>1, Zenon
      <4> HIDE DEF q
      <4> QED
        BY <2>5, <4>1, <4>2, Zenon
    <3>4. ASSUME NEW j \in 1..Len(retained') PROVE retained'[j] + Replay = latest + 1 + j
      <4>1. CASE j = Replay
        BY <1>0, <3>3, <4>1, Zenon
      <4>2. CASE j \in 1..Replay - 1
        <5>1. j + 1 \in 1..Len(retained) /\ retained[j + 1] \in Nat
          BY <1>0, <2>5, <4>2
        <5>2. retained[j + 1] + Replay = latest + (j + 1)
          BY <2>5, <5>1, Zenon DEF RingInv
        <5> QED
          BY <1>0, <3>3, <4>2, <5>1, <5>2
      <4> QED
        BY <1>0, <3>3, <4>1, <4>2
    <3> QED
      BY <2>3, <3>3, <3>4, Zenon DEF RingInv
  <2>6. CASE Replay # 0 /\ Len(retained) # Replay
    <3>1. retained' = Append(retained, latest + 1) /\ Len(retained) = latest
      BY <2>3, <2>6, Zenon DEF Retain, RingInv
    <3>2. /\ Len(retained') = latest + 1 /\ retained'[latest + 1] = latest + 1
          /\ \A j \in 1..latest : retained'[j] = retained[j]
      BY <1>0, <2>3, <3>1, AppendFacts
    <3>3. \A j \in 1..latest : retained[j] + latest = latest + j /\ retained[j] \in Nat
      BY <1>0, <3>1, Zenon DEF RingInv
    <3>4. ASSUME NEW j \in 1..latest + 1
          PROVE  retained'[j] + (latest + 1) = latest + 1 + j
      <4>1. CASE j = latest + 1
        BY <1>0, <3>2, <4>1, Zenon
      <4>2. CASE j \in 1..latest
        <5>1. retained'[j] = retained[j] /\ retained[j] + latest = latest + j /\ retained[j] \in Nat
          BY <3>2, <3>3, <4>2, Zenon
        <5> QED
          BY <1>0, <5>1
      <4> QED
        BY <1>0, <4>1, <4>2
    <3> QED
      BY <2>3, <3>2, <3>4, Zenon DEF RingInv
  <2> QED
    BY <2>4, <2>5, <2>6, Zenon
<1>2. CASE UNCHANGED <<retained, latest>>
  BY <1>2, Zenon DEF RingInv
<1> QED
  BY <1>1, <1>2, NextSplit, CallerFrame, Zenon DEF HubStep, RemoveClosed, FindOpen, PutEvent, Dispatched,
     HandleSubscribe, HandleUnsubscribe, BeginDrain, DrainOne, HubExit

LEMMA WalkStep ==
  ASSUME IInv, Next
  PROVE  WalkInv'
<1> USE DEF Busy
<1>0. /\ TypeOK /\ subs \in Seq(Subscribers) /\ Len(subs) \in Nat /\ latest \in Nat
      /\ put \in [Subscribers -> Seq(Events)]
      /\ hub \in [at : {"select", "check", "put", "drain", "exited"}, event : Nat,
                  by : Syncers \cup {Nobody}, i : Nat \ {0}]
  BY HubTyped DEF IInv, TypeOK
<1>1. CASE Dispatch
  <2>1. /\ mailbox # <<>> /\ Head(mailbox).kind = "emit" /\ Serving /\ mailbox' = Tail(mailbox)
        /\ latest' = Head(mailbox).event /\ UNCHANGED <<subs, put>>
        /\ hub' = [at |-> "check", event |-> latest', by |-> Head(mailbox).by, i |-> 1]
    BY <1>1, Zenon DEF Dispatch, TakeRequest, Serving, streamVars
  <2>2. latest' = latest + 1
    BY <1>0, <2>1, TakeFacts, HeadIsNext, Zenon DEF IInv
  <2>3. ASSUME NEW j \in 1..Len(subs), NEW k \in 1..Len(put[subs[j]])
        PROVE  put[subs[j]][k] < latest + 1
    <3>1. subs[j] \in Subscribers
      BY <1>0
    <3>2. put[subs[j]] \in Seq(Events) /\ put[subs[j]][k] \in Nat
      BY <1>0, <3>1 DEF Events
    <3> QED
      BY <1>0, <3>1, <3>2 DEF IInv, PutInv
  <2> QED
    BY <1>0, <2>1, <2>2, <2>3 DEF WalkInv
<1>2. CASE RemoveClosed
  <2>1. /\ hub.at = "check" /\ hub.i \in 1..Len(subs) /\ subs' = RemoveAt(subs, hub.i)
        /\ UNCHANGED <<hub, put, latest>>
    BY <1>0, <1>2 DEF RemoveClosed, streamVars
  <2>2. ASSUME NEW j \in 1..Len(subs'), j >= hub.i
        PROVE  j + 1 \in 1..Len(subs) /\ subs'[j] = subs[j + 1] /\ j + 1 >= hub.i
    <3>0. hub.i \in 1..Len(subs) /\ Len(subs) \in Nat /\ Len(subs') = Len(subs) - 1
      BY <1>0, <2>1, SubsRemoved, Zenon
    <3>1. j \in Nat /\ hub.i \in Nat
      BY <3>0
    <3>2. j + 1 \in 1..Len(subs) /\ subs'[j] = subs[j + 1]
      BY <1>0, <2>1, <2>2, SubsRemoved, ZenonT(30)
    <3> QED
      BY <2>2, <3>1, <3>2
  <2>3. ASSUME NEW j \in 1..Len(subs'), j >= hub.i, NEW k \in 1..Len(put[subs'[j]])
        PROVE  put[subs'[j]][k] < latest
    BY <2>1, <2>2, <2>3, Zenon DEF IInv, WalkInv
  <2> QED
    BY <1>0, <2>1, <2>3, ZenonT(30) DEF IInv, WalkInv
<1>3. CASE FindOpen
  BY <1>0, <1>3, Zenon DEF FindOpen, IInv, WalkInv, streamVars
<1>4. CASE PutEvent
  <2>1. /\ hub.at = "put" /\ hub.i \in 1..Len(subs) /\ UNCHANGED <<subs, latest>>
        /\ hub' = [hub EXCEPT !.at = "check", !.i = @ + 1]
        /\ hub.event = latest /\ latest > 0
        /\ \A s \in Subscribers : s # subs[hub.i] => put'[s] = put[s]
    BY <1>0, <1>4 DEF PutEvent, IInv, WalkInv
  <2>2. hub'.at = "check" /\ hub'.i = hub.i + 1 /\ hub'.event = hub.event
    BY <1>0, <2>1, Zenon
  <2>3. ASSUME NEW j \in 1..Len(subs), j >= hub.i + 1
        PROVE  put'[subs[j]] = put[subs[j]] /\ j >= hub.i
    <3>1. j # hub.i /\ j >= hub.i /\ subs[j] \in Subscribers
      BY <1>0, <2>1, <2>3
    <3>2. subs[j] # subs[hub.i]
      BY <2>1, <3>1, Zenon DEF IInv, SubsInv, Distinct
    <3> QED
      BY <2>1, <3>1, <3>2, Zenon
  <2> QED
    BY <1>0, <2>1, <2>2, <2>3 DEF IInv, WalkInv
<1>5. CASE Dispatched \/ BeginDrain \/ HubExit
  BY <1>0, <1>5 DEF Dispatched, BeginDrain, HubExit, AtSelect, IInv, WalkInv
<1>6. CASE HandleSubscribe \/ HandleUnsubscribe \/ DrainOne
  BY <1>0, <1>6, Zenon DEF HandleSubscribe, HandleUnsubscribe, DrainOne, TakeRequest, IInv, WalkInv
<1>7. CASE Caller
  BY <1>7, CallerFrame, Zenon DEF IInv, WalkInv
<1> QED
  BY <1>1, <1>2, <1>3, <1>4, <1>5, <1>6, <1>7, NextSplit, Zenon DEF HubStep

\* The stream the walk is at, when it puts the event.
LEMMA PutTarget ==
  ASSUME IInv, hub.at = "put"
  PROVE  /\ hub.i \in 1..Len(subs) /\ subs[hub.i] \in Subscribers
         /\ hub.event = latest /\ latest \in Events
         /\ \A k \in 1..Len(put[subs[hub.i]]) : put[subs[hub.i]][k] < latest
<1>1. subs \in Seq(Subscribers) /\ Len(subs) \in Nat /\ latest \in Nat /\ hub.i \in Nat \ {0}
  BY HubTyped DEF IInv, TypeOK
<1>2. hub.i <= Len(subs) /\ hub.event = latest /\ latest > 0
  BY Zenon DEF IInv, WalkInv, Busy
<1>3. hub.i \in 1..Len(subs) /\ subs[hub.i] \in Subscribers /\ hub.i >= hub.i
  BY <1>1, <1>2
<1>4. \A k \in 1..Len(put[subs[hub.i]]) : put[subs[hub.i]][k] < latest
  BY <1>3, Zenon DEF IInv, WalkInv, Busy
<1> QED
  BY <1>1, <1>2, <1>3, <1>4 DEF Events

\* What PutEvent does to the streams.
LEMMA PutEffect ==
  ASSUME IInv, PutEvent
  PROVE  LET s == subs[hub.i]
         IN /\ UNCHANGED <<subs, latest, opened, closed, call>>
            /\ \A t \in Subscribers : t # s => put'[t] = put[t] /\ missed'[t] = missed[t]
            /\ \/ /\ missed' = missed /\ put'[s] = Append(put[s], latest)
                  /\ Len(put'[s]) = Len(put[s]) + 1 /\ Len(put[s]) \in Nat
                  /\ put'[s][Len(put[s]) + 1] = latest
                  /\ \A k \in 1..Len(put[s]) : put'[s][k] = put[s][k]
               \/ put' = put /\ missed'[s] = missed[s] \cup {latest}
<1> DEFINE s == subs[hub.i]
<1>1. s \in Subscribers /\ hub.event = latest /\ latest \in Events
  BY PutTarget, Zenon DEF PutEvent
<1>2. /\ put \in [Subscribers -> Seq(Events)] /\ missed \in [Subscribers -> SUBSET Events]
  BY Zenon DEF IInv, TypeOK
<1>3. /\ UNCHANGED <<subs, latest, opened, closed, call>>
      /\ \/ missed' = missed /\ put' = [put EXCEPT ![s] = Append(@, hub.event)]
         \/ put' = put /\ missed' = [missed EXCEPT ![s] = @ \cup {hub.event}]
  BY Zenon DEF PutEvent, callVars
<1> HIDE DEF s
<1>4. CASE missed' = missed /\ put' = [put EXCEPT ![s] = Append(@, hub.event)]
  <2>1. put'[s] = Append(put[s], latest) /\ \A t \in Subscribers : t # s => put'[t] = put[t]
    BY <1>1, <1>2, <1>4, Zenon
  <2>2. /\ Len(put'[s]) = Len(put[s]) + 1 /\ Len(put[s]) \in Nat
        /\ put'[s][Len(put[s]) + 1] = latest
        /\ \A k \in 1..Len(put[s]) : put'[s][k] = put[s][k]
    BY <1>1, <1>2, <2>1, AppendFacts
  <2> QED
    BY <1>3, <1>4, <2>1, <2>2, Zenon DEF s
<1>5. CASE put' = put /\ missed' = [missed EXCEPT ![s] = @ \cup {hub.event}]
  <2>1. missed'[s] = missed[s] \cup {latest} /\ \A t \in Subscribers : t # s => missed'[t] = missed[t]
    BY <1>1, <1>2, <1>5, Zenon
  <2> QED
    BY <1>3, <1>5, <2>1, Zenon DEF s
<1> QED
  BY <1>3, <1>4, <1>5, ZenonT(30)

LEMMA PutStep ==
  ASSUME IInv, Next
  PROVE  PutInv'
<1>0. /\ TypeOK /\ subs \in Seq(Subscribers) /\ Len(subs) \in Nat /\ latest \in Nat
      /\ put \in [Subscribers -> Seq(Events)] /\ retained \in Seq(Events)
      /\ \A s \in Subscribers : \A k \in 1..Len(put[s]) : put[s][k] \in Nat
      /\ \A k \in 1..Len(retained) : retained[k] \in Nat
  BY DEF IInv, TypeOK, Events
<1>1. CASE PutEvent
  <2> DEFINE s == subs[hub.i]
  <2>1. /\ s \in Subscribers /\ UNCHANGED latest
        /\ \A k \in 1..Len(put[s]) : put[s][k] < latest
        /\ \A t \in Subscribers : t # s => put'[t] = put[t]
    BY <1>1, PutTarget, PutEffect, Zenon DEF PutEvent
  <2>2. \/ put'[s] = put[s]
        \/ /\ Len(put'[s]) = Len(put[s]) + 1 /\ Len(put[s]) \in Nat
           /\ put'[s][Len(put[s]) + 1] = latest
           /\ \A k \in 1..Len(put[s]) : put'[s][k] = put[s][k]
    BY <1>1, PutEffect, ZenonT(30)
  <2> HIDE DEF s
  <2>3. ASSUME NEW k \in 1..Len(put'[s]) PROVE put'[s][k] <= latest
    <3>1. CASE k \in 1..Len(put[s]) /\ put'[s][k] = put[s][k]
      BY <2>1, <3>1, Zenon DEF IInv, PutInv
    <3>2. CASE put'[s][k] = latest
      BY <1>0, <3>2
    <3> QED
      BY <2>2, <3>1, <3>2
  <2>4. ASSUME NEW i \in 1..Len(put'[s]), NEW j \in 1..Len(put'[s]), i < j
        PROVE  put'[s][i] < put'[s][j]
    <3>1. i \in 1..Len(put[s]) /\ put'[s][i] = put[s][i]
      BY <2>2, <2>4
    <3>2. CASE put'[s][j] = latest
      BY <2>1, <3>1, <3>2, Zenon
    <3>3. CASE j \in 1..Len(put[s]) /\ put'[s][j] = put[s][j]
      BY <2>1, <2>4, <3>1, <3>3, Zenon DEF IInv, PutInv, DeliveredInOrder
    <3> QED
      BY <2>2, <3>2, <3>3
  <2>5. ASSUME NEW t \in Subscribers, t # s
        PROVE  /\ \A i, j \in 1..Len(put'[t]) : i < j => put'[t][i] < put'[t][j]
               /\ \A k \in 1..Len(put'[t]) : put'[t][k] <= latest
    BY <2>1, <2>5, Zenon DEF IInv, PutInv, DeliveredInOrder
  <2> QED
    BY <2>1, <2>3, <2>4, <2>5, Zenon DEF PutInv, DeliveredInOrder
<1>2. CASE HandleSubscribe
  <2> DEFINE s == Head(mailbox).by
  <2>1. put' = [put EXCEPT ![s] = retained] /\ UNCHANGED latest
    BY <1>2, Zenon DEF HandleSubscribe
  <2> HIDE DEF s
  <2>2. \A t \in Subscribers : put'[t] = put[t] \/ put'[t] = retained
    BY <1>0, <2>1, Zenon
  <2>3. /\ \A i, j \in 1..Len(retained) : i < j => retained[i] < retained[j]
        /\ \A k \in 1..Len(retained) : retained[k] <= latest
    <3>1. Len(retained) \in Nat /\ \A k \in 1..Len(retained) : retained[k] + Len(retained) = latest + k
      BY <1>0 DEF IInv, RingInv
    <3>2. ASSUME NEW i \in 1..Len(retained) PROVE i \in Nat /\ retained[i] = latest + i - Len(retained)
      <4>1. retained[i] + Len(retained) = latest + i /\ retained[i] \in Nat
        BY <1>0, <3>1, Zenon
      <4> QED
        BY <1>0, <3>1, <4>1
    <3>3. ASSUME NEW i \in 1..Len(retained), NEW j \in 1..Len(retained), i < j
          PROVE  retained[i] < retained[j]
      BY <1>0, <3>1, <3>2, <3>3
    <3>4. ASSUME NEW i \in 1..Len(retained) PROVE retained[i] <= latest
      BY <1>0, <3>1, <3>2
    <3> QED
      BY <3>3, <3>4, Zenon
  <2> QED
    BY <2>1, <2>2, <2>3, Zenon DEF IInv, PutInv, DeliveredInOrder
<1>3. CASE Dispatch
  <2>1. /\ mailbox # <<>> /\ Head(mailbox).kind = "emit" /\ Serving /\ mailbox' = Tail(mailbox)
        /\ latest' = Head(mailbox).event /\ UNCHANGED put
    BY <1>3, Zenon DEF Dispatch, TakeRequest, Serving, streamVars
  <2>2. latest' = latest + 1
    BY <1>0, <2>1, TakeFacts, HeadIsNext, Zenon DEF IInv
  <2>3. ASSUME NEW s \in Subscribers, NEW k \in 1..Len(put[s]) PROVE put[s][k] <= latest + 1
    BY <1>0 DEF IInv, PutInv
  <2> QED
    BY <2>1, <2>2, <2>3, Zenon DEF IInv, PutInv, DeliveredInOrder
<1>4. CASE UNCHANGED <<put, latest>>
  BY <1>4, Zenon DEF IInv, PutInv, DeliveredInOrder
<1> QED
  BY <1>1, <1>2, <1>3, <1>4, NextSplit, CallerFrame, Zenon DEF HubStep, RemoveClosed, FindOpen, Dispatched,
     HandleUnsubscribe, BeginDrain, DrainOne, HubExit, streamVars

LEMMA DistinctStep ==
  ASSUME IInv, Next
  PROVE  Distinct'
<1>0. /\ TypeOK /\ Distinct /\ OneRequest /\ Unanswered
      /\ subs \in Seq(Subscribers) /\ Len(subs) \in Nat
  BY DEF IInv, TypeOK, SubsInv
<1>1. ASSUME NEW i \in 1..Len(subs), subs' = RemoveAt(subs, i)
      PROVE  Distinct'
  <2>1. ASSUME NEW j \in 1..Len(subs'), NEW k \in 1..Len(subs'), j < k
        PROVE  subs'[j] # subs'[k]
    <3>1. j \in Nat /\ k \in Nat /\ i \in Nat
      BY <1>0, <1>1, SubsRemoved
    <3>2. (j < i /\ subs'[j] = subs[j] /\ j \in 1..Len(subs))
          \/ (j >= i /\ subs'[j] = subs[j + 1] /\ j + 1 \in 1..Len(subs))
      BY <1>0, <1>1, <3>1, SubsRemoved
    <3>3. (k < i /\ subs'[k] = subs[k] /\ k \in 1..Len(subs))
          \/ (k >= i /\ subs'[k] = subs[k + 1] /\ k + 1 \in 1..Len(subs))
      BY <1>0, <1>1, <3>1, SubsRemoved
    <3> QED
      BY <1>0, <2>1, <3>1, <3>2, <3>3 DEF Distinct
  <2>2. \A j \in 1..Len(subs') : j \in Nat
    BY <1>0, <1>1, SubsRemoved
  <2> QED
    BY <2>1, <2>2 DEF Distinct
<1>2. CASE RemoveClosed
  <2>1. hub.i \in 1..Len(subs) /\ subs' = RemoveAt(subs, hub.i)
    BY <1>0, <1>2, HubTyped DEF RemoveClosed
  <2> QED
    BY <1>1, <2>1, Zenon
<1>3. CASE UNCHANGED subs
  BY <1>0, <1>3, Zenon DEF Distinct
<1>4. CASE HandleUnsubscribe
  BY <1>1, <1>3, <1>4, Zenon DEF HandleUnsubscribe
<1>5. CASE HandleSubscribe
  <2> DEFINE s == Head(mailbox).by
  <2>1. /\ mailbox # <<>> /\ mailbox' = Tail(mailbox) /\ Head(mailbox).kind = "subscribe"
        /\ subs' = Append(subs, s)
    BY <1>5, Zenon DEF HandleSubscribe, TakeRequest
  <2>2. s \in Subscribers /\ mailbox[1] = Subscribing(s) /\ 1 \in 1..Len(mailbox)
    BY <1>0, <2>1, TakeFacts, RequestFacts
  <2> HIDE DEF s
  <2>3. \A j \in 1..Len(subs) : subs[j] # s
    BY <1>0, <2>2, Zenon DEF OneRequest, Unanswered
  <2>4. /\ Len(subs') = Len(subs) + 1 /\ subs'[Len(subs) + 1] = s
        /\ \A j \in 1..Len(subs) : subs'[j] = subs[j]
    BY <1>0, <2>1, <2>2, AppendFacts
  <2>5. \A j \in 1..Len(subs') : j = Len(subs) + 1 \/ j \in 1..Len(subs)
    BY <1>0, <2>4
  <2> QED
    BY <1>0, <2>3, <2>4, <2>5, Zenon DEF Distinct
<1> QED
  BY <1>2, <1>3, <1>4, <1>5, NextSplit, CallerFrame, Zenon DEF HubStep, Dispatch, FindOpen, PutEvent,
     Dispatched, BeginDrain, DrainOne, HubExit

\* A step of the hub that takes a request.
LEMMA SubsFrame ==
  ASSUME IInv, Next, mailbox' = mailbox,
         \A s \in Subscribers : call'[s] = call[s] /\ reply'[s] = reply[s],
         \A j \in 1..Len(subs') : \E k \in 1..Len(subs) : subs'[j] = subs[k]
  PROVE  SubsInv'
<1>0. OneRequest /\ Unanswered
  BY Zenon DEF IInv, SubsInv
<1>1. OneRequest'
  BY <1>0 DEF OneRequest
<1>2. ASSUME NEW s \in Subscribers
      PROVE  /\ call'[s] \in {"idle", "sending"} => reply'[s] = "none"
             /\ reply'[s] = "none" =>
                  (\A j \in 1..Len(subs') : subs'[j] # s) /\ ~IsClosed(s)' /\ call'[s] # "open"
  BY <1>0, <1>2 DEF Unanswered, IsClosed
<1> QED
  BY <1>1, <1>2, DistinctStep, Zenon DEF SubsInv, Unanswered

LEMMA TakenSubs ==
  ASSUME IInv, mailbox # <<>>, mailbox' = Tail(mailbox), UNCHANGED call,
         \A s \in Subscribers : reply'[s] = reply[s] \/ Head(mailbox) = Subscribing(s),
         \A s \in Subscribers : Head(mailbox) = Subscribing(s) => reply'[s] # "none",
         \A j \in 1..Len(subs') :
           (\E k \in 1..Len(subs) : subs'[j] = subs[k]) \/ Head(mailbox) = Subscribing(subs'[j])
  PROVE  OneRequest' /\ Unanswered'
<1>0. /\ OneRequest /\ Unanswered /\ TypeOK
  BY Zenon DEF IInv, SubsInv
<1>1. /\ Head(mailbox) = mailbox[1] /\ 1 \in 1..Len(mailbox)
      /\ \A i \in 1..Len(mailbox') :
           i \in Nat /\ i + 1 \in 1..Len(mailbox) /\ mailbox'[i] = mailbox[i + 1]
  BY <1>0, TakeFacts
<1>2. ASSUME NEW s \in Subscribers, NEW i \in 1..Len(mailbox'), mailbox'[i] = Subscribing(s)
      PROVE  /\ call'[s] \in {"waiting", "nil"} /\ reply'[s] = "none"
             /\ \A j \in 1..Len(mailbox') : mailbox'[j] = Subscribing(s) => i = j
  <2>1. i + 1 \in 1..Len(mailbox) /\ mailbox[i + 1] = Subscribing(s) /\ i \in Nat
    BY <1>1, <1>2, Zenon
  <2>2. i + 1 # 1
    BY <2>1
  <2>3. mailbox[1] # Subscribing(s)
    BY <1>0, <1>1, <2>1, <2>2 DEF OneRequest
  <2>4. call[s] \in {"waiting", "nil"} /\ reply[s] = "none"
    BY <1>0, <2>1, Zenon DEF OneRequest
  <2>5. ASSUME NEW j \in 1..Len(mailbox'), mailbox'[j] = Subscribing(s) PROVE i = j
    <3>1. j + 1 \in 1..Len(mailbox) /\ mailbox[j + 1] = Subscribing(s) /\ j \in Nat
      BY <1>1, <2>5, Zenon
    <3>2. i + 1 = j + 1
      BY <1>0, <2>1, <3>1 DEF OneRequest
    <3> QED
      BY <2>1, <3>1, <3>2
  <2> QED
    BY <1>1, <2>3, <2>4, <2>5, Zenon
<1>3. ASSUME NEW s \in Subscribers
      PROVE  /\ call[s] \in {"idle", "sending"} => reply'[s] = "none"
             /\ reply'[s] = "none" => (\A j \in 1..Len(subs') : subs'[j] # s) /\ ~IsClosed(s) /\ call[s] # "open"
  <2>1. CASE Head(mailbox) = Subscribing(s)
    <3>1. call[s] \notin {"idle", "sending"}
      <4>1. call[s] \in {"waiting", "nil"}
        BY <1>0, <1>1, <2>1, ZenonT(30) DEF OneRequest
      <4> QED
        BY <4>1, Zenon
    <3> QED
      BY <2>1, <3>1, Zenon
  <2>2. CASE Head(mailbox) # Subscribing(s)
    BY <1>0, <2>2, Zenon DEF Unanswered
  <2> QED
    BY <2>1, <2>2, Zenon
<1> QED
  BY <1>2, <1>3, ZenonT(30) DEF OneRequest, Unanswered, IsClosed

LEMMA SubsStep ==
  ASSUME IInv, Next
  PROVE  SubsInv'
<1>0. /\ OneRequest /\ Unanswered /\ TypeOK
      /\ call \in [Parties -> {"idle", "sending", "waiting", "open", "closing", "closed",
                              "nil", "true", "false"}]
      /\ reply \in [Subscribers -> {"none", "stream", "nil"}]
      /\ subs \in Seq(Subscribers) /\ Len(subs) \in Nat
      /\ Subscribers \subseteq Parties
      /\ \A s \in Subscribers : s \notin Syncers
  <2>1. OneRequest /\ Unanswered /\ TypeOK
    BY Zenon DEF IInv, SubsInv
  <2>2. /\ call \in [Parties -> {"idle", "sending", "waiting", "open", "closing", "closed",
                                 "nil", "true", "false"}]
        /\ reply \in [Subscribers -> {"none", "stream", "nil"}]
        /\ subs \in Seq(Subscribers)
    BY <2>1, Zenon DEF TypeOK
  <2>3. Subscribers \subseteq Parties /\ \A s \in Subscribers : s \notin Syncers
    BY HubAssumption, Zenon DEF Parties
  <2> QED
    BY <2>1, <2>2, <2>3
<1>1. CASE Dispatch
  <2>1. /\ mailbox # <<>> /\ mailbox' = Tail(mailbox) /\ UNCHANGED <<call, reply, subs>>
        /\ Head(mailbox).kind = "emit"
    BY <1>1, Zenon DEF Dispatch, TakeRequest, callVars
  <2>2. \A s \in Subscribers : Head(mailbox) # Subscribing(s)
    BY <2>1 DEF Subscribing
  <2> QED
    BY <2>1, <2>2, TakenSubs, DistinctStep, Zenon DEF SubsInv
<1>2. CASE HandleSubscribe
  <2> DEFINE s == Head(mailbox).by
  <2>1. /\ mailbox # <<>> /\ mailbox' = Tail(mailbox) /\ UNCHANGED call
        /\ Head(mailbox).kind = "subscribe"
        /\ subs' = Append(subs, s) /\ reply' = [reply EXCEPT ![s] = "stream"]
    BY <1>2, Zenon DEF HandleSubscribe, TakeRequest, callVars
  <2>2. s \in Subscribers /\ Head(mailbox) = Subscribing(s)
    BY <1>0, <2>1, TakeFacts, RequestFacts, Zenon
  <2>3. \A t \in Subscribers : Head(mailbox) = Subscribing(t) => t = s
    BY <2>2 DEF Subscribing
  <2> HIDE DEF s
  <2>4. reply'[s] = "stream" /\ \A t \in Subscribers : t # s => reply'[t] = reply[t]
    BY <1>0, <2>1, <2>2, Zenon
  <2>5. \A j \in 1..Len(subs') : (\E k \in 1..Len(subs) : subs'[j] = subs[k]) \/ subs'[j] = s
    <3>1. subs \in Seq(Subscribers) /\ subs' = Append(subs, s) /\ s \in Subscribers
      BY <1>0, <2>1, <2>2, Zenon
    <3> QED
      BY <3>1, AppendFacts
  <2>6. /\ \A t \in Subscribers : reply'[t] = reply[t] \/ Head(mailbox) = Subscribing(t)
        /\ \A t \in Subscribers : Head(mailbox) = Subscribing(t) => reply'[t] # "none"
        /\ \A j \in 1..Len(subs') :
             (\E k \in 1..Len(subs) : subs'[j] = subs[k]) \/ Head(mailbox) = Subscribing(subs'[j])
    BY <2>2, <2>3, <2>4, <2>5, Zenon
  <2> QED
    BY <2>1, <2>6, TakenSubs, DistinctStep, Zenon DEF SubsInv
<1>3. CASE HandleUnsubscribe
  <2>1. /\ mailbox # <<>> /\ mailbox' = Tail(mailbox) /\ UNCHANGED <<call, reply>>
        /\ Head(mailbox).kind = "unsubscribe"
        /\ subs' = subs \/ \E i \in 1..Len(subs) : subs' = RemoveAt(subs, i)
    BY <1>3, Zenon DEF HandleUnsubscribe, TakeRequest, callVars
  <2>2. \A s \in Subscribers : Head(mailbox) # Subscribing(s)
    BY <2>1 DEF Subscribing
  <2>3. \A j \in 1..Len(subs') : \E k \in 1..Len(subs) : subs'[j] = subs[k]
    <3>1. CASE subs' = subs
      BY <3>1, Zenon
    <3>2. ASSUME NEW i \in 1..Len(subs), subs' = RemoveAt(subs, i), NEW j \in 1..Len(subs')
          PROVE  \E k \in 1..Len(subs) : subs'[j] = subs[k]
      <4>1. j \in Nat /\ i \in Nat
        BY <1>0, <3>2, SubsRemoved
      <4>2. j < i \/ j >= i
        BY <4>1
      <4> QED
        BY <1>0, <3>2, <4>2, SubsRemoved, Zenon
    <3> QED
      BY <2>1, <3>1, <3>2, Zenon
  <2> QED
    BY <2>1, <2>2, <2>3, TakenSubs, DistinctStep, Zenon DEF SubsInv
<1>4. CASE DrainOne
  <2>1. /\ mailbox # <<>> /\ mailbox' = Tail(mailbox) /\ UNCHANGED <<call, subs>>
        /\ IF Head(mailbox).kind = "subscribe"
           THEN reply' = [reply EXCEPT ![Head(mailbox).by] = "nil"] ELSE reply' = reply
    BY <1>4, Zenon DEF DrainOne, callVars
  <2>2. ASSUME NEW s \in Subscribers
        PROVE  /\ reply'[s] = reply[s] \/ Head(mailbox) = Subscribing(s)
               /\ Head(mailbox) = Subscribing(s) => reply'[s] # "none"
    <3>1. CASE Head(mailbox).kind = "subscribe"
      <4>1. Head(mailbox) = Subscribing(Head(mailbox).by)
        BY <1>0, <2>1, <3>1, TakeFacts, RequestFacts, Zenon
      <4>2. Head(mailbox) = Subscribing(s) => Head(mailbox).by = s
        BY DEF Subscribing
      <4> QED
        BY <1>0, <2>1, <3>1, <4>1, <4>2, Zenon
    <3>2. CASE Head(mailbox).kind # "subscribe"
      BY <2>1, <3>2 DEF Subscribing
    <3> QED
      BY <3>1, <3>2, Zenon
  <2> QED
    BY <2>1, <2>2, TakenSubs, DistinctStep, Zenon DEF SubsInv
<1>5. CASE UNCHANGED <<mailbox, subs, call, reply>>
  BY <1>5, SubsFrame, Zenon
<1>6. CASE RemoveClosed
  <2>1. /\ hub.i \in 1..Len(subs) /\ subs' = RemoveAt(subs, hub.i) /\ UNCHANGED <<mailbox, call, reply>>
    BY <1>0, <1>6, HubTyped DEF RemoveClosed, callVars
  <2>2. ASSUME NEW j \in 1..Len(subs') PROVE \E k \in 1..Len(subs) : subs'[j] = subs[k]
    <3>1. j < hub.i \/ j >= hub.i
      BY <1>0, <2>1, SubsRemoved
    <3> QED
      BY <1>0, <2>1, <3>1, SubsRemoved, Zenon
  <2> QED
    BY <2>1, <2>2, SubsFrame, Zenon
<1>7. CASE Caller
  <2>1. UNCHANGED <<subs, reply>>
    BY <1>7, CallerFrame, Zenon
  <2>2. CASE UNCHANGED call /\ UNCHANGED mailbox
    BY <1>5, <2>1, <2>2, Zenon
  \* An emit request joins the mailbox; of call only a Syncer's entry may change.
  <2>3. ASSUME NEW req \in Request, Send(req), \A s \in Subscribers : req # Subscribing(s),
               \A s \in Subscribers : call'[s] = call[s] \/ (call[s] = "closing" /\ call'[s] = "closed")
        PROVE  SubsInv'
    <3>1. ASSUME NEW s \in Subscribers, NEW i \in 1..Len(mailbox'), mailbox'[i] = Subscribing(s)
          PROVE  i \in 1..Len(mailbox) /\ mailbox[i] = Subscribing(s)
      BY <1>0, <2>3, <3>1, SendFacts
    <3>2. ASSUME NEW s \in Subscribers, NEW i \in 1..Len(mailbox'), mailbox'[i] = Subscribing(s)
          PROVE  /\ call'[s] \in {"waiting", "nil"} /\ reply'[s] = "none"
                 /\ \A j \in 1..Len(mailbox') : mailbox'[j] = Subscribing(s) => i = j
      BY <1>0, <2>1, <2>3, <3>1, <3>2 DEF OneRequest
    <3>3. Unanswered'
      BY <1>0, <2>1, <2>3 DEF Unanswered, IsClosed
    <3> QED
      BY <3>2, <3>3, DistinctStep, Zenon DEF SubsInv, OneRequest
  \* Only the call of one subscriber moves.
  <2>4. ASSUME NEW s \in Subscribers, UNCHANGED mailbox, \A t \in Subscribers : t # s => call'[t] = call[t],
               \/ call[s] = "idle" /\ call'[s] \in {"nil", "sending"}
               \/ call[s] = "waiting" /\ reply[s] # "none" /\ call'[s] \in {"open", "nil"}
               \/ call[s] \in {"sending", "waiting"} /\ call'[s] = "nil"
               \/ call[s] = "open" /\ call'[s] = "closing"
               \/ call[s] = "closing" /\ call'[s] = "closed"
        PROVE  SubsInv'
    <3>1. OneRequest'
      BY <1>0, <2>1, <2>4 DEF OneRequest
    <3>2. Unanswered'
      BY <1>0, <2>1, <2>4 DEF Unanswered, IsClosed
    <3> QED
      BY <3>1, <3>2, DistinctStep, Zenon DEF SubsInv
  <2>5. ASSUME NEW s \in Subscribers, SubscribeSend(s)
        PROVE  SubsInv'
    <3>1. /\ call[s] = "sending" /\ call'[s] = "waiting" /\ Send(Subscribing(s))
          /\ \A t \in Subscribers : t # s => call'[t] = call[t]
      BY <1>0, <2>5, Zenon DEF SubscribeSend, Goto
    <3>2. \A t \in Subscribers : Subscribing(t) = Subscribing(s) => t = s
      BY Zenon DEF Subscribing
    <3>3. reply[s] = "none" /\ \A i \in 1..Len(mailbox) : mailbox[i] # Subscribing(s)
      BY <1>0, <3>1, Zenon DEF OneRequest, Unanswered
    <3>4. ASSUME NEW t \in Subscribers, NEW i \in 1..Len(mailbox'), mailbox'[i] = Subscribing(t)
          PROVE  (i \in 1..Len(mailbox) /\ mailbox[i] = Subscribing(t) /\ t # s)
                 \/ (i = Len(mailbox') /\ t = s)
      <4>1. Subscribing(s) \in Request
        BY RequestFacts, Zenon
      <4>2. /\ mailbox'[Len(mailbox')] = Subscribing(s)
            /\ i = Len(mailbox') \/ (i \in 1..Len(mailbox) /\ mailbox'[i] = mailbox[i])
        BY <1>0, <3>1, <4>1, SendFacts, Zenon
      <4> QED
        BY <3>2, <3>3, <3>4, <4>2, ZenonT(30)
    <3>5. ASSUME NEW t \in Subscribers, NEW i \in 1..Len(mailbox'), mailbox'[i] = Subscribing(t)
          PROVE  /\ call'[t] \in {"waiting", "nil"} /\ reply'[t] = "none"
                 /\ \A j \in 1..Len(mailbox') : mailbox'[j] = Subscribing(t) => i = j
      <4>1. CASE t = s
        <5>1. call'[s] \in {"waiting", "nil"} /\ reply'[s] = "none"
          BY <1>0, <2>1, <3>1, <3>3, Zenon
        <5>2. \A j \in 1..Len(mailbox') : mailbox'[j] = Subscribing(s) => j = Len(mailbox')
          BY <3>4, Zenon
        <5> QED
          BY <3>5, <4>1, <5>1, <5>2, Zenon
      <4>2. CASE t # s
        <5>1. i \in 1..Len(mailbox) /\ mailbox[i] = Subscribing(t)
          BY <3>4, <3>5, <4>2, Zenon
        <5>2. /\ call[t] \in {"waiting", "nil"} /\ reply[t] = "none"
              /\ \A j \in 1..Len(mailbox) : mailbox[j] = Subscribing(t) => i = j
          BY <1>0, <5>1, Zenon DEF OneRequest
        <5>3. call'[t] = call[t] /\ reply'[t] = reply[t]
          BY <1>0, <2>1, <3>1, <4>2, Zenon
        <5>4. \A j \in 1..Len(mailbox') : mailbox'[j] = Subscribing(t) =>
                j \in 1..Len(mailbox) /\ mailbox[j] = Subscribing(t)
          BY <3>4, <4>2, Zenon
        <5> QED
          BY <5>2, <5>3, <5>4, Zenon
      <4> QED
        BY <4>1, <4>2, Zenon
    <3>6. Unanswered'
      BY <1>0, <2>1, <3>1, <3>3, ZenonT(30) DEF Unanswered, IsClosed
    <3> QED
      BY <3>5, <3>6, DistinctStep, Zenon DEF SubsInv, OneRequest
  <2>6. CASE Emit
    <3>1. CASE HasRoom
      <4>1. /\ Send(Emitting(emitted + 1, Nobody)) /\ UNCHANGED call
        BY <2>6, <3>1, Zenon DEF Emit, callVars
      <4>2. Emitting(emitted + 1, Nobody) \in Request
            /\ \A s \in Subscribers : Emitting(emitted + 1, Nobody) # Subscribing(s)
        BY <1>0, EmittingFacts, Zenon
      <4> QED
        BY <2>3, <4>1, <4>2, Zenon
    <3>2. CASE ~HasRoom
      BY <2>2, <2>6, <3>2, Zenon DEF Emit, callVars
    <3> QED
      BY <3>1, <3>2, Zenon
  <2>7. ASSUME NEW p \in Syncers, SyncStep(p)
        PROVE  SubsInv'
    <3>1. \A s \in Subscribers : call'[s] = call[s]
      BY <1>0, <2>7, Zenon DEF SyncStep, EmitSyncCall, EmitSyncSend, EmitSyncDone, EmitSyncStopped, Goto
    <3>2. CASE EmitSyncSend(p)
      <4>1. Emitting(emitted + 1, p) \in Request
            /\ \A s \in Subscribers : Emitting(emitted + 1, p) # Subscribing(s)
        BY <1>0, EmittingFacts, Zenon
      <4> QED
        BY <2>3, <3>1, <3>2, <4>1, ZenonT(30) DEF EmitSyncSend
    <3>3. CASE UNCHANGED mailbox
      BY <2>1, <3>1, <3>3, SubsFrame, Zenon
    <3> QED
      BY <2>7, <3>2, <3>3, Zenon DEF SyncStep, EmitSyncCall, EmitSyncDone, EmitSyncStopped, hubVars
  <2>8. ASSUME NEW s \in Subscribers, StreamStep(s)
        PROVE  SubsInv'
    <3>1. CASE SubscribeCall(s) \/ SubscribeReply(s) \/ SubscribeStopped(s) \/ StreamClose(s)
      <4>1. UNCHANGED mailbox /\ \A t \in Subscribers : t # s => call'[t] = call[t]
        BY <1>0, <3>1, Zenon DEF SubscribeCall, SubscribeReply, SubscribeStopped, StreamClose, Goto, hubVars
      <4>2. \/ call[s] = "idle" /\ call'[s] \in {"nil", "sending"}
            \/ call[s] = "waiting" /\ reply[s] # "none" /\ call'[s] \in {"open", "nil"}
            \/ call[s] \in {"sending", "waiting"} /\ call'[s] = "nil"
            \/ call[s] = "open" /\ call'[s] = "closing"
        BY <1>0, <3>1, Zenon DEF SubscribeCall, SubscribeReply, SubscribeStopped, StreamClose, Goto
      <4> QED
        BY <2>4, <4>1, <4>2, Zenon
    <3>2. CASE Receive(s)
      BY <2>2, <3>2, Zenon DEF Receive, hubVars, callVars
    <3>3. CASE Unsubscribe(s)
      <4>1. /\ call[s] = "closing" /\ call'[s] = "closed"
            /\ \A t \in Subscribers : t # s => call'[t] = call[t]
        BY <1>0, <3>3, Zenon DEF Unsubscribe, Goto
      <4>2. CASE HasRoom
        <5>1. Send(Unsubscribing(s))
          BY <3>3, <4>2, Zenon DEF Unsubscribe
        <5>2. Unsubscribing(s) \in Request /\ \A t \in Subscribers : Unsubscribing(s) # Subscribing(t)
          BY RequestFacts, ZenonT(30) DEF Unsubscribing, Subscribing
        <5> QED
          BY <2>3, <4>1, <5>1, <5>2, Zenon
      <4>3. CASE ~HasRoom
        BY <2>4, <3>3, <4>1, <4>3, Zenon DEF Unsubscribe
      <4> QED
        BY <4>2, <4>3, Zenon
    <3> QED
      BY <2>5, <2>8, <3>1, <3>2, <3>3, Zenon DEF StreamStep
  <2>9. CASE HubClose
    BY <2>2, <2>9, Zenon DEF HubClose, hubVars
  <2> QED
    BY <1>7, <2>6, <2>7, <2>8, <2>9, Zenon DEF Caller
<1> QED
  BY <1>1, <1>2, <1>3, <1>4, <1>5, <1>6, <1>7, NextSplit, Zenon DEF HubStep, FindOpen, PutEvent,
     Dispatched, BeginDrain, HubExit, callVars

\* A stream is closed once, and its mark says when.
LEMMA CloseOnce ==
  ASSUME TypeOK, Next, NEW s \in Subscribers
  PROVE  \/ (IsClosed(s)' <=> IsClosed(s)) /\ closed'[s] = closed[s]
         \/ ~IsClosed(s) /\ IsClosed(s)' /\ closed'[s] = latest /\ Caller
<1>0. /\ call \in [Parties -> {"idle", "sending", "waiting", "open", "closing", "closed",
                              "nil", "true", "false"}]
      /\ closed \in [Subscribers -> Nat]
      /\ Subscribers \subseteq Parties /\ Syncers \subseteq Parties /\ s \notin Syncers
  BY HubAssumption, Zenon DEF TypeOK, Parties
<1>1. CASE UNCHANGED <<call, closed>>
  BY <1>1, Zenon DEF IsClosed
<1>2. ASSUME NEW p \in Syncers, SyncStep(p)
      PROVE  call'[s] = call[s] /\ UNCHANGED closed
  BY <1>0, <1>2, Zenon DEF SyncStep, EmitSyncCall, EmitSyncSend, EmitSyncDone, EmitSyncStopped, Goto
<1>3. ASSUME NEW t \in Subscribers, t # s, StreamStep(t)
      PROVE  call'[s] = call[s] /\ closed'[s] = closed[s]
  BY <1>0, <1>3, Zenon DEF StreamStep, SubscribeCall, SubscribeSend, SubscribeReply, SubscribeStopped,
     Receive, StreamClose, Unsubscribe, Goto, callVars
<1>4. CASE StreamClose(s)
  <2>1. Caller
    BY <1>4, Zenon DEF Caller, StreamStep
  <2> QED
    BY <1>0, <1>4, <2>1, Zenon DEF StreamClose, Goto, IsClosed
<1>5. CASE SubscribeCall(s) \/ SubscribeSend(s) \/ SubscribeReply(s) \/ SubscribeStopped(s)
           \/ Receive(s) \/ Unsubscribe(s)
  BY <1>0, <1>5, Zenon DEF SubscribeCall, SubscribeSend, SubscribeReply, SubscribeStopped,
     Receive, Unsubscribe, Goto, callVars, IsClosed
<1>6. CASE HubStep
  BY <1>1, <1>6, Zenon DEF HubStep, Dispatch, RemoveClosed, FindOpen, PutEvent, Dispatched,
     HandleSubscribe, HandleUnsubscribe, BeginDrain, DrainOne, HubExit, callVars
<1>7. CASE Emit \/ HubClose
  BY <1>1, <1>7, Zenon DEF Emit, HubClose, callVars
<1>8. CASE \E p \in Syncers : SyncStep(p)
  BY <1>2, <1>8, Zenon DEF IsClosed
<1>9. CASE \E t \in Subscribers : StreamStep(t)
  <2>1. PICK t \in Subscribers : StreamStep(t)
    BY <1>9, Zenon
  <2>2. CASE t = s
    BY <1>4, <1>5, <2>1, <2>2, Zenon DEF StreamStep
  <2>3. CASE t # s
    BY <1>3, <2>1, <2>3, Zenon DEF IsClosed
  <2> QED
    BY <2>2, <2>3, Zenon
<1> QED
  BY <1>6, <1>7, <1>8, <1>9, Zenon DEF Next

-----------------------------------------------------------------------------
(* What the streams have had. *)

LEMMA HadStep ==
  ASSUME IInv, Next
  PROVE  HadInv'
<1> SUFFICES ASSUME Serving', NEW s \in Subscribers, NEW j \in 1..Len(subs'), NEW e \in 1..latest',
                    subs'[j] = s, ~IsClosed(s)', e + Replay > opened'[s],
                    (Busy' /\ j >= hub'.i) => e < latest'
             PROVE  Had(s, e)'
  BY Zenon DEF HadInv
<1>t. TypeOK
  BY Zenon DEF IInv
<1>h. hub \in [at : {"select", "check", "put", "drain", "exited"}, event : Nat,
             by : Syncers \cup {Nobody}, i : Nat \ {0}]
  BY <1>t, HubTyped, Zenon
<1>y. /\ subs \in Seq(Subscribers) /\ Len(subs) \in Nat /\ latest \in Nat
      /\ put \in [Subscribers -> Seq(Events)] /\ retained \in Seq(Events)
      /\ opened \in [Subscribers -> Nat] /\ Replay \in Nat
  <2>1. /\ subs \in Seq(Subscribers) /\ put \in [Subscribers -> Seq(Events)]
        /\ retained \in Seq(Events) /\ opened \in [Subscribers -> Nat]
    BY <1>t, Zenon DEF TypeOK
  <2>2. latest \in Nat
    BY <1>t, Zenon DEF TypeOK
  <2> QED
    BY <2>1, <2>2, HubAssumption
<1>0. /\ TypeOK /\ subs \in Seq(Subscribers) /\ Len(subs) \in Nat /\ latest \in Nat
      /\ put \in [Subscribers -> Seq(Events)] /\ retained \in Seq(Events)
      /\ opened \in [Subscribers -> Nat] /\ Replay \in Nat
      /\ hub \in [at : {"select", "check", "put", "drain", "exited"}, event : Nat,
                  by : Syncers \cup {Nobody}, i : Nat \ {0}]
  BY <1>t, <1>h, <1>y, Zenon
<1>1. ~IsClosed(s)
  BY <1>0, CloseOnce, Zenon
<1>2. ASSUME NEW k \in 1..Len(subs), subs[k] = s, Serving, e \in 1..latest, opened'[s] = opened[s],
             (Busy /\ k >= hub.i) => e < latest
      PROVE  Had(s, e)
  BY <1>1, <1>2, Zenon DEF IInv, HadInv
<1>3. ASSUME put'[s] = put[s], missed'[s] = missed[s], Had(s, e)
      PROVE  Had(s, e)'
  BY <1>3, Zenon DEF Had
<1>4. CASE Dispatch
  <2>1. /\ mailbox # <<>> /\ Head(mailbox).kind = "emit" /\ Serving /\ mailbox' = Tail(mailbox)
        /\ hub.at = "select" /\ hub'.at = "check" /\ hub'.i = 1
        /\ latest' = Head(mailbox).event /\ UNCHANGED <<subs, put, missed, opened>>
    BY <1>4, Zenon DEF Dispatch, TakeRequest, Serving, streamVars
  <2>2. latest' = latest + 1
    <3>1. Head(mailbox) = mailbox[1]
      BY <1>t, <2>1, TakeFacts, Zenon
    <3>2. MailInv
      BY Zenon DEF IInv
    <3> QED
      BY <1>t, <2>1, <3>1, <3>2, HeadIsNext, Zenon
  <2>3. j \in 1..Len(subs) /\ j >= 1 /\ Busy' /\ ~Busy
    BY <1>y, <2>1 DEF Busy
  <2>4. e \in 1..latest
    BY <1>0, <2>1, <2>2, <2>3, SMTT(30)
  <2> QED
    BY <1>2, <1>3, <2>1, <2>3, <2>4, Zenon
<1>5. CASE RemoveClosed
  <2>1. /\ hub.at = "check" /\ hub.i \in 1..Len(subs) /\ subs' = RemoveAt(subs, hub.i)
        /\ UNCHANGED <<hub, put, missed, opened, latest>>
    BY <1>0, <1>5 DEF RemoveClosed, streamVars
  <2>2. j \in Nat /\ hub.i \in Nat
    <3>1. Len(subs) \in Nat /\ Len(subs') = Len(subs) - 1
      BY <1>t, <2>1, SubsRemoved, Zenon
    <3> QED
      BY <1>0, <2>1, <3>1
  <2>3. PICK k \in 1..Len(subs) : subs[k] = s /\ (k >= hub.i => j >= hub.i)
    <3>1. CASE j < hub.i
      <4>1. j \in 1..Len(subs) /\ subs'[j] = subs[j]
        BY <1>0, <2>1, <3>1, SubsRemoved, ZenonT(30)
      <4> QED
        BY <4>1, Zenon
    <3>2. CASE j >= hub.i
      <4>1. j + 1 \in 1..Len(subs) /\ subs'[j] = subs[j + 1]
        BY <1>0, <2>1, <3>2, SubsRemoved, ZenonT(30)
      <4> QED
        BY <3>2, <4>1, Zenon
    <3> QED
      BY <2>2, <3>1, <3>2
  <2>4. Serving /\ Busy /\ Busy'
    BY <2>1, Zenon DEF Serving, Busy
  <2> QED
    BY <1>2, <1>3, <2>1, <2>3, <2>4, Zenon
<1>6. CASE PutEvent
  <2>1. /\ hub.at = "put" /\ hub.i \in 1..Len(subs) /\ UNCHANGED <<subs, latest, opened>>
        /\ hub'.at = "check" /\ hub'.i = hub.i + 1
    <3>1. hub.at = "put" /\ hub' = [hub EXCEPT !.at = "check", !.i = @ + 1]
      BY <1>6, Zenon DEF PutEvent
    <3>2. hub.i \in 1..Len(subs)
      BY <3>1, PutTarget, Zenon
    <3>3. UNCHANGED <<subs, latest, opened>>
      BY <1>6, Zenon DEF PutEvent
    <3> QED
      BY <1>h, <3>1, <3>2, <3>3, Zenon
  <2>2. Serving /\ Busy /\ Busy' /\ j \in Nat /\ hub.i \in Nat /\ j \in 1..Len(subs) /\ subs[j] = s
    BY <1>0, <2>1 DEF Serving, Busy
  <2>3. CASE s # subs[hub.i]
    <3>1. put'[s] = put[s] /\ missed'[s] = missed[s]
      BY <1>6, <2>3, PutEffect, ZenonT(30)
    <3>2. j # hub.i
      BY <2>2, <2>3, Zenon
    <3>3. j >= hub.i => e < latest
      BY <2>1, <2>2, <3>2
    <3> QED
      BY <1>2, <1>3, <2>1, <2>2, <3>1, <3>3, Zenon
  <2>4. CASE s = subs[hub.i]
    <3>1. e < latest => Had(s, e)
      BY <1>2, <2>1, <2>2, ZenonT(30)
    <3>2. CASE /\ missed' = missed
               /\ Len(put'[s]) = Len(put[s]) + 1 /\ Len(put[s]) \in Nat
               /\ put'[s][Len(put[s]) + 1] = latest
               /\ \A k \in 1..Len(put[s]) : put'[s][k] = put[s][k]
      <4>1. Len(put[s]) + 1 \in 1..Len(put'[s]) /\ \A k \in 1..Len(put[s]) : k \in 1..Len(put'[s])
        BY <3>2
      <4>2. CASE e = latest
        BY <3>2, <4>1, <4>2, Zenon DEF Had
      <4>3. CASE Had(s, e)
        BY <3>2, <4>1, <4>3, ZenonT(30) DEF Had
      <4> QED
        BY <1>0, <2>1, <3>1, <4>2, <4>3
    <3>3. CASE put' = put /\ missed'[s] = missed[s] \cup {latest}
      <4>1. CASE e = latest
        BY <3>3, <4>1, Zenon DEF Had
      <4>2. CASE Had(s, e)
        BY <3>3, <4>2, Zenon DEF Had
      <4> QED
        BY <1>0, <2>1, <3>1, <4>1, <4>2
    <3> QED
      BY <1>6, <2>4, <3>2, <3>3, PutEffect, ZenonT(30)
  <2> QED
    BY <2>3, <2>4, Zenon
<1>7. CASE HandleSubscribe
  <2> DEFINE t == Head(mailbox).by
  <2>1. /\ mailbox # <<>> /\ mailbox' = Tail(mailbox) /\ Head(mailbox).kind = "subscribe"
        /\ subs' = Append(subs, t) /\ put' = [put EXCEPT ![t] = retained]
        /\ opened' = [opened EXCEPT ![t] = latest] /\ UNCHANGED <<latest, missed, hub>>
        /\ hub.at = "select"
    BY <1>7, Zenon DEF HandleSubscribe, TakeRequest
  <2>2. t \in Subscribers
    BY <1>0, <2>1, TakeFacts, RequestFacts, ZenonT(30)
  <2> HIDE DEF t
  <2>3. CASE s = t
    <3>1. put'[s] = retained /\ opened'[s] = latest
      BY <1>0, <2>1, <2>2, <2>3, Zenon
    <3>r. Len(retained) \in Nat /\ \A k \in 1..Len(retained) : retained[k] \in Events
      BY <1>y
    <3>e. e \in 1..latest /\ e + Replay > latest
      BY <2>1, <3>1, Zenon
    <3>2. /\ Len(retained) \in Nat /\ \A k \in 1..Len(retained) : retained[k] \in Nat
          /\ e \in 1..latest /\ e + Replay > latest
      BY <3>r, <3>e, Zenon DEF Events
    <3> DEFINE k == e + Len(retained) - latest
    <3>3. k \in 1..Len(retained)
      <4>1. Len(retained) = Replay \/ Len(retained) = latest
        BY <1>0, Zenon DEF IInv, RingInv
      <4>2. Len(retained) \in Nat /\ latest \in Nat /\ Replay \in Nat
        BY <1>0, <3>2, Zenon
      <4>3. PICK n : n = Len(retained)
        BY Zenon
      <4>4. n \in Nat /\ (n = Replay \/ n = latest) /\ e \in 1..latest /\ e + Replay > latest
        BY <3>2, <4>1, <4>2, <4>3, Zenon
      <4>5. e + n - latest \in 1..n
        BY <4>2, <4>4
      <4> QED
        BY <4>3, <4>5, Zenon
    <3>4. retained[k] + Len(retained) = latest + k /\ retained[k] \in Nat
      BY <3>2, <3>3, Zenon DEF IInv, RingInv
    <3>5. retained[k] = e
      <4>1. Len(retained) \in Nat /\ latest \in Nat /\ e \in Nat
        BY <1>y, <3>2
      <4>2. retained[k] + Len(retained) = latest + (e + Len(retained) - latest)
        BY <3>4, Zenon
      <4> QED
        BY <3>4, <4>1, <4>2
    <3> QED
      BY <3>1, <3>3, <3>5, Zenon DEF Had
  <2>4. CASE s # t
    <3>1. put'[s] = put[s] /\ opened'[s] = opened[s] /\ missed'[s] = missed[s]
      BY <1>0, <2>1, <2>2, <2>4, Zenon
    <3>a. /\ Len(subs') = Len(subs) + 1 /\ Len(subs) \in Nat /\ subs'[Len(subs) + 1] = t
          /\ \A i \in 1..Len(subs) : subs'[i] = subs[i]
      BY <1>y, <2>1, <2>2, AppendFacts
    <3>2. j \in 1..Len(subs) /\ subs[j] = s
      <4>1. j # Len(subs) + 1
        BY <2>4, <3>a, Zenon
      <4> QED
        BY <3>a, <4>1
    <3> QED
      BY <1>2, <1>3, <2>1, <3>1, <3>2, Zenon DEF Serving, Busy
  <2> QED
    BY <2>3, <2>4, Zenon
<1>8. CASE HandleUnsubscribe
  <2>1. /\ hub.at = "select" /\ UNCHANGED <<hub, put, missed, opened, latest>>
        /\ subs' = subs \/ \E i \in 1..Len(subs) : subs' = RemoveAt(subs, i)
    BY <1>8, Zenon DEF HandleUnsubscribe, TakeRequest, streamVars
  <2>2. PICK k \in 1..Len(subs) : subs[k] = s
    <3>1. CASE subs' = subs
      BY <3>1, Zenon
    <3>2. ASSUME NEW i \in 1..Len(subs), subs' = RemoveAt(subs, i)
          PROVE  \E k \in 1..Len(subs) : subs[k] = s
      <4>1. j < i \/ j >= i
        BY <1>0, <3>2, SubsRemoved, SMTT(30)
      <4> QED
        BY <1>0, <3>2, <4>1, SubsRemoved, ZenonT(30)
    <3> QED
      BY <2>1, <3>1, <3>2, Zenon
  <2> QED
    BY <1>2, <1>3, <2>1, <2>2, Zenon DEF Serving, Busy
<1>9. CASE FindOpen \/ Dispatched \/ BeginDrain \/ HubExit \/ DrainOne \/ Caller
  <2>1. UNCHANGED <<subs, latest, put, missed, opened>>
    BY <1>9, CallerFrame, Zenon DEF FindOpen, Dispatched, BeginDrain, HubExit, DrainOne, streamVars
  <2>2. Serving /\ ((Busy /\ j >= hub.i) => (Busy' /\ j >= hub'.i))
    <3>1. CASE FindOpen
      BY <1>0, <3>1, Zenon DEF FindOpen, Serving, Busy
    <3>2. CASE Dispatched
      <4>1. hub.i > Len(subs) /\ hub.at = "check" /\ hub.i \in Nat
        BY <1>0, <3>2, Zenon DEF Dispatched
      <4>2. ~(j >= hub.i)
        BY <1>0, <2>1, <4>1
      <4> QED
        BY <4>1, <4>2, Zenon DEF Serving
    <3>3. CASE BeginDrain \/ HubExit \/ DrainOne
      BY <1>0, <3>3, ZenonT(30) DEF BeginDrain, HubExit, DrainOne, Serving
    <3>4. CASE Caller
      BY <3>4, CallerFrame, Zenon DEF Serving, Busy
    <3> QED
      BY <1>9, <3>1, <3>2, <3>3, <3>4, Zenon
  <2> QED
    BY <1>2, <1>3, <2>1, <2>2, Zenon
<1> QED
  BY <1>4, <1>5, <1>6, <1>7, <1>8, <1>9, NextSplit, Zenon DEF HubStep

-----------------------------------------------------------------------------
(* The callers of EmitSync. *)

LEMMA MailKept ==
  ASSUME TypeOK, NEW p,
         \/ mailbox' = mailbox
         \/ mailbox # <<>> /\ mailbox' = Tail(mailbox)
         \/ \E req \in Request : req.by # p /\ Send(req)
  PROVE  (NoMail(p) => NoMail(p)') /\ (OneMail(p) => OneMail(p)')
<1>1. CASE mailbox' = mailbox
  BY <1>1, Zenon DEF NoMail, OneMail
<1>2. CASE mailbox # <<>> /\ mailbox' = Tail(mailbox)
  <2>1. \A i \in 1..Len(mailbox') :
          i \in Nat /\ i + 1 \in 1..Len(mailbox) /\ mailbox'[i] = mailbox[i + 1]
    BY <1>2, TakeFacts, ZenonT(30)
  <2>2. NoMail(p) => NoMail(p)'
    BY <2>1, Zenon DEF NoMail
  <2>3. ASSUME OneMail(p), NEW i \in 1..Len(mailbox'), NEW j \in 1..Len(mailbox'),
               mailbox'[i].by = p, mailbox'[j].by = p
        PROVE  i = j
    <3>1. i + 1 = j + 1
      BY <2>1, <2>3, Zenon DEF OneMail
    <3> QED
      BY <2>1, <3>1
  <2> QED
    BY <2>2, <2>3, Zenon DEF OneMail
<1>3. ASSUME NEW req \in Request, req.by # p, Send(req)
      PROVE  (NoMail(p) => NoMail(p)') /\ (OneMail(p) => OneMail(p)')
  <2>1. \A i \in 1..Len(mailbox') :
          mailbox'[i].by = p => i \in 1..Len(mailbox) /\ mailbox'[i] = mailbox[i]
    BY <1>3, SendFacts, Zenon
  <2> QED
    BY <2>1, Zenon DEF NoMail, OneMail
<1> QED
  BY <1>1, <1>2, <1>3, Zenon

LEMMA SyncKept ==
  ASSUME NEW p, Sync(p), NoMail(p) => NoMail(p)', OneMail(p) => OneMail(p)',
         hub'.by = hub.by, done' = done,
         call'[p] \in {"idle", "sending"} => call[p] \in {"idle", "sending"},
         call'[p] = "true" => p \in done
  PROVE  Sync(p)'
  BY Zenon DEF Sync

LEMMA SyncsStep ==
  ASSUME IInv, Next
  PROVE  SyncInv'
<1> SUFFICES ASSUME NEW p \in Syncers PROVE Sync(p)'
  BY Zenon DEF SyncInv
<1>t. TypeOK
  BY Zenon DEF IInv
<1>s. Sync(p)
  BY Zenon DEF IInv, SyncInv
<1>c. /\ call \in [Parties -> {"idle", "sending", "waiting", "open", "closing", "closed",
                              "nil", "true", "false"}]
      /\ Subscribers \subseteq Parties /\ Syncers \subseteq Parties
      /\ p # Nobody /\ p \notin Subscribers /\ p \in Parties
  BY <1>t, HubAssumption, Zenon DEF TypeOK, Parties
<1>1. CASE Dispatch
  <2>1. /\ mailbox # <<>> /\ mailbox' = Tail(mailbox) /\ hub.at = "select"
        /\ hub'.by = Head(mailbox).by /\ UNCHANGED <<call, done>>
    BY <1>1, Zenon DEF Dispatch, TakeRequest, callVars
  <2>2. hub.by # p
    BY <1>c, <2>1, Zenon DEF IInv, WalkInv, Busy
  <2>3. (NoMail(p) => NoMail(p)') /\ (OneMail(p) => OneMail(p)')
    BY <1>t, <2>1, MailKept, Zenon
  <2>4. /\ Head(mailbox) = mailbox[1] /\ 1 \in 1..Len(mailbox)
        /\ \A i \in 1..Len(mailbox') :
             i \in Nat /\ i + 1 \in 1..Len(mailbox) /\ mailbox'[i] = mailbox[i + 1]
    BY <1>t, <2>1, TakeFacts
  <2>5. CASE Head(mailbox).by = p
    <3>1. ~NoMail(p)
      BY <2>4, <2>5, Zenon DEF NoMail
    <3>2. ASSUME NEW i \in 1..Len(mailbox'), mailbox'[i].by = p
          PROVE  FALSE
      <4>1. i + 1 = 1 /\ i \in Nat
        BY <1>s, <2>4, <2>5, <3>2, Zenon DEF Sync, OneMail
      <4> QED
        BY <2>4, <4>1
    <3>3. NoMail(p)'
      BY <3>2, Zenon DEF NoMail
    <3> QED
      BY <1>s, <2>1, <2>3, <3>1, <3>3, Zenon DEF Sync
  <2>6. CASE Head(mailbox).by # p
    BY <1>s, <2>1, <2>2, <2>3, <2>6, Zenon DEF Sync
  <2> QED
    BY <2>5, <2>6, Zenon
<1>2. CASE Dispatched
  <2>1. /\ UNCHANGED <<mailbox, call>> /\ hub'.by = Nobody
        /\ done' = done \cup ({hub.by} \ {Nobody})
    BY <1>2, Zenon DEF Dispatched, AtSelect, callVars
  <2>2. NoMail(p)' = NoMail(p) /\ OneMail(p)' = OneMail(p)
    BY <2>1, Zenon DEF NoMail, OneMail
  <2> QED
    BY <1>c, <1>s, <2>1, <2>2, Zenon DEF Sync
<1>3. CASE HandleSubscribe \/ HandleUnsubscribe \/ DrainOne
  <2>1. /\ mailbox # <<>> /\ mailbox' = Tail(mailbox) /\ UNCHANGED <<hub, call, done>>
    BY <1>3, Zenon DEF HandleSubscribe, HandleUnsubscribe, DrainOne, TakeRequest, callVars
  <2> QED
    BY <1>s, <1>t, <2>1, MailKept, SyncKept, ZenonT(30) DEF Sync
<1>4. CASE RemoveClosed \/ FindOpen \/ PutEvent \/ BeginDrain \/ HubExit
  <2>1. UNCHANGED <<mailbox, call, done>>
    BY <1>4, Zenon DEF RemoveClosed, FindOpen, PutEvent, BeginDrain, HubExit, callVars
  <2>2. hub'.by = hub.by
    BY <1>4, <1>t, HubTyped, ZenonT(30) DEF RemoveClosed, FindOpen, PutEvent, BeginDrain, HubExit
  <2> QED
    BY <1>s, <1>t, <2>1, <2>2, MailKept, SyncKept, Zenon DEF Sync
<1>5. CASE Caller
  <2>1. UNCHANGED <<hub, done>>
    BY <1>5, CallerFrame, Zenon
  <2>2. ASSUME NoMail(p) => NoMail(p)', OneMail(p) => OneMail(p)',
               call'[p] = call[p] \/ call'[p] \notin {"idle", "sending", "true"}
                 \/ (call'[p] = "true" /\ p \in done)
                 \/ (call[p] = "idle" /\ call'[p] = "sending")
        PROVE  Sync(p)'
    BY <1>s, <2>1, <2>2, Zenon DEF Sync
  <2>3. CASE Emit
    <3>1. UNCHANGED call
      BY <2>3, Zenon DEF Emit, callVars
    <3>2. mailbox' = mailbox \/ Send(Emitting(emitted + 1, Nobody))
      BY <2>3, Zenon DEF Emit
    <3>3. Emitting(emitted + 1, Nobody) \in Request /\ Emitting(emitted + 1, Nobody).by # p
      BY <1>c, <1>t, EmittingFacts, Zenon
    <3>4. (NoMail(p) => NoMail(p)') /\ (OneMail(p) => OneMail(p)')
      BY <1>t, <3>2, <3>3, MailKept, Zenon
    <3> QED
      BY <2>2, <3>1, <3>4, Zenon
  <2>4. CASE HubClose
    BY <1>t, <2>2, <2>4, MailKept, Zenon DEF HubClose, hubVars
  <2>5. ASSUME NEW q \in Syncers, SyncStep(q)
        PROVE  Sync(p)'
    <3>1. CASE EmitSyncSend(q)
      <4>1. /\ call[q] = "sending" /\ call' = [call EXCEPT ![q] = "waiting"]
            /\ Send(Emitting(emitted + 1, q))
        BY <3>1, Zenon DEF EmitSyncSend, Goto
      <4>2. Emitting(emitted + 1, q) \in Request /\ Emitting(emitted + 1, q).by = q
        BY <1>t, EmittingFacts, Zenon
      <4>3. CASE q # p
        <5>1. (NoMail(p) => NoMail(p)') /\ (OneMail(p) => OneMail(p)')
          BY <1>t, <4>1, <4>2, <4>3, MailKept, Zenon
        <5>2. call'[p] = call[p]
          BY <1>c, <4>1, <4>3, Zenon
        <5> QED
          BY <2>2, <5>1, <5>2, Zenon
      <4>4. CASE q = p
        <5>1. NoMail(p) /\ p \notin done /\ hub.by # p
          BY <1>s, <4>1, <4>4, Zenon DEF Sync
        <5>2. \A i \in 1..Len(mailbox') :
                i = Len(mailbox') \/ (i \in 1..Len(mailbox) /\ mailbox'[i] = mailbox[i])
          BY <1>t, <4>1, <4>2, SendFacts, Zenon
        <5>3. OneMail(p)'
          BY <5>1, <5>2, Zenon DEF NoMail, OneMail
        <5>4. call'[p] = "waiting"
          BY <1>c, <4>1, <4>4, Zenon
        <5> QED
          BY <2>1, <5>1, <5>3, <5>4, Zenon DEF Sync
      <4> QED
        BY <4>3, <4>4, Zenon
    <3>2. CASE EmitSyncCall(q) \/ EmitSyncDone(q) \/ EmitSyncStopped(q)
      <4>1. mailbox' = mailbox
        BY <3>2, Zenon DEF EmitSyncCall, EmitSyncDone, EmitSyncStopped, hubVars
      <4>2. \/ call'[p] = call[p]
            \/ call'[p] = "false" \/ (call'[p] = "true" /\ p \in done)
            \/ (call[p] = "idle" /\ call'[p] = "sending")
        BY <1>c, <3>2, Zenon DEF EmitSyncCall, EmitSyncDone, EmitSyncStopped, Goto
      <4> QED
        BY <1>t, <2>2, <4>1, <4>2, MailKept, Zenon
    <3> QED
      BY <2>5, <3>1, <3>2, Zenon DEF SyncStep
  <2>6. ASSUME NEW s \in Subscribers, StreamStep(s)
        PROVE  Sync(p)'
    <3>1. call'[p] = call[p]
      BY <1>c, <2>6, Zenon DEF StreamStep, SubscribeCall, SubscribeSend, SubscribeReply, SubscribeStopped,
         Receive, StreamClose, Unsubscribe, Goto, callVars
    <3>2. mailbox' = mailbox \/ Send(Subscribing(s)) \/ Send(Unsubscribing(s))
      BY <2>6, Zenon DEF StreamStep, SubscribeCall, SubscribeSend, SubscribeReply, SubscribeStopped,
         Receive, StreamClose, Unsubscribe, hubVars
    <3>3. /\ Subscribing(s) \in Request /\ Unsubscribing(s) \in Request
          /\ Subscribing(s).by # p /\ Unsubscribing(s).by # p
      BY <1>c, RequestFacts, Zenon DEF Subscribing, Unsubscribing
    <3>4. (NoMail(p) => NoMail(p)') /\ (OneMail(p) => OneMail(p)')
      BY <1>t, <3>2, <3>3, MailKept, Zenon
    <3> QED
      BY <2>2, <3>1, <3>4, Zenon
  <2> QED
    BY <1>5, <2>3, <2>4, <2>5, <2>6, Zenon DEF Caller
<1> QED
  BY <1>1, <1>2, <1>3, <1>4, <1>5, NextSplit, Zenon DEF HubStep
-----------------------------------------------------------------------------
(* Closed streams. *)

LEMMA ClosedStep ==
  ASSUME IInv, Next
  PROVE  ClosedInv'
<1> SUFFICES ASSUME NEW s \in Subscribers, IsClosed(s)' PROVE Released(s)'
  BY Zenon DEF ClosedInv
<1>t. TypeOK
  BY Zenon DEF IInv
<1>h. hub.at \in {"select", "check", "put", "drain", "exited"} /\ hub.i \in Nat \ {0}
  BY <1>t, HubTyped, Zenon
<1>y. /\ subs \in Seq(Subscribers) /\ Len(subs) \in Nat /\ latest \in Nat
      /\ closed \in [Subscribers -> Nat] /\ put \in [Subscribers -> Seq(Events)]
  BY <1>t DEF TypeOK
<1>1. CASE ~IsClosed(s)
  <2>1. closed'[s] = latest /\ UNCHANGED <<hub, subs, latest, put>>
    BY <1>1, <1>t, CloseOnce, CallerFrame, Zenon
  <2>2. \A k \in 1..Len(put[s]) : put[s][k] <= latest
    BY Zenon DEF IInv, PutInv
  <2> QED
    BY <1>y, <2>1, <2>2 DEF Released
<1>2. CASE IsClosed(s)
  <2>1. Released(s) /\ closed'[s] = closed[s] /\ closed[s] \in Nat
    BY <1>2, <1>t, <1>y, CloseOnce, Zenon DEF IInv, ClosedInv
  <2>2. CASE Dispatch
    <3>1. /\ mailbox # <<>> /\ mailbox' = Tail(mailbox) /\ Head(mailbox).kind = "emit"
          /\ hub.at = "select" /\ hub'.at = "check" /\ hub'.i = 1
          /\ latest' = Head(mailbox).event /\ UNCHANGED <<put, subs>>
      BY <2>2, Zenon DEF Dispatch, TakeRequest, streamVars
    <3>2. latest' = latest + 1
      BY <1>t, <3>1, TakeFacts, HeadIsNext, Zenon DEF IInv, Serving
    <3> QED
      BY <1>y, <2>1, <3>1, <3>2, SMTT(30) DEF Released
  <2>3. CASE RemoveClosed
    <3>1. /\ hub.at = "check" /\ hub.i \in 1..Len(subs) /\ subs' = RemoveAt(subs, hub.i)
          /\ UNCHANGED <<hub, put, latest>>
      BY <1>h, <1>y, <2>3 DEF RemoveClosed, streamVars
    <3>2. \A j \in 1..Len(subs') : j < hub.i => j \in 1..Len(subs) /\ subs'[j] = subs[j]
      BY <1>t, <3>1, SubsRemoved, ZenonT(30)
    <3> QED
      BY <2>1, <3>1, <3>2, ZenonT(30) DEF Released, Busy
  <2>4. CASE FindOpen
    <3>1. /\ hub.at = "check" /\ ~IsClosed(subs[hub.i]) /\ UNCHANGED <<subs, put, latest>>
          /\ hub' = [hub EXCEPT !.at = "put"]
      BY <2>4, Zenon DEF FindOpen, streamVars
    <3>2. hub'.at = "put" /\ hub'.i = hub.i
      BY <1>t, <3>1, HubTyped, Zenon
    <3>3. subs[hub.i] # s
      BY <1>2, <3>1, Zenon
    <3> QED
      BY <2>1, <3>1, <3>2, <3>3, Zenon DEF Released, Busy
  <2>5. CASE PutEvent
    <3>1. hub.at = "put" /\ hub.i \in 1..Len(subs) /\ UNCHANGED <<subs, latest>>
      BY <2>5, PutTarget, PutEffect, Zenon DEF PutEvent
    <3>2. hub'.at = "check" /\ hub'.i = hub.i + 1
      BY <1>t, <2>5, HubTyped, Zenon DEF PutEvent
    <3>3. CASE subs[hub.i] = s
      <4>1. closed[s] = latest
        BY <2>1, <3>1, <3>3, Zenon DEF Released
      <4>2. \A k \in 1..Len(put'[s]) : put'[s][k] <= latest
        BY <3>1, PutStep, Zenon DEF PutInv
      <4> QED
        BY <1>y, <2>1, <3>1, <3>2, <4>1, <4>2, SMTT(30) DEF Released
    <3>4. CASE subs[hub.i] # s
      <4>1. put'[s] = put[s]
        BY <2>5, <3>4, PutEffect, ZenonT(30)
      <4>2. \A j \in 1..Len(subs) : j < hub'.i => j < hub.i \/ j = hub.i
        BY <1>h, <1>y, <3>2
      <4> QED
        BY <2>1, <3>1, <3>2, <3>4, <4>1, <4>2, Zenon DEF Released, Busy
    <3> QED
      BY <3>3, <3>4, Zenon
  <2>6. CASE Dispatched
    <3>1. /\ hub.at = "check" /\ hub.i > Len(subs) /\ hub'.at = "select"
          /\ UNCHANGED <<subs, put, latest>>
      BY <2>6, Zenon DEF Dispatched, AtSelect, streamVars
    <3>2. \A j \in 1..Len(subs) : j < hub.i
      BY <1>h, <1>y, <3>1
    <3> QED
      BY <2>1, <3>1, <3>2, Zenon DEF Released, Busy
  <2>7. CASE HandleSubscribe
    <3> DEFINE t == Head(mailbox).by
    <3>1. /\ mailbox # <<>> /\ mailbox' = Tail(mailbox) /\ Head(mailbox).kind = "subscribe"
          /\ subs' = Append(subs, t) /\ put' = [put EXCEPT ![t] = retained]
          /\ UNCHANGED <<latest, hub>> /\ hub.at = "select"
      BY <2>7, Zenon DEF HandleSubscribe, TakeRequest
    <3>2. /\ t \in Subscribers /\ 1 \in 1..Len(mailbox) /\ mailbox[1] = Subscribing(t)
      BY <1>t, <3>1, TakeFacts, RequestFacts
    <3> HIDE DEF t
    <3>3. ~IsClosed(t)
      BY <3>2, Zenon DEF IInv, SubsInv, OneRequest, Unanswered
    <3>4. s # t
      BY <1>2, <3>3, Zenon
    <3>5. put'[s] = put[s]
      BY <1>y, <3>1, <3>2, <3>4, Zenon
    <3>6. /\ Len(subs') = Len(subs) + 1 /\ Len(subs) \in Nat /\ subs'[Len(subs) + 1] = t
          /\ \A i \in 1..Len(subs) : subs'[i] = subs[i]
      BY <1>y, <3>1, <3>2, AppendFacts
    <3>7. \A j \in 1..Len(subs') : j \in 1..Len(subs) \/ j = Len(subs) + 1
      BY <3>6
    <3> QED
      BY <2>1, <3>1, <3>4, <3>5, <3>6, <3>7, Zenon DEF Released, Busy
  <2>8. CASE HandleUnsubscribe
    <3>1. /\ hub.at = "select" /\ UNCHANGED <<hub, put, latest>>
          /\ subs' = subs \/ \E i \in 1..Len(subs) : subs' = RemoveAt(subs, i)
      BY <2>8, Zenon DEF HandleUnsubscribe, TakeRequest, streamVars
    <3>2. \A j \in 1..Len(subs') : \E k \in 1..Len(subs) : subs'[j] = subs[k]
      <4>1. ASSUME NEW i \in 1..Len(subs), subs' = RemoveAt(subs, i), NEW j \in 1..Len(subs')
            PROVE  \E k \in 1..Len(subs) : subs'[j] = subs[k]
        <5>1. j < i \/ j >= i
          BY <1>t, <4>1, SubsRemoved
        <5> QED
          BY <1>t, <4>1, <5>1, SubsRemoved, Zenon
      <4> QED
        BY <3>1, <4>1, Zenon
    <3> QED
      BY <2>1, <3>1, <3>2, Zenon DEF Released, Busy
  <2>9. CASE BeginDrain \/ DrainOne \/ HubExit
    <3>1. UNCHANGED <<put, latest>> /\ hub'.at \in {"drain", "exited"}
      BY <1>t, <2>9, HubTyped, Zenon DEF BeginDrain, DrainOne, HubExit, streamVars
    <3> QED
      BY <2>1, <3>1, Zenon DEF Released, Busy
  <2>10. CASE Caller
    BY <2>1, <2>10, CallerFrame, Zenon DEF Released, Busy
  <2> QED
    BY <2>2, <2>3, <2>4, <2>5, <2>6, <2>7, <2>8, <2>9, <2>10, NextSplit, Zenon DEF HubStep
<1> QED
  BY <1>1, <1>2, Zenon
-----------------------------------------------------------------------------
(* Types. *)

LEMMA MailTyped ==
  ASSUME TypeOK, Next
  PROVE  mailbox' \in Seq(Request) /\ Len(mailbox') <= MailboxCap
<1>1. CASE UNCHANGED mailbox
  BY <1>1, Zenon DEF TypeOK
<1>2. CASE mailbox # <<>> /\ mailbox' = Tail(mailbox)
  BY <1>2, TakeFacts, Zenon
<1>3. ASSUME NEW req \in Request, Send(req)
      PROVE  mailbox' \in Seq(Request) /\ Len(mailbox') <= MailboxCap
  BY <1>3, SendFacts, Zenon
<1>4. CASE HubStep
  <2>1. UNCHANGED mailbox \/ (mailbox # <<>> /\ mailbox' = Tail(mailbox))
    BY <1>4, Zenon DEF HubStep, Dispatch, RemoveClosed, FindOpen, PutEvent, Dispatched, HandleSubscribe,
       HandleUnsubscribe, BeginDrain, DrainOne, HubExit, TakeRequest
  <2> QED
    BY <1>1, <1>2, <2>1, Zenon
<1>5. CASE Emit
  <2>1. UNCHANGED mailbox \/ Send(Emitting(emitted + 1, Nobody))
    BY <1>5, Zenon DEF Emit
  <2>2. Emitting(emitted + 1, Nobody) \in Request
    BY EmittingFacts, Zenon
  <2> QED
    BY <1>1, <1>3, <2>1, <2>2, Zenon
<1>6. CASE HubClose
  BY <1>1, <1>6, Zenon DEF HubClose, hubVars
<1>7. ASSUME NEW p \in Syncers, SyncStep(p)
      PROVE  mailbox' \in Seq(Request) /\ Len(mailbox') <= MailboxCap
  <2>1. UNCHANGED mailbox \/ Send(Emitting(emitted + 1, p))
    BY <1>7, Zenon DEF SyncStep, EmitSyncCall, EmitSyncSend, EmitSyncDone, EmitSyncStopped, hubVars
  <2>2. Emitting(emitted + 1, p) \in Request
    BY EmittingFacts, Zenon
  <2> QED
    BY <1>1, <1>3, <2>1, <2>2, Zenon
<1>8. ASSUME NEW s \in Subscribers, StreamStep(s)
      PROVE  mailbox' \in Seq(Request) /\ Len(mailbox') <= MailboxCap
  <2>1. UNCHANGED mailbox \/ Send(Subscribing(s)) \/ Send(Unsubscribing(s))
    BY <1>8, ZenonT(30) DEF StreamStep, SubscribeCall, SubscribeSend, SubscribeReply, SubscribeStopped,
       Receive, StreamClose, Unsubscribe, hubVars
  <2>2. Subscribing(s) \in Request /\ Unsubscribing(s) \in Request
    BY RequestFacts, Zenon
  <2> QED
    BY <1>1, <1>3, <2>1, <2>2, Zenon
<1> QED
  BY <1>4, <1>5, <1>6, <1>7, <1>8, Zenon DEF Next

LEMMA HeadTyped ==
  ASSUME TypeOK, mailbox # <<>>
  PROVE  /\ Head(mailbox) \in Request
         /\ Head(mailbox).kind = "emit" =>
              Head(mailbox).event \in Events /\ Head(mailbox).by \in Syncers \cup {Nobody}
         /\ Head(mailbox).kind # "emit" => Head(mailbox).by \in Subscribers
<1>1. Head(mailbox) \in Request
  BY DEF TypeOK
<1> QED
  BY <1>1, RequestFacts, Zenon

\* retained, hub, subs, latest and done are the goroutine's.
LEMMA HubStateTyped ==
  ASSUME TypeOK, Next
  PROVE  /\ retained' \in Seq(Events) /\ Len(retained') <= Replay
         /\ subs' \in Seq(Subscribers)
         /\ hub' \in [at : {"select", "check", "put", "drain", "exited"},
                      event : Events \cup {None}, by : Syncers \cup {Nobody}, i : Nat \ {0}]
         /\ done' \in SUBSET Syncers /\ latest' \in Nat
<1>y. /\ retained \in Seq(Events) /\ Len(retained) <= Replay /\ Replay \in Nat
      /\ subs \in Seq(Subscribers) /\ Len(subs) \in Nat
      /\ done \in SUBSET Syncers /\ latest \in Nat
  BY HubAssumption DEF TypeOK
<1>h. hub \in [at : {"select", "check", "put", "drain", "exited"},
              event : Events \cup {None}, by : Syncers \cup {Nobody}, i : Nat \ {0}]
  BY Zenon DEF TypeOK
<1>1. CASE Dispatch
  <2> DEFINE req == Head(mailbox)
  <2>1. /\ mailbox # <<>> /\ req.kind = "emit" /\ retained' = Retain(req.event)
        /\ latest' = req.event /\ UNCHANGED <<subs, done>>
        /\ hub' = [at |-> "check", event |-> req.event, by |-> req.by, i |-> 1]
    BY <1>1, Zenon DEF Dispatch, TakeRequest
  <2>2. req.event \in Events /\ req.by \in Syncers \cup {Nobody}
    BY <2>1, HeadTyped, Zenon
  <2> HIDE DEF req
  <2>3. CASE Replay = 0
    BY <1>y, <2>1, <2>2, <2>3, SMTT(30) DEF Retain, Events
  <2>4. CASE Replay # 0 /\ Len(retained) = Replay
    <3>1. retained # <<>>
      BY <1>y, <2>4
    <3>2. Tail(retained) \in Seq(Events) /\ Len(Tail(retained)) = Len(retained) - 1
      BY <1>y, <3>1, TailFacts, Zenon
    <3>3. retained' = Append(Tail(retained), req.event)
      BY <2>1, <2>4, Zenon DEF Retain
    <3>4. retained' \in Seq(Events) /\ Len(retained') = Replay
      BY <1>y, <2>2, <2>4, <3>2, <3>3, AppendFacts
    <3> QED
      BY <1>y, <2>1, <2>2, <3>4, SMTT(30) DEF Events
  <2>5. CASE Replay # 0 /\ Len(retained) # Replay
    <3>1. retained' = Append(retained, req.event)
      BY <2>1, <2>5, Zenon DEF Retain
    <3>2. retained' \in Seq(Events) /\ Len(retained') = Len(retained) + 1 /\ Len(retained) \in Nat
      BY <1>y, <2>2, <3>1, AppendFacts, Zenon
    <3> QED
      BY <1>y, <2>1, <2>2, <2>5, <3>2, SMTT(30) DEF Events
  <2> QED
    BY <2>3, <2>4, <2>5, Zenon
<1>2. CASE RemoveClosed
  <2>1. hub.i \in 1..Len(subs) /\ subs' = RemoveAt(subs, hub.i)
    BY <1>2, <1>h, <1>y DEF RemoveClosed
  <2>2. subs' \in Seq(Subscribers)
    BY <2>1, SubsRemoved, Zenon
  <2> QED
    BY <1>2, <1>h, <1>y, <2>2, Zenon DEF RemoveClosed
<1>3. CASE FindOpen \/ PutEvent \/ BeginDrain \/ HubExit
  <2>1. UNCHANGED <<retained, subs, done, latest>>
    BY <1>3, Zenon DEF FindOpen, PutEvent, BeginDrain, HubExit
  <2>2. hub' \in [at : {"select", "check", "put", "drain", "exited"},
                 event : Events \cup {None}, by : Syncers \cup {Nobody}, i : Nat \ {0}]
    <3>1. /\ hub.event \in Events \cup {None} /\ hub.by \in Syncers \cup {Nobody}
          /\ hub.i \in Nat \ {0} /\ hub.i + 1 \in Nat \ {0}
      BY <1>h
    <3>2. CASE PutEvent
      BY <1>h, <3>1, <3>2, ZenonT(30) DEF PutEvent
    <3>3. CASE FindOpen
      BY <1>h, <3>3, Zenon DEF FindOpen
    <3>4. CASE BeginDrain
      BY <1>h, <3>4, Zenon DEF BeginDrain
    <3>5. CASE HubExit
      BY <1>h, <3>5, Zenon DEF HubExit
    <3> QED
      BY <1>3, <3>2, <3>3, <3>4, <3>5, Zenon
  <2> QED
    BY <1>y, <2>1, <2>2, Zenon
<1>4. CASE Dispatched
  <2>1. hub' = AtSelect /\ UNCHANGED <<retained, subs, latest>> /\ done' = done \cup ({hub.by} \ {Nobody})
    BY <1>4, Zenon DEF Dispatched
  <2>2. hub.by \in Syncers \cup {Nobody}
    BY <1>h, Zenon
  <2>3. done' \in SUBSET Syncers
    BY <1>y, <2>1, <2>2, Zenon
  <2>4. hub' \in [at : {"select", "check", "put", "drain", "exited"},
                 event : Events \cup {None}, by : Syncers \cup {Nobody}, i : Nat \ {0}]
    BY <2>1 DEF AtSelect
  <2> QED
    BY <1>y, <2>1, <2>3, <2>4, Zenon
<1>5. CASE HandleSubscribe
  <2>1. /\ mailbox # <<>> /\ Head(mailbox).kind = "subscribe"
        /\ subs' = Append(subs, Head(mailbox).by) /\ UNCHANGED <<retained, hub, latest, done>>
    BY <1>5, Zenon DEF HandleSubscribe, TakeRequest
  <2>2. Head(mailbox).by \in Subscribers
    BY <2>1, HeadTyped, Zenon
  <2>3. subs' \in Seq(Subscribers)
    BY <1>y, <2>1, <2>2, AppendFacts, Zenon
  <2> QED
    BY <1>h, <1>y, <2>1, <2>3, Zenon
<1>6. CASE HandleUnsubscribe
  <2>1. /\ UNCHANGED <<retained, hub, latest, done>>
        /\ subs' = subs \/ \E i \in 1..Len(subs) : subs' = RemoveAt(subs, i)
    BY <1>6, Zenon DEF HandleUnsubscribe
  <2>2. ASSUME NEW i \in 1..Len(subs), subs' = RemoveAt(subs, i)
        PROVE  subs' \in Seq(Subscribers)
    BY <2>2, SubsRemoved, Zenon
  <2>3. subs' \in Seq(Subscribers)
    BY <1>y, <2>1, <2>2, Zenon
  <2> QED
    BY <1>h, <1>y, <2>1, <2>3, Zenon
<1>7. CASE DrainOne
  BY <1>7, <1>h, <1>y, Zenon DEF DrainOne
<1>8. CASE Caller
  BY <1>8, <1>h, <1>y, CallerFrame, Zenon
<1> QED
  BY <1>1, <1>2, <1>3, <1>4, <1>5, <1>6, <1>7, <1>8, NextSplit, Zenon DEF HubStep

\* put, fill, missed and opened: the channels and their history.
LEMMA ChannelsTyped ==
  ASSUME IInv, Next
  PROVE  /\ put' \in [Subscribers -> Seq(Events)] /\ fill' \in [Subscribers -> 0..Queue]
         /\ missed' \in [Subscribers -> SUBSET Events] /\ opened' \in [Subscribers -> Nat]
<1>y. /\ TypeOK /\ put \in [Subscribers -> Seq(Events)] /\ fill \in [Subscribers -> 0..Queue]
      /\ missed \in [Subscribers -> SUBSET Events] /\ opened \in [Subscribers -> Nat]
      /\ retained \in Seq(Events) /\ Len(retained) \in Nat /\ Len(retained) <= Queue
      /\ Queue \in Nat \ {0} /\ latest \in Nat
  <2>1. TypeOK
    BY Zenon DEF IInv
  <2>2. /\ put \in [Subscribers -> Seq(Events)] /\ fill \in [Subscribers -> 0..Queue]
        /\ missed \in [Subscribers -> SUBSET Events] /\ opened \in [Subscribers -> Nat]
    BY <2>1, Zenon DEF TypeOK
  <2>3. retained \in Seq(Events) /\ latest \in Nat
    BY <2>1, Zenon DEF TypeOK
  <2>4. Len(retained) <= Queue
    BY HubAssumption, <2>1 DEF TypeOK
  <2> QED
    BY <2>1, <2>2, <2>3, <2>4, HubAssumption
<1>1. CASE UNCHANGED streamVars
  BY <1>1, <1>y, Zenon DEF streamVars
<1>2. CASE PutEvent
  <2> DEFINE s == subs[hub.i]
  <2>1. s \in Subscribers /\ hub.event \in Events
    BY <1>2, PutTarget, Zenon DEF PutEvent
  <2>2. /\ opened' = opened
        /\ \/ /\ put' = [put EXCEPT ![s] = Append(put[s], hub.event)]
              /\ fill' = [fill EXCEPT ![s] = fill[s] + 1] /\ fill[s] < Queue /\ missed' = missed
           \/ /\ missed' = [missed EXCEPT ![s] = missed[s] \cup {hub.event}]
              /\ UNCHANGED <<put, fill>>
    BY <1>2, Zenon DEF PutEvent
  <2> HIDE DEF s
  <2>3. Append(put[s], hub.event) \in Seq(Events)
    BY <1>y, <2>1, AppendFacts, Zenon
  <2>4. missed[s] \cup {hub.event} \in SUBSET Events
    BY <1>y, <2>1, Zenon
  <2>5. fill[s] < Queue => fill[s] + 1 \in 0..Queue
    BY <1>y, <2>1
  <2> QED
    BY <1>y, <2>1, <2>2, <2>3, <2>4, <2>5, ZenonT(30)
<1>3. CASE HandleSubscribe
  <2> DEFINE s == Head(mailbox).by
  <2>1. /\ mailbox # <<>> /\ Head(mailbox).kind = "subscribe" /\ missed' = missed
        /\ put' = [put EXCEPT ![s] = retained] /\ fill' = [fill EXCEPT ![s] = Len(retained)]
        /\ opened' = [opened EXCEPT ![s] = latest]
    BY <1>3, Zenon DEF HandleSubscribe, TakeRequest
  <2>2. s \in Subscribers
    BY <1>y, <2>1, HeadTyped, Zenon
  <2> HIDE DEF s
  <2> QED
    BY <1>y, <2>1, <2>2
<1>4. ASSUME NEW s \in Subscribers, Receive(s)
      PROVE  fill' \in [Subscribers -> 0..Queue] /\ UNCHANGED <<put, missed, opened>>
  <2>1. fill[s] - 1 \in 0..Queue
    BY <1>4, <1>y DEF Receive
  <2> QED
    BY <1>4, <1>y, <2>1, Zenon DEF Receive
<1>5. CASE HubStep
  BY <1>1, <1>2, <1>3, <1>5, Zenon DEF HubStep, Dispatch, RemoveClosed, FindOpen, Dispatched,
     HandleUnsubscribe, BeginDrain, DrainOne, HubExit
<1>6. CASE Caller
  <2>1. UNCHANGED streamVars \/ \E s \in Subscribers : Receive(s)
    BY <1>6, ZenonT(30) DEF Caller, Emit, HubClose, SyncStep, StreamStep, EmitSyncCall, EmitSyncSend,
       EmitSyncDone, EmitSyncStopped, SubscribeCall, SubscribeSend, SubscribeReply,
       SubscribeStopped, StreamClose, Unsubscribe
  <2> QED
    BY <1>1, <1>4, <1>y, <2>1, Zenon
<1> QED
  BY <1>5, <1>6, NextSplit, Zenon

LEMMA CallsTyped ==
  ASSUME TypeOK, Next
  PROVE  /\ reply' \in [Subscribers -> {"none", "stream", "nil"}]
         /\ call' \in [Parties -> {"idle", "sending", "waiting", "open", "closing", "closed",
                                  "nil", "true", "false"}]
         /\ closed' \in [Subscribers -> Nat] /\ stopped' \in BOOLEAN /\ emitted' \in Nat
<1>y. /\ reply \in [Subscribers -> {"none", "stream", "nil"}]
      /\ call \in [Parties -> {"idle", "sending", "waiting", "open", "closing", "closed",
                              "nil", "true", "false"}]
      /\ closed \in [Subscribers -> Nat] /\ emitted \in Nat /\ latest \in Nat
      /\ Subscribers \subseteq Parties /\ Syncers \subseteq Parties
  BY Zenon DEF TypeOK, Parties
<1>b. stopped \in BOOLEAN
  BY Zenon DEF TypeOK
<1>1. stopped' \in BOOLEAN
  BY <1>b, Zenon DEF Next, HubStep, Dispatch, RemoveClosed, FindOpen, PutEvent, Dispatched,
     HandleSubscribe, HandleUnsubscribe, BeginDrain, DrainOne, HubExit, Emit, HubClose, SyncStep,
     StreamStep, EmitSyncCall, EmitSyncSend, EmitSyncDone, EmitSyncStopped, SubscribeCall,
     SubscribeSend, SubscribeReply, SubscribeStopped, Receive, StreamClose, Unsubscribe, callVars
<1>2. emitted' \in Nat
  <2>1. emitted' = emitted \/ emitted' = emitted + 1
    BY Zenon DEF Next, HubStep, Dispatch, RemoveClosed, FindOpen, PutEvent, Dispatched,
       HandleSubscribe, HandleUnsubscribe, BeginDrain, DrainOne, HubExit, Emit, HubClose, SyncStep,
       StreamStep, EmitSyncCall, EmitSyncSend, EmitSyncDone, EmitSyncStopped, SubscribeCall,
       SubscribeSend, SubscribeReply, SubscribeStopped, Receive, StreamClose, Unsubscribe
  <2> QED
    BY <1>y, <2>1
<1>3. reply' \in [Subscribers -> {"none", "stream", "nil"}]
  <2>1. CASE HandleSubscribe \/ DrainOne
    BY <1>y, <2>1, Zenon DEF HandleSubscribe, DrainOne
  <2>2. CASE UNCHANGED reply
    BY <1>y, <2>2, Zenon
  <2>3. CASE HubStep
    BY <2>1, <2>2, <2>3, Zenon DEF HubStep, Dispatch, RemoveClosed, FindOpen, PutEvent, Dispatched,
       HandleUnsubscribe, BeginDrain, HubExit
  <2> QED
    BY <2>2, <2>3, CallerFrame, NextSplit, Zenon
<1>4. CASE HubStep
  <2>1. UNCHANGED <<call, closed>>
    BY <1>4, Zenon DEF HubStep, Dispatch, RemoveClosed, FindOpen, PutEvent, Dispatched, HandleSubscribe,
       HandleUnsubscribe, BeginDrain, DrainOne, HubExit, callVars
  <2> QED
    BY <1>1, <1>2, <1>3, <1>y, <2>1, Zenon
<1>5. CASE Emit \/ HubClose
  <2>1. UNCHANGED <<call, closed>>
    BY <1>5, Zenon DEF Emit, HubClose, callVars
  <2> QED
    BY <1>1, <1>2, <1>3, <1>y, <2>1, Zenon
<1>6. ASSUME NEW p \in Syncers, SyncStep(p)
      PROVE  /\ call' \in [Parties -> {"idle", "sending", "waiting", "open", "closing", "closed",
                                      "nil", "true", "false"}]
             /\ closed' \in [Subscribers -> Nat]
  BY <1>6, <1>y, Zenon DEF SyncStep, EmitSyncCall, EmitSyncSend, EmitSyncDone, EmitSyncStopped, Goto
<1>7. ASSUME NEW s \in Subscribers, StreamStep(s)
      PROVE  /\ call' \in [Parties -> {"idle", "sending", "waiting", "open", "closing", "closed",
                                      "nil", "true", "false"}]
             /\ closed' \in [Subscribers -> Nat]
  <2>1. CASE StreamClose(s)
    BY <1>y, <2>1, Zenon DEF StreamClose, Goto
  <2>2. CASE Receive(s)
    BY <1>y, <2>2, Zenon DEF Receive, callVars
  <2>3. CASE SubscribeCall(s) \/ SubscribeSend(s) \/ SubscribeReply(s) \/ SubscribeStopped(s) \/ Unsubscribe(s)
    BY <1>y, <2>3, Zenon DEF SubscribeCall, SubscribeSend, SubscribeReply, SubscribeStopped, Unsubscribe, Goto
  <2> QED
    BY <1>7, <2>1, <2>2, <2>3, Zenon DEF StreamStep
<1> QED
  BY <1>1, <1>2, <1>3, <1>4, <1>5, <1>6, <1>7, Zenon DEF Next

LEMMA TypeStep ==
  ASSUME IInv, Next
  PROVE  TypeOK'
<1>1. TypeOK
  BY Zenon DEF IInv
<1> QED
  BY <1>1, MailTyped, HubStateTyped, ChannelsTyped, CallsTyped, ZenonT(30) DEF TypeOK
-----------------------------------------------------------------------------
(* The theorems. *)

LEMMA InitInv == Init => IInv
<1> SUFFICES ASSUME Init PROVE IInv
  BY Zenon
<1>1. TypeOK
  <2>1. /\ mailbox \in Seq(Request) /\ Len(mailbox) <= MailboxCap
        /\ retained \in Seq(Events) /\ Len(retained) <= Replay /\ subs \in Seq(Subscribers)
        /\ latest \in Nat /\ emitted \in Nat /\ done \in SUBSET Syncers
    BY HubAssumption DEF Init
  <2>2. hub \in [at : {"select", "check", "put", "drain", "exited"},
                event : Events \cup {None}, by : Syncers \cup {Nobody}, i : Nat \ {0}]
    BY SMTT(30) DEF Init, AtSelect
  <2>3. /\ put \in [Subscribers -> Seq(Events)] /\ fill \in [Subscribers -> 0..Queue]
        /\ missed \in [Subscribers -> SUBSET Events] /\ opened \in [Subscribers -> Nat]
        /\ closed \in [Subscribers -> Nat] /\ reply \in [Subscribers -> {"none", "stream", "nil"}]
    BY HubAssumption DEF Init
  <2>4. call \in [Parties -> {"idle", "sending", "waiting", "open", "closing", "closed",
                             "nil", "true", "false"}] /\ stopped \in BOOLEAN
    BY ZenonT(30) DEF Init
  <2> QED
    BY <2>1, <2>2, <2>3, <2>4, Zenon DEF TypeOK
<1>2. MailInv /\ RingInv
  BY DEF Init, MailInv, RingInv
<1>3. SubsInv
  BY DEF Init, SubsInv, Distinct, OneRequest, Unanswered, IsClosed, Parties
<1>4. WalkInv
  BY Zenon DEF Init, WalkInv, AtSelect, Busy
<1>5. PutInv /\ HadInv
  BY DEF Init, PutInv, DeliveredInOrder, HadInv
<1>6. SyncInv
  <2>1. /\ mailbox = <<>> /\ done = {} /\ hub.by = Nobody
        /\ \A p \in Syncers : call[p] = "idle" /\ p # Nobody
    BY HubAssumption, Zenon DEF Init, AtSelect, Parties
  <2>2. \A p \in Syncers : NoMail(p) /\ OneMail(p)
    <3>1. 1..Len(mailbox) = {}
      BY <2>1, SMTT(30)
    <3> QED
      BY <3>1, Zenon DEF NoMail, OneMail
  <2> QED
    BY <2>1, <2>2, Zenon DEF SyncInv, Sync
<1>7. ClosedInv
  BY Zenon DEF Init, ClosedInv, IsClosed, Parties
<1> QED
  BY <1>1, <1>2, <1>3, <1>4, <1>5, <1>6, <1>7, Zenon DEF IInv

LEMMA StutterInv == IInv /\ UNCHANGED vars => IInv'
<1> SUFFICES ASSUME IInv, UNCHANGED vars PROVE IInv'
  BY Zenon
<1>1. UNCHANGED <<mailbox, retained, subs, hub, latest, put, fill, missed, opened, stopped, call,
                 closed, reply, done, emitted>>
  BY Zenon DEF vars, hubVars, streamVars, callVars
<1>2. TypeOK'
  BY <1>1, Zenon DEF IInv, TypeOK
<1>3. MailInv'
  BY <1>1, Zenon DEF IInv, MailInv, Serving
<1>4. RingInv' /\ Distinct'
  BY <1>1, Zenon DEF IInv, RingInv, SubsInv, Distinct
<1>5. OneRequest' /\ Unanswered'
  <2>1. OneRequest'
    BY <1>1, SMTT(30) DEF IInv, SubsInv, OneRequest
  <2> QED
    BY <1>1, <2>1, Zenon DEF IInv, SubsInv, Unanswered, IsClosed
<1>6. WalkInv' /\ PutInv'
  BY <1>1, Zenon DEF IInv, WalkInv, PutInv, DeliveredInOrder, Busy
<1>7. HadInv'
  <2>1. \A s \in Subscribers : \A e \in 1..latest : (Had(s, e)' <=> Had(s, e)) /\ (IsClosed(s)' <=> IsClosed(s))
    BY <1>1, Zenon DEF Had, IsClosed
  <2>2. (Busy' <=> Busy) /\ (Serving' <=> Serving)
    BY <1>1, Zenon DEF Busy, Serving
  <2> QED
    BY <1>1, <2>1, <2>2, Zenon DEF IInv, HadInv
<1>8. SyncInv'
  <2>1. \A p \in Syncers : (NoMail(p)' <=> NoMail(p)) /\ (OneMail(p)' <=> OneMail(p))
    BY <1>1, Zenon DEF NoMail, OneMail
  <2> QED
    BY <1>1, <2>1, Zenon DEF IInv, SyncInv, Sync
<1>9. ClosedInv'
  <2>1. \A s \in Subscribers : (IsClosed(s)' <=> IsClosed(s)) /\ (Released(s) => Released(s)')
    BY <1>1, Zenon DEF Released, IsClosed, Busy
  <2> QED
    BY <2>1, Zenon DEF IInv, ClosedInv
<1> QED
  BY <1>2, <1>3, <1>4, <1>5, <1>6, <1>7, <1>8, <1>9, Zenon DEF IInv, SubsInv

\* The hub and its callers keep the inductive invariant, whatever the number of
\* subscribers and emitters, the capacities and the length of the history.
THEOREM HubInvariant == Spec => []IInv
<1>1. IInv /\ [Next]_vars => IInv'
  <2> SUFFICES ASSUME IInv, [Next]_vars PROVE IInv'
    BY Zenon
  <2>1. CASE Next
    BY <2>1, TypeStep, MailStep, RingStep, SubsStep, WalkStep, PutStep, HadStep, SyncsStep, ClosedStep, Zenon
       DEF IInv
  <2>2. CASE UNCHANGED vars
    BY <2>2, StutterInv, Zenon
  <2> QED
    BY <2>1, <2>2, Zenon
<1> QED
  BY <1>1, InitInv, PTL DEF Spec

\* The mailbox, the history and the channels stay within their capacities.
THEOREM HubTypes == Spec => []TypeOK
<1>1. IInv => TypeOK
  BY Zenon DEF IInv
<1> QED
  BY <1>1, HubInvariant, PTL

\* dispatch and subscribe together: replay and live events reach a stream once
\* each and in order.
THEOREM InOrder == Spec => []DeliveredInOrder
<1>1. IInv => DeliveredInOrder
  BY Zenon DEF IInv, PutInv
<1> QED
  BY <1>1, HubInvariant, PTL

\* dispatch: an open stream misses only what its own full channel refused.
THEOREM NoSilentLoss == Spec => []NothingLostSilently
<1>1. IInv => NothingLostSilently
  <2> SUFFICES ASSUME IInv, hub.at = "select", NEW i \in 1..Len(subs), ~IsClosed(subs[i]),
                      NEW e \in 1..latest, e + Replay > opened[subs[i]]
               PROVE  Had(subs[i], e)
    BY Zenon DEF NothingLostSilently, Had
  <2>1. subs[i] \in Subscribers
    BY SMTT(30) DEF IInv, TypeOK
  <2> QED
    BY <2>1, Zenon DEF IInv, HadInv, Serving, Busy
<1> QED
  BY <1>1, HubInvariant, PTL

\* EmitSync: true is returned only when the event is through.
THEOREM SyncTheorem == Spec => []SyncMeansProcessed
<1>1. IInv => SyncMeansProcessed
  BY Zenon DEF IInv, SyncInv, Sync, NoMail, SyncMeansProcessed
<1> QED
  BY <1>1, HubInvariant, PTL

\* unsubscribe: a closed stream is given nothing dispatched later, and is gone
\* after the next event, even when its request was dropped.
THEOREM ClosedTheorem == Spec => []ClosedIsReleased
<1>1. IInv => ClosedIsReleased
  BY Zenon DEF IInv, ClosedInv, Released, ClosedIsReleased
<1> QED
  BY <1>1, HubInvariant, PTL
=============================================================================
