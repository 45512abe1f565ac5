--------------------------- MODULE HandshakeProofs --------------------------
(***************************************************************************)
(* Safety of the handshake for every number of retransmissions, attempts,  *)
(* EAP rounds and fragments, and for everything the network may do.        *)
(***************************************************************************)
EXTENDS Handshake, TLAPS

-----------------------------------------------------------------------------
(* The inductive invariant. *)

InitAnswer == [kind : InitKinds, sa : 1 .. MaxSAInitAttempts, spi : 0 .. 2, id : {0}, resp : {TRUE}]

Request ==
  [id : Nat, what : {"init", "bootstrap", "eap", "final", "failed", "ack", "child", "ike"},
   keys : Seq(Nat), attempt : Nat, cookie : BOOLEAN]

Reply == [kind : AuthKinds \cup FinalKinds \cup {"deleted"}, sa : Nat]

\* What is in the network.
NetworkOK ==
  /\ answers \subseteq InitAnswer
  /\ sent \subseteq Request
  /\ \A q \in sent : q.id = 0 => q.attempt \in 1 .. MaxSAInitAttempts
  /\ reply \in Seq(Reply)

Early == {"idle", "saInit"}
Talking == {"start", "recv", "method", "final"}

\* The message IDs: every request sent has an earlier one than the next, the
\* responder has answered no more than was sent, and in a wait the request in
\* flight is the newest one and the answer read last is the one before.
NumbersOK ==
  /\ \A q \in sent : q.id > 0 => q.id < st.next
  /\ Len(reply) = 0 \/ Len(reply) < st.next
  /\ at \in Early => st.next = 0 /\ read.count = 0 /\ round = 0
  /\ at \in {"start"} \cup Waits => st.next = st.expected + 1 /\ st.expected = read.count + 1
  /\ at = "method" => st.next = read.count + 1
  /\ at = "over" /\ st.phase = "running" => st.next = read.count + 1

\* The rounds bound the message IDs, and the loop in runEAP ends in time.
RoundsOK ==
  /\ at \in {"start", "recv"} => round < maxEAPRounds
  /\ at \in {"start", "recv", "final"} => st.next = round + 2
  /\ at = "method" => st.next = round + 1
  /\ at = "over" /\ st.phase = "running" => st.next = round + 2
  /\ at = "child" => st.next = round + 3
  /\ at = "ike" => st.next = round + 4

\* The phase follows the wait.
PhaseOK ==
  /\ at \in Early => st.keys = NoKeys
  /\ at = "saInit" => st.ke = st.attempt /\ st.request = st.attempt /\ st.expected = 0 /\ st.has
  /\ at = "saInit" => st.phase = "saInitSent"
  /\ at = "idle" => sent = {} /\ answers = {} /\ st = NoState
  /\ at \in {"start", "recv", "method"} => st.phase = "authEAP"
  /\ at = "final" => st.phase = "childInstalling"
  /\ at \in {"child", "ike"} => st.phase = "running"
  /\ at \notin Early /\ st.phase # "stopped" =>
       st.keys = <<st.request, st.response>> /\ st.ke = 0
  /\ st.phase # "stopped" => router
  /\ st.phase = "running" => st.msk /\ st.child
  /\ at \in {"over", "closed"} => st.phase \in {"stopped", "running"}
  /\ at = "over" /\ st.phase = "running" => st.frags = NoBuffer /\ ~st.has

\* Requests carry the keys of the IKE SA, and the responder answers only when
\* it has the same ones.
KeysOK ==
  st.keys # NoKeys =>
    /\ \A q \in sent : q.id > 0 => q.keys = st.keys
    /\ reply # <<>> => st.keys[1] = st.keys[2]

\* ps are the pieces of answer i: the whole message, or all of one cut.
Whole(ps, i) ==
  /\ ps \in Seq(Seq(Nat))
  /\ \/ ps = <<<<i, 0, 0>>>>
     \/ Len(ps) > 0 /\ \A m \in 1 .. Len(ps) : ps[m] = <<i, Len(ps), m>>

\* The answer r, taken as complete, is one of the responder's, whole.
ReadOK(r) ==
  /\ r \in [count : Ids, id : Ids, parts : Seq(Seq(Nat)), first : {None, "EAP", "IDr"}]
  /\ r.id = r.count /\ r.count <= Len(reply)
  /\ r.count > 0 => Whole(r.parts, r.count) /\ r.first = First(reply[r.count].kind)

\* What the answers taken so far have said.
AnswersOK ==
  /\ at \in Talking /\ read.count > 0 => reply[read.count].kind \in {"eap", "success"}
  /\ at = "over" /\ st.phase = "running" => reply[Len(reply)].kind \in {"reply", "set"}

\* Only a failure tells the responder of it.
NoticeOK ==
  (\E q \in sent : q.what = "failed") =>
    /\ at = "over" /\ st.phase = "stopped"
    /\ read.count = 0 \/ reply[read.count].kind # "authFailed"

\* The fragments collected are pieces of the answer awaited, in their places.
PieceOf(i, buf) ==
  /\ i \in 1 .. Len(reply) /\ buf.id = i /\ Len(buf.parts) > 0
  /\ buf.ex = IF reply[i].kind = "deleted" THEN "INFORMATIONAL" ELSE "IKE_AUTH"
  /\ buf.first \in {None, First(reply[i].kind)}
  /\ buf.parts[1] # NoPart => buf.first # None
  /\ \A n \in 1 .. Len(buf.parts) :
       buf.parts[n] = NoPart \/ buf.parts[n] = <<i, Len(buf.parts), n>>

PiecesOK ==
  st.frags # NoBuffer => at \in Waits \cup {"closed"} /\ PieceOf(read.count + 1, st.frags)

\* A failed handshake is wiped.
WipedOK ==
  /\ at \notin Early /\ st.phase = "stopped" =>
       /\ at \in {"over", "closed"} /\ st.keys = NoKeys /\ ~st.msk /\ st.ke = 0
       /\ st.frags = NoBuffer /\ ~st.has /\ st.out = Nil
  /\ at = "over" /\ st.phase = "stopped" =>
       ~router /\ SubSeq(log, Len(log) - 1, Len(log)) = <<"broken", "stopped">>

IInv ==
  /\ StateOK /\ NetworkOK /\ NumbersOK /\ RoundsOK /\ PhaseOK /\ KeysOK
  /\ AnswersOK /\ NoticeOK /\ PiecesOK /\ WipedOK /\ ReadOK(read) /\ IdsUsedOnce
-----------------------------------------------------------------------------
(* What the helpers make of a State, field by field. *)

LEMMA ConstantFacts ==
  /\ MaxRetries \in Nat \ {0} /\ MaxSAInitAttempts \in Nat \ {0} /\ maxEAPRounds \in Nat \ {0}
  /\ 0 \in Ids /\ 1 \in Ids /\ 2 \in Ids
  /\ \A n \in Nat : n \in Ids <=> n <= maxEAPRounds + 5
  /\ \A n \in Ids : n \in Nat
BY HandshakeAssumption DEF Ids

LEMMA FieldTypes ==
  ASSUME NEW s \in State
  PROVE  /\ s.phase \in Phases /\ s.attempt \in 0 .. MaxSAInitAttempts /\ s.cookie \in BOOLEAN
         /\ s.spiR \in 0 .. 2 /\ s.ke \in 0 .. MaxSAInitAttempts /\ s.request \in 0 .. MaxSAInitAttempts
         /\ s.response \in 0 .. MaxSAInitAttempts /\ s.keys \in Seq(Nat) /\ s.next \in Ids
         /\ s.expected \in Ids /\ s.has \in BOOLEAN /\ s.last \in Ids \cup {Nil}
         /\ s.out \in Ids \cup {Nil} /\ s.frags \in Buffer /\ s.msk \in BOOLEAN
         /\ s.suppress \in BOOLEAN
BY Zenon DEF State

LEMMA NoStateFields ==
  /\ NoState \in State /\ NoState.phase = "stopped" /\ NoState.keys = NoKeys /\ NoState.next = 0
  /\ NoState.frags = NoBuffer
<1>1. NoBuffer \in Buffer
  BY DEF NoBuffer, Buffer, None
<1>2. NoKeys \in Seq(Nat) /\ 0 \in 0 .. MaxSAInitAttempts
  BY ConstantFacts DEF NoKeys
<1> QED
  BY <1>1, <1>2, ConstantFacts DEF NoState, State, Phases

LEMMA BeginRequestFields ==
  ASSUME NEW s \in State, s.next + 1 \in Ids
  PROVE  LET t == BeginRequest(s)
         IN /\ t \in State /\ t.expected = s.next /\ t.has = TRUE /\ t.out = s.next /\ t.next = s.next + 1
            /\ t.phase = s.phase /\ t.keys = s.keys /\ t.ke = s.ke /\ t.request = s.request
            /\ t.response = s.response /\ t.frags = s.frags /\ t.msk = s.msk /\ t.child = s.child
            /\ t.suppress = s.suppress /\ t.attempt = s.attempt
BY Zenon DEF BeginRequest, State

LEMMA ClearSessionFields ==
  ASSUME NEW s \in State
  PROVE  LET t == ClearSession(s)
         IN /\ t \in State /\ t.next = s.next /\ t.phase = "stopped" /\ t.keys = NoKeys
            /\ t.ke = 0 /\ t.msk = FALSE /\ t.frags = NoBuffer /\ t.has = FALSE /\ t.out = Nil
<1>1. NoBuffer \in Buffer
  BY DEF NoBuffer, Buffer, None
<1>2. NoKeys \in Seq(Nat) /\ 0 \in 0 .. MaxSAInitAttempts
  BY ConstantFacts DEF NoKeys
<1>3. /\ ClearSession(s).next = s.next /\ ClearSession(s).phase = "stopped"
      /\ ClearSession(s).keys = NoKeys /\ ClearSession(s).ke = 0 /\ ClearSession(s).msk = FALSE
      /\ ClearSession(s).frags = NoBuffer /\ ClearSession(s).has = FALSE /\ ClearSession(s).out = Nil
  BY SMTT(30) DEF ClearSession, State
<1>4. ClearSession(s) \in State
  <2> DEFINE t == [s EXCEPT !.keys = NoKeys, !.cookie = FALSE, !.neg = FALSE, !.child = FALSE, !.out = Nil,
                            !.frags = NoBuffer]
             u == [t EXCEPT !.ke = 0, !.msk = FALSE, !.request = 0, !.response = 0]
             w == [u EXCEPT !.has = FALSE, !.last = Nil, !.suppress = FALSE, !.phase = "stopped"]
  <2>1. t \in State
    BY <1>1, <1>2, Zenon DEF State
  <2>a. \A x \in State : [x EXCEPT !.ke = 0, !.msk = FALSE, !.request = 0, !.response = 0] \in State
    BY <1>2, ZenonT(60) DEF State
  <2>b. \A x \in State :
          [x EXCEPT !.has = FALSE, !.last = Nil, !.suppress = FALSE, !.phase = "stopped"] \in State
    <3>1. "stopped" \in Phases
      BY Zenon DEF Phases
    <3> QED
      BY <3>1, ZenonT(60) DEF State
  <2>2. u \in State
    BY <2>1, <2>a, Zenon
  <2>3. w \in State
    BY <2>2, <2>b, Zenon
  <2>4. w = ClearSession(s)
    BY Zenon DEF ClearSession
  <2> QED
    BY <2>3, <2>4, Zenon
<1> QED
  BY <1>3, <1>4, Zenon

LEMMA NextFields ==
  ASSUME NEW s \in State, NEW n \in Ids
  PROVE  [s EXCEPT !.next = n] \in State /\ [s EXCEPT !.next = n].next = n
BY Zenon DEF State

LEMMA CompletedFields ==
  ASSUME st \in State
  PROVE  /\ Completed \in State /\ Completed.last = st.expected /\ Completed.has = FALSE
         /\ Completed.out = Nil /\ Completed.frags = NoBuffer /\ Completed.next = st.next
         /\ Completed.phase = st.phase /\ Completed.keys = st.keys /\ Completed.ke = st.ke
         /\ Completed.request = st.request /\ Completed.response = st.response
         /\ Completed.msk = st.msk /\ Completed.child = st.child /\ Completed.spiR = st.spiR
<1>1. NoBuffer \in Buffer
  BY DEF NoBuffer, Buffer, None
<1> QED
  BY <1>1, ConstantFacts, Zenon DEF Completed, State

LEMMA SuppressFields ==
  ASSUME NEW s \in State, NEW k
  PROVE  LET t == [s EXCEPT !.suppress = k = "authFailed"]
         IN t \in State /\ (t.suppress \/ k # "authFailed") /\ t.next = s.next /\ t.keys = s.keys
<1>1. CASE k = "authFailed"
  <2>1. [s EXCEPT !.suppress = k = "authFailed"] = [s EXCEPT !.suppress = TRUE]
    BY <1>1, Zenon
  <2> QED
    BY <2>1, Zenon DEF State
<1>2. CASE k # "authFailed"
  <2>1. [s EXCEPT !.suppress = k = "authFailed"] = [s EXCEPT !.suppress = FALSE]
    BY <1>2, Zenon
  <2> QED
    BY <1>2, <2>1, Zenon DEF State
<1> QED
  BY <1>1, <1>2, Zenon

LEMMA AcceptedFields ==
  ASSUME st \in State, NEW p \in InitAnswer
  PROVE  /\ Accepted(p) \in State /\ Accepted(p).response = p.sa /\ Accepted(p).out = Nil
         /\ Accepted(p).last = 0 /\ Accepted(p).keys = st.keys /\ Accepted(p).next = st.next
         /\ Accepted(p).attempt = st.attempt /\ Accepted(p).request = st.request
         /\ Accepted(p).frags = st.frags /\ Accepted(p).expected = st.expected /\ Accepted(p).has = st.has
         /\ Accepted(p).ke = st.ke
<1>1. p.spi \in 0 .. 2 /\ p.sa \in 0 .. MaxSAInitAttempts
  BY ConstantFacts DEF InitAnswer
<1> QED
  BY <1>1, ConstantFacts, ZenonT(60) DEF Accepted, State

LEMMA SAInitRequestFields ==
  ASSUME NEW s \in State, s.attempt + 1 <= MaxSAInitAttempts
  PROVE  LET t == SAInitRequest(s)
         IN /\ t \in State /\ t.attempt = s.attempt + 1 /\ t.ke = t.attempt /\ t.request = t.attempt
            /\ t.phase = "saInitSent" /\ t.out = 0 /\ t.keys = s.keys /\ t.next = s.next
            /\ t.expected = s.expected /\ t.has = s.has /\ t.frags = s.frags
<1>1. s.attempt + 1 \in 0 .. MaxSAInitAttempts
  BY ConstantFacts, FieldTypes
<1> QED
  BY <1>1, ConstantFacts, Zenon DEF SAInitRequest, State, Phases
-----------------------------------------------------------------------------
(* Fragments. *)

LEMMA TupleFacts ==
  /\ \A a, b, c : <<a, b, c>> # NoPart
  /\ \A a, b, c \in Nat : <<a, b, c>> \in Seq(Nat)
BY DEF NoPart

LEMMA KindFacts ==
  ASSUME NEW k
  PROVE  First(k) \in {"EAP", "IDr"} /\ First(k) # None
BY Zenon DEF First, None

\* A response is whole or one of the pieces of a cut.
LEMMA ResponseCut ==
  ASSUME NetworkOK, NEW p \in Responses
  PROVE  \E i \in 1 .. Len(reply), t \in Nat, n \in Nat :
           /\ p = Cut(i, t, n) /\ p.id = i /\ p.resp = TRUE
           /\ (t = 0 /\ n = 0) \/ (t # 0 /\ n \in 1 .. t)
<1>1. DOMAIN reply = 1 .. Len(reply)
  BY DEF NetworkOK
<1>2. \A i, t, n : Cut(i, t, n).id = i /\ Cut(i, t, n).resp = TRUE
  BY Zenon DEF Cut
<1>3. PICK i \in DOMAIN reply : p \in Copies(i)
  BY Zenon DEF Responses
<1>4. CASE p = Cut(i, 0, 0)
  BY <1>1, <1>2, <1>3, <1>4, Zenon
<1>5. CASE p \in UNION {{Cut(i, t, n) : n \in 1 .. t} : t \in Totals \ {0}}
  <2>1. PICK t \in Totals \ {0} : p \in {Cut(i, t, n) : n \in 1 .. t}
    BY <1>5, Zenon
  <2>2. PICK n \in 1 .. t : p = Cut(i, t, n)
    BY <2>1, Zenon
  <2>3. t \in Nat /\ t # 0 /\ n \in Nat
    BY <2>1, <2>2, HandshakeAssumption
  <2> QED
    BY <1>1, <1>2, <1>3, <2>2, <2>3, Zenon
<1> QED
  BY <1>3, <1>4, <1>5, Zenon DEF Copies

\* The fields of a piece.
LEMMA CutFields ==
  ASSUME NEW i, NEW t, NEW n
  PROVE  LET p == Cut(i, t, n)
         IN /\ p.id = i /\ p.n = n /\ p.total = t /\ p.data = <<i, t, n>> /\ p.skf = (t # 0)
            /\ p.ex = (IF reply[i].kind = "deleted" THEN "INFORMATIONAL" ELSE "IKE_AUTH")
            /\ p.first = (IF n <= 1 THEN First(reply[i].kind) ELSE None)
BY Zenon DEF Cut

\* The table that a fragment of answer i goes to holds pieces of answer i.
LEMMA TableOK ==
  ASSUME NetworkOK, NEW i \in 1 .. Len(reply), NEW t \in Nat \ {0}, NEW n \in 1 .. t,
         NEW p, p = Cut(i, t, n), NEW buf \in Buffer, buf # NoBuffer => PieceOf(i, buf),
         NEW expired
  PROVE  LET b == Table(buf, p, expired)
         IN /\ b \in Buffer /\ PieceOf(i, b)
            /\ b.parts[1] # NoPart => buf.first = First(reply[i].kind)
            /\ t <= Len(b.parts)
<1> DEFINE b == Table(buf, p, expired)
<1>1. /\ p.id = i /\ p.n = n /\ p.total = t
      /\ p.ex = (IF reply[i].kind = "deleted" THEN "INFORMATIONAL" ELSE "IKE_AUTH")
  BY CutFields
<1>2. i \in Nat /\ 1 \in 1 .. t
  BY DEF NetworkOK
<1>3. CASE b = NewTable(p)
  <2> DEFINE e == [j \in 1 .. t |-> NoPart]
  <2>1. /\ b.id = i /\ b.first = None /\ b.parts = e /\ b.ex = p.ex
        /\ b = [id |-> i, ex |-> p.ex, first |-> None, parts |-> e]
    BY <1>1, <1>3 DEF NewTable
  <2>2. NoPart \in Seq(Nat)
    BY DEF NoPart
  <2>3. e \in Seq(Seq(Nat)) /\ Len(e) = t /\ \A j \in 1 .. t : e[j] = NoPart
    BY <2>2
  <2>4. b \in Buffer
    BY <1>1, <1>2, <2>1, <2>3, Zenon DEF Buffer
  <2>5. PieceOf(i, b)
    BY <1>1, <2>1, <2>3 DEF PieceOf
  <2> QED
    BY <1>2, <2>1, <2>3, <2>4, <2>5
<1>4. CASE b = buf /\ buf # NoBuffer /\ t <= Len(buf.parts)
  BY <1>4, Zenon DEF PieceOf
<1>5. b = NewTable(p) \/ (b = buf /\ buf # NoBuffer /\ ~(t > Len(buf.parts)))
  BY <1>1, Zenon DEF Table
<1>6. Len(buf.parts) \in Nat
  BY DEF Buffer
<1> QED
  BY <1>3, <1>4, <1>5, <1>6
\* Storing a piece in its place keeps pieces of answer i.
LEMMA StoredOK ==
  ASSUME NetworkOK, NEW i \in 1 .. Len(reply), NEW t \in Nat \ {0}, NEW n \in 1 .. t,
         NEW p, p = Cut(i, t, n), NEW b \in Buffer, PieceOf(i, b), Len(b.parts) = t
  PROVE  LET s == Stored(b, p)
         IN /\ s \in Buffer /\ PieceOf(i, s) /\ Len(s.parts) = t
            /\ s.parts[1] # NoPart => n = 1 \/ b.parts[1] # NoPart
<1> DEFINE s == Stored(b, p)
           k == First(reply[i].kind)
           x == IF b.parts[n] = NoPart THEN <<i, t, n>> ELSE b.parts[n]
           q == [b.parts EXCEPT ![n] = x]
<1>1. p.n = n /\ p.data = <<i, t, n>> /\ p.first = (IF n <= 1 THEN k ELSE None)
  BY CutFields
<1>2. k \in {"EAP", "IDr"} /\ k # None
  BY KindFacts, Zenon
<1>3. i \in Nat /\ t \in Nat /\ n \in Nat /\ 1 \in 1 .. t
  BY DEF NetworkOK
<1>4. b.parts \in Seq(Seq(Nat)) /\ b.first \in {None, "EAP", "IDr"} /\ b.id \in Nat
      /\ b.ex \in {None, "IKE_AUTH", "INFORMATIONAL"}
  BY Zenon DEF Buffer
<1>5. x \in Seq(Nat) /\ x # NoPart /\ x = <<i, t, n>>
  <2>1. <<i, t, n>> \in Seq(Nat) /\ <<i, t, n>> # NoPart
    BY <1>3, TupleFacts, Zenon
  <2>2. b.parts[n] = NoPart \/ b.parts[n] = <<i, t, n>>
    BY Zenon DEF PieceOf
  <2> QED
    BY <2>1, <2>2, Zenon
<1>6. q \in Seq(Seq(Nat)) /\ Len(q) = t /\ q[n] = x /\ \A j \in 1 .. t : j # n => q[j] = b.parts[j]
  <2> HIDE DEF x
  <2> QED
    BY <1>4, <1>5
<1>7. /\ s.id = b.id /\ s.ex = b.ex /\ s.parts = q
      /\ s.first = (IF n = 1 THEN p.first ELSE b.first)
      /\ s = [id |-> b.id, ex |-> b.ex, first |-> (IF n = 1 THEN p.first ELSE b.first), parts |-> q]
  <2>1. s = [b EXCEPT !.first = IF n = 1 THEN p.first ELSE @, !.parts = q]
    BY <1>1, Zenon DEF Stored
  <2> HIDE DEF s, q
  <2> QED
    BY <2>1, Zenon DEF Buffer
<1>8. (IF n = 1 THEN p.first ELSE b.first) = (IF n = 1 THEN k ELSE b.first)
  BY <1>1
<1> HIDE DEF s, q, x, k
<1>9. s \in Buffer
  BY <1>2, <1>4, <1>6, <1>7, <1>8, Zenon DEF Buffer
<1>10. s.parts[1] # NoPart => n = 1 \/ b.parts[1] # NoPart
  BY <1>3, <1>6, <1>7, Zenon
<1>11. PieceOf(i, s)
  <2>1. s.first \in {None, k} /\ (s.parts[1] # NoPart => s.first # None)
    BY <1>2, <1>7, <1>8, <1>10, Zenon DEF PieceOf, k
  <2>2. \A j \in 1 .. Len(s.parts) : s.parts[j] = NoPart \/ s.parts[j] = <<i, Len(s.parts), j>>
    BY <1>5, <1>6, <1>7, ZenonT(60) DEF PieceOf
  <2> QED
    BY <1>6, <1>7, <2>1, <2>2, Zenon DEF PieceOf, k
<1> QED
  BY <1>6, <1>7, <1>9, <1>10, <1>11, Zenon DEF s

\* What collectSKFragment gives for a fragment of answer i.
LEMMA CollectOK ==
  ASSUME NetworkOK, NEW i \in 1 .. Len(reply), NEW t \in Nat \ {0}, NEW n \in 1 .. t,
         NEW p, p = Cut(i, t, n), NEW buf \in Buffer, buf # NoBuffer => PieceOf(i, buf),
         NEW expired
  PROVE  LET r == CollectSKFragment(buf, p, expired)
         IN /\ r.status = "more" => r.buf \in Buffer /\ PieceOf(i, r.buf)
            /\ r.status = "complete" =>
                 /\ Whole(r.parts, i)
                 /\ r.first = First(reply[i].kind) \/ buf.first = First(reply[i].kind)
            /\ r = [status |-> r.status, buf |-> r.buf, parts |-> r.parts, first |-> r.first]
<1> DEFINE b == Table(buf, p, expired)
           r == CollectSKFragment(buf, p, expired)
           s == Stored(b, p)
           k == First(reply[i].kind)
<1>1. /\ b \in Buffer /\ PieceOf(i, b) /\ t <= Len(b.parts)
      /\ b.parts[1] # NoPart => buf.first = k
  <2>1. LET c == Table(buf, p, expired)
        IN /\ c \in Buffer /\ PieceOf(i, c)
           /\ c.parts[1] # NoPart => buf.first = First(reply[i].kind)
           /\ t <= Len(c.parts)
    BY TableOK
  <2> QED
    BY <2>1, Zenon
<1>2. p.n = n /\ p.total = t /\ p.first = (IF n <= 1 THEN k ELSE None)
  BY CutFields
<1>3. \/ r = Refused(b)
      \/ t < Len(b.parts) /\ r = More(b)
      \/ ~(t < Len(b.parts)) /\ r = Joined(s, p)
  BY <1>2, Zenon DEF CollectSKFragment
<1> HIDE DEF b, r, s, k
<1>4. Len(b.parts) \in Nat
  BY <1>1 DEF Buffer
<1>5. CASE r = Refused(b)
  BY <1>5 DEF Refused, r
<1>6. CASE r = More(b)
  BY <1>1, <1>6 DEF More, r
<1>7. CASE ~(t < Len(b.parts)) /\ r = Joined(s, p)
  <2>1. Len(b.parts) = t
    BY <1>1, <1>4, <1>7
  <2>2. /\ s \in Buffer /\ PieceOf(i, s) /\ Len(s.parts) = t
        /\ s.parts[1] # NoPart => n = 1 \/ b.parts[1] # NoPart
    BY <1>1, <2>1, StoredOK DEF s
  <2>3. CASE r = More(s)
    BY <2>2, <2>3 DEF More, r
  <2>4. CASE /\ \A j \in DOMAIN s.parts : s.parts[j] # NoPart
             /\ r = [status |-> "complete", buf |-> NoBuffer, parts |-> s.parts, first |-> p.first]
    <3>1. r.status = "complete" /\ r.parts = s.parts /\ r.first = p.first
      BY <2>4, Zenon
    <3>2. s.parts \in Seq(Seq(Nat)) /\ DOMAIN s.parts = 1 .. t
      BY <2>2 DEF Buffer
    <3>4. Whole(s.parts, i)
      <4>1. Len(s.parts) > 0
        BY <2>2
      <4>2. \A m \in 1 .. Len(s.parts) : s.parts[m] = <<i, Len(s.parts), m>>
        BY <2>2, <2>4, <3>2, Zenon DEF PieceOf
      <4> QED
        BY <3>2, <4>1, <4>2, Zenon DEF Whole
    <3>5. s.parts[1] # NoPart
      <4>1. 1 \in 1 .. t
        OBVIOUS
      <4> QED
        BY <2>4, <3>2, <4>1, Zenon
    <3>6. r.first = k \/ buf.first = k
      BY <1>1, <1>2, <2>2, <3>1, <3>5
    <3> QED
      BY <2>4, <3>1, <3>4, <3>6, Zenon DEF r, k
  <2> QED
    BY <1>7, <2>3, <2>4, Zenon DEF Joined
<1> QED
  BY <1>3, <1>5, <1>6, <1>7, Zenon
\* What openProtectedRawState gives for a copy of answer i.
LEMMA OpenOK ==
  ASSUME NetworkOK, NEW i \in 1 .. Len(reply), NEW p \in Responses, p.id = i,
         NEW buf \in Buffer, buf # NoBuffer => PieceOf(i, buf), NEW expired
  PROVE  LET r == OpenProtectedRawState(buf, p, expired)
         IN /\ r.status = "more" => r.buf \in Buffer /\ PieceOf(i, r.buf)
            /\ r.status = "complete" =>
                 Whole(r.parts, i) /\ r.first = First(reply[i].kind)
<1> DEFINE k == First(reply[i].kind)
           o == OpenProtectedRawState(buf, p, expired)
           r == CollectSKFragment(buf, p, expired)
<1>1. PICK t \in Nat, n \in Nat : /\ p = Cut(i, t, n)
                                  /\ (t = 0 /\ n = 0) \/ (t # 0 /\ n \in 1 .. t)
  BY ResponseCut, Zenon
<1>2. p.skf = (t # 0) /\ p.data = <<i, t, n>> /\ p.first = (IF n <= 1 THEN k ELSE None)
  BY <1>1, CutFields
<1>3. CASE t = 0
  <2>1. o = [status |-> "complete", buf |-> buf, parts |-> <<p.data>>, first |-> p.first]
    BY <1>2, <1>3, Zenon DEF OpenProtectedRawState
  <2>2. p.data = <<i, 0, 0>> /\ p.first = k
    BY <1>1, <1>2, <1>3
  <2> HIDE DEF k, o
  <2>3. o.status = "complete" /\ o.parts = <<<<i, 0, 0>>>> /\ o.first = k
    BY <2>1, <2>2, Zenon
  <2>4. Whole(<<<<i, 0, 0>>>>, i)
    <3>1. i \in Nat
      BY DEF NetworkOK
    <3>2. <<i, 0, 0>> \in Seq(Nat)
      BY <3>1, TupleFacts, Zenon
    <3> QED
      BY <3>2 DEF Whole
  <2> QED
    BY <2>3, <2>4, Zenon DEF k, o
<1>4. CASE t # 0
  <2>1. /\ r.status = "more" => r.buf \in Buffer /\ PieceOf(i, r.buf)
        /\ r.status = "complete" =>
             /\ Whole(r.parts, i)
             /\ r.first = First(reply[i].kind) \/ buf.first = First(reply[i].kind)
        /\ r = [status |-> r.status, buf |-> r.buf, parts |-> r.parts, first |-> r.first]
    BY <1>1, <1>4, CollectOK
  <2>2. o = IF r.status = "complete" /\ buf.first # None THEN [r EXCEPT !.first = buf.first] ELSE r
    BY <1>2, <1>4, Zenon DEF OpenProtectedRawState
  <2>3. k # None /\ buf.first \in {None, k}
    BY KindFacts DEF PieceOf, NoBuffer
  <2>4. t \in Nat \ {0}
    BY <1>1, <1>4, Zenon
  <2> HIDE DEF r, o
  <2>5. CASE r.status = "complete" /\ buf.first # None
    <3>1. o = [r EXCEPT !.first = buf.first]
      BY <2>2, <2>5, Zenon
    <3>2. o.status = r.status /\ o.parts = r.parts /\ o.first = buf.first
      BY <2>1, <3>1, Zenon
    <3> QED
      BY <2>1, <2>3, <2>4, <2>5, <3>2, Zenon DEF o
  <2>6. CASE ~(r.status = "complete" /\ buf.first # None)
    <3>1. o = r
      BY <2>2, <2>6, Zenon
    <3> QED
      BY <2>1, <2>3, <2>4, <2>6, <3>1, Zenon DEF o
  <2> QED
    BY <2>5, <2>6, Zenon
<1> QED
  BY <1>3, <1>4, Zenon

\* In a wait the copy that classifyResponse takes for the response is the
\* responder's last answer, and the one after the answer read last.
LEMMA Awaited ==
  ASSUME IInv, at \in Waits, NEW p \in Responses, Disposition(p, st.expected) = "expected"
  PROVE  /\ p.id = st.expected /\ st.expected = Len(reply) /\ st.expected = read.count + 1
         /\ st.next = st.expected + 1 /\ st.expected \in 1 .. Len(reply) /\ st.expected \in Ids
         /\ st.expected \in Nat /\ read.count \in Nat
<1>1. p.id = st.expected
  BY Zenon DEF Disposition
<1>2. st \in State /\ NetworkOK /\ read.count \in Ids
  BY Zenon DEF IInv, StateOK
<1>3. PICK i \in 1 .. Len(reply) : p.id = i
  BY <1>2, ResponseCut, Zenon
<1>4. st.next = st.expected + 1 /\ st.expected = read.count + 1 /\ (Len(reply) = 0 \/ Len(reply) < st.next)
  BY Zenon DEF IInv, NumbersOK
<1>5. Len(reply) \in Nat /\ st.expected \in Nat /\ st.next \in Nat /\ st.expected \in Ids /\ read.count \in Nat
  BY <1>2, FieldTypes, ConstantFacts DEF NetworkOK
<1>6. PICK x, e, l, c : x = st.next /\ e = st.expected /\ l = Len(reply) /\ c = read.count
  BY Zenon
<1>7. x \in Nat /\ e \in Nat /\ l \in Nat /\ c \in Nat /\ e \in 1 .. l /\ x = e + 1 /\ (l = 0 \/ l < x)
  BY <1>1, <1>3, <1>4, <1>5, <1>6, Zenon
<1>8. e = l
  BY <1>7
<1> QED
  BY <1>1, <1>4, <1>5, <1>6, <1>7, <1>8, Zenon

\* A response that is complete is the responder's answer, whole.
LEMMA CompletesOK ==
  ASSUME IInv, at \in Waits, NEW p \in Responses, Completes(p)
  PROVE  /\ ReadOK(read') /\ read'.count = st.expected /\ p.id = st.expected
         /\ st.expected = Len(reply) /\ st.expected = read.count + 1
         /\ st.next = st.expected + 1 /\ st.expected \in 1 .. Len(reply)
<1>1. PICK expired :
        LET r == OpenProtectedRawState(st.frags, p, expired)
        IN /\ Disposition(p, st.expected) = "expected"
           /\ r.status = "complete"
           /\ read' = [count |-> read.count + 1, id |-> st.expected, parts |-> r.parts, first |-> r.first]
  BY Zenon DEF Completes
<1> DEFINE r == OpenProtectedRawState(st.frags, p, expired)
<1>2. /\ p.id = st.expected /\ st.expected = Len(reply) /\ st.expected = read.count + 1
      /\ st.next = st.expected + 1 /\ st.expected \in 1 .. Len(reply) /\ st.expected \in Ids
      /\ st.expected \in Nat /\ read.count \in Nat
  BY <1>1, Awaited, Zenon
<1>3. NetworkOK /\ st.frags \in Buffer /\ (st.frags # NoBuffer => PieceOf(st.expected, st.frags))
  BY <1>2, FieldTypes, Zenon DEF IInv, StateOK, PiecesOK
<1>4. Whole(r.parts, st.expected) /\ r.first = First(reply[st.expected].kind)
  <2>1. PICK i : i = st.expected
    BY Zenon
  <2>2. i \in 1 .. Len(reply) /\ p.id = i /\ (st.frags # NoBuffer => PieceOf(i, st.frags)) /\ r.status = "complete"
    BY <1>1, <1>2, <1>3, <2>1, Zenon
  <2>3. r.status = "complete" => Whole(r.parts, i) /\ r.first = First(reply[i].kind)
    BY <1>3, <2>2, OpenOK
  <2> QED
    BY <2>1, <2>2, <2>3, Zenon
<1> HIDE DEF r
<1>5. read' = [count |-> st.expected, id |-> st.expected, parts |-> r.parts, first |-> r.first]
  BY <1>1, <1>2, Zenon DEF r
<1>6. r.parts \in Seq(Seq(Nat))
  BY <1>4, Zenon DEF Whole
<1>7. r.first \in {None, "EAP", "IDr"}
  BY <1>4, KindFacts, Zenon
<1>8. /\ read'.count = st.expected /\ read'.id = st.expected /\ read'.parts = r.parts /\ read'.first = r.first
      /\ read' \in [count : Ids, id : Ids, parts : Seq(Seq(Nat)), first : {None, "EAP", "IDr"}]
  BY <1>2, <1>5, <1>6, <1>7, Zenon
<1>9. ReadOK(read')
  <2>1. read'.id = read'.count /\ read'.count <= Len(reply)
    BY <1>2, <1>8
  <2>2. Whole(read'.parts, read'.count) /\ read'.first = First(reply[read'.count].kind)
    BY <1>4, <1>8, Zenon
  <2> QED
    BY <1>8, <2>1, <2>2, Zenon DEF ReadOK
<1> QED
  BY <1>2, <1>8, <1>9, Zenon
-----------------------------------------------------------------------------
(* Steps that several actions share. *)

\* The types of an invariant state.
LEMMA Typed ==
  ASSUME IInv
  PROVE  /\ st \in State /\ NetworkOK /\ ReadOK(read) /\ st.next \in Nat /\ st.next \in Ids
         /\ st.expected \in Nat /\ st.expected \in Ids /\ read.count \in Nat /\ read.count \in Ids
         /\ Len(reply) \in Nat /\ read.count <= Len(reply) /\ round \in 0 .. maxEAPRounds /\ round \in Nat
         /\ log \in Seq(Stages) /\ st.keys \in Seq(Nat)
         /\ \A q \in sent : q \in Request /\ q.id \in Nat
<1>1. st \in State /\ NetworkOK /\ ReadOK(read) /\ round \in 0 .. maxEAPRounds /\ log \in Seq(Stages)
  BY Zenon DEF IInv, StateOK
<1>2. read.count \in Ids /\ read.count <= Len(reply)
  BY <1>1, Zenon DEF ReadOK
<1>3. Len(reply) \in Nat /\ \A q \in sent : q \in Request /\ q.id \in Nat
  BY <1>1 DEF NetworkOK, Request
<1>4. round \in Nat
  BY <1>1, ConstantFacts
<1> QED
  BY <1>1, <1>2, <1>3, <1>4, FieldTypes, ConstantFacts, Zenon

\* New requests above all earlier message IDs keep the IDs apart.
LEMMA FreshIds ==
  ASSUME IInv, NEW new, sent' = sent \cup new,
         \A q \in new : q \in Request /\ q.id > 0 /\ q.id >= st.next,
         \A q, r \in new : q.id = r.id => q = r
  PROVE  IdsUsedOnce'
<1>1. \A q \in sent : q.id > 0 => q.id < st.next
  BY Zenon DEF IInv, NumbersOK
<1>2. st.next \in Nat /\ (\A q \in sent : q.id \in Nat) /\ (\A q \in new : q.id \in Nat)
  BY Typed, Zenon DEF Request
<1>3. ASSUME NEW q \in sent', NEW r \in sent', q.id = r.id, q.id > 0, "ack" \notin {q.what, r.what}
      PROVE  q = r
  <2>1. q \in sent /\ r \in sent => q = r
    BY <1>3, Zenon DEF IInv, IdsUsedOnce
  <2>2. q \in new /\ r \in new => q = r
    BY <1>3, Zenon
  <2>3. ~(q \in sent /\ r \in new) /\ ~(q \in new /\ r \in sent)
    BY <1>1, <1>2, <1>3
  <2> QED
    BY <1>3, <2>1, <2>2, <2>3, Zenon
<1> QED
  BY <1>3, Zenon DEF IdsUsedOnce

LEMMA ProtectedFields ==
  ASSUME NEW s \in State, NEW id \in Nat,
         NEW what \in {"bootstrap", "eap", "final", "failed", "ack", "child", "ike"}
  PROVE  LET q == Protected(s, id, what)
         IN q \in Request /\ q.id = id /\ q.what = what /\ q.keys = s.keys
<1>1. s.keys \in Seq(Nat) /\ s.attempt \in Nat
  BY FieldTypes, ConstantFacts
<1> QED
  BY <1>1, Zenon DEF Protected, Request

\* Broken and Stopped are the last two events.
LEMMA LastEvents ==
  ASSUME NEW l \in Seq(Stages), NEW e \in Seq(Stages)
  PROVE  LET m == l \o e \o <<"broken", "stopped">>
         IN m \in Seq(Stages) /\ SubSeq(m, Len(m) - 1, Len(m)) = <<"broken", "stopped">>
<1> DEFINE h == l \o e
           w == <<"broken", "stopped">>
           m == h \o w
<1>1. h \in Seq(Stages)
  OBVIOUS
<1>2. w \in Seq(Stages) /\ Len(w) = 2 /\ w[1] = "broken" /\ w[2] = "stopped"
  BY DEF Stages
<1> HIDE DEF h, w
<1>3. /\ m \in Seq(Stages) /\ Len(m) = Len(h) + 2 /\ m[Len(h) + 1] = w[1] /\ m[Len(h) + 2] = w[2]
      /\ Len(h) \in Nat
  <2>1. \A a, b \in Seq(Stages) :
          /\ a \o b \in Seq(Stages) /\ Len(a \o b) = Len(a) + Len(b) /\ Len(a) \in Nat
          /\ \A i \in 1 .. Len(b) : (a \o b)[Len(a) + i] = b[i]
    OBVIOUS
  <2> HIDE DEF m
  <2>2. /\ m \in Seq(Stages) /\ Len(m) = Len(h) + Len(w) /\ Len(h) \in Nat
        /\ \A i \in 1 .. Len(w) : m[Len(h) + i] = w[i]
    BY <1>1, <1>2, <2>1, Zenon DEF m
  <2> QED
    BY <1>2, <2>2
<1> HIDE DEF m
<1> DEFINE z == SubSeq(m, Len(m) - 1, Len(m))
<1>4. Len(m) - 1 = Len(h) + 1 /\ Len(m) - 1 \in 1 .. Len(m) /\ Len(m) \in Nat
  BY <1>3
<1>5. z \in Seq(Stages) /\ Len(z) = 2 /\ z[1] = m[Len(h) + 1] /\ z[2] = m[Len(h) + 2]
  BY <1>3, <1>4
<1> HIDE DEF z
<1>6. z = <<"broken", "stopped">>
  BY <1>2, <1>3, <1>5
<1> QED
  BY <1>3, <1>6, Zenon DEF m, h, w, z
\* fail, whatever the actor was waiting for.
LEMMA FailInv ==
  ASSUME IInv, at \notin {"idle", "over", "closed"},
         NEW s \in State, s.keys = st.keys, s.next + 1 \in Ids,
         NEW packets, NEW events \in Seq(Stages), Fail(s, packets, events),
         \/ packets = {} /\ s.next = st.next
         \/ at = "method" /\ packets = {Protected(st, st.next, "eap")} /\ s.next = st.next + 1,
         ReadOK(read'),
         s.suppress \/ read'.count = 0 \/ reply[read'.count].kind # "authFailed"
  PROVE  IInv'
<1> DEFINE tells == s.spiR # 0 /\ s.keys # NoKeys /\ ~s.suppress
           x == IF tells THEN s.next + 1 ELSE s.next
           notice == Protected(s, s.next, "failed")
<1>1. /\ st' = ClearSession([s EXCEPT !.next = x])
      /\ sent' = sent \cup packets \/ (tells /\ sent' = sent \cup packets \cup {notice})
      /\ log' = log \o events \o <<"broken", "stopped">>
      /\ at' = "over" /\ router' = FALSE /\ retries' = 0 /\ packet' = "none"
      /\ round' = round /\ answers' = answers /\ reply' = reply /\ asks' = asks
  BY Zenon DEF Fail, serverVars
<1>2. s.next \in Ids /\ s.next \in Nat /\ x \in Ids /\ x \in Nat /\ x >= s.next /\ (tells => x = s.next + 1)
  BY FieldTypes, ConstantFacts
<1>3. /\ st' \in State /\ st'.next = x /\ st'.phase = "stopped" /\ st'.keys = NoKeys
      /\ st'.ke = 0 /\ st'.msk = FALSE /\ st'.frags = NoBuffer /\ st'.has = FALSE /\ st'.out = Nil
  <2> HIDE DEF x
  <2>1. [s EXCEPT !.next = x] \in State /\ [s EXCEPT !.next = x].next = x
    BY <1>2, NextFields, Zenon
  <2> QED
    BY <1>1, <2>1, ClearSessionFields, Zenon
<1>4. /\ st \in State /\ NetworkOK /\ st.next \in Nat /\ Len(reply) \in Nat
      /\ round \in 0 .. maxEAPRounds /\ log \in Seq(Stages)
      /\ \A q \in sent : q \in Request /\ q.id \in Nat
  BY Typed, Zenon
<1>5. s.keys # NoKeys \/ at = "method" => st.next > 0
  <2>1. s.keys # NoKeys => at \notin Early
    BY Zenon DEF IInv, PhaseOK
  <2>2. at \in {"start", "method"} \cup Waits => st.next > 0
    BY Typed DEF IInv, NumbersOK
  <2>3. at \in {"idle", "saInit", "start", "method", "over", "closed"} \cup Waits
    BY Zenon DEF IInv, StateOK
  <2> QED
    BY <2>1, <2>2, <2>3, Zenon DEF Early
<1>6. \A q \in packets : /\ q \in Request /\ q.id = st.next /\ q.id > 0 /\ q.id < s.next /\ q.what = "eap"
  BY <1>2, <1>4, <1>5, ProtectedFields
<1>7. /\ notice \in Request /\ notice.id = s.next /\ notice.what = "failed"
  BY <1>2, ProtectedFields
<1>8. PICK new : /\ sent' = sent \cup new
                 /\ \A q \in new : \/ q \in packets
                                   \/ tells /\ q = notice
  <2>1. CASE sent' = sent \cup packets
    BY <2>1, Zenon
  <2>2. CASE tells /\ sent' = sent \cup packets \cup {notice}
    <3> HIDE DEF tells, notice
    <3>1. sent' = sent \cup (packets \cup {notice}) /\ \A q \in packets \cup {notice} : q \in packets \/ q = notice
      BY <2>2, Zenon
    <3> QED
      BY <2>2, <3>1, Zenon
  <2> QED
    BY <1>1, <2>1, <2>2, Zenon
<1>9. s.next >= st.next
  BY <1>2, <1>4
<1>10. \A q \in new : /\ q \in Request /\ q.id \in Nat /\ q.id > 0 /\ q.id >= st.next /\ q.id < x
                      /\ q.what = "failed" => tells
  <2>1. ASSUME NEW q \in packets
        PROVE  q \in Request /\ q.id \in Nat /\ q.id > 0 /\ q.id >= st.next /\ q.id < x /\ q.what # "failed"
    BY <1>2, <1>4, <1>6
  <2>2. tells => notice.id \in Nat /\ notice.id > 0 /\ notice.id >= st.next /\ notice.id < x
    BY <1>2, <1>4, <1>5, <1>7, <1>9
  <2> HIDE DEF tells, notice, x
  <2> QED
    BY <1>7, <1>8, <2>1, <2>2, Zenon
<1>11. \A q, r \in new : q.id = r.id => q = r
  <2>1. \A q, r \in packets : q = r
    BY Zenon
  <2>2. \A q \in packets : q.id < notice.id
    BY <1>2, <1>6, <1>7, Zenon
  <2>3. \A q \in packets : q.id # notice.id
    BY <1>2, <1>4, <1>6, <1>7
  <2> HIDE DEF tells, notice, x
  <2> QED
    BY <1>8, <2>1, <2>3, Zenon
<1>12. log' \in Seq(Stages) /\ SubSeq(log', Len(log') - 1, Len(log')) = <<"broken", "stopped">>
  BY <1>1, <1>4, LastEvents, Zenon
<1> HIDE DEF tells, notice, x
<1>13. StateOK'
  <2>1. read' \in [count : Ids, id : Ids, parts : Seq(Seq(Nat)), first : {None, "EAP", "IDr"}]
    BY Zenon DEF ReadOK
  <2>2. 0 \in 0 .. MaxRetries /\ asks \in BOOLEAN
    BY ConstantFacts DEF IInv, StateOK
  <2> QED
    BY <1>1, <1>3, <1>4, <1>12, <2>1, <2>2, Zenon DEF StateOK
<1>14. NetworkOK'
  <2>1. sent' \subseteq Request
    BY <1>4, <1>8, <1>10, Zenon
  <2>2. \A q \in sent' : q.id = 0 => q.attempt \in 1 .. MaxSAInitAttempts
    BY <1>4, <1>8, <1>10 DEF NetworkOK
  <2> QED
    BY <1>1, <1>4, <2>1, <2>2, Zenon DEF NetworkOK
<1>15. NumbersOK'
  <2>1. \A q \in sent' : q.id > 0 => q.id < st'.next
    <3>1. \A q \in sent : q.id > 0 => q.id < st.next
      BY Zenon DEF IInv, NumbersOK
    <3>2. \A q \in sent : q.id > 0 => q.id < x
      BY <1>2, <1>4, <1>9, <3>1
    <3> QED
      BY <1>3, <1>8, <1>10, <3>2, Zenon
  <2>2. Len(reply) = 0 \/ Len(reply) < x
    <3>1. Len(reply) = 0 \/ Len(reply) < st.next
      BY Zenon DEF IInv, NumbersOK
    <3> QED
      BY <1>2, <1>4, <1>9, <3>1
  <2> QED
    BY <1>1, <1>3, <2>1, <2>2, Zenon DEF NumbersOK, Early, Waits
<1>16. RoundsOK' /\ PhaseOK' /\ KeysOK' /\ AnswersOK' /\ PiecesOK'
  BY <1>1, <1>3, Zenon DEF RoundsOK, PhaseOK, KeysOK, AnswersOK, PiecesOK, Early, Waits, Talking
<1>17. NoticeOK'
  <2>1. ASSUME NEW q \in sent', q.what = "failed"
        PROVE  tells
    <3>1. q \notin sent
      BY <2>1, Zenon DEF IInv, NoticeOK
    <3> QED
      BY <1>8, <1>10, <2>1, <3>1, Zenon
  <2>2. tells => read'.count = 0 \/ reply[read'.count].kind # "authFailed"
    BY Zenon DEF tells
  <2> QED
    BY <1>1, <1>3, <2>1, <2>2, Zenon DEF NoticeOK
<1>18. WipedOK'
  BY <1>1, <1>3, <1>12, Zenon DEF WipedOK
<1>19. ReadOK(read)'
  BY <1>1, Zenon DEF ReadOK
<1>20. IdsUsedOnce'
  BY <1>8, <1>10, <1>11, FreshIds, Zenon
<1> QED
  BY <1>13, <1>14, <1>15, <1>16, <1>17, <1>18, <1>19, <1>20, Zenon DEF IInv-----------------------------------------------------------------------------
(* The responder and the network. *)

\* More answers of the responder disturb nothing the initiator holds.
LEMMA ServerInv ==
  ASSUME IInv, UNCHANGED clientVars, UNCHANGED sent, answers' \subseteq InitAnswer,
         at = "idle" => answers' = answers, asks' \in BOOLEAN,
         reply' \in Seq(Reply), Len(reply') >= Len(reply),
         \A i \in 1 .. Len(reply) : reply'[i] = reply[i],
         Len(reply') = 0 \/ Len(reply') < st.next,
         st.keys # NoKeys /\ reply' # <<>> => st.keys[1] = st.keys[2],
         at = "over" /\ st.phase = "running" => reply' = reply
  PROVE  IInv'
<1>1. /\ st' = st /\ at' = at /\ retries' = retries /\ round' = round /\ packet' = packet
      /\ router' = router /\ log' = log /\ read' = read /\ sent' = sent
  BY Zenon DEF clientVars
<1>2. /\ st \in State /\ NetworkOK /\ ReadOK(read) /\ read.count \in Nat /\ Len(reply) \in Nat
      /\ read.count <= Len(reply) /\ Len(reply') \in Nat
  BY Typed
<1>3. StateOK' /\ NetworkOK'
  BY <1>1 DEF IInv, StateOK, NetworkOK
<1>4. NumbersOK' /\ RoundsOK' /\ PhaseOK' /\ KeysOK' /\ WipedOK'
  <2>1. NumbersOK'
    BY <1>1, Zenon DEF IInv, NumbersOK
  <2>2. RoundsOK'
    BY <1>1, Zenon DEF IInv, RoundsOK
  <2>3. PhaseOK'
    BY <1>1, Zenon DEF IInv, PhaseOK
  <2>4. KeysOK'
    BY <1>1, Zenon DEF IInv, KeysOK
  <2>5. WipedOK'
    BY <1>1, Zenon DEF IInv, WipedOK
  <2> QED
    BY <2>1, <2>2, <2>3, <2>4, <2>5, Zenon
<1>5. read.count > 0 => reply'[read.count] = reply[read.count]
  <2>1. read.count > 0 => read.count \in 1 .. Len(reply)
    BY <1>2
  <2> QED
    BY <2>1, Zenon
<1>6. AnswersOK' /\ NoticeOK'
  <2>1. AnswersOK'
    BY <1>1, <1>5, Zenon DEF IInv, AnswersOK
  <2>2. NoticeOK'
    BY <1>1, <1>2, <1>5 DEF IInv, NoticeOK
  <2> QED
    BY <2>1, <2>2, Zenon
<1>7. PiecesOK'
  <2>1. ASSUME st.frags # NoBuffer
        PROVE  PieceOf(read.count + 1, st.frags)'
    <3>1. PICK i : i = read.count + 1
      BY Zenon
    <3>2. PieceOf(i, st.frags) /\ i \in 1 .. Len(reply)
      BY <2>1, <3>1, Zenon DEF IInv, PiecesOK, PieceOf
    <3>3. reply'[i] = reply[i] /\ i \in 1 .. Len(reply')
      BY <1>2, <3>2
    <3>4. read'.count + 1 = i /\ st'.frags = st.frags
      BY <1>1, <3>1, Zenon
    <3> QED
      BY <3>2, <3>3, <3>4, Zenon DEF PieceOf
  <2> QED
    BY <1>1, <2>1, Zenon DEF IInv, PiecesOK
<1>8. ReadOK(read)'
  <2>1. read'.count <= Len(reply')
    BY <1>1, <1>2
  <2>2. read.count > 0 => Whole(read.parts, read.count) /\ read.first = First(reply'[read.count].kind)
    BY <1>2, <1>5, Zenon DEF ReadOK
  <2> QED
    BY <1>1, <1>2, <2>1, <2>2, Zenon DEF ReadOK
<1>9. IdsUsedOnce'
  BY <1>1, Zenon DEF IInv, IdsUsedOnce
<1> QED
  BY <1>3, <1>4, <1>6, <1>7, <1>8, <1>9, Zenon DEF IInv

LEMMA StutterInv ==
  ASSUME IInv, UNCHANGED <<clientVars, sent, answers, reply>>, asks' \in BOOLEAN
  PROVE  IInv'
<1>1. NetworkOK /\ (Len(reply) = 0 \/ Len(reply) < st.next) /\ Len(reply) \in Nat
  BY Typed, Zenon DEF IInv, NumbersOK
<1>2. st.keys # NoKeys /\ reply # <<>> => st.keys[1] = st.keys[2]
  BY Zenon DEF IInv, KeysOK
<1> QED
  BY <1>1, <1>2, ServerInv DEF NetworkOK

LEMMA AnswerSAInitInv ==
  ASSUME IInv, AnswerSAInit
  PROVE  IInv'
<1>1. NetworkOK /\ (Len(reply) = 0 \/ Len(reply) < st.next) /\ Len(reply) \in Nat /\ asks \in BOOLEAN
  BY Typed, Zenon DEF IInv, NumbersOK, StateOK
<1>2. st.keys # NoKeys /\ reply # <<>> => st.keys[1] = st.keys[2]
  BY Zenon DEF IInv, KeysOK
<1>3. PICK r \in sent, kind \in InitKinds, spi \in 0 .. 2 :
        /\ r.id = 0
        /\ answers' = answers \cup {[kind |-> kind, sa |-> r.attempt, spi |-> spi, id |-> 0, resp |-> TRUE]}
  BY Zenon DEF AnswerSAInit
<1>4. r.attempt \in 1 .. MaxSAInitAttempts
  BY <1>1, <1>3, Zenon DEF NetworkOK
<1>5. [kind |-> kind, sa |-> r.attempt, spi |-> spi, id |-> 0, resp |-> TRUE] \in InitAnswer
  BY <1>4, Zenon DEF InitAnswer
<1>6. answers' \subseteq InitAnswer
  BY <1>1, <1>3, <1>5, Zenon DEF NetworkOK
<1>7. at = "saInit" /\ UNCHANGED <<clientVars, sent, reply, asks>>
  BY Zenon DEF AnswerSAInit
<1> QED
  BY <1>1, <1>2, <1>6, <1>7, ServerInv DEF NetworkOK

LEMMA AnswerProtectedInv ==
  ASSUME IInv, AnswerProtected
  PROVE  IInv'
<1>1. PICK r \in sent, kind \in AuthKinds \cup FinalKinds \cup {"deleted"} :
        /\ r.id = Len(reply) + 1
        /\ \E p \in answers : r.keys = <<p.sa, p.sa>>
        /\ reply' = Append(reply, [kind |-> kind, sa |-> r.keys[2]])
  BY Zenon DEF AnswerProtected
<1>2. PICK p \in answers : r.keys = <<p.sa, p.sa>>
  BY <1>1, Zenon
<1>3. NetworkOK /\ Len(reply) \in Nat /\ asks \in BOOLEAN /\ st.next \in Nat /\ read.count \in Nat
  BY Typed, Zenon DEF IInv, StateOK
<1>4. UNCHANGED <<clientVars, sent, answers, asks>>
  BY Zenon DEF AnswerProtected
<1>5. r.keys[1] = r.keys[2] /\ r.keys[2] \in Nat
  <2>1. p.sa \in Nat
    <3>1. p \in InitAnswer
      BY <1>2, <1>3, Zenon DEF NetworkOK
    <3>2. p.sa \in 1 .. MaxSAInitAttempts
      BY <3>1, Zenon DEF InitAnswer
    <3> QED
      BY <3>2, ConstantFacts
  <2> QED
    BY <1>2, <2>1
<1> DEFINE a == [kind |-> kind, sa |-> r.keys[2]]
<1>6. a \in Reply /\ reply \in Seq(Reply)
  BY <1>3, <1>5, Zenon DEF Reply, NetworkOK
<1> HIDE DEF a
<1>7. /\ reply' \in Seq(Reply) /\ Len(reply') = Len(reply) + 1
      /\ \A i \in 1 .. Len(reply) : reply'[i] = reply[i]
  BY <1>1, <1>6 DEF a
<1>8. r.id > 0 /\ r.id < st.next
  BY <1>1, <1>3 DEF IInv, NumbersOK
<1>9. Len(reply') < st.next /\ Len(reply') >= Len(reply)
  BY <1>1, <1>3, <1>7, <1>8
<1>10. st.keys # NoKeys => st.keys[1] = st.keys[2]
  BY <1>5, <1>8, Zenon DEF IInv, KeysOK
<1>11. ~(at = "over" /\ st.phase = "running")
  <2>1. at = "over" /\ st.phase = "running" => st.next = read.count + 1
    BY Zenon DEF IInv, NumbersOK
  <2>2. read.count <= Len(reply)
    BY Typed, Zenon
  <2> QED
    BY <1>3, <1>7, <1>9, <2>1, <2>2
<1>12. answers' \subseteq InitAnswer
  BY <1>3, <1>4, Zenon DEF NetworkOK
<1> QED
  BY <1>3, <1>4, <1>7, <1>9, <1>10, <1>11, <1>12, ServerInv, Zenon

LEMMA ResponderAsksInv ==
  ASSUME IInv, ResponderAsks
  PROVE  IInv'
BY StutterInv, Zenon DEF ResponderAsks-----------------------------------------------------------------------------
(* Requests. *)

\* A request under the keys of the IKE SA and the next message ID.
LEMMA SendOK ==
  ASSUME IInv, NEW s \in State, s.keys = st.keys, s.next = st.next, st.next > 0, st.next + 1 \in Ids,
         NEW what \in {"bootstrap", "eap", "final", "child", "ike"}, Send(s, what),
         answers' = answers, reply' = reply
  PROVE  /\ NetworkOK' /\ IdsUsedOnce' /\ KeysOK'
         /\ \A q \in sent' : q.id > 0 => q.id < st'.next
         /\ Len(reply') = 0 \/ Len(reply') < st'.next
         /\ (\E q \in sent' : q.what = "failed") => (\E q \in sent : q.what = "failed")
         /\ st' = BeginRequest(s) /\ st' \in State /\ st'.next = st.next + 1 /\ st'.expected = st.next
         /\ st'.out = st'.expected
<1>1. st' = BeginRequest(s) /\ sent' = sent \cup {Protected(s, s.next, what)}
  BY Zenon DEF Send
<1>2. /\ st' \in State /\ st'.next = st.next + 1 /\ st'.expected = st.next /\ st'.out = st'.expected
      /\ st'.keys = st.keys
  BY <1>1, BeginRequestFields, ZenonT(60)
<1>3. NetworkOK /\ st.next \in Nat /\ Len(reply) \in Nat /\ \A q \in sent : q \in Request /\ q.id \in Nat
  BY Typed, Zenon
<1>4. PICK r : r = Protected(s, s.next, what)
  BY Zenon
<1>5. r \in Request /\ r.id = st.next /\ r.what = what /\ r.keys = st.keys
  BY <1>3, <1>4, ProtectedFields
<1>6. sent' = sent \cup {r}
  BY <1>1, <1>4, Zenon
<1>7. NetworkOK'
  <2>1. sent' \subseteq Request /\ \A q \in sent' : q.id = 0 => q.attempt \in 1 .. MaxSAInitAttempts
    BY <1>3, <1>5, <1>6 DEF NetworkOK
  <2> QED
    BY <1>3, <2>1, Zenon DEF NetworkOK
<1>8. IdsUsedOnce'
  <2>1. PICK new : new = {r}
    BY Zenon
  <2>2. \A q \in new : q \in Request /\ q.id > 0 /\ q.id >= st.next
    BY <1>3, <1>5, <2>1
  <2>3. sent' = sent \cup new /\ \A q, o \in new : q.id = o.id => q = o
    BY <1>6, <2>1, Zenon
  <2> QED
    BY <2>2, <2>3, FreshIds, Zenon
<1>9. KeysOK'
  BY <1>2, <1>5, <1>6, Zenon DEF IInv, KeysOK
<1>10. \A q \in sent' : q.id > 0 => q.id < st'.next
  <2>1. \A q \in sent : q.id > 0 => q.id < st.next
    BY Zenon DEF IInv, NumbersOK
  <2>2. \A q \in sent : q.id > 0 => q.id < st.next + 1
    BY <1>3, <2>1
  <2>3. st.next < st.next + 1
    BY <1>3
  <2> QED
    BY <1>2, <1>5, <1>6, <2>2, <2>3, Zenon
<1>11. Len(reply') = 0 \/ Len(reply') < st'.next
  <2>1. Len(reply) = 0 \/ Len(reply) < st.next
    BY Zenon DEF IInv, NumbersOK
  <2> QED
    BY <1>2, <1>3, <2>1
<1>12. (\E q \in sent' : q.what = "failed") => (\E q \in sent : q.what = "failed")
  BY <1>5, <1>6, Zenon
<1> QED
  BY <1>1, <1>2, <1>7, <1>8, <1>9, <1>10, <1>11, <1>12, Zenon

\* Nothing has told the responder of a failure while the handshake goes on.
LEMMA NoNotice ==
  ASSUME IInv, at # "over" \/ st.phase = "running"
  PROVE  ~\E q \in sent : q.what = "failed"
BY Zenon DEF IInv, NoticeOK

\* A request of IKE_SA_INIT, which starts from a state that waits for nothing.
LEMMA SendSAInitInv ==
  ASSUME IInv, at \in Early, NEW s \in State, s.keys = NoKeys, s.next = 0, s.expected = 0, s.has = TRUE,
         s.frags = NoBuffer, s.attempt + 1 <= MaxSAInitAttempts, SendSAInit(s), router' = TRUE,
         log' \in Seq(Stages), UNCHANGED <<round, packet, read, serverVars>>
  PROVE  IInv'
<1>1. /\ st' = SAInitRequest(s) /\ retries' = 0 /\ at' = "saInit"
      /\ round' = round /\ packet' = packet /\ read' = read
      /\ answers' = answers /\ reply' = reply /\ asks' = asks
  BY Zenon DEF SendSAInit, serverVars
<1>2. PICK r : r = [id |-> 0, what |-> "init", keys |-> NoKeys, attempt |-> s.attempt + 1, cookie |-> s.cookie]
  BY Zenon
<1>3. sent' = sent \cup {r}
  BY <1>2, Zenon DEF SendSAInit
<1>4. /\ st' \in State /\ st'.attempt = s.attempt + 1 /\ st'.ke = st'.attempt /\ st'.request = st'.attempt
      /\ st'.phase = "saInitSent" /\ st'.out = 0 /\ st'.keys = NoKeys /\ st'.next = 0
      /\ st'.expected = 0 /\ st'.has = TRUE /\ st'.frags = NoBuffer
  BY <1>1, SAInitRequestFields, Zenon
<1>5. s.attempt + 1 \in 1 .. MaxSAInitAttempts /\ s.attempt + 1 \in Nat /\ s.cookie \in BOOLEAN
  BY FieldTypes, ConstantFacts
<1>6. r \in Request /\ r.id = 0 /\ r.attempt \in 1 .. MaxSAInitAttempts /\ r.what = "init"
  BY <1>2, <1>5 DEF Request, NoKeys
<1>7. NetworkOK /\ ReadOK(read) /\ Len(reply) \in Nat /\ st.next = 0 /\ read.count = 0 /\ round = 0
  BY Typed, Zenon DEF IInv, NumbersOK
<1>8. StateOK'
  <2>1. 0 \in 0 .. MaxRetries
    BY ConstantFacts
  <2> QED
    BY <1>1, <1>4, <2>1, Zenon DEF IInv, StateOK
<1>9. NetworkOK'
  BY <1>1, <1>3, <1>6, <1>7, Zenon DEF NetworkOK
<1>10. NumbersOK'
  <2>1. \A q \in sent' : q.id > 0 => q.id < st'.next
    BY <1>3, <1>4, <1>6, <1>7, Zenon DEF IInv, NumbersOK
  <2>2. Len(reply') = 0 \/ Len(reply') < st'.next
    BY <1>1, <1>4, <1>7, Zenon DEF IInv, NumbersOK
  <2> QED
    BY <1>1, <1>4, <1>7, <2>1, <2>2, Zenon DEF NumbersOK, Early, Waits
<1>11. RoundsOK' /\ KeysOK' /\ PiecesOK' /\ WipedOK'
  BY <1>1, <1>4, Zenon DEF RoundsOK, KeysOK, PiecesOK, WipedOK, Early
<1>12. PhaseOK'
  BY <1>1, <1>4, Zenon DEF PhaseOK, Early
<1>13. AnswersOK'
  BY <1>1, Zenon DEF AnswersOK, Talking
<1>14. NoticeOK'
  <2>1. ~\E q \in sent : q.what = "failed"
    BY NoNotice, Zenon DEF Early
  <2> QED
    BY <1>3, <1>6, <2>1, Zenon DEF NoticeOK
<1>15. ReadOK(read)'
  BY <1>1, <1>7, Zenon DEF ReadOK
<1>16. IdsUsedOnce'
  <2>1. \A q \in sent' : q.id > 0 => q \in sent
    BY <1>3, <1>6
  <2> QED
    BY <2>1, Zenon DEF IInv, IdsUsedOnce
<1> QED
  BY <1>8, <1>9, <1>10, <1>11, <1>12, <1>13, <1>14, <1>15, <1>16, Zenon DEF IInv

LEMMA RunInv ==
  ASSUME IInv, Run
  PROVE  IInv'
<1> DEFINE s == [NoState EXCEPT !.has = TRUE]
<1>1. s \in State /\ s.keys = NoKeys /\ s.next = 0 /\ s.expected = 0 /\ s.has = TRUE /\ s.frags = NoBuffer
      /\ s.attempt = 0
  <2>1. NoState \in State
    BY NoStateFields, Zenon
  <2>2. s \in State
    BY <2>1, Zenon DEF State
  <2> QED
    BY <2>2, Zenon DEF NoState
<1>2. s.attempt + 1 <= MaxSAInitAttempts
  BY <1>1, ConstantFacts
<1>3. at = "idle" /\ SendSAInit(s) /\ router' = TRUE /\ log' = <<"init">> /\ UNCHANGED <<round, packet, read, serverVars>>
  BY Zenon DEF Run
<1>4. log' \in Seq(Stages)
  BY <1>3 DEF Stages
<1> HIDE DEF s
<1> QED
  BY <1>1, <1>2, <1>3, <1>4, SendSAInitInv, Zenon DEF Early
\* fail in a wait for IKE_SA_INIT.
LEMMA SAInitFails ==
  ASSUME IInv, at = "saInit", NEW s \in State, s.keys = NoKeys, s.next = 0, Fails(s), read' = read
  PROVE  IInv'
<1>1. st.keys = NoKeys /\ st.next = 0 /\ ReadOK(read') /\ read'.count = 0
  BY Typed, Zenon DEF IInv, PhaseOK, NumbersOK, Early
<1>2. 0 + 1 \in Ids /\ <<>> \in Seq(Stages)
  BY ConstantFacts
<1>3. Fail(s, {}, <<>>)
  BY Zenon DEF Fails
<1> QED
  BY <1>1, <1>2, <1>3, FailInv, Zenon

\* What RetrySAInit, RejectedSAInit and SAInitEstablished find.
LEMMA SAInitWait ==
  ASSUME IInv, at = "saInit", NEW p \in answers
  PROVE  /\ p \in InitAnswer /\ st \in State /\ st.keys = NoKeys /\ st.next = 0 /\ st.expected = 0 /\ st.has
         /\ st.ke = st.attempt /\ st.request = st.attempt /\ st.frags = NoBuffer /\ router = TRUE
         /\ Len(reply) = 0 /\ read.count = 0 /\ round = 0 /\ log \in Seq(Stages)
         /\ \A q \in sent : q \in Request /\ q.id = 0
<1>1. /\ st \in State /\ NetworkOK /\ Len(reply) \in Nat /\ log \in Seq(Stages)
      /\ \A q \in sent : q \in Request /\ q.id \in Nat
  BY Typed, Zenon
<1>2. /\ st.keys = NoKeys /\ st.next = 0 /\ st.expected = 0 /\ st.has /\ st.ke = st.attempt
      /\ st.request = st.attempt /\ router /\ read.count = 0 /\ round = 0
  BY Zenon DEF IInv, PhaseOK, NumbersOK, Early
<1>3. router = TRUE
  BY <1>2, Zenon DEF IInv, StateOK
<1>4. st.frags = NoBuffer
  BY Zenon DEF IInv, PiecesOK, Waits
<1>5. Len(reply) = 0 /\ \A q \in sent : q.id = 0
  BY <1>1, <1>2 DEF IInv, NumbersOK
<1> QED
  BY <1>1, <1>2, <1>3, <1>4, <1>5, Zenon DEF NetworkOK

LEMMA RetrySAInitInv ==
  ASSUME IInv, RetrySAInit
  PROVE  IInv'
<1>1. at = "saInit" /\ read' = read
  BY Zenon DEF RetrySAInit
<1>2. PICK p \in answers :
        LET s == [Accepted(p) EXCEPT !.cookie = p.kind = "cookie"]
        IN \/ /\ s.attempt < MaxSAInitAttempts
              /\ SendSAInit(s) /\ UNCHANGED <<round, packet, router, log, serverVars>>
           \/ s.attempt >= MaxSAInitAttempts /\ Fails(s)
  BY Zenon DEF RetrySAInit
<1> DEFINE s == [Accepted(p) EXCEPT !.cookie = p.kind = "cookie"]
<1>3. /\ p \in InitAnswer /\ st \in State /\ st.keys = NoKeys /\ st.next = 0 /\ st.expected = 0 /\ st.has
      /\ st.frags = NoBuffer /\ router = TRUE /\ log \in Seq(Stages)
  BY <1>1, <1>2, SAInitWait, Zenon
<1>4. /\ Accepted(p) \in State /\ Accepted(p).keys = NoKeys /\ Accepted(p).next = 0
      /\ Accepted(p).expected = 0 /\ Accepted(p).has = st.has /\ Accepted(p).frags = NoBuffer
  BY <1>3, AcceptedFields, Zenon
<1>5. PICK b : b = (p.kind = "cookie") /\ b \in BOOLEAN
  BY Zenon
<1>6. s = [Accepted(p) EXCEPT !.cookie = b]
  BY <1>5, Zenon
<1>7. s \in State /\ s.keys = NoKeys /\ s.next = 0 /\ s.expected = 0 /\ s.has = st.has /\ s.frags = NoBuffer
  <2>1. \A x \in State : [x EXCEPT !.cookie = b] \in State
    <3>1. \A x \in State : [x EXCEPT !.cookie = TRUE] \in State /\ [x EXCEPT !.cookie = FALSE] \in State
      BY ZenonT(60) DEF State
    <3> QED
      BY <1>5, <3>1, Zenon
  <2>2. \A x \in State :
          /\ [x EXCEPT !.cookie = b].keys = x.keys /\ [x EXCEPT !.cookie = b].next = x.next
          /\ [x EXCEPT !.cookie = b].expected = x.expected /\ [x EXCEPT !.cookie = b].has = x.has
          /\ [x EXCEPT !.cookie = b].frags = x.frags
    BY Zenon DEF State
  <2> HIDE DEF s
  <2> QED
    BY <1>4, <1>6, <2>1, <2>2, Zenon
<1>8. s.has = TRUE /\ s.attempt \in Nat
  <2>1. st.has \in BOOLEAN /\ s.attempt \in 0 .. MaxSAInitAttempts
    BY <1>3, <1>7, FieldTypes, Zenon
  <2>2. s.attempt \in Nat
    BY <2>1, ConstantFacts
  <2>3. s.has = TRUE
    BY <1>3, <1>7, <2>1, Zenon
  <2> QED
    BY <2>2, <2>3, Zenon
<1> HIDE DEF s
<1>9. CASE s.attempt < MaxSAInitAttempts /\ SendSAInit(s) /\ UNCHANGED <<round, packet, router, log, serverVars>>
  <2>1. s.attempt + 1 <= MaxSAInitAttempts
    BY <1>8, <1>9, ConstantFacts
  <2>2. at \in Early /\ router' = TRUE /\ log' \in Seq(Stages)
    BY <1>1, <1>3, <1>9, Zenon DEF Early
  <2> QED
    BY <1>1, <1>7, <1>8, <1>9, <2>1, <2>2, SendSAInitInv, Zenon
<1>10. CASE Fails(s)
  BY <1>1, <1>7, <1>10, SAInitFails, Zenon
<1> QED
  BY <1>2, <1>9, <1>10, Zenon DEF s

LEMMA RejectedSAInitInv ==
  ASSUME IInv, RejectedSAInit
  PROVE  IInv'
<1>1. at = "saInit" /\ read' = read
  BY Zenon DEF RejectedSAInit
<1>2. PICK p \in answers : Fails(Accepted(p))
  BY Zenon DEF RejectedSAInit
<1>3. p \in InitAnswer /\ st \in State /\ st.keys = NoKeys /\ st.next = 0
  BY <1>1, <1>2, SAInitWait, Zenon
<1>4. Accepted(p) \in State /\ Accepted(p).keys = NoKeys /\ Accepted(p).next = 0
  BY <1>3, AcceptedFields, Zenon
<1> QED
  BY <1>1, <1>2, <1>4, SAInitFails, Zenon
\* What the keys leave of a State.
LEMMA EstablishedFields ==
  ASSUME NEW s \in State, NEW k \in Seq(Nat)
  PROVE  LET t == [s EXCEPT !.cookie = FALSE, !.keys = k, !.ke = 0, !.next = 1, !.neg = TRUE,
                            !.phase = "authEAP"]
         IN /\ t \in State /\ t.keys = k /\ t.ke = 0 /\ t.next = 1 /\ t.phase = "authEAP"
            /\ t.request = s.request /\ t.response = s.response /\ t.frags = s.frags
<1> DEFINE t == [s EXCEPT !.cookie = FALSE, !.keys = k, !.ke = 0, !.next = 1, !.neg = TRUE, !.phase = "authEAP"]
<1>1. "authEAP" \in Phases
  BY Zenon DEF Phases
<1>2. 1 \in Ids /\ 0 \in 0 .. MaxSAInitAttempts
  BY ConstantFacts
<1>3. t \in State
  BY <1>1, <1>2, ZenonT(60) DEF State
<1>4. /\ t.keys = k /\ t.ke = 0 /\ t.next = 1 /\ t.phase = "authEAP"
      /\ t.request = s.request /\ t.response = s.response /\ t.frags = s.frags
  BY Zenon DEF State
<1> QED
  BY <1>3, <1>4, Zenon

LEMMA SAInitEstablishedInv ==
  ASSUME IInv, SAInitEstablished
  PROVE  IInv'
<1>1. PICK p \in answers :
        /\ Send([Accepted(p) EXCEPT !.cookie = FALSE, !.keys = <<st.ke, p.sa>>, !.ke = 0,
                                    !.next = 1, !.neg = TRUE, !.phase = "authEAP"], "bootstrap")
        /\ answers' = {p}
  BY Zenon DEF SAInitEstablished
<1>2. /\ at = "saInit" /\ at' = "start" /\ log' = log \o <<"ike", "auth", "eap">>
      /\ round' = round /\ packet' = packet /\ router' = router /\ read' = read
      /\ reply' = reply /\ asks' = asks
  BY Zenon DEF SAInitEstablished
<1>3. PICK k : k = <<st.ke, p.sa>>
  BY Zenon
<1> DEFINE s == [Accepted(p) EXCEPT !.cookie = FALSE, !.keys = k, !.ke = 0, !.next = 1, !.neg = TRUE,
                                    !.phase = "authEAP"]
<1>4. /\ p \in InitAnswer /\ st \in State /\ st.keys = NoKeys
      /\ st.ke = st.attempt /\ st.request = st.attempt /\ st.frags = NoBuffer /\ router = TRUE
      /\ Len(reply) = 0 /\ read.count = 0 /\ round = 0 /\ log \in Seq(Stages)
      /\ \A q \in sent : q \in Request /\ q.id = 0
  BY <1>1, <1>2, SAInitWait, Zenon
<1>5. k \in Seq(Nat) /\ k # NoKeys /\ p.sa \in Nat /\ st.ke \in Nat
  <2>1. p.sa \in 1 .. MaxSAInitAttempts /\ st.ke \in 0 .. MaxSAInitAttempts
    BY <1>4, FieldTypes, Zenon DEF InitAnswer
  <2>2. p.sa \in Nat /\ st.ke \in Nat
    BY <2>1, ConstantFacts
  <2> QED
    BY <1>3, <2>2 DEF NoKeys
<1>6. /\ Accepted(p) \in State /\ Accepted(p).response = p.sa /\ Accepted(p).request = st.request
      /\ Accepted(p).frags = NoBuffer
  BY <1>4, AcceptedFields, Zenon
<1>7. /\ s \in State /\ s.keys = k /\ s.ke = 0 /\ s.next = 1 /\ s.phase = "authEAP"
      /\ s.request = st.request /\ s.response = p.sa /\ s.frags = NoBuffer
  <2>1. \A x \in State :
          LET t == [x EXCEPT !.cookie = FALSE, !.keys = k, !.ke = 0, !.next = 1, !.neg = TRUE,
                             !.phase = "authEAP"]
          IN /\ t \in State /\ t.keys = k /\ t.ke = 0 /\ t.next = 1 /\ t.phase = "authEAP"
             /\ t.request = x.request /\ t.response = x.response /\ t.frags = x.frags
    BY <1>5, EstablishedFields, Zenon
  <2> QED
    BY <1>6, <2>1, Zenon
<1>8. Send(s, "bootstrap")
  BY <1>1, <1>3, Zenon
<1> HIDE DEF s
<1>9. PICK r : r = Protected(s, 1, "bootstrap")
  BY Zenon
<1>10. st' = BeginRequest(s) /\ sent' = sent \cup {r} /\ retries' = 0
  BY <1>7, <1>8, <1>9, Zenon DEF Send
<1>11. r \in Request /\ r.id = 1 /\ r.what = "bootstrap" /\ r.keys = k
  BY <1>7, <1>9, ProtectedFields
<1>12. /\ st' \in State /\ st'.expected = 1 /\ st'.has = TRUE /\ st'.out = 1 /\ st'.next = 2
       /\ st'.phase = "authEAP" /\ st'.keys = k /\ st'.ke = 0 /\ st'.request = st.request
       /\ st'.response = p.sa /\ st'.frags = NoBuffer
  <2>1. s.next + 1 \in Ids /\ s.next + 1 = 2
    BY <1>7, ConstantFacts
  <2> QED
    BY <1>7, <1>10, <2>1, BeginRequestFields, Zenon
<1>13. StateOK'
  <2>1. log' \in Seq(Stages)
    BY <1>2, <1>4 DEF Stages
  <2>2. 0 \in 0 .. MaxRetries
    BY ConstantFacts
  <2> QED
    BY <1>2, <1>10, <1>12, <2>1, <2>2, Zenon DEF IInv, StateOK
<1>14. NetworkOK'
  BY <1>1, <1>2, <1>4, <1>10, <1>11 DEF IInv, NetworkOK
<1>15. NumbersOK'
  BY <1>2, <1>4, <1>10, <1>11, <1>12 DEF NumbersOK, Early, Waits
<1>16. RoundsOK'
  BY <1>2, <1>4, <1>12, ConstantFacts DEF RoundsOK
<1>17. PhaseOK'
  <2>1. st'.keys = <<st'.request, st'.response>>
    BY <1>3, <1>4, <1>12, Zenon
  <2> QED
    BY <1>2, <1>4, <1>12, <2>1, Zenon DEF PhaseOK, Early
<1>18. KeysOK'
  <2>1. reply' = <<>>
    BY <1>2, <1>4 DEF IInv, NetworkOK
  <2>2. \A q \in sent' : q.id > 0 => q.keys = st'.keys
    BY <1>4, <1>10, <1>11, <1>12
  <2> QED
    BY <2>1, <2>2, Zenon DEF KeysOK
<1>19. AnswersOK' /\ PiecesOK' /\ WipedOK'
  BY <1>2, <1>4, <1>12 DEF AnswersOK, PiecesOK, WipedOK, Talking
<1>20. NoticeOK'
  <2>1. ~\E q \in sent : q.what = "failed"
    BY <1>2, NoNotice, Zenon
  <2> QED
    BY <1>10, <1>11, <2>1, Zenon DEF NoticeOK
<1>21. ReadOK(read)'
  BY <1>2, Typed, Zenon DEF ReadOK
<1>22. IdsUsedOnce'
  <2>1. \A q \in sent' : q.id > 0 => q = r
    BY <1>4, <1>10
  <2> QED
    BY <2>1, Zenon DEF IdsUsedOnce
<1> QED
  BY <1>13, <1>14, <1>15, <1>16, <1>17, <1>18, <1>19, <1>20, <1>21, <1>22, Zenon DEF IInv-----------------------------------------------------------------------------
(* Waits: the timer, fragments and the end of a wait. *)

\* A wait goes on with other fragments.
LEMMA WaitGoesOn ==
  ASSUME IInv, at \in {"saInit"} \cup Waits, NEW b \in Buffer,
         b = NoBuffer \/ (at \in Waits /\ PieceOf(read.count + 1, b)),
         st' = [st EXCEPT !.frags = b], retries' \in 0 .. MaxRetries,
         UNCHANGED <<at, round, packet, router, log, sent, read, serverVars>>
  PROVE  IInv'
<1>1. /\ at' = at /\ round' = round /\ packet' = packet /\ router' = router /\ log' = log
      /\ sent' = sent /\ read' = read /\ answers' = answers /\ reply' = reply /\ asks' = asks
  BY Zenon DEF serverVars
<1>2. st \in State
  BY Typed, Zenon
<1>3. st' \in State /\ st'.frags = b
  BY <1>2, Zenon DEF State
<1>4. /\ st'.phase = st.phase /\ st'.attempt = st.attempt /\ st'.ke = st.ke /\ st'.request = st.request
      /\ st'.response = st.response /\ st'.keys = st.keys /\ st'.next = st.next
      /\ st'.expected = st.expected /\ st'.has = st.has /\ st'.out = st.out
      /\ st'.msk = st.msk /\ st'.child = st.child
  BY <1>2, Zenon DEF State
<1>5. StateOK'
  BY <1>1, <1>3, <1>4, Zenon DEF IInv, StateOK
<1>6. NetworkOK' /\ IdsUsedOnce'
  BY <1>1, Zenon DEF IInv, NetworkOK, IdsUsedOnce
<1>7. NumbersOK'
  BY <1>1, <1>4, Zenon DEF IInv, NumbersOK
<1>8. RoundsOK'
  BY <1>1, <1>4, Zenon DEF IInv, RoundsOK
<1>9. at # "idle" /\ at # "over"
  BY Zenon DEF Waits
<1>10. PhaseOK'
  BY <1>1, <1>4, <1>9 DEF IInv, PhaseOK
<1>11. KeysOK' /\ AnswersOK' /\ NoticeOK'
  <2>1. KeysOK'
    BY <1>1, <1>4, Zenon DEF IInv, KeysOK
  <2>2. AnswersOK'
    BY <1>1, <1>4, Zenon DEF IInv, AnswersOK
  <2>3. NoticeOK'
    BY <1>1, <1>4, Zenon DEF IInv, NoticeOK
  <2> QED
    BY <2>1, <2>2, <2>3, Zenon
<1>12. PiecesOK'
  <2>1. PieceOf(read.count + 1, b) => PieceOf(read.count + 1, b)'
    BY <1>1, Zenon DEF PieceOf
  <2> QED
    BY <1>1, <1>3, <2>1, Zenon DEF PiecesOK, PieceOf
<1>13. WipedOK'
  <2>1. at \notin Early => st.phase # "stopped"
    BY <1>9, Zenon DEF IInv, WipedOK, Waits
  <2> QED
    BY <1>1, <1>4, <1>9, <2>1, Zenon DEF WipedOK
<1>14. ReadOK(read)'
  BY <1>1, Typed, Zenon DEF ReadOK
<1> QED
  BY <1>5, <1>6, <1>7, <1>8, <1>10, <1>11, <1>12, <1>13, <1>14, Zenon DEF IInv

\* There is a message ID left for the notify, and more.
LEMMA IdsLeft ==
  ASSUME IInv, at \notin {"idle", "over", "closed"}
  PROVE  st.next \in 0 .. maxEAPRounds + 4 /\ st.next + 1 \in Ids /\ (at = "method" => st.next + 2 \in Ids)
<1>1. st.next \in Nat /\ round \in Nat /\ round <= maxEAPRounds /\ maxEAPRounds \in Nat
  BY Typed, ConstantFacts
<1>2. at \in {"saInit", "start", "method", "recv", "final", "child", "ike"}
  BY Zenon DEF IInv, StateOK, Waits
<1>3. \/ st.next = 0 /\ at = "saInit"
      \/ st.next = round + 2 /\ at \in {"start", "recv", "final"}
      \/ st.next = round + 1 /\ at = "method"
      \/ st.next = round + 3 /\ at = "child"
      \/ st.next = round + 4 /\ at = "ike"
  BY <1>2, Zenon DEF IInv, NumbersOK, RoundsOK, Early
<1>4. PICK x : x = st.next
  BY Zenon
<1>5. x \in 0 .. maxEAPRounds + 4 /\ (at = "method" => x <= maxEAPRounds + 1)
  BY <1>1, <1>3, <1>4
<1>6. x + 1 \in Nat /\ x + 1 <= maxEAPRounds + 5
  BY <1>1, <1>5
<1>7. at = "method" => x + 2 \in Nat /\ x + 2 <= maxEAPRounds + 5
  BY <1>1, <1>5
<1> QED
  BY <1>4, <1>5, <1>6, <1>7, ConstantFacts, Zenon

\* fail from the state as it is.
LEMMA FailsInv ==
  ASSUME IInv, at \in {"saInit"} \cup Talking, Fails(st), read' = read
  PROVE  IInv'
<1>1. at \notin {"idle", "over", "closed"}
  BY Zenon DEF Talking
<1>2. st \in State /\ ReadOK(read') /\ st.next + 1 \in Ids
  BY <1>1, Typed, IdsLeft, Zenon
<1>3. read'.count = 0 \/ reply[read'.count].kind # "authFailed"
  <2>1. CASE at = "saInit"
    BY <2>1, Zenon DEF IInv, NumbersOK, Early
  <2>2. CASE at \in Talking
    <3>1. read.count > 0 => reply[read.count].kind \in {"eap", "success"}
      BY <2>2, Zenon DEF IInv, AnswersOK
    <3> QED
      BY <3>1, Typed
  <2> QED
    BY <2>1, <2>2, Zenon
<1>4. Fail(st, {}, <<>>) /\ <<>> \in Seq(Stages)
  BY DEF Fails
<1> QED
  BY <1>1, <1>2, <1>3, <1>4, FailInv, Zenon

\* An exchange of CloseExchange that fails.
LEMMA CloseFailsInv ==
  ASSUME IInv, at \in {"child", "ike"}, CloseFails
  PROVE  IInv'
<1>1. /\ at' = "closed" /\ retries' = 0 /\ st' = st /\ round' = round /\ packet' = packet
      /\ router' = router /\ log' = log /\ sent' = sent /\ read' = read
      /\ answers' = answers /\ reply' = reply /\ asks' = asks
  BY Zenon DEF CloseFails, serverVars
<1>2. st.phase = "running"
  BY Zenon DEF IInv, PhaseOK
<1>3. StateOK'
  <2>1. 0 \in 0 .. MaxRetries
    BY ConstantFacts
  <2> QED
    BY <1>1, <2>1, Zenon DEF IInv, StateOK
<1>4. NetworkOK' /\ IdsUsedOnce' /\ KeysOK'
  BY <1>1, Zenon DEF IInv, NetworkOK, IdsUsedOnce, KeysOK
<1>5. NumbersOK' /\ RoundsOK'
  BY <1>1, Zenon DEF IInv, NumbersOK, RoundsOK, Early, Waits
<1>6. PhaseOK'
  BY <1>1, <1>2, Zenon DEF IInv, PhaseOK, Early
<1>7. AnswersOK' /\ NoticeOK' /\ WipedOK'
  <2>1. ~\E q \in sent : q.what = "failed"
    BY NoNotice, Zenon
  <2> QED
    BY <1>1, <1>2, <2>1, Zenon DEF AnswersOK, NoticeOK, WipedOK, Talking
<1>8. PiecesOK'
  <2>1. PieceOf(read.count + 1, st.frags) => PieceOf(read.count + 1, st.frags)'
    BY <1>1, Zenon DEF PieceOf
  <2> QED
    BY <1>1, <2>1, Zenon DEF IInv, PiecesOK
<1>9. ReadOK(read)'
  BY <1>1, Typed, Zenon DEF ReadOK
<1> QED
  BY <1>3, <1>4, <1>5, <1>6, <1>7, <1>8, <1>9, Zenon DEF IInv

LEMMA GivesUpInv ==
  ASSUME IInv, at \in {"saInit", "method"} \cup Waits, GivesUp
  PROVE  IInv'
<1>1. CASE at \in {"child", "ike"}
  BY <1>1, CloseFailsInv, Zenon DEF GivesUp
<1>2. CASE at \notin {"child", "ike"}
  <2>1. at \in {"saInit"} \cup Talking
    BY <1>2, Zenon DEF Talking, Waits
  <2> QED
    BY <1>2, <2>1, FailsInv, Zenon DEF GivesUp
<1> QED
  BY <1>1, <1>2, Zenon

LEMMA RetransmitInv ==
  ASSUME IInv, Retransmit
  PROVE  IInv'
<1>1. at \in {"saInit"} \cup Waits
  BY Zenon DEF Retransmit
<1>2. CASE /\ retries < MaxRetries
           /\ retries' = retries + 1 /\ st' = [st EXCEPT !.frags = NoBuffer]
           /\ UNCHANGED <<at, round, packet, router, log, sent, read, serverVars>>
  <2>1. NoBuffer \in Buffer
    BY DEF NoBuffer, Buffer, None
  <2>2. retries \in 0 .. MaxRetries
    BY Zenon DEF IInv, StateOK
  <2>3. retries' \in 0 .. MaxRetries
    BY <1>2, <2>2, ConstantFacts
  <2> QED
    BY <1>1, <1>2, <2>1, <2>3, WaitGoesOn, Zenon
<1>3. CASE GivesUp
  BY <1>1, <1>3, GivesUpInv, Zenon
<1> QED
  BY <1>2, <1>3, Zenon DEF Retransmit

LEMMA IncompleteInv ==
  ASSUME IInv, Incomplete
  PROVE  IInv'
<1>1. at \in Waits /\ retries' = 0 /\ UNCHANGED <<at, round, packet, router, log, sent, read, serverVars>>
  BY Zenon DEF Incomplete
<1>a. PICK p \in Responses : \E expired :
        LET r == OpenProtectedRawState(st.frags, p, expired)
        IN /\ Disposition(p, st.expected) = "expected"
           /\ r.status = "more"
           /\ st' = [st EXCEPT !.frags = r.buf]
  BY DEF Incomplete
<1>2. PICK expired :
        LET r == OpenProtectedRawState(st.frags, p, expired)
        IN /\ Disposition(p, st.expected) = "expected"
           /\ r.status = "more"
           /\ st' = [st EXCEPT !.frags = r.buf]
  BY <1>a, Zenon
<1>3. /\ p.id = st.expected /\ st.expected = read.count + 1 /\ st.expected \in 1 .. Len(reply)
  BY <1>1, <1>a, <1>2, Awaited, Zenon
<1>4. NetworkOK /\ st.frags \in Buffer /\ (st.frags # NoBuffer => PieceOf(st.expected, st.frags))
  BY <1>3, FieldTypes, Zenon DEF IInv, StateOK, PiecesOK
<1> DEFINE r == OpenProtectedRawState(st.frags, p, expired)
<1>5. r.buf \in Buffer /\ PieceOf(st.expected, r.buf)
  <2>1. PICK i : i = st.expected
    BY Zenon
  <2>2. i \in 1 .. Len(reply) /\ p.id = i /\ (st.frags # NoBuffer => PieceOf(i, st.frags)) /\ r.status = "more"
    BY <1>2, <1>3, <1>4, <2>1, Zenon
  <2>3. r.status = "more" => r.buf \in Buffer /\ PieceOf(i, r.buf)
    BY <1>a, <1>2, <1>4, <2>2, OpenOK, Zenon
  <2> QED
    BY <2>1, <2>2, <2>3, Zenon
<1>6. st' = [st EXCEPT !.frags = r.buf]
  BY <1>2, Zenon
<1>7. PICK b : b = r.buf
  BY Zenon
<1>8. 0 \in 0 .. MaxRetries
  BY ConstantFacts
<1> HIDE DEF r
<1> QED
  BY <1>1, <1>3, <1>5, <1>6, <1>7, <1>8, WaitGoesOn, Zenon

LEMMA StartEAPInv ==
  ASSUME IInv, StartEAP
  PROVE  IInv'
<1>1. at = "start" /\ read' = read
  BY Zenon DEF StartEAP
<1>2. CASE at' = "recv" /\ UNCHANGED <<st, retries, round, packet, router, log, sent, serverVars>>
  <2>1. /\ st' = st /\ retries' = retries /\ round' = round /\ packet' = packet /\ router' = router
        /\ log' = log /\ sent' = sent /\ answers' = answers /\ reply' = reply /\ asks' = asks
    BY <1>2, Zenon DEF serverVars
  <2>2. StateOK' /\ NetworkOK' /\ IdsUsedOnce' /\ KeysOK'
    BY <1>1, <1>2, <2>1 DEF IInv, StateOK, NetworkOK, IdsUsedOnce, KeysOK, Waits
  <2>3. NumbersOK' /\ RoundsOK'
    BY <1>1, <1>2, <2>1, Zenon DEF IInv, NumbersOK, RoundsOK, Early, Waits
  <2>4. PhaseOK' /\ WipedOK'
    BY <1>1, <1>2, <2>1 DEF IInv, PhaseOK, WipedOK, Early
  <2>5. AnswersOK' /\ NoticeOK'
    <3>1. ~\E q \in sent : q.what = "failed"
      BY <1>1, NoNotice, Zenon
    <3> QED
      BY <1>1, <1>2, <2>1, <3>1, Zenon DEF IInv, AnswersOK, NoticeOK, Talking
  <2>6. PiecesOK'
    BY <1>1, <2>1, Zenon DEF IInv, PiecesOK, Waits
  <2>7. ReadOK(read)'
    BY <1>1, <2>1, Typed, Zenon DEF ReadOK
  <2> QED
    BY <2>2, <2>3, <2>4, <2>5, <2>6, <2>7, Zenon DEF IInv
<1>3. CASE Fails(st)
  BY <1>1, <1>3, FailsInv, Zenon DEF Talking
<1> QED
  BY <1>2, <1>3, Zenon DEF StartEAP-----------------------------------------------------------------------------
(* IKE_AUTH with EAP. *)

\* fail on the response that has been taken.
LEMMA ResponseFails ==
  ASSUME IInv, at \in {"recv", "final"}, NEW p \in Responses, Completes(p),
         NEW s \in State, s.keys = st.keys, s.next = st.next,
         s.suppress \/ Message(p).kind # "authFailed",
         NEW events \in Seq(Stages), Fail(s, {}, events)
  PROVE  IInv'
<1>1. at \in Waits /\ at \notin {"idle", "over", "closed"}
  BY Zenon DEF Waits
<1>2. ReadOK(read') /\ read'.count = st.expected /\ p.id = st.expected
  BY <1>1, CompletesOK, Zenon
<1>3. s.suppress \/ reply[read'.count].kind # "authFailed"
  BY <1>2, Zenon DEF Message
<1>4. s.next + 1 \in Ids
  BY <1>1, IdsLeft, Zenon
<1> QED
  BY <1>1, <1>2, <1>3, <1>4, FailInv, Zenon

LEMMA AuthResponseInv ==
  ASSUME IInv, AuthResponse
  PROVE  IInv'
<1>1. PICK p \in Responses :
        /\ Completes(p)
        /\ \/ /\ Message(p).kind \in {"eap", "success"}
              /\ st' = Completed /\ packet' = Message(p).kind
              /\ round' = round + 1 /\ at' = "method" /\ retries' = 0
              /\ UNCHANGED <<router, log, sent, serverVars>>
           \/ /\ Message(p).kind \notin {"eap", "success"}
              /\ Fails([Completed EXCEPT !.suppress = Message(p).kind = "authFailed"])
  BY Zenon DEF AuthResponse
<1>2. at = "recv" /\ at \in Waits
  BY Zenon DEF AuthResponse, Waits
<1>3. /\ ReadOK(read') /\ read'.count = st.expected /\ p.id = st.expected /\ st.next = st.expected + 1
  BY <1>1, <1>2, CompletesOK, Zenon
<1>4. st \in State /\ st.next \in Nat /\ st.expected \in Nat /\ round \in Nat /\ NetworkOK
  BY Typed, Zenon
<1>5. /\ Completed \in State /\ Completed.has = FALSE /\ Completed.out = Nil
      /\ Completed.frags = NoBuffer /\ Completed.next = st.next
      /\ Completed.phase = st.phase /\ Completed.keys = st.keys /\ Completed.ke = st.ke
      /\ Completed.request = st.request /\ Completed.response = st.response
      /\ Completed.msk = st.msk /\ Completed.child = st.child
  BY <1>4, CompletedFields, Zenon
<1>6. CASE /\ Message(p).kind \in {"eap", "success"}
           /\ st' = Completed /\ packet' = Message(p).kind
           /\ round' = round + 1 /\ at' = "method" /\ retries' = 0
           /\ UNCHANGED <<router, log, sent, serverVars>>
  <2>1. /\ router' = router /\ log' = log /\ sent' = sent
        /\ answers' = answers /\ reply' = reply /\ asks' = asks
    BY <1>6, Zenon DEF serverVars
  <2>2. round < maxEAPRounds /\ st.next = round + 2 /\ st.phase = "authEAP"
    BY <1>2, Zenon DEF IInv, RoundsOK, PhaseOK
  <2>3. StateOK'
    <3>1. 0 \in 0 .. MaxRetries /\ round + 1 \in 0 .. maxEAPRounds
      BY <1>4, <2>2, ConstantFacts
    <3>2. read' \in [count : Ids, id : Ids, parts : Seq(Seq(Nat)), first : {None, "EAP", "IDr"}]
      BY <1>3, Zenon DEF ReadOK
    <3> QED
      BY <1>5, <1>6, <2>1, <3>1, <3>2, Zenon DEF IInv, StateOK
  <2>4. NetworkOK' /\ IdsUsedOnce'
    BY <2>1, Zenon DEF IInv, NetworkOK, IdsUsedOnce
  <2>5. KeysOK'
    BY <1>5, <1>6, <2>1, Zenon DEF IInv, KeysOK
  <2>6. NumbersOK'
    BY <1>3, <1>5, <1>6, <2>1, Zenon DEF IInv, NumbersOK, Early, Waits
  <2>7. RoundsOK'
    BY <1>4, <1>5, <1>6, <2>2 DEF RoundsOK
  <2>8. PhaseOK' /\ WipedOK'
    BY <1>2, <1>5, <1>6, <2>1, <2>2 DEF IInv, PhaseOK, WipedOK, Early
  <2>9. AnswersOK' /\ NoticeOK'
    <3>1. ~\E q \in sent : q.what = "failed"
      BY <1>2, NoNotice, Zenon
    <3>2. reply'[read'.count].kind \in {"eap", "success"}
      BY <1>3, <1>6, <2>1, Zenon DEF Message
    <3> QED
      BY <1>6, <2>1, <3>1, <3>2, Zenon DEF AnswersOK, NoticeOK
  <2>10. PiecesOK'
    BY <1>5, <1>6, Zenon DEF PiecesOK
  <2>11. ReadOK(read)'
    BY <1>3, <2>1, Zenon DEF ReadOK
  <2> QED
    BY <2>3, <2>4, <2>5, <2>6, <2>7, <2>8, <2>9, <2>10, <2>11, Zenon DEF IInv
<1>7. CASE Fails([Completed EXCEPT !.suppress = Message(p).kind = "authFailed"])
  <2> DEFINE s == [Completed EXCEPT !.suppress = Message(p).kind = "authFailed"]
  <2>1. s \in State /\ (s.suppress \/ Message(p).kind # "authFailed") /\ s.next = st.next /\ s.keys = st.keys
    BY <1>5, SuppressFields
  <2>2. Fail(s, {}, <<>>) /\ <<>> \in Seq(Stages)
    BY <1>7 DEF Fails
  <2> HIDE DEF s
  <2> QED
    BY <1>1, <1>2, <2>1, <2>2, ResponseFails, Zenon
<1> QED
  BY <1>1, <1>6, <1>7, Zenon

LEMMA MethodSendsInv ==
  ASSUME IInv, MethodSends
  PROVE  IInv'
<1>1. at = "method" /\ read' = read
  BY Zenon DEF MethodSends
<1>2. /\ st \in State /\ st.next \in Nat /\ st.next = read.count + 1 /\ st.next = round + 1
      /\ st.phase = "authEAP" /\ st.frags = NoBuffer /\ round \in Nat /\ ReadOK(read) /\ st.next > 0
  BY <1>1, Typed DEF IInv, NumbersOK, RoundsOK, PhaseOK, PiecesOK, Waits
<1>3. st.next + 1 \in Ids /\ st.next + 1 + 1 \in Ids
  <2>1. st.next + 1 \in Ids /\ st.next + 2 \in Ids
    BY <1>1, IdsLeft, Zenon
  <2>2. st.next + 2 = st.next + 1 + 1
    BY <1>2
  <2> QED
    BY <2>1, <2>2, Zenon
<1>4. CASE /\ round < maxEAPRounds
           /\ Send(st, "eap") /\ at' = "recv" /\ packet' = "none"
           /\ UNCHANGED <<round, router, log, serverVars>>
  <2>1. /\ round' = round /\ router' = router /\ log' = log
        /\ answers' = answers /\ reply' = reply /\ asks' = asks /\ retries' = 0
    BY <1>4, Zenon DEF serverVars, Send
  <2>2. /\ NetworkOK' /\ IdsUsedOnce' /\ KeysOK'
        /\ \A q \in sent' : q.id > 0 => q.id < st'.next
        /\ Len(reply') = 0 \/ Len(reply') < st'.next
        /\ (\E q \in sent' : q.what = "failed") => (\E q \in sent : q.what = "failed")
        /\ st' = BeginRequest(st) /\ st' \in State /\ st'.next = st.next + 1 /\ st'.expected = st.next
        /\ st'.out = st'.expected
    BY <1>2, <1>3, <1>4, <2>1, SendOK, Zenon
  <2>3. /\ st'.phase = st.phase /\ st'.keys = st.keys /\ st'.ke = st.ke /\ st'.request = st.request
        /\ st'.response = st.response /\ st'.frags = st.frags
    BY <1>2, <1>3, <2>2, BeginRequestFields, Zenon
  <2>4. StateOK'
    <3>1. 0 \in 0 .. MaxRetries
      BY ConstantFacts
    <3> QED
      BY <1>1, <1>4, <2>1, <2>2, <3>1, Zenon DEF IInv, StateOK, Waits
  <2>5. NumbersOK'
    BY <1>1, <1>2, <1>4, <2>2, Zenon DEF NumbersOK, Early, Waits
  <2>6. RoundsOK'
    BY <1>2, <1>4, <2>1, <2>2 DEF RoundsOK
  <2>7. PhaseOK' /\ WipedOK'
    BY <1>1, <1>2, <1>4, <2>1, <2>3 DEF IInv, PhaseOK, WipedOK, Early
  <2>8. AnswersOK' /\ NoticeOK'
    <3>1. ~\E q \in sent : q.what = "failed"
      BY <1>1, NoNotice, Zenon
    <3> QED
      BY <1>1, <1>4, <2>1, <2>2, <3>1, Zenon DEF IInv, AnswersOK, NoticeOK, Talking
  <2>9. PiecesOK' /\ ReadOK(read)'
    BY <1>1, <1>2, <2>1, <2>3, Zenon DEF PiecesOK, ReadOK
  <2> QED
    BY <2>2, <2>4, <2>5, <2>6, <2>7, <2>8, <2>9, Zenon DEF IInv
<1>5. CASE Fail(BeginRequest(st), {Protected(st, st.next, "eap")}, <<>>)
  <2> DEFINE s == BeginRequest(st)
  <2>1. s \in State /\ s.keys = st.keys /\ s.next = st.next + 1
    BY <1>2, <1>3, BeginRequestFields, Zenon
  <2>2. read'.count = 0 \/ reply[read'.count].kind # "authFailed"
    <3>1. read.count > 0 => reply[read.count].kind \in {"eap", "success"}
      BY <1>1, Zenon DEF IInv, AnswersOK, Talking
    <3> QED
      BY <1>1, <3>1, Typed
  <2>3. <<>> \in Seq(Stages) /\ Fail(s, {Protected(st, st.next, "eap")}, <<>>)
    BY <1>5
  <2> HIDE DEF s
  <2>4. s.next + 1 \in Ids /\ ReadOK(read') /\ at \notin {"idle", "over", "closed"}
    BY <1>1, <1>2, <1>3, <2>1, Zenon
  <2> QED
    BY <1>1, <2>1, <2>2, <2>3, <2>4, FailInv, Zenon
<1> QED
  BY <1>4, <1>5, Zenon DEF MethodSends
\* What the end of the method adds to a State.
LEMMA MethodFields ==
  ASSUME NEW s \in State
  PROVE  LET t == [s EXCEPT !.msk = TRUE, !.phase = "childInstalling"]
         IN /\ t \in State /\ t.msk = TRUE /\ t.phase = "childInstalling" /\ t.keys = s.keys
            /\ t.next = s.next /\ t.ke = s.ke /\ t.request = s.request /\ t.response = s.response
            /\ t.frags = s.frags
<1>1. "childInstalling" \in Phases
  BY Zenon DEF Phases
<1>2. [s EXCEPT !.msk = TRUE, !.phase = "childInstalling"] \in State
  BY <1>1, Zenon DEF State
<1> QED
  BY <1>2, Zenon DEF State

LEMMA MethodCompletesInv ==
  ASSUME IInv, MethodCompletes
  PROVE  IInv'
<1> DEFINE s == [st EXCEPT !.msk = TRUE, !.phase = "childInstalling"]
<1>1. /\ at = "method" /\ read' = read /\ Send(s, "final") /\ at' = "final" /\ packet' = "none"
      /\ log' = Append(log, "child") /\ round' = round /\ router' = router
      /\ answers' = answers /\ reply' = reply /\ asks' = asks /\ retries' = 0
  BY Zenon DEF MethodCompletes, serverVars, Send
<1>2. /\ st \in State /\ st.next \in Nat /\ st.next = read.count + 1 /\ st.next = round + 1
      /\ st.phase = "authEAP" /\ st.frags = NoBuffer /\ round \in Nat /\ ReadOK(read) /\ st.next > 0
      /\ log \in Seq(Stages)
  BY <1>1, Typed DEF IInv, NumbersOK, RoundsOK, PhaseOK, PiecesOK, Waits
<1>3. st.next + 1 \in Ids
  BY <1>1, IdsLeft, Zenon
<1>4. /\ s \in State /\ s.phase = "childInstalling" /\ s.keys = st.keys
      /\ s.next = st.next /\ s.ke = st.ke /\ s.request = st.request /\ s.response = st.response
      /\ s.frags = NoBuffer
  BY <1>2, MethodFields, Zenon
<1> HIDE DEF s
<1>5. /\ NetworkOK' /\ IdsUsedOnce' /\ KeysOK'
      /\ \A q \in sent' : q.id > 0 => q.id < st'.next
      /\ Len(reply') = 0 \/ Len(reply') < st'.next
      /\ (\E q \in sent' : q.what = "failed") => (\E q \in sent : q.what = "failed")
      /\ st' = BeginRequest(s) /\ st' \in State /\ st'.next = st.next + 1 /\ st'.expected = st.next
      /\ st'.out = st'.expected
  BY <1>1, <1>2, <1>3, <1>4, SendOK, Zenon
<1>6. /\ st'.phase = "childInstalling" /\ st'.keys = st.keys /\ st'.ke = st.ke /\ st'.request = st.request
      /\ st'.response = st.response /\ st'.frags = NoBuffer
  BY <1>3, <1>4, <1>5, BeginRequestFields, ZenonT(60)
<1>7. StateOK'
  <2>1. 0 \in 0 .. MaxRetries /\ log' \in Seq(Stages)
    BY <1>1, <1>2, ConstantFacts DEF Stages
  <2> QED
    BY <1>1, <1>5, <2>1, Zenon DEF IInv, StateOK, Waits
<1>8. NumbersOK'
  BY <1>1, <1>2, <1>5, Zenon DEF NumbersOK, Early, Waits
<1>9. RoundsOK'
  BY <1>1, <1>2, <1>5 DEF RoundsOK
<1>10. PhaseOK' /\ WipedOK'
  BY <1>1, <1>2, <1>6, Zenon DEF IInv, PhaseOK, WipedOK, Early
<1>11. AnswersOK' /\ NoticeOK'
  <2>1. ~\E q \in sent : q.what = "failed"
    BY <1>1, NoNotice, Zenon
  <2> QED
    BY <1>1, <1>5, <2>1, Zenon DEF IInv, AnswersOK, NoticeOK, Talking
<1>12. PiecesOK' /\ ReadOK(read)'
  BY <1>1, <1>2, <1>6, Zenon DEF PiecesOK, ReadOK
<1> QED
  BY <1>5, <1>7, <1>8, <1>9, <1>10, <1>11, <1>12, Zenon DEF IInv

LEMMA MethodInv ==
  ASSUME IInv, Method
  PROVE  IInv'
<1>1. ASSUME MethodFails
      PROVE  IInv'
  BY <1>1, FailsInv, Zenon DEF MethodFails, Talking
<1> QED
  BY <1>1, MethodSendsInv, MethodCompletesInv, Zenon DEF Method
-----------------------------------------------------------------------------
(* The final IKE_AUTH response and the handoff. *)

LEMMA FinalAuthFailsInv ==
  ASSUME IInv, FinalAuthFails
  PROVE  IInv'
<1>1. PICK p \in Responses :
        LET s == [Completed EXCEPT !.suppress = Message(p).kind = "authFailed"]
        IN Completes(p) /\ (Fails(s) \/ Fail([s EXCEPT !.esp = TRUE], {}, <<"esp">>))
  BY Zenon DEF FinalAuthFails
<1>2. at \in {"recv", "final"} /\ st \in State
  BY Typed, Zenon DEF FinalAuthFails
<1> DEFINE s == [Completed EXCEPT !.suppress = Message(p).kind = "authFailed"]
           t == [s EXCEPT !.esp = TRUE]
<1>3. s \in State /\ (s.suppress \/ Message(p).kind # "authFailed") /\ s.next = st.next /\ s.keys = st.keys
  BY <1>2, CompletedFields, SuppressFields
<1>4. Completes(p) /\ (Fail(s, {}, <<>>) \/ Fail(t, {}, <<"esp">>))
  BY <1>1, Zenon DEF Fails
<1> HIDE DEF s
<1>5. t \in State /\ t.suppress = s.suppress /\ t.next = s.next /\ t.keys = s.keys
  BY <1>3, Zenon DEF State
<1> HIDE DEF t
<1>6. <<>> \in Seq(Stages) /\ <<"esp">> \in Seq(Stages)
  BY DEF Stages
<1>7. t.suppress \/ Message(p).kind # "authFailed"
  BY <1>3, <1>5, Zenon
<1> QED
  BY <1>1, <1>2, <1>3, <1>4, <1>5, <1>6, <1>7, ResponseFails, Zenon

\* The state that is handed over.
LEMMA HandedOverFields ==
  ASSUME NEW s \in State
  PROVE  LET t == [s EXCEPT !.esp = TRUE, !.child = TRUE, !.neg = FALSE, !.phase = "running"]
         IN /\ t \in State /\ t.child = TRUE /\ t.phase = "running" /\ t.keys = s.keys /\ t.next = s.next
            /\ t.ke = s.ke /\ t.request = s.request /\ t.response = s.response /\ t.frags = s.frags
            /\ t.has = s.has /\ t.msk = s.msk
<1>1. "running" \in Phases
  BY Zenon DEF Phases
<1>2. [s EXCEPT !.esp = TRUE, !.child = TRUE, !.neg = FALSE, !.phase = "running"] \in State
  BY <1>1, ZenonT(60) DEF State
<1> QED
  BY <1>2, Zenon DEF State

LEMMA FinalAuthInv ==
  ASSUME IInv, FinalAuth
  PROVE  IInv'
<1>1. PICK p \in Responses :
        /\ Completes(p) /\ Message(p).kind \in {"reply", "set", "badAuth"} /\ VerifyPeerAuth(Message(p))
        /\ sent' = sent \cup (IF Message(p).kind = "set"
                              THEN {Protected(st, st.expected, "ack")} ELSE {})
  BY Zenon DEF FinalAuth
<1>2. /\ at = "final" /\ at \in Waits
      /\ st' = [Completed EXCEPT !.esp = TRUE, !.child = TRUE, !.neg = FALSE, !.phase = "running"]
      /\ log' = log \o <<"esp", "running">> /\ at' = "over" /\ retries' = 0
      /\ round' = round /\ packet' = packet /\ router' = router
      /\ answers' = answers /\ reply' = reply /\ asks' = asks
  BY Zenon DEF FinalAuth, serverVars, Waits
<1>3. /\ ReadOK(read') /\ read'.count = st.expected /\ p.id = st.expected /\ st.expected = Len(reply)
      /\ st.next = st.expected + 1 /\ st.expected \in 1 .. Len(reply)
  BY <1>1, <1>2, CompletesOK, Zenon
<1>4. /\ st \in State /\ st.next \in Nat /\ st.expected \in Nat /\ NetworkOK /\ log \in Seq(Stages)
      /\ \A q \in sent : q \in Request /\ q.id \in Nat
  BY Typed, Zenon
<1>5. /\ st' \in State /\ st'.child = TRUE /\ st'.phase = "running" /\ st'.keys = st.keys
      /\ st'.next = st.next /\ st'.ke = st.ke /\ st'.request = st.request
      /\ st'.response = st.response /\ st'.frags = NoBuffer /\ st'.has = FALSE /\ st'.msk = st.msk
  BY <1>2, <1>4, CompletedFields, HandedOverFields, Zenon
<1>6. PICK r : r = Protected(st, st.expected, "ack")
  BY Zenon
<1>7. r \in Request /\ r.id = st.expected /\ r.what = "ack" /\ r.keys = st.keys /\ r.id > 0
  BY <1>3, <1>4, <1>6, ProtectedFields
<1>8. \A q \in sent' : q \in sent \/ q = r
  BY <1>1, <1>6, Zenon
<1>9. StateOK'
  <2>1. 0 \in 0 .. MaxRetries /\ log' \in Seq(Stages)
    BY <1>2, <1>4, ConstantFacts DEF Stages
  <2>2. read' \in [count : Ids, id : Ids, parts : Seq(Seq(Nat)), first : {None, "EAP", "IDr"}]
    BY <1>3, Zenon DEF ReadOK
  <2> QED
    BY <1>2, <1>5, <2>1, <2>2, Zenon DEF IInv, StateOK
<1>10. NetworkOK'
  <2>1. sent' \subseteq Request /\ \A q \in sent' : q.id = 0 => q.attempt \in 1 .. MaxSAInitAttempts
    BY <1>4, <1>7, <1>8 DEF NetworkOK
  <2> QED
    BY <1>2, <1>4, <2>1, Zenon DEF NetworkOK
<1>11. NumbersOK'
  <2>1. r.id < st.next
    BY <1>3, <1>4, <1>7
  <2>2. \A q \in sent' : q.id > 0 => q.id < st'.next
    BY <1>5, <1>8, <2>1, Zenon DEF IInv, NumbersOK
  <2>3. Len(reply') = 0 \/ Len(reply') < st'.next
    BY <1>2, <1>5, Zenon DEF IInv, NumbersOK
  <2> QED
    BY <1>2, <1>3, <1>5, <2>2, <2>3, Zenon DEF NumbersOK, Early, Waits
<1>12. RoundsOK'
  BY <1>2, <1>5, Zenon DEF IInv, RoundsOK
<1>13. PhaseOK' /\ WipedOK'
  <2>1. st.msk
    BY <1>1, Zenon DEF VerifyPeerAuth
  <2>2. st.phase = "childInstalling" /\ router /\ st.keys = <<st.request, st.response>> /\ st.ke = 0
    BY <1>2, Zenon DEF IInv, PhaseOK, Early
  <2> QED
    BY <1>2, <1>5, <2>1, <2>2, Zenon DEF PhaseOK, WipedOK, Early
<1>14. KeysOK'
  BY <1>2, <1>5, <1>7, <1>8, Zenon DEF IInv, KeysOK
<1>15. AnswersOK' /\ NoticeOK'
  <2>1. ~\E q \in sent : q.what = "failed"
    BY <1>2, NoNotice, Zenon
  <2>2. reply[Len(reply)].kind \in {"reply", "set"}
    BY <1>1, <1>3, Zenon DEF Message, VerifyPeerAuth
  <2> QED
    BY <1>2, <1>7, <1>8, <2>1, <2>2, Zenon DEF AnswersOK, NoticeOK, Talking
<1>16. PiecesOK' /\ ReadOK(read)'
  BY <1>2, <1>3, <1>5, Zenon DEF PiecesOK, ReadOK
<1>17. IdsUsedOnce'
  BY <1>7, <1>8, Zenon DEF IInv, IdsUsedOnce
<1> QED
  BY <1>9, <1>10, <1>11, <1>12, <1>13, <1>14, <1>15, <1>16, <1>17, Zenon DEF IInv-----------------------------------------------------------------------------
(* Closing an established session. *)

\* An established session, before it is closed.
LEMMA Established ==
  ASSUME IInv, at = "over", st.phase = "running"
  PROVE  /\ st \in State /\ st.next \in Nat /\ st.next = read.count + 1 /\ st.next = round + 2
         /\ st.frags = NoBuffer /\ ReadOK(read) /\ st.next > 0 /\ st.next + 1 \in Ids /\ st.next + 2 \in Ids
         /\ round \in Nat
<1>1. /\ st \in State /\ st.next \in Nat /\ round \in 0 .. maxEAPRounds /\ round \in Nat /\ ReadOK(read)
  BY Typed, Zenon
<1>2. st.next = read.count + 1 /\ st.next = round + 2 /\ st.frags = NoBuffer
  BY Zenon DEF IInv, NumbersOK, RoundsOK, PhaseOK
<1>3. PICK x : x = st.next
  BY Zenon
<1>4. x \in Nat /\ x > 0 /\ x + 1 \in Nat /\ x + 2 \in Nat /\ x + 2 <= maxEAPRounds + 5 /\ x + 1 <= maxEAPRounds + 5
  BY <1>1, <1>2, <1>3, ConstantFacts
<1> QED
  BY <1>1, <1>2, <1>3, <1>4, ConstantFacts, Zenon

LEMMA CloseInv ==
  ASSUME IInv, Close
  PROVE  IInv'
<1>1. /\ at = "over" /\ st.phase = "running" /\ at' = "closed"
      /\ sent' = sent \cup {Protected(st, st.next, "child"), Protected(st, st.next + 1, "ike")}
      /\ st' = ClearSession([st EXCEPT !.next = st.next + 2])
      /\ retries' = retries /\ round' = round /\ packet' = packet /\ router' = router /\ log' = log
      /\ read' = read /\ answers' = answers /\ reply' = reply /\ asks' = asks
  BY Zenon DEF Close, serverVars
<1>2. st \in State /\ st.next \in Nat /\ ReadOK(read) /\ st.next > 0 /\ st.next + 2 \in Ids
  BY <1>1, Established, Zenon
<1>3. PICK x, c, d, new :
        /\ x = st.next /\ c = Protected(st, st.next, "child") /\ d = Protected(st, st.next + 1, "ike")
        /\ new = {c, d}
  BY Zenon
<1>4. /\ x \in Nat /\ x > 0 /\ c \in Request /\ d \in Request /\ c.id = x /\ d.id = x + 1
      /\ c.what # "failed" /\ d.what # "failed"
  BY <1>2, <1>3, ProtectedFields
<1>5. sent' = sent \cup new /\ \A q \in new : q = c \/ q = d
  BY <1>1, <1>3, Zenon
<1>6. /\ st' \in State /\ st'.next = x + 2 /\ st'.phase = "stopped" /\ st'.keys = NoKeys
      /\ st'.ke = 0 /\ st'.msk = FALSE /\ st'.frags = NoBuffer /\ st'.has = FALSE /\ st'.out = Nil
  <2>1. PICK y, s : y = x + 2 /\ s = [st EXCEPT !.next = y]
    BY Zenon
  <2>2. y \in Ids /\ st' = ClearSession(s)
    BY <1>1, <1>2, <1>3, <2>1, Zenon
  <2>3. s \in State /\ s.next = y
    BY <1>2, <2>1, <2>2, NextFields, Zenon
  <2> QED
    BY <2>1, <2>2, <2>3, ClearSessionFields, Zenon
<1>7. /\ NetworkOK /\ Len(reply) \in Nat /\ \A q \in sent : q \in Request /\ q.id \in Nat
  BY Typed, Zenon
<1>8. StateOK'
  BY <1>1, <1>6, Zenon DEF IInv, StateOK
<1>9. NetworkOK'
  <2>1. sent' \subseteq Request /\ \A q \in sent' : q.id = 0 => q.attempt \in 1 .. MaxSAInitAttempts
    BY <1>4, <1>5, <1>7 DEF NetworkOK
  <2> QED
    BY <1>1, <1>7, <2>1, Zenon DEF NetworkOK
<1>10. NumbersOK'
  <2>1. \A q \in sent : q.id > 0 => q.id < x
    BY <1>3, Zenon DEF IInv, NumbersOK
  <2>2. \A q \in sent : q.id > 0 => q.id < x + 2
    BY <1>4, <1>7, <2>1
  <2>3. c.id < x + 2 /\ d.id < x + 2
    BY <1>4
  <2>4. \A q \in sent' : q.id > 0 => q.id < st'.next
    BY <1>5, <1>6, <2>2, <2>3, Zenon
  <2>5. Len(reply) = 0 \/ Len(reply) < x
    BY <1>3, Zenon DEF IInv, NumbersOK
  <2>6. Len(reply) = 0 \/ Len(reply) < x + 2
    BY <1>4, <1>7, <2>5
  <2> QED
    BY <1>1, <1>6, <2>4, <2>6, Zenon DEF NumbersOK, Early, Waits
<1>11. RoundsOK' /\ PhaseOK' /\ KeysOK' /\ AnswersOK' /\ PiecesOK' /\ WipedOK'
  BY <1>1, <1>6, Zenon DEF RoundsOK, PhaseOK, KeysOK, AnswersOK, PiecesOK, WipedOK, Early, Talking
<1>12. NoticeOK'
  <2>1. ~\E q \in sent : q.what = "failed"
    BY <1>1, NoNotice, Zenon
  <2> QED
    BY <1>4, <1>5, <2>1, Zenon DEF NoticeOK
<1>13. ReadOK(read)'
  BY <1>1, <1>2, Zenon DEF ReadOK
<1>14. IdsUsedOnce'
  <2>1. c.id >= st.next /\ d.id >= st.next /\ c.id > 0 /\ d.id > 0 /\ c.id # d.id
    BY <1>3, <1>4
  <2>2. \A q \in new : q \in Request /\ q.id > 0 /\ q.id >= st.next
    BY <1>4, <1>5, <2>1, Zenon
  <2>3. \A q, o \in new : q.id = o.id => q = o
    BY <1>5, <2>1, Zenon
  <2> QED
    BY <1>5, <2>2, <2>3, FreshIds, Zenon
<1> QED
  BY <1>8, <1>9, <1>10, <1>11, <1>12, <1>13, <1>14, Zenon DEF IInv

\* A DELETE in an exchange of its own.
LEMMA DeleteSent ==
  ASSUME IInv, at \in {"over", "child"}, st.phase = "running", ReadOK(read'),
         NEW s \in State, s.keys = st.keys, s.next = st.next, s.phase = "running",
         s.ke = st.ke, s.request = st.request, s.response = st.response, s.frags = NoBuffer,
         s.msk = st.msk, s.child = st.child, st.next > 0, st.next + 1 \in Ids, st.next = read'.count + 1,
         NEW what \in {"child", "ike"}, Send(s, what), at' = what,
         st.next = (IF what = "child" THEN round + 2 ELSE round + 3),
         UNCHANGED <<round, packet, router, log, serverVars>>
  PROVE  IInv'
<1>1. /\ round' = round /\ packet' = packet /\ router' = router /\ log' = log
      /\ answers' = answers /\ reply' = reply /\ asks' = asks /\ retries' = 0
  BY Zenon DEF serverVars, Send
<1>2. st.next \in Nat /\ round \in Nat
  BY Typed, Zenon
<1>3. /\ NetworkOK' /\ IdsUsedOnce' /\ KeysOK'
      /\ \A q \in sent' : q.id > 0 => q.id < st'.next
      /\ Len(reply') = 0 \/ Len(reply') < st'.next
      /\ (\E q \in sent' : q.what = "failed") => (\E q \in sent : q.what = "failed")
      /\ st' = BeginRequest(s) /\ st' \in State /\ st'.next = st.next + 1 /\ st'.expected = st.next
      /\ st'.out = st'.expected
  BY <1>1, SendOK, Zenon
<1>4. /\ st'.phase = "running" /\ st'.keys = st.keys /\ st'.ke = st.ke /\ st'.request = st.request
      /\ st'.response = st.response /\ st'.frags = NoBuffer /\ st'.msk = st.msk /\ st'.child = st.child
  BY <1>3, BeginRequestFields, ZenonT(60)
<1>5. StateOK'
  <2>1. 0 \in 0 .. MaxRetries
    BY ConstantFacts
  <2>2. read' \in [count : Ids, id : Ids, parts : Seq(Seq(Nat)), first : {None, "EAP", "IDr"}]
    BY Zenon DEF ReadOK
  <2> QED
    BY <1>1, <1>3, <2>1, <2>2, Zenon DEF IInv, StateOK, Waits
<1>6. NumbersOK'
  BY <1>3, Zenon DEF NumbersOK, Early, Waits
<1>7. RoundsOK'
  BY <1>1, <1>2, <1>3 DEF RoundsOK
<1>8. PhaseOK' /\ WipedOK'
  BY <1>1, <1>4 DEF IInv, PhaseOK, WipedOK, Early
<1>9. AnswersOK' /\ NoticeOK'
  <2>1. ~\E q \in sent : q.what = "failed"
    BY NoNotice, Zenon
  <2> QED
    BY <1>1, <1>3, <2>1, Zenon DEF AnswersOK, NoticeOK, Talking
<1>10. PiecesOK' /\ ReadOK(read)'
  BY <1>1, <1>4, Zenon DEF PiecesOK, ReadOK
<1> QED
  BY <1>3, <1>5, <1>6, <1>7, <1>8, <1>9, <1>10, Zenon DEF IInv

LEMMA CloseExchangeInv ==
  ASSUME IInv, CloseExchange
  PROVE  IInv'
<1>1. /\ at = "over" /\ st.phase = "running" /\ Send(st, "child") /\ at' = "child" /\ read' = read
      /\ UNCHANGED <<round, packet, router, log, serverVars>>
  BY Zenon DEF CloseExchange
<1>2. /\ st \in State /\ st.next = read.count + 1 /\ st.next = round + 2
      /\ st.frags = NoBuffer /\ ReadOK(read) /\ st.next > 0 /\ st.next + 1 \in Ids
  BY <1>1, Established, Zenon
<1> QED
  BY <1>1, <1>2, DeleteSent, Zenon

LEMMA DeleteAnsweredInv ==
  ASSUME IInv, DeleteAnswered
  PROVE  IInv'
<1>1. PICK p \in Responses : Completes(p)
  BY Zenon DEF DeleteAnswered
<1>2. at \in {"child", "ike"} /\ at \in Waits /\ UNCHANGED <<round, packet, router, log, serverVars>>
  BY Zenon DEF DeleteAnswered, Waits
<1>3. /\ ReadOK(read') /\ read'.count = st.expected /\ st.next = st.expected + 1
      /\ st.expected \in 1 .. Len(reply)
  BY <1>1, <1>2, CompletesOK, Zenon
<1>4. st \in State /\ st.next \in Nat /\ st.expected \in Nat /\ Len(reply) \in Nat
  BY Typed, Zenon
<1>5. /\ Completed \in State /\ Completed.frags = NoBuffer /\ Completed.next = st.next
      /\ Completed.phase = st.phase /\ Completed.keys = st.keys /\ Completed.ke = st.ke
      /\ Completed.request = st.request /\ Completed.response = st.response
      /\ Completed.msk = st.msk /\ Completed.child = st.child
  BY <1>4, CompletedFields, Zenon
<1>6. st.phase = "running" /\ st.next > 0 /\ st.next + 1 \in Ids /\ st.next = read'.count + 1
  <2>1. st.phase = "running"
    BY <1>2, Zenon DEF IInv, PhaseOK
  <2>2. st.next + 1 \in Ids
    BY <1>2, IdsLeft, Zenon
  <2> QED
    BY <1>3, <1>4, <2>1, <2>2
<1>7. CASE at = "child" /\ Send(Completed, "ike") /\ at' = "ike"
  <2>1. st.next = round + 3
    BY <1>7, Zenon DEF IInv, RoundsOK
  <2> QED
    BY <1>2, <1>3, <1>5, <1>6, <1>7, <2>1, DeleteSent, Zenon
<1>8. CASE /\ at = "ike" /\ st' = ClearSession(Completed) /\ at' = "closed" /\ retries' = 0
           /\ UNCHANGED sent
  <2>1. /\ round' = round /\ packet' = packet /\ router' = router /\ log' = log
        /\ answers' = answers /\ reply' = reply /\ asks' = asks /\ sent' = sent
    BY <1>2, <1>8, Zenon DEF serverVars
  <2>2. /\ st' \in State /\ st'.next = st.next /\ st'.phase = "stopped" /\ st'.keys = NoKeys
        /\ st'.ke = 0 /\ st'.msk = FALSE /\ st'.frags = NoBuffer /\ st'.has = FALSE /\ st'.out = Nil
    BY <1>5, <1>8, ClearSessionFields, Zenon
  <2>3. StateOK'
    <3>1. 0 \in 0 .. MaxRetries
      BY ConstantFacts
    <3>2. read' \in [count : Ids, id : Ids, parts : Seq(Seq(Nat)), first : {None, "EAP", "IDr"}]
      BY <1>3, Zenon DEF ReadOK
    <3> QED
      BY <1>8, <2>1, <2>2, <3>1, <3>2, Zenon DEF IInv, StateOK
  <2>4. NetworkOK' /\ IdsUsedOnce'
    BY <2>1, Zenon DEF IInv, NetworkOK, IdsUsedOnce
  <2>5. NumbersOK'
    BY <1>8, <2>1, <2>2, Zenon DEF IInv, NumbersOK, Early, Waits
  <2>6. RoundsOK' /\ PhaseOK' /\ KeysOK' /\ AnswersOK' /\ PiecesOK' /\ WipedOK'
    BY <1>8, <2>2, Zenon DEF RoundsOK, PhaseOK, KeysOK, AnswersOK, PiecesOK, WipedOK, Early, Talking
  <2>7. NoticeOK'
    <3>1. ~\E q \in sent : q.what = "failed"
      BY <1>8, NoNotice, Zenon
    <3> QED
      BY <2>1, <3>1, Zenon DEF NoticeOK
  <2>8. ReadOK(read)'
    BY <1>3, <2>1, Zenon DEF ReadOK
  <2> QED
    BY <2>3, <2>4, <2>5, <2>6, <2>7, <2>8, Zenon DEF IInv
<1> QED
  BY <1>7, <1>8, Zenon DEF DeleteAnswered-----------------------------------------------------------------------------
(* The theorems. *)

LEMMA InitInv == Init => IInv
<1> SUFFICES ASSUME Init
             PROVE  IInv
  BY Zenon
<1>1. /\ st = NoState /\ at = "idle" /\ retries = 0 /\ round = 0 /\ packet = "none"
      /\ router = FALSE /\ log = <<>> /\ sent = {} /\ read = NothingRead
      /\ answers = {} /\ reply = <<>> /\ asks = FALSE
  BY Zenon DEF Init
<1>2. /\ NoState \in State /\ NoState.phase = "stopped" /\ NoState.keys = NoKeys /\ NoState.next = 0
      /\ NoState.frags = NoBuffer /\ NoState.has = FALSE
  BY NoStateFields, Zenon DEF NoState
<1>3. /\ NothingRead.count = 0 /\ NothingRead.id = 0
      /\ NothingRead \in [count : Ids, id : Ids, parts : Seq(Seq(Nat)), first : {None, "EAP", "IDr"}]
  BY ConstantFacts DEF NothingRead, None
<1>4. StateOK
  <2>1. 0 \in 0 .. MaxRetries /\ 0 \in 0 .. maxEAPRounds /\ <<>> \in Seq(Stages)
    BY ConstantFacts
  <2> QED
    BY <1>1, <1>2, <1>3, <2>1, Zenon DEF StateOK
<1>5. NetworkOK /\ NumbersOK /\ RoundsOK /\ KeysOK /\ IdsUsedOnce
  <2>1. Len(reply) = 0 /\ reply \in Seq(Reply)
    BY <1>1
  <2> QED
    BY <1>1, <1>2, <1>3, <2>1, Zenon DEF NetworkOK, NumbersOK, RoundsOK, KeysOK, IdsUsedOnce, Early, Waits
<1>6. PhaseOK /\ AnswersOK /\ NoticeOK /\ PiecesOK /\ WipedOK
  BY <1>1, <1>2, Zenon DEF PhaseOK, AnswersOK, NoticeOK, PiecesOK, WipedOK, Early, Talking
<1>7. ReadOK(read)
  BY <1>1, <1>3 DEF ReadOK
<1> QED
  BY <1>4, <1>5, <1>6, <1>7, Zenon DEF IInv

LEMMA NextInv == IInv /\ [Next]_vars => IInv'
<1> SUFFICES ASSUME IInv, [Next]_vars
             PROVE  IInv'
  BY Zenon
<1>1. CASE Responder
  BY <1>1, AnswerSAInitInv, AnswerProtectedInv, ResponderAsksInv, Zenon DEF Responder
<1>2. CASE Run \/ RetrySAInit \/ RejectedSAInit \/ SAInitEstablished \/ StartEAP
  BY <1>2, RunInv, RetrySAInitInv, RejectedSAInitInv, SAInitEstablishedInv, StartEAPInv, Zenon
<1>3. CASE Restarted \/ AuthResponse \/ Method \/ FinalAuthFails \/ FinalAuth
  <2>1. CASE Discard
    <3>1. UNCHANGED <<clientVars, sent, answers, reply>> /\ asks' = asks /\ asks \in BOOLEAN
      BY <2>1, Zenon DEF Discard, serverVars, IInv, StateOK
    <3> QED
      BY <3>1, StutterInv, Zenon
  <2> QED
    BY <1>3, <2>1, IncompleteInv, AuthResponseInv, MethodInv, FinalAuthFailsInv, FinalAuthInv, Zenon
       DEF Restarted
<1>4. CASE Retransmit
  BY <1>4, RetransmitInv, Zenon
<1>5. CASE Canceled \/ ForeignFlags
  <2>1. at \in {"saInit", "method"} \cup Waits /\ GivesUp
    BY <1>5, Zenon DEF Canceled, ForeignFlags
  <2> QED
    BY <2>1, GivesUpInv, Zenon
<1>6. CASE Close \/ CloseExchange \/ DeleteAnswered
  BY <1>6, CloseInv, CloseExchangeInv, DeleteAnsweredInv, Zenon
<1>7. CASE UNCHANGED vars
  <2>1. UNCHANGED <<clientVars, sent, answers, reply>> /\ asks' = asks /\ asks \in BOOLEAN
    BY <1>7, Zenon DEF vars, serverVars, IInv, StateOK
  <2> QED
    BY <2>1, StutterInv, Zenon
<1> QED
  BY <1>1, <1>2, <1>3, <1>4, <1>5, <1>6, <1>7, Zenon DEF Next, Client

ParityOK == restarts \in {0, 1}

\* The invariant holds in every reachable state.
THEOREM Invariance == Spec => [](IInv /\ ParityOK)
<1>1. Init => ParityOK
  BY Zenon DEF Init, ParityOK
<1>2. ParityOK /\ [Next]_vars => ParityOK'
  BY DEF Next, vars, ParityOK
<1> QED
  BY <1>1, <1>2, InitInv, NextInv, PTL DEF Spec

\* What a whole answer is, in the words of AnswersInLockStep.
LEMMA WholeParts ==
  ASSUME NEW ps, NEW i \in Nat, Whole(ps, i)
  PROVE  ps = IF ps[1][2] = 0 THEN <<<<i, 0, 0>>>>
              ELSE [n \in 1 .. ps[1][2] |-> <<i, ps[1][2], n>>]
<1>1. ps \in Seq(Seq(Nat))
  BY Zenon DEF Whole
<1>2. CASE ps = <<<<i, 0, 0>>>>
  <2>1. ps[1] = <<i, 0, 0>>
    BY <1>2, Zenon
  <2> QED
    BY <1>2, <2>1, Zenon
<1>3. CASE Len(ps) > 0 /\ \A m \in 1 .. Len(ps) : ps[m] = <<i, Len(ps), m>>
  <2>1. PICK t : t = Len(ps)
    BY Zenon
  <2>2. t \in Nat /\ t > 0 /\ 1 \in 1 .. t /\ DOMAIN ps = 1 .. t /\ \A m \in 1 .. t : ps[m] = <<i, t, m>>
    BY <1>1, <1>3, <2>1
  <2>3. ps[1] = <<i, t, 1>>
    BY <2>2, Zenon
  <2>4. ps[1][2] = t /\ t # 0
    BY <2>2, <2>3
  <2>5. ps = [m \in 1 .. t |-> ps[m]]
    BY <1>1, <2>2
  <2>6. ps = [m \in 1 .. t |-> <<i, t, m>>]
    BY <2>2, <2>5, Zenon
  <2> QED
    BY <2>4, <2>6, Zenon
<1> QED
  BY <1>2, <1>3, Zenon DEF Whole

\* The responder's answers are taken once each, in order and whole, whatever
\* the network loses, repeats or delays and however the answers are cut
\* (classifyResponse, collectSKFragment).
THEOREM LockStepAlways == Spec => []AnswersInLockStep
<1>1. IInv => AnswersInLockStep
  <2> SUFFICES ASSUME IInv
               PROVE  AnswersInLockStep
    BY Zenon
  <2>1. ReadOK(read) /\ read.count \in Nat
    BY Typed, Zenon
  <2>2. read.id = read.count
    BY <2>1, Zenon DEF ReadOK
  <2>3. ASSUME read.count > 0
        PROVE  LET total == read.parts[1][2]
               IN /\ read.parts = IF total = 0 THEN <<<<read.count, 0, 0>>>>
                                  ELSE [n \in 1 .. total |-> <<read.count, total, n>>]
                  /\ read.first = First(reply[read.count].kind)
    <3>1. PICK i, ps : i = read.count /\ ps = read.parts
      BY Zenon
    <3>2. Whole(ps, i) /\ i \in Nat /\ read.first = First(reply[read.count].kind)
      BY <2>1, <2>3, <3>1, Zenon DEF ReadOK
    <3>3. ps = IF ps[1][2] = 0 THEN <<<<i, 0, 0>>>> ELSE [n \in 1 .. ps[1][2] |-> <<i, ps[1][2], n>>]
      BY <3>2, WholeParts, Zenon
    <3> QED
      BY <3>1, <3>2, <3>3, Zenon
  <2> QED
    BY <2>2, <2>3, Zenon DEF AnswersInLockStep
<1> QED
  BY Invariance, <1>1, PTL

\* A message ID of the IKE SA is used for one request only (beginRequest,
\* buildAuthFailedNotify, Close).
THEOREM IdsAlwaysUsedOnce == Spec => []IdsUsedOnce
<1>1. IInv => IdsUsedOnce
  BY Zenon DEF IInv
<1> QED
  BY Invariance, <1>1, PTL

\* A session is handed over only when the responder has accepted it as well,
\* under the keys of the same key exchange (processFinalAuth and the handoff).
THEOREM AlwaysMutual == Spec => []EstablishedIsMutual
<1>1. IInv /\ ParityOK => EstablishedIsMutual
  <2> SUFFICES ASSUME IInv, ParityOK
               PROVE  EstablishedIsMutual
    BY Zenon
  <2>1. TypeOK
    BY Zenon DEF IInv, TypeOK, ParityOK
  <2>2. ASSUME at = "over", st.phase = "running"
        PROVE  /\ reply[Len(reply)].kind \in {"reply", "set"}
               /\ st.keys = <<st.request, st.response>> /\ st.request = st.response
               /\ st.msk /\ st.child /\ st.frags = NoBuffer /\ ~st.has /\ router
    <3>1. reply[Len(reply)].kind \in {"reply", "set"}
      BY <2>2, Zenon DEF IInv, AnswersOK
    <3>2. /\ st.keys = <<st.request, st.response>> /\ st.msk /\ st.child /\ st.frags = NoBuffer
          /\ ~st.has /\ router
      BY <2>2, Zenon DEF IInv, PhaseOK, Early
    <3>3. st.request = st.response
      <4>1. st.keys # NoKeys /\ st.keys[1] = st.request /\ st.keys[2] = st.response
        BY <3>2 DEF NoKeys
      <4>2. reply # <<>>
        <5>1. st.next = read.count + 1 /\ st.next = round + 2
          BY <2>2, Zenon DEF IInv, NumbersOK, RoundsOK
        <5>2. read.count \in Nat /\ round \in Nat /\ read.count <= Len(reply) /\ Len(reply) \in Nat
          BY Typed, Zenon
        <5>3. Len(reply) > 0
          BY <5>1, <5>2
        <5> QED
          BY <5>3
      <4> QED
        BY <4>1, <4>2, Zenon DEF IInv, KeysOK
    <3> QED
      BY <3>1, <3>2, <3>3, Zenon
  <2> QED
    BY <2>1, <2>2, Zenon DEF EstablishedIsMutual
<1> QED
  BY Invariance, <1>1, PTL

\* A failed handshake leaves no secret and no pending request, its last events
\* are Broken and Stopped, and it does not answer AUTHENTICATION_FAILED with
\* the same (fail).
THEOREM FailureAlwaysClean == Spec => []FailureIsClean
<1>1. IInv => FailureIsClean
  <2> SUFFICES ASSUME IInv, at \in {"over", "closed"}, st.phase = "stopped"
               PROVE  /\ /\ st.keys = NoKeys /\ ~st.msk /\ st.ke = 0 /\ st.frags = NoBuffer
                         /\ ~st.has /\ st.out = Nil
                      /\ at = "over" =>
                           ~router /\ SubSeq(log, Len(log) - 1, Len(log)) = <<"broken", "stopped">>
                      /\ (\E r \in sent : r.what = "failed") =>
                           read.count = 0 \/ reply[read.id].kind # "authFailed"
    BY Zenon DEF FailureIsClean
  <2>1. /\ st.keys = NoKeys /\ ~st.msk /\ st.ke = 0 /\ st.frags = NoBuffer /\ ~st.has /\ st.out = Nil
        /\ at = "over" => ~router /\ SubSeq(log, Len(log) - 1, Len(log)) = <<"broken", "stopped">>
    BY Zenon DEF IInv, WipedOK, Early
  <2>2. (\E r \in sent : r.what = "failed") => read.count = 0 \/ reply[read.count].kind # "authFailed"
    BY Zenon DEF IInv, NoticeOK
  <2>3. read.id = read.count
    BY Typed, Zenon DEF ReadOK
  <2> QED
    BY <2>1, <2>2, <2>3, Zenon
<1> QED
  BY Invariance, <1>1, PTL
=============================================================================
