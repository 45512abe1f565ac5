------------------------------ MODULE EspProofs ------------------------------
(***************************************************************************)
(* Theorems about the two halves of an ESP SA, which share no state.       *)
(* Inbound, for every window size and every range of sequence numbers, so  *)
(* for the code's 64 slots and 2^32 - 1 as well: WindowExact is the        *)
(* inductive invariant, because the bitmap answers "delivered before?"     *)
(* correctly inside the window only as an exact record of it, and          *)
(* at-most-once delivery follows.  Outbound, for every size of the         *)
(* counter, threshold, flow limit, batch and queue size and number of      *)
(* children.                                                               *)
(***************************************************************************)
EXTENDS EspInbound, EspOutbound, SequenceTheorems, TLAPS

-----------------------------------------------------------------------------
(* Inbound. *)

InboundInv == InboundTypeOK /\ WindowExact /\ AtMostOnce

\* Nothing has been delivered at the start, and the empty bitmap says so.
LEMMA InboundInitInv == InboundInit => InboundInv
  BY WindowAssumption DEF InboundInit, InboundInv, InboundTypeOK, WindowExact, AtMostOnce, Seqs, Slots

\* Accept says yes only to a number that was never delivered.
LEMMA AcceptsFresh ==
  ASSUME InboundInv, NEW seq \in Seqs, Accepts(seq)
  PROVE  count[seq] = 0
<1>1. CASE seq > highest
  BY <1>1, Zenon DEF InboundInv, WindowExact
<1>2. CASE highest = 0
  BY <1>2 DEF InboundInv, WindowExact, Seqs
<1>3. CASE highest # 0 /\ seq <= highest
  <2>1. highest - seq \in Slots /\ highest - seq < highest /\ highest - (highest - seq) = seq
    BY <1>3, WindowAssumption DEF InboundInv, InboundTypeOK, Accepts, Seqs, Slots
  <2>2. highest - seq \notin bitmap
    BY <1>3 DEF InboundInv, InboundTypeOK, Accepts, Seqs
  <2>3. count[seq] # 1
    BY <2>1, <2>2, Zenon DEF InboundInv, WindowExact
  <2>. QED  BY <2>3 DEF InboundInv, InboundTypeOK, AtMostOnce
<1>. QED  BY <1>1, <1>2, <1>3 DEF InboundInv, InboundTypeOK, Seqs

\* Advancing the window past its highest number keeps the record exact.
LEMMA AdvanceExact ==
  ASSUME InboundInv, NEW seq \in Seqs, seq > highest,
         highest' = seq, bitmap' = {0} \cup Shifted(seq - highest),
         count' = [count EXCEPT ![seq] = @ + 1]
  PROVE  WindowExact'
<1>. WindowSlots \in Nat /\ MaxSeq \in Nat /\ highest \in Nat /\ seq \in Nat /\ Slots \subseteq Nat
  BY WindowAssumption DEF InboundInv, InboundTypeOK, Seqs, Slots
<1>1. count[seq] = 0 /\ count'[seq] = 1
  BY DEF InboundInv, InboundTypeOK, WindowExact
<1>2. ASSUME NEW s \in Seqs, s > highest' PROVE count'[s] = 0
  BY <1>2 DEF InboundInv, InboundTypeOK, WindowExact, Seqs
<1>3. ASSUME NEW d \in Slots
      PROVE  d \in bitmap' <=> d < highest' /\ count'[highest' - d] = 1
  <2>1. CASE d = 0
    BY <2>1, <1>1 DEF Seqs
  <2>2. CASE d # 0 /\ d < seq - highest
    <3>1. d \notin bitmap'
      BY <2>2 DEF Shifted
    <3>2. d < seq => seq - d \in Seqs /\ seq - d > highest /\ seq - d # seq
      BY <2>2, <1>3 DEF InboundInv, InboundTypeOK, Seqs, Slots
    <3>3. d < seq => count'[seq - d] = 0
      BY <3>2, Zenon DEF InboundInv, InboundTypeOK, WindowExact
    <3>. QED  BY <3>1, <3>3
  <2>3. CASE d # 0 /\ d >= seq - highest
    <3>1. /\ d - (seq - highest) \in Slots
          /\ highest - (d - (seq - highest)) = seq - d
          /\ d - (seq - highest) < highest <=> d < seq
      BY <2>3, <1>3, WindowAssumption DEF InboundInv, InboundTypeOK, Seqs, Slots
    <3>2. d \in bitmap' <=> d - (seq - highest) \in bitmap
      BY <2>3, <1>3, Zenon DEF Shifted
    <3>3. d < seq => seq - d \in Seqs /\ seq - d # seq
      BY <2>3, <1>3 DEF Seqs, Slots
    <3>4. d < seq => count'[seq - d] = count[seq - d]
      BY <3>3, Zenon DEF InboundInv, InboundTypeOK
    <3>. QED  BY <3>1, <3>2, <3>4, Zenon DEF InboundInv, WindowExact
  <2>. QED  BY <2>1, <2>2, <2>3, <1>3 DEF InboundInv, InboundTypeOK, Seqs, Slots
<1>4. bitmap' \subseteq Slots
  BY WindowAssumption DEF Shifted, Slots
<1>. QED  BY <1>1, <1>2, <1>3, <1>4, Zenon DEF WindowExact

\* A packet inside the window sets exactly its own bit.
LEMMA LateExact ==
  ASSUME InboundInv, NEW seq \in Seqs, seq <= highest, Accepts(seq),
         highest' = highest, bitmap' = bitmap \cup {highest - seq},
         count' = [count EXCEPT ![seq] = @ + 1]
  PROVE  WindowExact' /\ highest - seq \in Slots
<1>. WindowSlots \in Nat /\ MaxSeq \in Nat /\ highest \in Nat /\ seq \in Nat /\ Slots \subseteq Nat
  BY WindowAssumption DEF InboundInv, InboundTypeOK, Seqs, Slots
<1>1. highest - seq \in Slots /\ count[seq] = 0 /\ count'[seq] = 1
  <2>1. highest - seq < WindowSlots
    BY DEF Accepts, Seqs
  <2>. QED  BY <2>1, AcceptsFresh DEF Slots, InboundInv, InboundTypeOK
<1>2. seq # highest
  BY <1>1 DEF InboundInv, WindowExact, Seqs
<1>3. ASSUME NEW d \in Slots
      PROVE  d \in bitmap' <=> d < highest' /\ count'[highest' - d] = 1
  <2>1. CASE d = highest - seq
    BY <2>1, <1>1 DEF Seqs
  <2>2. CASE d # highest - seq
    <3>1. d < highest => highest - d \in Seqs /\ highest - d # seq
      BY <2>2 DEF Seqs, InboundInv, InboundTypeOK
    <3>2. d < highest => count'[highest - d] = count[highest - d]
      BY <3>1, Zenon DEF InboundInv, InboundTypeOK
    <3>. QED  BY <2>2, <3>2, Zenon DEF InboundInv, WindowExact
  <2>. QED  BY <2>1, <2>2, Zenon
<1>4. bitmap' \subseteq Slots
  BY <1>1, Zenon DEF InboundInv, InboundTypeOK
<1>5. \A s \in Seqs : s > highest' => count'[s] = 0
  BY DEF InboundInv, InboundTypeOK, WindowExact, Seqs
<1>6. highest' # 0 => count'[highest'] = 1
  BY <1>2 DEF InboundInv, InboundTypeOK, WindowExact, Seqs
<1>. QED  BY <1>1, <1>3, <1>4, <1>5, <1>6, Zenon DEF WindowExact

\* Every datagram, genuine or not, leaves the record exact.
LEMMA InboundNextInv == InboundInv /\ [InboundNext]_inboundVars => InboundInv'
<1>. SUFFICES ASSUME InboundInv, [InboundNext]_inboundVars PROVE InboundInv'
  BY Zenon
<1>1. ASSUME NEW p \in Datagram, Deliver(p) PROVE InboundInv'
  <2>. DEFINE seq == p.seq
  <2>1. seq \in Seqs /\ Accepts(seq) /\ count[seq] = 0
    <3>1. seq \in Seqs /\ Accepts(seq)
      BY <1>1, WindowAssumption DEF Deliver, Genuine, Datagram, Seqs
    <3>. QED  BY <3>1, AcceptsFresh, Zenon
  <2>2. count' = [count EXCEPT ![seq] = @ + 1]
    BY <1>1, Zenon DEF Deliver
  <2>3. AtMostOnce' /\ count' \in [Seqs -> Nat]
    BY <2>1, <2>2 DEF InboundInv, InboundTypeOK, AtMostOnce
  <2>4. verdict' \in [seq : 0..MaxSeq, genuine : BOOLEAN, accepted : BOOLEAN]
    BY <1>1, Zenon DEF Deliver, Datagram
  <2>5. CASE seq > highest
    <3>1. highest' = seq /\ bitmap' = {0} \cup Shifted(seq - highest)
      BY <1>1, <2>5, Zenon DEF Deliver, Record
    <3>2. WindowExact'
      BY <2>1, <2>2, <2>5, <3>1, AdvanceExact, Zenon
    <3>3. highest' \in 0..MaxSeq /\ bitmap' \in SUBSET Slots
      BY <2>1, <3>1, WindowAssumption DEF Seqs, Slots, Shifted
    <3>. QED  BY <2>3, <2>4, <3>2, <3>3, Zenon DEF InboundInv, InboundTypeOK
  <2>6. CASE ~(seq > highest)
    <3>1. highest' = highest /\ bitmap' = bitmap \cup {highest - seq} /\ seq <= highest
      BY <1>1, <2>1, <2>6, WindowAssumption DEF Deliver, Record, InboundInv, InboundTypeOK, Seqs
    <3>2. WindowExact' /\ highest - seq \in Slots
      BY <2>1, <2>2, <3>1, LateExact, Zenon
    <3>. QED  BY <2>3, <2>4, <3>1, <3>2, Zenon DEF InboundInv, InboundTypeOK
  <2>. QED  BY <2>5, <2>6, Zenon
<1>2. ASSUME NEW p \in Datagram, Drop(p) PROVE InboundInv'
  <2>1. verdict' \in [seq : 0..MaxSeq, genuine : BOOLEAN, accepted : BOOLEAN]
    BY <1>2, Zenon DEF Drop, Datagram, Genuine
  <2>. QED  BY <1>2, <2>1, Zenon DEF Drop, InboundInv, InboundTypeOK, WindowExact, AtMostOnce
<1>3. CASE UNCHANGED inboundVars
  BY <1>3, Zenon DEF inboundVars, InboundInv, InboundTypeOK, WindowExact, AtMostOnce
<1>. QED  BY <1>1, <1>2, <1>3, Zenon DEF InboundNext, ProcessPooled

\* However the wire duplicates, delays and reorders datagrams, ReplayWindow's
\* bitmap stays an exact record of the window.
THEOREM WindowExactAlways == InboundSpec => []WindowExact
<1>1. InboundInv => WindowExact
  BY Zenon DEF InboundInv
<1>. QED  BY InboundInitInv, InboundNextInv, <1>1, PTL DEF InboundSpec

\* ProcessPooled hands no sequence number to the Tunnel twice.
THEOREM AtMostOnceAlways == InboundSpec => []AtMostOnce
<1>1. InboundInv => AtMostOnce
  BY Zenon DEF InboundInv
<1>. QED  BY InboundInitInv, InboundNextInv, <1>1, PTL DEF InboundSpec

\* A genuine packet is accepted exactly when AntiReplay admits it.
LEMMA AcceptsIffAdmissible ==
  ASSUME InboundInv, NEW seq \in Seqs
  PROVE  Accepts(seq) <=> Promise!Admissible(seq)
<1>. WindowSlots \in Nat /\ MaxSeq \in Nat /\ highest \in Nat /\ seq \in Nat /\ Slots \subseteq Nat
  BY WindowAssumption DEF InboundInv, InboundTypeOK, Seqs, Slots
<1>1. ASSUME Accepts(seq), NEW d \in Seqs, count[d] > 0 PROVE d < seq + WindowSlots
  <2>1. d <= highest
    BY <1>1 DEF InboundInv, InboundTypeOK, WindowExact, Seqs
  <2>. QED  BY <1>1, <2>1, WindowAssumption DEF Accepts, Seqs
<1>2. ASSUME Promise!Admissible(seq) PROVE Accepts(seq)
  <2>1. CASE highest = 0 \/ seq > highest
    BY <2>1 DEF Accepts, Seqs
  <2>2. CASE highest # 0 /\ seq <= highest
    <3>1. highest \in Seqs /\ count[highest] > 0
      BY <2>2 DEF InboundInv, InboundTypeOK, WindowExact, Seqs
    <3>2. highest < seq + WindowSlots
      BY <1>2, <3>1, Zenon DEF Promise!Admissible
    <3>3. ~(count[seq] > 0)
      BY <1>2, Zenon DEF Promise!Admissible
    <3>4. highest - seq \notin bitmap
      BY <2>2, <3>3 DEF InboundInv, WindowExact
    <3>. QED  BY <2>2, <3>2, <3>4 DEF Accepts, Seqs
  <2>. QED  BY <2>1, <2>2
<1>3. Accepts(seq) => count[seq] = 0
  BY AcceptsFresh, Zenon
<1>. QED  BY <1>1, <1>2, <1>3 DEF Promise!Admissible

\* The detailed steps are steps of AntiReplay.
LEMMA InboundImplementsPromise ==
  ASSUME InboundInv, [InboundNext]_inboundVars
  PROVE  [Promise!Next]_<<{s \in Seqs : count[s] > 0}, verdict>>
<1>. DEFINE D == {s \in Seqs : count[s] > 0}
<1>1. ASSUME NEW p \in Datagram, Deliver(p) PROVE Promise!Next
  <2>1. p.seq \in Seqs /\ Accepts(p.seq)
    BY <1>1, WindowAssumption DEF Deliver, Genuine, Datagram, Seqs
  <2>2. count' = [count EXCEPT ![p.seq] = @ + 1]
    BY <1>1, Zenon DEF Deliver
  <2>3. D' = D \cup {p.seq}
    BY <2>1, <2>2 DEF InboundInv, InboundTypeOK
  <2>4. Promise!Deliver(p.seq)
    BY <1>1, <2>1, <2>3, AcceptsIffAdmissible, Zenon DEF Promise!Deliver, Deliver
  <2>. QED  BY <2>1, <2>4, Zenon DEF Promise!Next, Seqs
<1>2. ASSUME NEW p \in Datagram, Drop(p) PROVE Promise!Next
  <2>1. p.seq \in 0..MaxSeq /\ Genuine(p) \in BOOLEAN
    BY Zenon DEF Datagram, Genuine
  <2>2. Genuine(p) => p.seq \in Seqs /\ ~Accepts(p.seq)
    BY <1>2, <2>1, WindowAssumption DEF Drop, Genuine, Seqs
  <2>3. Genuine(p) => ~Promise!Admissible(p.seq)
    BY <2>2, AcceptsIffAdmissible, Zenon
  <2>4. D' = D /\ verdict' = [seq |-> p.seq, genuine |-> Genuine(p), accepted |-> FALSE]
    BY <1>2, Zenon DEF Drop
  <2>5. Promise!Discard(p.seq, Genuine(p))
    BY <2>3, <2>4, Zenon DEF Promise!Discard
  <2>. QED  BY <2>1, <2>5, Zenon DEF Promise!Next
<1>3. CASE UNCHANGED inboundVars
  BY <1>3, Zenon DEF inboundVars
<1>. QED  BY <1>1, <1>2, <1>3, Zenon DEF InboundNext, ProcessPooled

\* ProcessPooled with its ReplayWindow implements the anti-replay promise for
\* every window size: at most once, no false refusal inside the window, and no
\* trace left by forged, foreign or malformed datagrams.
THEOREM InboundImplementsAntiReplay == InboundSpec => ImplementsAntiReplay
<1>1. InboundInit => Promise!Init
  BY DEF InboundInit, Promise!Init, Seqs
<1>2. InboundInv /\ [InboundNext]_inboundVars => [Promise!Next]_<<{s \in Seqs : count[s] > 0}, verdict>>
  BY InboundImplementsPromise, Zenon
<1>. QED  BY InboundInitInv, InboundNextInv, <1>1, <1>2, PTL DEF InboundSpec, ImplementsAntiReplay, Promise!Spec

-----------------------------------------------------------------------------
(* Outbound. *)

Rising(s) == \A i, j \in 1 .. Len(s) : i < j => Precedes(s[i], s[j])
Before(s, t) == \A i \in 1 .. Len(s) : \A j \in 1 .. Len(t) : Precedes(s[i], t[j])

\* A frame was built under a child the worker has used, with a number its codec
\* has given out and not come back to.
Given(f, c, u) == f.child <= u /\ (c[f.child].seq = 0 \/ f.seq < c[f.child].seq)
AllGiven(s, c, u) == \A i \in 1 .. Len(s) : Given(s[i], c, u)

\* A codec past its first number that has reached the threshold has warned.
Warned(o) == o.seq = 0 \/ (o.seq > 1 /\ o.seq >= warnAt) => o.warned

IInv ==
  /\ TypeOK
  /\ worker.using <= outbound
  /\ Rising(sent) /\ Rising(worker.frames) /\ Before(sent, worker.frames)
  /\ AllGiven(sent, codec, worker.using) /\ AllGiven(worker.frames, codec, worker.using)
  /\ \A c \in Child : Warned(codec[c])

\* The counter goes to the next number or, from its last one, to zero.
LEMMA NextNumber ==
  ASSUME NEW n \in 0 .. SeqMod - 1
  PROVE  /\ (n + 1) % SeqMod \in 0 .. SeqMod - 1
         /\ (n + 1) % SeqMod = (IF n = SeqMod - 1 THEN 0 ELSE n + 1)
  BY OutboundAssumption

\* Appending what comes after everything keeps a sequence rising.
LEMMA RisingAppend ==
  ASSUME NEW s \in Seq(Frame), NEW f \in Frame, Rising(s),
         \A i \in 1 .. Len(s) : Precedes(s[i], f)
  PROVE  Append(s, f) \in Seq(Frame) /\ Rising(Append(s, f))
  BY DEF Rising

\* Dropping the head keeps a sequence rising.
LEMMA RisingTail ==
  ASSUME NEW s \in Seq(Frame), s # <<>>, Rising(s)
  PROVE  /\ Tail(s) \in Seq(Frame) /\ Head(s) \in Frame
         /\ Len(Tail(s)) = Len(s) - 1
         /\ \A i \in 1 .. Len(Tail(s)) : Tail(s)[i] = s[i + 1] /\ i + 1 \in 1 .. Len(s)
         /\ Rising(Tail(s))
<1>1. /\ Tail(s) \in Seq(Frame) /\ Head(s) \in Frame /\ Len(s) \in Nat
      /\ Len(Tail(s)) = Len(s) - 1
      /\ \A i \in 1 .. Len(Tail(s)) : Tail(s)[i] = s[i + 1] /\ i + 1 \in 1 .. Len(s)
  OBVIOUS
<1>2. Rising(Tail(s))
  BY <1>1 DEF Rising
<1>. QED  BY <1>1, <1>2, Zenon

\* The threshold that childOutboundConfig computes is a number of the counter.
LEMMA WarnAtType ==
  ASSUME NEW t \in Thresholds, NEW w \in WarnAts(t)
  PROVE  w \in 1 .. SeqMod - 1
<1> DEFINE u == IF t = 0 THEN 900 ELSE t
           p == ((SeqMod - 1) * u) \div 1000
<1>1. u \in Nat /\ (SeqMod - 1) * u \in Nat
  BY OutboundAssumption
<1>2. p \in Nat
  BY <1>1
<1>3. PICK v \in Converted(u) : w = (IF v = 0 THEN 1 ELSE v)
  BY DEF WarnAts
<1>4. v \in 0 .. SeqMod - 1
  <2> HIDE DEF u
  <2>1. Converted(u) = IF p < SeqMod THEN {p} ELSE 0 .. SeqMod - 1
    BY Zenon DEF Converted
  <2> HIDE DEF p
  <2>. QED  BY <1>2, <1>3, <2>1, OutboundAssumption
<1>. QED  BY <1>3, <1>4, OutboundAssumption

\* A session starts with nothing sent and an unused codec.
LEMMA InitInv == Init => IInv
<1> SUFFICES ASSUME Init PROVE IInv
  BY Zenon
<1>1. 1 \in Child /\ NewOutbound \in Codec
  BY OutboundAssumption DEF Child, NewOutbound, Codec
<1>2. worker \in Worker
  BY <1>1 DEF Init, Worker
<1>3. warnAt \in 1 .. SeqMod - 1
  BY WarnAtType, Zenon DEF Init
<1>4. TypeOK
  <2>1. codec \in [Child -> Codec] /\ outbound \in Child
    BY <1>1, Zenon DEF Init
  <2>2. pktIn \in Seq(Kinds) /\ sent \in Seq(Frame) /\ queued \in Nat /\ deletes \subseteq Nat
    BY DEF Init
  <2>3. /\ nearWrap \in BOOLEAN /\ cancelled \in BOOLEAN
        /\ fatal \in {"none", "queued", "taken"}
    BY Zenon DEF Init
  <2>. QED  BY <1>2, <1>3, <2>1, <2>2, <2>3, Zenon DEF TypeOK
<1>5. \A c \in Child : codec[c].seq = 1
  <2>1. codec = [c \in Child |-> NewOutbound] /\ NewOutbound.seq = 1
    BY Zenon DEF Init, NewOutbound
  <2>. QED  BY <2>1, Zenon
<1>6. \A c \in Child : Warned(codec[c])
  BY <1>5 DEF Warned
<1>. QED  BY <1>4, <1>6, <1>1 DEF Init, IInv, Rising, Before, AllGiven

\* The codec after it has given out a number: the next number or zero, and a
\* trigger before it can reach zero.
LEMMA NumberedFields ==
  ASSUME NEW o \in Codec, NEW kind \in Kinds, warnAt \in 1 .. SeqMod - 1, o.seq # 0, Warned(o)
  PROVE  /\ Numbered(o, kind) \in Codec
         /\ Numbered(o, kind).seq = (IF o.seq = SeqMod - 1 THEN 0 ELSE o.seq + 1)
         /\ Warned(Numbered(o, kind))
<1> DEFINE n == [o EXCEPT !.seq = (@ + 1) % SeqMod, !.packets = @ + 1, !.bytes = @ + Size(kind)]
           m == [n EXCEPT !.warned = @ \/ LimitHit(n)]
<1>1. Size(kind) \in Nat
  BY Zenon DEF Size
<1>2. /\ o.seq \in 0 .. SeqMod - 1 /\ o.packets \in Nat /\ o.bytes \in Nat
      /\ o.wrapped \in BOOLEAN /\ o.warned \in BOOLEAN
  BY Zenon DEF Codec
<1>3. /\ (o.seq + 1) % SeqMod \in 0 .. SeqMod - 1
      /\ (o.seq + 1) % SeqMod = (IF o.seq = SeqMod - 1 THEN 0 ELSE o.seq + 1)
  BY <1>2, NextNumber, Zenon
<1>4. n \in Codec /\ n.seq = (o.seq + 1) % SeqMod /\ n.warned = o.warned
  <2>1. o.packets + 1 \in Nat /\ o.bytes + Size(kind) \in Nat
    BY <1>1, <1>2
  <2>. QED  BY <1>3, <2>1, Zenon DEF Codec
<1>5. LimitHit(n) \in BOOLEAN
  BY Zenon DEF LimitHit
<1>6. m \in Codec /\ m.seq = n.seq /\ m.warned = (o.warned \/ LimitHit(n))
  <2> HIDE DEF n
  <2>. QED  BY <1>4, <1>5, Zenon DEF Codec
<1>7. n.seq >= warnAt => LimitHit(n)
  BY Zenon DEF LimitHit
<1>8. Numbered(o, kind) = m
  BY Zenon DEF Numbered
<1> HIDE DEF m, n
<1>9. ASSUME m.seq = 0 \/ (m.seq > 1 /\ m.seq >= warnAt) PROVE m.warned
  <2>1. CASE n.seq >= warnAt
    BY <2>1, <1>6, <1>7, Zenon
  <2>2. CASE ~(n.seq >= warnAt)
    <3>1. o.seq = SeqMod - 1 /\ o.seq > 1 /\ o.seq >= warnAt
      BY <1>2, <1>3, <1>4, <1>6, <1>9, <2>2, OutboundAssumption
    <3>2. o.warned
      BY <3>1, Zenon DEF Warned
    <3>. QED  BY <3>2, <1>6, Zenon
  <2>. QED  BY <2>1, <2>2, Zenon
<1>10. Warned(m)
  BY <1>9, Zenon DEF Warned
<1>. QED  BY <1>3, <1>4, <1>6, <1>8, <1>10, Zenon

-----------------------------------------------------------------------------
(* The steps of the worker. *)

\* The types of what the worker works on.
LEMMA WorkerTypes ==
  ASSUME TypeOK
  PROVE  /\ worker.batch \in Seq(Kinds) /\ worker.using \in Child /\ worker.frames \in Seq(Frame)
         /\ codec[worker.using] \in Codec /\ worker.using \in Nat /\ outbound \in Nat
  BY OutboundAssumption DEF TypeOK, Worker, Child

\* A worker step leaves the session alone.
LEMMA SameContext ==
  ASSUME IInv, UNCHANGED contextVars
  PROVE  /\ warnAt' = warnAt /\ outbound' = outbound
         /\ warnAt' \in 1 .. SeqMod - 1 /\ outbound' \in Child /\ deletes' \subseteq Nat
         /\ cancelled' \in BOOLEAN
  BY Zenon DEF IInv, TypeOK, contextVars

\* The loop over the batch keeps codec and frames.
LEMMA AdvancedFields ==
  ASSUME NEW w \in Worker, w.batch # <<>>
  PROVE  /\ Advanced(w) \in Worker
         /\ Advanced(w).using = w.using /\ Advanced(w).frames = w.frames
<1> DEFINE pc == IF Len(w.batch) = 1 THEN "send" ELSE "encrypt"
           t  == Tail(w.batch)
<1>1. pc \in {"send", "encrypt"}
  BY Zenon
<1>2. t \in Seq(Kinds)
  BY DEF Worker
<1>3. Advanced(w) = [w EXCEPT !.batch = t, !.pc = pc]
  BY Zenon DEF Advanced
<1> HIDE DEF pc, t
<1>. QED  BY <1>1, <1>2, <1>3, Zenon DEF Worker

\* A batch that grows changes nothing else.
LEMMA RebatchedFields ==
  ASSUME NEW w \in Worker, NEW b \in Seq(Kinds)
  PROVE  /\ [w EXCEPT !.pc = "drain", !.batch = b] \in Worker
         /\ [w EXCEPT !.pc = "drain", !.batch = b].using = w.using
         /\ [w EXCEPT !.pc = "drain", !.batch = b].frames = w.frames
         /\ w.pc = "drain" => [w EXCEPT !.batch = b] = [w EXCEPT !.pc = "drain", !.batch = b]
  BY Zenon DEF Worker

\* A worker that stops has no frames.
LEMMA StoppedFields ==
  ASSUME NEW w \in Worker
  PROVE  /\ [w EXCEPT !.pc = "exited", !.frames = <<>>] \in Worker
         /\ [w EXCEPT !.pc = "exited", !.frames = <<>>].using = w.using
         /\ [w EXCEPT !.pc = "exited", !.frames = <<>>].frames = <<>>
<1>1. <<>> \in Seq(Frame)
  OBVIOUS
<1>. QED  BY <1>1, Zenon DEF Worker

\* A worker that loads a codec has no frames yet.
LEMMA LoadedFields ==
  ASSUME NEW w \in Worker, NEW c \in Child
  PROVE  /\ [w EXCEPT !.pc = "encrypt", !.using = c, !.frames = <<>>] \in Worker
         /\ [w EXCEPT !.pc = "encrypt", !.using = c, !.frames = <<>>].using = c
         /\ [w EXCEPT !.pc = "encrypt", !.using = c, !.frames = <<>>].frames = <<>>
<1>1. <<>> \in Seq(Frame)
  OBVIOUS
<1>. QED  BY <1>1, Zenon DEF Worker

\* A step that moves neither codecs nor frames.
LEMMA QuietStep ==
  ASSUME IInv, UNCHANGED <<contextVars, codec, sent>>,
         worker' \in Worker, worker'.using = worker.using,
         worker'.frames \in {worker.frames, <<>>},
         pktIn' \in Seq(Kinds), queued' \in Nat, nearWrap' \in BOOLEAN,
         fatal' \in {"none", "queued", "taken"}
  PROVE  IInv'
<1>1. TypeOK'
  BY SameContext, Zenon DEF IInv, TypeOK
<1>2. \A c \in Child : Warned(codec[c])'
  BY SameContext, Zenon DEF IInv, Warned
<1>3. CASE worker'.frames = worker.frames
  BY <1>1, <1>2, <1>3, SameContext, Zenon DEF IInv, AllGiven, Given
<1>4. CASE worker'.frames = <<>>
  <2>1. Rising(worker'.frames) /\ Before(sent, worker'.frames) /\ AllGiven(worker'.frames, codec, worker.using)
    BY <1>4 DEF Rising, Before, AllGiven
  <2>. QED  BY <1>1, <1>2, <2>1, SameContext, Zenon DEF IInv, AllGiven, Given
<1>. QED  BY <1>3, <1>4, Zenon

\* Steps that build and submit nothing keep the invariant.
LEMMA QuietSteps ==
  ASSUME IInv, UNCHANGED contextVars,
         ReceiveFirst \/ DrainMore \/ EncryptForeign \/ BatchDone \/ WorkerStop
  PROVE  IInv'
<1>0. /\ worker \in Worker /\ pktIn \in Seq(Kinds) /\ queued \in Nat /\ nearWrap \in BOOLEAN
      /\ fatal \in {"none", "queued", "taken"} /\ worker.batch \in Seq(Kinds)
  BY WorkerTypes, Zenon DEF IInv, TypeOK
<1>1. CASE ReceiveFirst
  <2>1. <<Head(pktIn)>> \in Seq(Kinds) /\ Tail(pktIn) \in Seq(Kinds)
    BY <1>0, <1>1 DEF ReceiveFirst
  <2>2. worker' \in Worker /\ worker'.using = worker.using /\ worker'.frames = worker.frames
    BY <1>0, <1>1, <2>1, RebatchedFields, Zenon DEF ReceiveFirst
  <2>. QED  BY <1>0, <1>1, <2>1, <2>2, QuietStep, Zenon DEF ReceiveFirst
<1>2. CASE DrainMore
  <2>1. Append(worker.batch, Head(pktIn)) \in Seq(Kinds) /\ Tail(pktIn) \in Seq(Kinds)
    BY <1>0, <1>2 DEF DrainMore
  <2>2. worker' \in Worker /\ worker'.using = worker.using /\ worker'.frames = worker.frames
    <3>1. worker.pc = "drain" /\ worker' = [worker EXCEPT !.batch = Append(worker.batch, Head(pktIn))]
      BY <1>2, Zenon DEF DrainMore
    <3>. QED  BY <1>0, <2>1, <3>1, RebatchedFields, ZenonT(30)
  <2>. QED  BY <1>0, <1>2, <2>1, <2>2, QuietStep, Zenon DEF DrainMore
<1>3. CASE EncryptForeign
  <2>1. worker' \in Worker /\ worker'.using = worker.using /\ worker'.frames = worker.frames
    BY <1>0, <1>3, AdvancedFields, Zenon DEF EncryptForeign, Processing
  <2>. QED  BY <1>0, <1>3, <2>1, QuietStep, Zenon DEF EncryptForeign
<1>4. CASE BatchDone
  <2>1. worker' \in Worker /\ worker'.using = worker.using /\ worker'.frames = worker.frames
    BY <1>0, <1>4, Zenon DEF BatchDone, Worker
  <2>. QED  BY <1>0, <1>4, <2>1, QuietStep, Zenon DEF BatchDone
<1>5. CASE WorkerStop
  <2>1. worker' \in Worker /\ worker'.using = worker.using /\ worker'.frames = <<>>
    BY <1>0, <1>5, StoppedFields, Zenon DEF WorkerStop
  <2>. QED  BY <1>0, <1>5, <2>1, QuietStep, Zenon DEF WorkerStop
<1>. QED  BY <1>1, <1>2, <1>3, <1>4, <1>5, Zenon

\* Loading a codec of a later child keeps the invariant.
LEMMA LoadCodecInv ==
  ASSUME IInv, UNCHANGED contextVars, LoadCodec
  PROVE  IInv'
<1>1. worker' \in Worker /\ worker'.using = outbound /\ worker'.frames = <<>>
  BY LoadedFields, Zenon DEF LoadCodec, IInv, TypeOK
<1>2. TypeOK'
  BY <1>1, SameContext, Zenon DEF IInv, TypeOK, LoadCodec
<1>3. AllGiven(sent, codec, outbound)
  <2> SUFFICES ASSUME NEW i \in 1 .. Len(sent) PROVE Given(sent[i], codec, outbound)
    BY Zenon DEF AllGiven
  <2>1. Given(sent[i], codec, worker.using)
    BY Zenon DEF IInv, AllGiven
  <2>2. sent[i] \in Frame
    BY DEF IInv, TypeOK
  <2>3. sent[i].child \in Nat
    BY <2>2, OutboundAssumption DEF Frame, Child
  <2>. QED  BY <2>1, <2>3, WorkerTypes DEF Given, IInv
<1>4. /\ Rising(worker'.frames) /\ Before(sent, worker'.frames)
      /\ AllGiven(worker'.frames, codec, outbound)
  BY <1>1 DEF Rising, Before, AllGiven
<1>5. \A c \in Child : Warned(codec[c])'
  BY SameContext, Zenon DEF IInv, Warned, LoadCodec
<1>. QED  BY <1>1, <1>2, <1>3, <1>4, <1>5, SameContext, WorkerTypes DEF IInv, LoadCodec

\* Submitting the oldest frame keeps the order.
LEMMA SubmitInv ==
  ASSUME IInv, UNCHANGED contextVars, SubmitFrame
  PROVE  IInv'
<1> DEFINE f == Head(worker.frames)
           t == Tail(worker.frames)
<1>1. /\ worker.frames \in Seq(Frame) /\ worker.frames # <<>> /\ sent \in Seq(Frame)
      /\ Rising(worker.frames) /\ Rising(sent) /\ Before(sent, worker.frames)
  BY WorkerTypes, Zenon DEF IInv, TypeOK, SubmitFrame
<1>2. /\ f = worker.frames[1] /\ f \in Frame /\ 1 \in 1 .. Len(worker.frames)
  BY <1>1
<1>3. /\ t \in Seq(Frame) /\ Rising(t)
      /\ \A i \in 1 .. Len(t) : t[i] = worker.frames[i + 1] /\ i + 1 \in 1 .. Len(worker.frames)
  BY <1>1, RisingTail, Zenon
<1>4. sent' = Append(sent, f) /\ worker' = [worker EXCEPT !.frames = t]
  BY Zenon DEF SubmitFrame
<1> HIDE DEF f, t
<1>5. \A i \in 1 .. Len(sent) : Precedes(sent[i], f)
  BY <1>1, <1>2, Zenon DEF Before
<1>6. sent' \in Seq(Frame) /\ Rising(sent')
  BY <1>1, <1>2, <1>4, <1>5, RisingAppend, Zenon
<1>7. \A i \in 1 .. Len(t) : Precedes(f, t[i])
  BY <1>1, <1>2, <1>3 DEF Rising
<1>8. Len(sent') = Len(sent) + 1 /\ sent'[Len(sent) + 1] = f /\ \A i \in 1 .. Len(sent) : sent'[i] = sent[i]
  BY <1>1, <1>2, <1>4
<1>9. Before(sent', t)
  <2> SUFFICES ASSUME NEW i \in 1 .. Len(sent'), NEW j \in 1 .. Len(t) PROVE Precedes(sent'[i], t[j])
    BY Zenon DEF Before
  <2>1. CASE i = Len(sent) + 1
    BY <1>7, <1>8, <2>1, Zenon
  <2>2. CASE i # Len(sent) + 1
    <3>1. i \in 1 .. Len(sent)
      BY <1>1, <1>8, <2>2
    <3>. QED  BY <1>1, <1>3, <1>8, <3>1, Zenon DEF Before
  <2>. QED  BY <2>1, <2>2, Zenon
<1>10. worker' \in Worker /\ worker'.using = worker.using /\ worker'.frames = t
  BY <1>3, <1>4, Zenon DEF IInv, TypeOK, Worker
<1>11. AllGiven(t, codec, worker.using) /\ Given(f, codec, worker.using)
  BY <1>2, <1>3, Zenon DEF IInv, AllGiven
<1>12. AllGiven(sent', codec, worker.using)
  <2> SUFFICES ASSUME NEW i \in 1 .. Len(sent') PROVE Given(sent'[i], codec, worker.using)
    BY Zenon DEF AllGiven
  <2>1. i = Len(sent) + 1 \/ i \in 1 .. Len(sent)
    BY <1>1, <1>8
  <2>. QED  BY <1>8, <1>11, <2>1, Zenon DEF IInv, AllGiven
<1>13. queued' \in Nat
  BY DEF IInv, TypeOK, SubmitFrame
<1>14. TypeOK'
  BY <1>6, <1>10, <1>13, SameContext, Zenon DEF IInv, TypeOK, SubmitFrame
<1>15. \A c \in Child : Warned(codec[c])'
  BY SameContext, Zenon DEF IInv, Warned, SubmitFrame
<1>16. codec' = codec /\ worker.using <= outbound
  BY Zenon DEF SubmitFrame, IInv
<1>. QED  BY <1>3, <1>6, <1>9, <1>10, <1>11, <1>12, <1>14, <1>15, <1>16, SameContext, Zenon DEF IInv

\* The wrap changes no number and builds no frame.
LEMMA WrappedInv ==
  ASSUME IInv, UNCHANGED contextVars, EncryptWrapped
  PROVE  IInv'
<1>1. worker' \in Worker /\ worker'.using = worker.using /\ worker'.frames = worker.frames
  <2>1. <<>> \in Seq(Kinds) /\ worker \in Worker
    BY DEF IInv, TypeOK
  <2>2. worker' = [worker EXCEPT !.pc = "exited", !.batch = <<>>]
    BY Zenon DEF EncryptWrapped
  <2>. QED  BY <2>1, <2>2, Zenon DEF Worker
<1>2. /\ codec' \in [Child -> Codec]
      /\ \A c \in Child : codec'[c].seq = codec[c].seq /\ codec'[c].warned = codec[c].warned
  <2> DEFINE o == [Using EXCEPT !.wrapped = TRUE]
  <2>1. o \in Codec /\ o.seq = Using.seq /\ o.warned = Using.warned
    BY WorkerTypes, Zenon DEF Using, Codec, IInv
  <2>2. codec' = [codec EXCEPT ![worker.using] = o]
    BY Zenon DEF EncryptWrapped, Using
  <2> HIDE DEF o
  <2>. QED  BY <2>1, <2>2, WorkerTypes, Zenon DEF IInv, TypeOK, Using
<1>3. fatal' \in {"none", "queued", "taken"}
  BY Zenon DEF EncryptWrapped, IInv, TypeOK
<1>4. TypeOK'
  BY <1>1, <1>2, <1>3, SameContext, Zenon DEF IInv, TypeOK, EncryptWrapped
<1>5. \A c \in Child : Warned(codec[c])'
  BY <1>2, SameContext, Zenon DEF IInv, Warned
<1>6. ASSUME NEW f \in Frame, Given(f, codec, worker.using) PROVE Given(f, codec', worker.using)
  BY <1>2, <1>6, Zenon DEF Given, Frame
<1>7. AllGiven(sent, codec', worker.using) /\ AllGiven(worker.frames, codec', worker.using)
  <2>1. /\ \A i \in 1 .. Len(sent) : sent[i] \in Frame
        /\ \A i \in 1 .. Len(worker.frames) : worker.frames[i] \in Frame
    BY WorkerTypes, SMTT(30) DEF IInv, TypeOK
  <2>. QED  BY <1>6, <2>1, ZenonT(30) DEF IInv, AllGiven
<1>8. sent' = sent /\ worker.using <= outbound
  BY Zenon DEF EncryptWrapped, IInv
<1>. QED  BY <1>1, <1>4, <1>5, <1>7, <1>8, SameContext, Zenon DEF IInv

\* A frame gets a number above all numbers given out under its codec.
LEMMA NumberedInv ==
  ASSUME IInv, UNCHANGED contextVars, EncryptNumbered
  PROVE  IInv'
<1> DEFINE kind == Head(worker.batch)
           next == Numbered(Using, kind)
           f    == [child |-> worker.using, seq |-> Using.seq]
           adv  == Advanced(worker)
           fr   == IF kind = "ip" THEN Append(worker.frames, f) ELSE worker.frames
<1>1. /\ worker \in Worker /\ worker.batch # <<>> /\ worker.frames \in Seq(Frame)
      /\ sent \in Seq(Frame) /\ kind \in Kinds /\ Using \in Codec /\ worker.using \in Child
      /\ worker.using \in Nat /\ Using.seq # 0 /\ Warned(Using)
      /\ warnAt \in 1 .. SeqMod - 1
  <2>1. worker.batch # <<>> /\ kind # "foreign" /\ ~Wraps(Using, kind)
    BY Zenon DEF EncryptNumbered, Processing
  <2>2. Using.seq # 0
    BY <2>1, Zenon DEF Wraps
  <2>3. kind \in Kinds
    BY <2>1, WorkerTypes DEF IInv
  <2>. QED  BY <2>1, <2>2, <2>3, WorkerTypes, Zenon DEF IInv, TypeOK, Using
<1>2. f \in Frame /\ f.child = worker.using /\ f.seq = Using.seq
  BY <1>1, Zenon DEF Codec, Frame
<1>3. /\ next \in Codec /\ Warned(next)
      /\ next.seq = (IF Using.seq = SeqMod - 1 THEN 0 ELSE Using.seq + 1)
  BY <1>1, NumberedFields, Zenon
<1>4. adv \in Worker /\ adv.using = worker.using /\ adv.frames = worker.frames
  BY <1>1, AdvancedFields, Zenon
<1>5. /\ codec' = [codec EXCEPT ![worker.using] = next] /\ sent' = sent
      /\ worker' = [adv EXCEPT !.frames = IF kind = "ip" THEN Append(@, f) ELSE @]
      /\ nearWrap' = Triggered(Using, next)
  BY Zenon DEF EncryptNumbered
<1>6. fr \in Seq(Frame)
  BY <1>1, <1>2
<1>7. worker' \in Worker /\ worker'.using = worker.using /\ worker'.frames = fr
  <2>1. worker' = [adv EXCEPT !.frames = fr]
    BY <1>4, <1>5, Zenon
  <2> HIDE DEF adv, fr
  <2>. QED  BY <1>4, <1>6, <2>1, Zenon DEF Worker
<1>8. ASSUME NEW g \in Frame, Given(g, codec, worker.using)
      PROVE  Precedes(g, f) /\ Given(g, codec', worker.using)
  <2>1. /\ g.child \in Child /\ g.child \in Nat /\ g.seq \in Nat
        /\ g.child <= worker.using /\ (codec[g.child].seq = 0 \/ g.seq < codec[g.child].seq)
    BY <1>8, OutboundAssumption DEF Frame, Child, Given
  <2>2. CASE g.child = worker.using
    <3>1. g.seq < Using.seq /\ codec'[g.child] = next
      BY <1>1, <1>5, <2>1, <2>2, Zenon DEF Using, IInv, TypeOK
    <3>2. next.seq = 0 \/ g.seq < next.seq
      BY <1>1, <1>3, <2>1, <3>1 DEF Codec
    <3>. QED  BY <1>2, <2>1, <2>2, <3>1, <3>2, Zenon DEF Precedes, Given
  <2>3. CASE g.child # worker.using
    <3>1. g.child < worker.using /\ codec'[g.child] = codec[g.child]
      BY <1>1, <1>5, <2>1, <2>3 DEF IInv, TypeOK
    <3>. QED  BY <1>2, <2>1, <3>1, Zenon DEF Precedes, Given
  <2>. QED  BY <2>2, <2>3, Zenon
<1>9. Given(f, codec', worker.using)
  <2>1. codec'[worker.using] = next
    BY <1>1, <1>5, Zenon DEF IInv, TypeOK
  <2>2. next.seq = 0 \/ f.seq < next.seq
    BY <1>1, <1>2, <1>3 DEF Codec
  <2>. QED  BY <1>1, <1>2, <2>1, <2>2 DEF Given
<1> HIDE DEF f, next, adv
<1>10. /\ AllGiven(sent, codec', worker.using) /\ AllGiven(worker.frames, codec', worker.using)
       /\ \A i \in 1 .. Len(sent) : Precedes(sent[i], f)
       /\ \A i \in 1 .. Len(worker.frames) : Precedes(worker.frames[i], f)
  BY <1>1, <1>8 DEF IInv, AllGiven
<1>11. Rising(fr) /\ Before(sent, fr) /\ AllGiven(fr, codec', worker.using)
  <2>0. Rising(worker.frames) /\ Before(sent, worker.frames)
    BY Zenon DEF IInv
  <2>1. CASE kind = "ip"
    <3>1. fr = Append(worker.frames, f)
      BY <2>1, Zenon
    <3>2. /\ Len(fr) = Len(worker.frames) + 1 /\ fr[Len(worker.frames) + 1] = f
          /\ \A i \in 1 .. Len(worker.frames) : fr[i] = worker.frames[i]
      BY <1>1, <1>2, <3>1
    <3>3. Rising(fr)
      BY <1>1, <1>2, <1>10, <2>0, <3>1, RisingAppend, Zenon
    <3>4. \A j \in 1 .. Len(fr) : j = Len(worker.frames) + 1 \/ j \in 1 .. Len(worker.frames)
      BY <1>1, <3>2
    <3> HIDE DEF fr
    <3>5. Before(sent, fr)
      BY <1>10, <2>0, <3>2, <3>4, Zenon DEF Before
    <3>6. AllGiven(fr, codec', worker.using)
      BY <1>9, <1>10, <3>2, <3>4, Zenon DEF AllGiven
    <3>. QED  BY <3>3, <3>5, <3>6, Zenon
  <2>2. CASE kind # "ip"
    BY <1>10, <2>0, <2>2, Zenon
  <2>. QED  BY <2>1, <2>2, Zenon
<1> HIDE DEF fr
<1>12. codec' \in [Child -> Codec] /\ \A c \in Child : Warned(codec'[c])
  BY <1>1, <1>3, <1>5, Zenon DEF IInv, TypeOK
<1>13. \A c \in Child : Warned(codec[c])'
  BY <1>12, SameContext, Zenon DEF Warned
<1>14. nearWrap' \in BOOLEAN
  BY <1>5, Zenon DEF Triggered
<1>15. TypeOK'
  BY <1>5, <1>7, <1>12, <1>14, SameContext, Zenon DEF IInv, TypeOK, EncryptNumbered
<1>16. worker.using <= outbound /\ Rising(sent)
  BY Zenon DEF IInv
<1>. QED  BY <1>5, <1>7, <1>10, <1>11, <1>13, <1>15, <1>16, SameContext, Zenon DEF IInv

-----------------------------------------------------------------------------
(* The steps around the worker, and the theorems. *)

\* Nothing outside the worker touches its frames or its codecs.
LEMMA ContextInv ==
  ASSUME IInv, ContextStep
  PROVE  IInv'
<1>1. /\ worker' = worker /\ codec' = codec /\ sent' = sent /\ warnAt' = warnAt
  BY Zenon DEF ContextStep, UserPacket, TxTakes, TakeNearWrap, ReplaceChild, DeleteReplaced,
         WatchDataFatal, Cancel, contextVars, workerVars
<1>2. outbound \in Child /\ worker.using \in Nat /\ outbound \in Nat
  BY WorkerTypes, Zenon DEF IInv, TypeOK
<1>3. outbound' \in Child /\ worker.using <= outbound'
  <2>1. CASE ReplaceChild
    BY <1>2, <2>1, OutboundAssumption DEF ReplaceChild, Child, IInv
  <2>2. CASE ~ReplaceChild
    <3>1. outbound' = outbound
      BY <2>2, Zenon DEF ContextStep, UserPacket, TxTakes, TakeNearWrap, DeleteReplaced,
                  WatchDataFatal, Cancel, contextVars
    <3>. QED  BY <1>2, <3>1, Zenon DEF IInv
  <2>. QED  BY <2>1, <2>2, Zenon
<1>4. pktIn' \in Seq(Kinds)
  <2>1. CASE \E kind \in Kinds : UserPacket(kind)
    BY <2>1 DEF UserPacket, IInv, TypeOK
  <2>2. CASE ~\E kind \in Kinds : UserPacket(kind)
    BY <2>2, Zenon DEF ContextStep, TxTakes, TakeNearWrap, ReplaceChild, DeleteReplaced,
                WatchDataFatal, Cancel, workerVars, IInv, TypeOK
  <2>. QED  BY <2>1, <2>2, Zenon
<1>5. queued' \in Nat
  BY DEF ContextStep, UserPacket, TxTakes, TakeNearWrap, ReplaceChild, DeleteReplaced,
         WatchDataFatal, Cancel, workerVars, IInv, TypeOK
<1>6. deletes' \subseteq Nat
  <2>1. CASE DeleteReplaced
    <3>1. outbound - 1 \in Nat
      BY <1>2, <2>1 DEF DeleteReplaced
    <3>. QED  BY <2>1, <3>1, Zenon DEF DeleteReplaced, IInv, TypeOK
  <2>2. CASE ~DeleteReplaced
    BY <2>2, Zenon DEF ContextStep, UserPacket, TxTakes, TakeNearWrap, ReplaceChild,
                WatchDataFatal, Cancel, contextVars, IInv, TypeOK
  <2>. QED  BY <2>1, <2>2, Zenon
<1>7. /\ nearWrap' \in BOOLEAN /\ cancelled' \in BOOLEAN
      /\ fatal' \in {"none", "queued", "taken"}
  BY Zenon DEF ContextStep, UserPacket, TxTakes, TakeNearWrap, ReplaceChild, DeleteReplaced,
         WatchDataFatal, Cancel, contextVars, workerVars, IInv, TypeOK
<1>8. TypeOK'
  BY <1>1, <1>3, <1>4, <1>5, <1>6, <1>7, Zenon DEF IInv, TypeOK
<1>. QED  BY <1>1, <1>3, <1>8, Zenon DEF IInv, Warned

\* Every step keeps the invariant.
LEMMA NextInv == IInv /\ [Next]_vars => IInv'
<1> SUFFICES ASSUME IInv, [Next]_vars PROVE IInv'
  BY Zenon
<1>1. CASE RunOutbound
  BY <1>1, QuietSteps, LoadCodecInv, SubmitInv, WrappedInv, NumberedInv, Zenon DEF RunOutbound, WorkerStep
<1>2. CASE ContextStep
  BY <1>2, ContextInv, Zenon
<1>3. CASE UNCHANGED vars
  BY <1>3, Zenon DEF vars, contextVars, workerVars, IInv, TypeOK, Warned
<1>. QED  BY <1>1, <1>2, <1>3, Zenon DEF Next

\* The invariant holds throughout.
THEOREM Invariance == Spec => []IInv
  BY InitInv, NextInv, PTL DEF Spec

\* Codec, worker and queues of runOutbound keep their types; in particular the
\* counter stays within its width.
THEOREM TypeCorrect == Spec => []TypeOK
<1>1. IInv => TypeOK
  BY Zenon DEF IInv
<1>. QED  BY <1>1, Invariance, PTL

\* No sequence number of Outbound is used twice under a key, late, or after one
\* of a successor, for every counter size and every batch size.
THEOREM FramesAlwaysAscend == Spec => []FramesAscend
<1>1. IInv => FramesAscend
  <2> SUFFICES ASSUME IInv PROVE FramesAscend
    BY Zenon
  <2> DEFINE s   == sent
             t   == worker.frames
             all == s \o t
  <2>1. s \in Seq(Frame) /\ t \in Seq(Frame) /\ Rising(s) /\ Rising(t) /\ Before(s, t)
    BY WorkerTypes, Zenon DEF IInv, TypeOK
  <2> HIDE DEF s, t
  <2>2. /\ Len(s) \in Nat /\ Len(t) \in Nat /\ Len(all) = Len(s) + Len(t)
        /\ \A i \in 1 .. Len(all) : all[i] = IF i <= Len(s) THEN s[i] ELSE t[i - Len(s)]
    <3>1. Len(s) \in Nat /\ Len(t) \in Nat
      BY <2>1, LenProperties, Zenon
    <3>2. /\ Len(all) = Len(s) + Len(t)
          /\ \A i \in 1 .. Len(s) + Len(t) : all[i] = IF i <= Len(s) THEN s[i] ELSE t[i - Len(s)]
      BY <2>1, ConcatProperties, Zenon
    <3>. QED  BY <3>1, <3>2, Zenon
  <2> HIDE DEF all
  <2>3. ASSUME NEW i \in 1 .. Len(all), NEW j \in 1 .. Len(all), i < j
        PROVE  Precedes(all[i], all[j])
    <3>1. CASE j <= Len(s)
      BY <2>1, <2>2, <2>3, <3>1 DEF Rising
    <3>2. CASE i <= Len(s) /\ ~(j <= Len(s))
      <4>1. i \in 1 .. Len(s) /\ j - Len(s) \in 1 .. Len(t) /\ all[i] = s[i] /\ all[j] = t[j - Len(s)]
        BY <2>2, <3>2
      <4>. QED  BY <2>1, <4>1, Zenon DEF Before
    <3>3. CASE ~(i <= Len(s))
      <4>1. /\ i - Len(s) \in 1 .. Len(t) /\ j - Len(s) \in 1 .. Len(t) /\ i - Len(s) < j - Len(s)
            /\ all[i] = t[i - Len(s)] /\ all[j] = t[j - Len(s)]
        BY <2>2, <2>3, <3>3
      <4>. QED  BY <2>1, <4>1, Zenon DEF Rising
    <3>. QED  BY <3>1, <3>2, <3>3, Zenon
  <2>. QED  BY <2>3, Zenon DEF FramesAscend, all, s, t
<1>. QED  BY <1>1, Invariance, PTL

\* checkFlowTriggers asks for a rekey before the counter can cycle, for every
\* threshold and every counter of more than two values.
THEOREM AlwaysWarnedBeforeWrap == Spec => []WarnedBeforeWrap
<1>1. IInv => WarnedBeforeWrap
  BY Zenon DEF IInv, Warned, WarnedBeforeWrap
<1>. QED  BY <1>1, Invariance, PTL
=============================================================================
