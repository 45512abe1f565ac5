--------------------------- MODULE TransportProofs ---------------------------
(***************************************************************************)
(* Safety of the two transport workers for every size of the batches, of   *)
(* the channels and of the traffic.                                        *)
(***************************************************************************)
EXTENDS Transport, TLAPS

-----------------------------------------------------------------------------
(* The inductive invariant of RxWorker. *)

\* How many datagrams have left the reader.
Passed == Len(arrived) - Len(reader.slots)

\* The wire numbers its datagrams, and the reader holds the last of them.
ReaderInv ==
  /\ \A d \in 1 .. Len(arrived) : arrived[d].id = d
  /\ Len(reader.slots) <= Len(arrived)
  /\ \A i \in 1 .. Len(reader.slots) : reader.slots[i] = arrived[Passed + i]
  /\ reader.pc # "classify" => reader.slots = <<>>
  /\ reader.pc \in {"check", "exited"} => reader.free = 0

RunInv ==
  /\ run = "select" => Len(batch) < RxBatch
  /\ run \in {"returned", "done"} => batch = <<>>
  /\ run = "done" => reader.pc = "exited"

\* What went out and what is in the batch is as the wire gave it, in order.
OutInv ==
  /\ Ascending(espOut) /\ Given(espOut, "esp")
  /\ Ascending(ctlOut) /\ Given(ctlOut, "ike")
  /\ Ascending(batch) /\ Given(batch, "esp")

\* Only datagrams that left the reader went anywhere, and the batch is younger
\* than what went out.
PlaceInv ==
  /\ \A d \in 1 .. MaxRead : Holds(espOut, d) \/ Holds(batch, d) \/ Holds(ctlOut, d) => d <= Passed
  /\ \A d, e \in 1 .. MaxRead : Holds(espOut, d) /\ Holds(batch, e) => d < e

\* The channels hold the end of what went out.
ChannelInv ==
  /\ \A b \in 1 .. Len(esp) : \A d \in 1 .. MaxRead : Holds(esp[b], d) => Holds(espOut, d)
  /\ \A b, c \in 1 .. Len(esp) : \A d, e \in 1 .. MaxRead :
       b < c /\ Holds(esp[b], d) /\ Holds(esp[c], e) => d < e
  /\ \A d \in 1 .. MaxRead : Holds(ctl, d) => Holds(ctlOut, d)
  /\ Ascending(ctl)

LossInv ==
  Running =>
    \A d \in 1 .. Len(arrived) :
      /\ arrived[d].kind = "esp" => Holds(espOut, d) \/ Holds(batch, d) \/ Passed < d
      /\ arrived[d].kind = "ike" => Holds(ctlOut, d) \/ Passed < d

\* A buffer is with the reader, in the batch, in a channel, or released.
Kept(d) == Passed < d \/ Holds(batch, d) \/ InBatches(esp, d) \/ Holds(ctl, d)

ReleaseInv ==
  \A d \in 1 .. MaxRead : released[d] = IF d <= Len(arrived) /\ ~Kept(d) THEN 1 ELSE 0

RxInv ==
  /\ RxTypeOK /\ ReaderInv /\ RunInv /\ OutInv /\ PlaceInv /\ ChannelInv /\ LossInv /\ ReleaseInv

-----------------------------------------------------------------------------
(* The inductive invariant of TxWorker. *)

\* How many frames TxWorker.Run has taken from the channel.
TakenFrames == Len(queued) - Len(frames)

\* The channel holds the end of what was queued, the wire has had the beginning.
FramesInv ==
  /\ \A f \in 1 .. Len(queued) : queued[f].id = f
  /\ Len(frames) <= Len(queued)
  /\ \A i \in 1 .. Len(frames) : frames[i] = queued[TakenFrames + i]
  /\ Len(written) <= TakenFrames
  /\ \A i \in 1 .. Len(written) : written[i] = queued[i]

\* The group lies between them: its first frames up to next have been written.
GroupInv ==
  /\ tx.next \in Nat \ {0} /\ tx.next <= Len(tx.group) + 1 /\ Len(tx.group) <= TakenFrames
  /\ tx.pc # "write" /\ tx.pc # "failed" => tx.next = 1
  /\ tx.pc = "collect" => Len(tx.group) >= 1
  /\ tx.pc = "write" => tx.next <= Len(tx.group)
  /\ tx.pc \in {"select", "drain", "done"} => tx.group = <<>>
  /\ tx.pc = "failed" /\ batchWire => tx.group = <<>>
  /\ tx.pc # "failed" =>
       /\ Len(written) + Len(tx.group) + 1 = TakenFrames + tx.next
       /\ \A i \in 1 .. Len(tx.group) : tx.group[i] = queued[(TakenFrames - Len(tx.group)) + i]

CloseInv ==
  /\ before <= Len(queued)
  /\ tx.pc \in {"drain", "done"} => txClosed
  /\ tx.pc = "done" => before <= Len(written)

\* Where the buffers are that have gone back.
FreedInv ==
  /\ \A f \in freed : f <= TakenFrames
  /\ tx.pc # "failed" => \A f \in freed : f <= IF batchWire THEN TakenFrames - Len(tx.group) ELSE Len(written)
  /\ \A f \in 1 .. Len(queued) :
       queued[f].hooked /\ f <= (IF batchWire THEN TakenFrames - Len(tx.group) ELSE Len(written))
         => f \in freed

TxInv == TxTypeOK /\ FramesInv /\ GroupInv /\ CloseInv /\ FreedInv

\* What a failed write leaves on a wire without WriteBatch: every frame taken has
\* been released or lies behind the failed one in its group.
StrandInv ==
  tx.pc = "failed" /\ ~batchWire =>
    \A f \in 1 .. TakenFrames : queued[f].hooked => f \in freed \/ Stranded(f)

IInv == side \in {"rx", "tx"} /\ RxInv /\ TxInv /\ StrandInv

-----------------------------------------------------------------------------
(* Facts about the operators. *)

LEMMA AppendFacts ==
  ASSUME NEW S, NEW q \in Seq(S), NEW x \in S
  PROVE  /\ Append(q, x) \in Seq(S) /\ Len(Append(q, x)) = Len(q) + 1 /\ Len(q) \in Nat
         /\ Append(q, x)[Len(q) + 1] = x
         /\ \A i \in 1 .. Len(q) : Append(q, x)[i] = q[i]
  OBVIOUS

LEMMA ConcatFacts ==
  ASSUME NEW S, NEW p \in Seq(S), NEW q \in Seq(S)
  PROVE  /\ p \o q \in Seq(S) /\ Len(p) \in Nat /\ Len(q) \in Nat
         /\ Len(p \o q) = Len(p) + Len(q)
         /\ \A i \in 1 .. Len(p) : (p \o q)[i] = p[i]
         /\ \A i \in 1 .. Len(q) : (p \o q)[Len(p) + i] = q[i]
  OBVIOUS

LEMMA TailFacts ==
  ASSUME NEW S, NEW q \in Seq(S), q # <<>>
  PROVE  /\ Head(q) \in S /\ Head(q) = q[1] /\ Tail(q) \in Seq(S)
         /\ Len(q) \in Nat /\ Len(q) >= 1 /\ Len(Tail(q)) = Len(q) - 1
         /\ \A i \in 1 .. Len(q) - 1 : Tail(q)[i] = q[i + 1]
  OBVIOUS

LEMMA HoldsAppend ==
  ASSUME NEW q \in Seq(Datagram), NEW x \in Datagram, NEW d
  PROVE  Holds(Append(q, x), d) <=> Holds(q, d) \/ d = x.id
<1> DEFINE r == Append(q, x)
<1>1. /\ Len(r) = Len(q) + 1 /\ Len(q) \in Nat /\ r[Len(q) + 1] = x
      /\ \A i \in 1 .. Len(q) : r[i] = q[i]
  BY AppendFacts
<1> HIDE DEF r
<1>2. Holds(r, d) <=> Holds(q, d) \/ d = x.id
  BY <1>1 DEF Holds
<1> QED
  BY <1>2, Zenon DEF r

LEMMA HoldsConcat ==
  ASSUME NEW p \in Seq(Datagram), NEW q \in Seq(Datagram), NEW d
  PROVE  Holds(p \o q, d) <=> Holds(p, d) \/ Holds(q, d)
<1> DEFINE r == p \o q
<1>1. /\ Len(r) = Len(p) + Len(q) /\ Len(p) \in Nat /\ Len(q) \in Nat
      /\ \A i \in 1 .. Len(p) : r[i] = p[i]
      /\ \A i \in 1 .. Len(q) : r[Len(p) + i] = q[i]
  BY ConcatFacts
<1> HIDE DEF r
<1>2. ASSUME Holds(r, d)
      PROVE  Holds(p, d) \/ Holds(q, d)
  <2>1. PICK i \in 1 .. Len(r) : r[i].id = d
    BY <1>2, Zenon DEF Holds
  <2>2. CASE i <= Len(p)
    BY <1>1, <2>1, <2>2 DEF Holds
  <2>3. CASE ~(i <= Len(p))
    <3>1. i - Len(p) \in 1 .. Len(q) /\ r[i] = q[i - Len(p)]
      <4>1. i - Len(p) \in 1 .. Len(q) /\ Len(p) + (i - Len(p)) = i
        BY <1>1, <2>1, <2>3
      <4> QED
        BY <1>1, <4>1, Zenon
    <3> QED
      BY <2>1, <3>1, Zenon DEF Holds
  <2> QED
    BY <2>2, <2>3, Zenon
<1>3. ASSUME Holds(p, d)
      PROVE  Holds(r, d)
  BY <1>1, <1>3 DEF Holds
<1>4. ASSUME Holds(q, d)
      PROVE  Holds(r, d)
  <2>1. PICK i \in 1 .. Len(q) : q[i].id = d
    BY <1>4, Zenon DEF Holds
  <2>2. Len(p) + i \in 1 .. Len(r) /\ r[Len(p) + i].id = d
    BY <1>1, <2>1
  <2> QED
    BY <2>2, Zenon DEF Holds
<1> QED
  BY <1>2, <1>3, <1>4, Zenon DEF r

LEMMA HoldsTail ==
  ASSUME NEW q \in Seq(Datagram), q # <<>>, NEW d
  PROVE  Holds(q, d) <=> d = q[1].id \/ Holds(Tail(q), d)
<1> DEFINE r == Tail(q)
<1>1. /\ Len(q) \in Nat /\ Len(q) >= 1 /\ Len(r) = Len(q) - 1
      /\ \A i \in 1 .. Len(q) - 1 : r[i] = q[i + 1]
  BY TailFacts, Zenon
<1> HIDE DEF r
<1>2. ASSUME Holds(q, d)
      PROVE  d = q[1].id \/ Holds(r, d)
  <2>1. PICK i \in 1 .. Len(q) : q[i].id = d
    BY <1>2, Zenon DEF Holds
  <2>2. CASE i # 1
    <3>1. i - 1 \in 1 .. Len(r) /\ (i - 1) + 1 = i
      BY <1>1, <2>1, <2>2
    <3> QED
      BY <1>1, <2>1, <3>1, Zenon DEF Holds
  <2> QED
    BY <2>1, <2>2, Zenon
<1>3. ASSUME Holds(r, d)
      PROVE  Holds(q, d)
  <2>1. PICK i \in 1 .. Len(r) : r[i].id = d
    BY <1>3, Zenon DEF Holds
  <2>2. i + 1 \in 1 .. Len(q) /\ q[i + 1].id = d
    BY <1>1, <2>1
  <2> QED
    BY <2>2, Zenon DEF Holds
<1>4. 1 \in 1 .. Len(q)
  BY <1>1
<1>5. d = q[1].id => Holds(q, d)
  BY <1>4, Zenon DEF Holds
<1> QED
  BY <1>2, <1>3, <1>5, Zenon DEF r

LEMMA HoldsEmpty ==
  ASSUME NEW d
  PROVE  ~Holds(<<>>, d)
  BY DEF Holds

\* Appending what is younger than all the rest keeps the order.
LEMMA AscendingAppend ==
  ASSUME NEW q \in Seq(Datagram), NEW x \in Datagram, Ascending(q),
         \A d \in 1 .. MaxRead : Holds(q, d) => d < x.id
  PROVE  Ascending(Append(q, x))
<1> DEFINE r == Append(q, x)
<1>1. /\ Len(r) = Len(q) + 1 /\ Len(q) \in Nat /\ r[Len(q) + 1] = x
      /\ \A i \in 1 .. Len(q) : r[i] = q[i]
  BY AppendFacts
<1>2. ASSUME NEW i \in 1 .. Len(q)
      PROVE  q[i].id < x.id
  <2>1. q[i].id \in 1 .. MaxRead
    <3>1. q[i] \in Datagram
      BY <1>1, <1>2
    <3> QED
      BY <3>1, Zenon DEF Datagram
  <2> QED
    BY <1>2, <2>1, Zenon DEF Holds
<1> HIDE DEF r
<1>3. Ascending(r)
  BY <1>1, <1>2 DEF Ascending
<1> QED
  BY <1>3, Zenon DEF r

LEMMA AscendingConcat ==
  ASSUME NEW p \in Seq(Datagram), NEW q \in Seq(Datagram), Ascending(p), Ascending(q),
         \A d, e \in 1 .. MaxRead : Holds(p, d) /\ Holds(q, e) => d < e
  PROVE  Ascending(p \o q)
<1> DEFINE r == p \o q
<1>1. /\ Len(r) = Len(p) + Len(q) /\ Len(p) \in Nat /\ Len(q) \in Nat
      /\ \A i \in 1 .. Len(p) : r[i] = p[i]
      /\ \A i \in 1 .. Len(q) : r[Len(p) + i] = q[i]
  BY ConcatFacts
<1>2. ASSUME NEW i \in 1 .. Len(p), NEW j \in 1 .. Len(q)
      PROVE  p[i].id < q[j].id
  <2>1. p[i].id \in 1 .. MaxRead /\ q[j].id \in 1 .. MaxRead
    <3>1. p[i] \in Datagram /\ q[j] \in Datagram
      BY <1>1, <1>2
    <3> QED
      BY <3>1, Zenon DEF Datagram
  <2>2. Holds(p, p[i].id) /\ Holds(q, q[j].id)
    BY <1>2, Zenon DEF Holds
  <2> QED
    BY <2>1, <2>2, Zenon
<1> HIDE DEF r
<1>3. ASSUME NEW i \in 1 .. Len(r), NEW j \in 1 .. Len(r), i < j
      PROVE  r[i].id < r[j].id
  <2>1. CASE j <= Len(p)
    <3>1. i \in 1 .. Len(p) /\ j \in 1 .. Len(p)
      BY <1>1, <1>3, <2>1
    <3> QED
      BY <1>1, <1>3, <3>1, Zenon DEF Ascending
  <2>2. CASE Len(p) < j
    <3>1. j - Len(p) \in 1 .. Len(q) /\ Len(p) + (j - Len(p)) = j
      BY <1>1, <1>3, <2>2
    <3>2. r[j] = q[j - Len(p)]
      BY <1>1, <3>1, Zenon
    <3>3. CASE i <= Len(p)
      <4>1. i \in 1 .. Len(p) /\ r[i] = p[i]
        BY <1>1, <1>3, <3>3
      <4> QED
        BY <1>2, <3>1, <3>2, <4>1, Zenon
    <3>4. CASE Len(p) < i
      <4>1. i - Len(p) \in 1 .. Len(q) /\ Len(p) + (i - Len(p)) = i /\ i - Len(p) < j - Len(p)
        BY <1>1, <1>3, <3>4
      <4>2. r[i] = q[i - Len(p)]
        BY <1>1, <4>1, Zenon
      <4> QED
        BY <3>1, <3>2, <4>1, <4>2, Zenon DEF Ascending
    <3> QED
      BY <1>1, <1>3, <3>3, <3>4
  <2> QED
    BY <1>1, <1>3, <2>1, <2>2
<1>4. Ascending(r)
  BY <1>3, Zenon DEF Ascending
<1> QED
  BY <1>4, Zenon DEF r

LEMMA AscendingTail ==
  ASSUME NEW q \in Seq(Datagram), q # <<>>, Ascending(q)
  PROVE  Ascending(Tail(q)) /\ ~Holds(Tail(q), q[1].id)
<1> DEFINE r == Tail(q)
<1>1. /\ Len(q) \in Nat /\ Len(q) >= 1 /\ Len(r) = Len(q) - 1
      /\ \A i \in 1 .. Len(q) - 1 : r[i] = q[i + 1]
  BY TailFacts, Zenon
<1> HIDE DEF r
<1>2. ASSUME NEW i \in 1 .. Len(r)
      PROVE  i + 1 \in 1 .. Len(q) /\ r[i] = q[i + 1] /\ 1 \in 1 .. Len(q) /\ 1 < i + 1
  BY <1>1, <1>2
<1>3. ASSUME NEW i \in 1 .. Len(r), NEW j \in 1 .. Len(r), i < j
      PROVE  r[i].id < r[j].id
  <2>1. i + 1 < j + 1
    BY <1>1, <1>3
  <2> QED
    BY <1>2, <1>3, <2>1, Zenon DEF Ascending
<1>4. ASSUME NEW i \in 1 .. Len(r)
      PROVE  r[i].id # q[1].id
  <2>1. q[1].id < q[i + 1].id /\ r[i] = q[i + 1]
    BY <1>2, <1>4, Zenon DEF Ascending
  <2>2. q[1].id \in Nat /\ q[i + 1].id \in Nat
    <3>1. q[1] \in Datagram /\ q[i + 1] \in Datagram
      BY <1>2, <1>4
    <3> QED
      BY <3>1, RxAssumption DEF Datagram
  <2> QED
    BY <2>1, <2>2
<1> QED
  BY <1>3, <1>4, Zenon DEF r, Ascending, Holds

LEMMA GivenAppend ==
  ASSUME NEW q \in Seq(Datagram), NEW x \in Datagram, NEW kind, Given(q, kind),
         x.id \in 1 .. Len(arrived), x = arrived[x.id], x.kind = kind
  PROVE  Given(Append(q, x), kind)
<1> DEFINE r == Append(q, x)
<1>1. /\ Len(r) = Len(q) + 1 /\ Len(q) \in Nat /\ r[Len(q) + 1] = x
      /\ \A i \in 1 .. Len(q) : r[i] = q[i]
  BY AppendFacts
<1> HIDE DEF r
<1>2. Given(r, kind)
  BY <1>1 DEF Given
<1> QED
  BY <1>2, Zenon DEF r

LEMMA GivenConcat ==
  ASSUME NEW p \in Seq(Datagram), NEW q \in Seq(Datagram), NEW kind, Given(p, kind), Given(q, kind)
  PROVE  Given(p \o q, kind)
<1> DEFINE r == p \o q
<1>1. /\ Len(r) = Len(p) + Len(q) /\ Len(p) \in Nat /\ Len(q) \in Nat
      /\ \A i \in 1 .. Len(p) : r[i] = p[i]
      /\ \A i \in 1 .. Len(q) : r[Len(p) + i] = q[i]
  BY ConcatFacts
<1> HIDE DEF r
<1>2. ASSUME NEW i \in 1 .. Len(r)
      PROVE  (\E j \in 1 .. Len(p) : r[i] = p[j]) \/ (\E j \in 1 .. Len(q) : r[i] = q[j])
  <2>1. CASE i <= Len(p)
    BY <1>1, <1>2, <2>1
  <2>2. CASE Len(p) < i
    <3>1. i - Len(p) \in 1 .. Len(q) /\ Len(p) + (i - Len(p)) = i
      BY <1>1, <1>2, <2>2
    <3> QED
      BY <1>1, <3>1, Zenon
  <2> QED
    BY <1>1, <1>2, <2>1, <2>2
<1>3. ASSUME NEW i \in 1 .. Len(r)
      PROVE  r[i].id \in 1 .. Len(arrived) /\ r[i] = arrived[r[i].id] /\ r[i].kind = kind
  <2>1. CASE \E j \in 1 .. Len(p) : r[i] = p[j]
    BY <2>1, Zenon DEF Given
  <2>2. CASE \E j \in 1 .. Len(q) : r[i] = q[j]
    BY <2>2, Zenon DEF Given
  <2> QED
    BY <1>2, <1>3, <2>1, <2>2, Zenon
<1>4. Given(r, kind)
  BY <1>3, Zenon DEF Given
<1> QED
  BY <1>4, Zenon DEF r

\* What is held of a kind came from the wire.
LEMMA GivenHolds ==
  ASSUME NEW q, NEW kind, Given(q, kind), NEW d, Holds(q, d)
  PROVE  d \in 1 .. Len(arrived) /\ arrived[d].kind = kind
  BY Zenon DEF Given, Holds
-----------------------------------------------------------------------------
(* RxWorker keeps its invariant. *)

LEMMA RxTypes ==
  ASSUME RxTypeOK
  PROVE  /\ arrived \in Seq(Datagram) /\ Len(arrived) \in Nat
         /\ reader.slots \in Seq(Datagram) /\ Len(reader.slots) \in Nat
         /\ batch \in Seq(Datagram) /\ espOut \in Seq(Datagram) /\ ctlOut \in Seq(Datagram)
         /\ ctl \in Seq(Datagram) /\ esp \in Seq(Seq(Datagram)) /\ Len(esp) \in Nat
  BY DEF RxTypeOK

\* The reader holds the datagrams that it has not passed on.
LEMMA Slots ==
  ASSUME RxTypeOK, ReaderInv
  PROVE  /\ Passed \in Nat /\ Passed <= Len(arrived) /\ Len(arrived) <= MaxRead
         /\ Len(arrived) \in Nat
         /\ \A d \in Nat : Holds(reader.slots, d) <=> Passed < d /\ d <= Len(arrived)
         /\ reader.slots = <<>> => Passed = Len(arrived)
<1>1. /\ Len(arrived) \in Nat /\ Len(reader.slots) \in Nat /\ Len(reader.slots) <= Len(arrived)
  BY RxTypes, Zenon DEF ReaderInv
<1>2. Passed \in Nat /\ Passed <= Len(arrived) /\ Passed + Len(reader.slots) = Len(arrived)
  BY <1>1 DEF Passed
<1>3. Len(arrived) <= MaxRead
  <2>1. CASE Len(arrived) = 0
    BY <2>1, RxAssumption
  <2>2. CASE Len(arrived) # 0
    <3>1. Len(arrived) \in 1 .. Len(arrived)
      BY <1>1, <2>2
    <3>2. arrived[Len(arrived)] \in Datagram /\ arrived[Len(arrived)].id = Len(arrived)
      BY <3>1, RxTypes DEF ReaderInv
    <3> QED
      BY <3>2, RxAssumption DEF Datagram
  <2> QED
    BY <2>1, <2>2, Zenon
<1>4. ASSUME NEW i \in 1 .. Len(reader.slots)
      PROVE  Passed + i \in 1 .. Len(arrived) /\ reader.slots[i].id = Passed + i
  <2>1. Passed + i \in 1 .. Len(arrived)
    BY <1>1, <1>2, <1>4
  <2> QED
    BY <1>4, <2>1, Zenon DEF ReaderInv
<1>5. ASSUME NEW d \in Nat
      PROVE  Holds(reader.slots, d) <=> Passed < d /\ d <= Len(arrived)
  <2>1. ASSUME Holds(reader.slots, d)
        PROVE  Passed < d /\ d <= Len(arrived)
    <3>1. PICK i \in 1 .. Len(reader.slots) : reader.slots[i].id = d
      BY <2>1, Zenon DEF Holds
    <3> QED
      BY <1>1, <1>2, <1>4, <3>1
  <2>2. ASSUME Passed < d, d <= Len(arrived)
        PROVE  Holds(reader.slots, d)
    <3>1. d - Passed \in 1 .. Len(reader.slots) /\ Passed + (d - Passed) = d
      BY <1>1, <1>2, <1>5, <2>2
    <3>2. reader.slots[d - Passed].id = d
      BY <1>4, <3>1, Zenon
    <3> QED
      BY <3>1, <3>2, Zenon DEF Holds
  <2> QED
    BY <2>1, <2>2, Zenon
<1>6. reader.slots = <<>> => Passed = Len(arrived)
  BY <1>1 DEF Passed
<1> QED
  BY <1>1, <1>2, <1>3, <1>5, <1>6, Zenon

\* The first of them.
LEMMA FirstSlot ==
  ASSUME RxTypeOK, ReaderInv, reader.slots # <<>>
  PROVE  /\ Passed + 1 \in 1 .. Len(arrived) /\ Head(reader.slots) = arrived[Passed + 1]
         /\ Head(reader.slots) \in Datagram /\ Head(reader.slots).id = Passed + 1
<1>1. /\ Head(reader.slots) \in Datagram /\ Head(reader.slots) = reader.slots[1]
      /\ Len(reader.slots) \in Nat /\ Len(reader.slots) >= 1 /\ Len(arrived) \in Nat
      /\ Len(reader.slots) <= Len(arrived)
  BY RxTypes, TailFacts, Zenon DEF ReaderInv
<1>2. 1 \in 1 .. Len(reader.slots) /\ Passed + 1 \in 1 .. Len(arrived)
  BY <1>1 DEF Passed
<1> QED
  BY <1>1, <1>2, Zenon DEF ReaderInv

\* Next1 passes one datagram on.
LEMMA PassOne ==
  ASSUME RxTypeOK, ReaderInv, reader.pc = "classify", reader.slots # <<>>, Next1, UNCHANGED arrived
  PROVE  /\ ReaderInv' /\ Passed' = Passed + 1 /\ reader'.pc = "classify"
         /\ reader' \in [pc : {"check", "read", "classify", "exited"}, slots : Seq(Datagram),
                         free : 0 .. RxBatch, err : BOOLEAN]
<1>1. /\ reader \in [pc : {"check", "read", "classify", "exited"}, slots : Seq(Datagram),
                     free : 0 .. RxBatch, err : BOOLEAN]
  BY Zenon DEF RxTypeOK
<1>2. /\ reader' = [reader EXCEPT !.slots = Tail(reader.slots)]
      /\ Tail(reader.slots) \in Seq(Datagram)
  BY RxTypes, TailFacts, Zenon DEF Next1
<1>3. /\ reader'.slots = Tail(reader.slots) /\ reader'.pc = "classify" /\ arrived' = arrived
      /\ reader' \in [pc : {"check", "read", "classify", "exited"}, slots : Seq(Datagram),
                      free : 0 .. RxBatch, err : BOOLEAN]
  BY <1>1, <1>2, Zenon
<1>4. /\ Len(reader'.slots) = Len(reader.slots) - 1 /\ Len(reader.slots) \in Nat
      /\ Len(reader.slots) >= 1 /\ Len(arrived) \in Nat
      /\ \A i \in 1 .. Len(reader.slots) - 1 : reader'.slots[i] = reader.slots[i + 1]
  BY <1>3, RxTypes, TailFacts
<1>5. Passed' = Passed + 1
  <2>1. Passed' = Len(arrived) - Len(reader'.slots)
    BY <1>3, Zenon DEF Passed
  <2>2. Len(arrived) - Len(reader'.slots) = (Len(arrived) - Len(reader.slots)) + 1
    BY <1>4
  <2> QED
    BY <2>1, <2>2, Zenon DEF Passed
<1>6. Len(reader'.slots) <= Len(arrived')
  BY <1>3, <1>4 DEF ReaderInv
<1>7. ASSUME NEW i \in 1 .. Len(reader'.slots)
      PROVE  reader'.slots[i] = arrived'[Passed' + i]
  <2>1. i \in 1 .. Len(reader.slots) - 1 /\ i + 1 \in 1 .. Len(reader.slots) /\ i \in Nat
    BY <1>4, <1>7
  <2>2. reader'.slots[i] = arrived[Passed + (i + 1)]
    BY <1>4, <2>1, Zenon DEF ReaderInv
  <2>3. Passed + (i + 1) = Passed' + i
    BY <1>5, <2>1, Slots
  <2> QED
    BY <1>3, <2>2, <2>3, Zenon
<1>8. ReaderInv'
  BY <1>3, <1>6, <1>7, Zenon DEF ReaderInv
<1> QED
  BY <1>3, <1>5, <1>8, Zenon
\* Steps that move no datagram.
Quiet ==
  /\ reader'.slots = reader.slots
  /\ UNCHANGED <<arrived, batch, esp, ctl, espOut, ctlOut, released>>

LEMMA QuietStep ==
  ASSUME RxInv, Quiet, Running' => Running
  PROVE  OutInv' /\ PlaceInv' /\ ChannelInv' /\ LossInv' /\ ReleaseInv'
<1>1. /\ Passed' = Passed /\ arrived' = arrived /\ batch' = batch /\ esp' = esp /\ ctl' = ctl
      /\ espOut' = espOut /\ ctlOut' = ctlOut /\ released' = released
  BY Zenon DEF Quiet, Passed
<1>2. OutInv'
  BY <1>1, Zenon DEF RxInv, OutInv, Given
<1>3. PlaceInv'
  BY <1>1, Zenon DEF RxInv, PlaceInv
<1>4. ChannelInv'
  BY <1>1, Zenon DEF RxInv, ChannelInv
<1>5. LossInv'
  BY <1>1, Zenon DEF RxInv, LossInv
<1>6. ReleaseInv'
  BY <1>1, Zenon DEF RxInv, ReleaseInv, Kept
<1> QED
  BY <1>2, <1>3, <1>4, <1>5, <1>6, Zenon

\* The type of what Release leaves behind.
LEMMA ReleaseType ==
  ASSUME RxTypeOK, NEW ids, Release(ids)
  PROVE  /\ released' \in [1 .. MaxRead -> Nat]
         /\ \A d \in 1 .. MaxRead : released'[d] = IF d \in ids THEN released[d] + 1 ELSE released[d]
  BY DEF RxTypeOK, Release

\* The wire gives the reader new datagrams.
LEMMA WireStep ==
  ASSUME RxInv, NEW n \in Nat, NEW err \in BOOLEAN, WireYields(n, err)
  PROVE  RxInv'
<1>t. RxTypeOK /\ ReaderInv /\ RunInv /\ OutInv /\ PlaceInv /\ ChannelInv /\ LossInv /\ ReleaseInv
  BY Zenon DEF RxInv
<1>1. PICK kinds \in [1 .. n -> Kinds] :
        LET new == [i \in 1 .. n |-> [id |-> Len(arrived) + i, kind |-> kinds[i]]]
        IN  /\ arrived' = arrived \o new
            /\ reader' = [pc |-> "classify", slots |-> new, free |-> reader.free - n, err |-> err]
  BY Zenon DEF WireYields
<1> DEFINE new == [i \in 1 .. n |-> [id |-> Len(arrived) + i, kind |-> kinds[i]]]
<1>2. /\ reader.pc = "read" /\ n <= reader.free /\ Len(arrived) + n <= MaxRead
      /\ UNCHANGED <<batched, run, batch, fastOK, readErr, rxClosed, esp, ctl, espOut, ctlOut, released>>
      /\ reader.slots = <<>> /\ Len(arrived) \in Nat
  BY <1>t, RxTypes, Zenon DEF WireYields, ReaderInv
<1>3. new \in Seq(Datagram) /\ Len(new) = n /\ \A i \in 1 .. n : new[i].id = Len(arrived) + i
  <2>1. ASSUME NEW i \in 1 .. n
        PROVE  [id |-> Len(arrived) + i, kind |-> kinds[i]] \in Datagram
    BY <1>1, <1>2, <2>1, RxAssumption DEF Datagram
  <2> QED
    BY <2>1
<1>4. /\ arrived' = arrived \o new /\ reader'.slots = new /\ reader'.pc = "classify"
      /\ reader' = [pc |-> "classify", slots |-> new, free |-> reader.free - n, err |-> err]
  BY <1>1, Zenon
<1> HIDE DEF new
<1>5. /\ arrived' \in Seq(Datagram) /\ Len(arrived') = Len(arrived) + n
      /\ \A d \in 1 .. Len(arrived) : arrived'[d] = arrived[d]
      /\ \A i \in 1 .. n : arrived'[Len(arrived) + i] = new[i]
  <2>1. arrived \in Seq(Datagram) /\ new \in Seq(Datagram)
    BY <1>t, <1>3, RxTypes, Zenon
  <2>2. /\ arrived \o new \in Seq(Datagram) /\ Len(arrived \o new) = Len(arrived) + Len(new)
        /\ \A d \in 1 .. Len(arrived) : (arrived \o new)[d] = arrived[d]
        /\ \A i \in 1 .. Len(new) : (arrived \o new)[Len(arrived) + i] = new[i]
    <3>1. \A p, q \in Seq(Datagram) :
            /\ p \o q \in Seq(Datagram) /\ Len(p \o q) = Len(p) + Len(q)
            /\ \A d \in 1 .. Len(p) : (p \o q)[d] = p[d]
            /\ \A i \in 1 .. Len(q) : (p \o q)[Len(p) + i] = q[i]
      BY ConcatFacts
    <3> QED
      BY <2>1, <3>1, Zenon
  <2> QED
    BY <1>3, <1>4, <2>2, Zenon
<1>6. Passed = Len(arrived) /\ Passed' = Len(arrived)
  <2>1. Passed = Len(arrived)
    BY <1>t, <1>2, Slots, Zenon
  <2>2. Passed' = (Len(arrived) + n) - n
    BY <1>3, <1>4, <1>5, Zenon DEF Passed
  <2> QED
    BY <1>2, <2>1, <2>2
<1>7. RxTypeOK'
  <2>1. reader' \in [pc : {"check", "read", "classify", "exited"}, slots : Seq(Datagram),
                     free : 0 .. RxBatch, err : BOOLEAN]
    <3>1. reader.free \in 0 .. RxBatch
      BY <1>t, Zenon DEF RxTypeOK
    <3>2. reader.free - n \in 0 .. RxBatch
      BY <1>2, <3>1, RxAssumption
    <3> QED
      BY <1>3, <1>4, <3>2
  <2> QED
    BY <1>t, <1>2, <1>5, <2>1, Zenon DEF RxTypeOK
<1>8. ReaderInv'
  <2>1. ASSUME NEW d \in 1 .. Len(arrived')
        PROVE  arrived'[d].id = d
    <3>1. CASE d <= Len(arrived)
      BY <1>t, <1>2, <1>5, <2>1, <3>1 DEF ReaderInv
    <3>2. CASE Len(arrived) < d
      <4>1. d - Len(arrived) \in 1 .. n /\ Len(arrived) + (d - Len(arrived)) = d
        BY <1>2, <1>5, <2>1, <3>2
      <4> QED
        BY <1>3, <1>5, <4>1, Zenon
    <3> QED
      BY <1>2, <1>5, <2>1, <3>1, <3>2
  <2>2. Len(reader'.slots) <= Len(arrived')
    BY <1>2, <1>3, <1>4, <1>5
  <2>3. \A i \in 1 .. Len(reader'.slots) : reader'.slots[i] = arrived'[Passed' + i]
    BY <1>3, <1>4, <1>5, <1>6, Zenon
  <2> QED
    BY <1>4, <2>1, <2>2, <2>3, Zenon DEF ReaderInv
<1>9. RunInv'
  BY <1>t, <1>2, Zenon DEF RunInv
<1>10. ASSUME NEW q, NEW kind, Given(q, kind)
       PROVE  \A i \in 1 .. Len(q) :
                q[i].id \in 1 .. Len(arrived') /\ q[i] = arrived'[q[i].id] /\ q[i].kind = kind
  <2>1. \A d \in 1 .. Len(arrived) : d \in 1 .. Len(arrived')
    BY <1>2, <1>5
  <2> QED
    BY <1>5, <1>10, <2>1, Zenon DEF Given
<1>11. OutInv'
  <2>1. Given(espOut, "esp")' /\ Given(ctlOut, "ike")' /\ Given(batch, "esp")'
    <3>1. Given(espOut, "esp") /\ Given(ctlOut, "ike") /\ Given(batch, "esp")
      BY <1>t, Zenon DEF OutInv
    <3>2. Given(espOut, "esp")'
      <4>1. \A i \in 1 .. Len(espOut) :
              /\ espOut[i].id \in 1 .. Len(arrived') /\ espOut[i] = arrived'[espOut[i].id]
              /\ espOut[i].kind = "esp"
        BY <1>10, <3>1, Zenon
      <4> QED
        BY <1>2, <4>1, Zenon DEF Given
    <3>3. Given(ctlOut, "ike")'
      <4>1. \A i \in 1 .. Len(ctlOut) :
              /\ ctlOut[i].id \in 1 .. Len(arrived') /\ ctlOut[i] = arrived'[ctlOut[i].id]
              /\ ctlOut[i].kind = "ike"
        BY <1>10, <3>1, Zenon
      <4> QED
        BY <1>2, <4>1, Zenon DEF Given
    <3>4. Given(batch, "esp")'
      <4>1. \A i \in 1 .. Len(batch) :
              /\ batch[i].id \in 1 .. Len(arrived') /\ batch[i] = arrived'[batch[i].id]
              /\ batch[i].kind = "esp"
        BY <1>10, <3>1, Zenon
      <4> QED
        BY <1>2, <4>1, Zenon DEF Given
    <3> QED
      BY <3>2, <3>3, <3>4, Zenon
  <2> QED
    BY <1>t, <1>2, <2>1, Zenon DEF OutInv
<1>12. PlaceInv'
  BY <1>t, <1>2, <1>6, Zenon DEF PlaceInv
<1>13. ChannelInv'
  BY <1>t, <1>2, Zenon DEF ChannelInv
<1>14. LossInv'
  <2>1. Running' => Running
    BY <1>2, Zenon DEF Running
  <2>2. ASSUME NEW d \in 1 .. Len(arrived'), ~(Passed' < d)
        PROVE  d \in 1 .. Len(arrived) /\ arrived'[d] = arrived[d] /\ ~(Passed < d)
    BY <1>2, <1>5, <1>6, <2>2
  <2> QED
    BY <1>t, <1>2, <2>1, <2>2, Zenon DEF LossInv
<1>15. ReleaseInv'
  <2>1. ASSUME NEW d \in 1 .. MaxRead
        PROVE  (d <= Len(arrived') /\ ~Kept(d)') <=> (d <= Len(arrived) /\ ~Kept(d))
    <3>1. Kept(d)' <=> Len(arrived) < d \/ Holds(batch, d) \/ InBatches(esp, d) \/ Holds(ctl, d)
      BY <1>2, <1>6, Zenon DEF Kept
    <3>2. Kept(d) <=> Len(arrived) < d \/ Holds(batch, d) \/ InBatches(esp, d) \/ Holds(ctl, d)
      BY <1>6, Zenon DEF Kept
    <3>3. d \in Nat
      BY <2>1, RxAssumption
    <3> QED
      BY <1>2, <1>5, <3>1, <3>2, <3>3
  <2> QED
    BY <1>t, <1>2, <2>1, Zenon DEF ReleaseInv
<1> QED
  BY <1>7, <1>8, <1>9, <1>11, <1>12, <1>13, <1>14, <1>15, Zenon DEF RxInv
\* Where a datagram that left the reader can be, and of which kind it is.
LEMMA Places ==
  ASSUME RxInv, NEW d \in 1 .. MaxRead
  PROVE  /\ Holds(batch, d) => d <= Passed /\ d \in 1 .. Len(arrived) /\ arrived[d].kind = "esp"
         /\ Holds(espOut, d) => d <= Passed /\ arrived[d].kind = "esp" /\ ~Holds(batch, d)
         /\ InBatches(esp, d) => Holds(espOut, d)
         /\ Holds(ctlOut, d) => d <= Passed /\ arrived[d].kind = "ike"
         /\ Holds(ctl, d) => Holds(ctlOut, d)
         /\ Passed \in Nat /\ Passed <= Len(arrived) /\ Len(arrived) \in Nat /\ d \in Nat
<1>1. RxTypeOK /\ ReaderInv /\ OutInv /\ PlaceInv /\ ChannelInv
  BY Zenon DEF RxInv
<1>2. Passed \in Nat /\ Passed <= Len(arrived) /\ Len(arrived) \in Nat /\ d \in Nat
  BY <1>1, Slots, RxAssumption
<1>3. /\ Holds(batch, d) => d \in 1 .. Len(arrived) /\ arrived[d].kind = "esp"
      /\ Holds(espOut, d) => arrived[d].kind = "esp"
      /\ Holds(ctlOut, d) => arrived[d].kind = "ike"
  BY <1>1, GivenHolds, Zenon DEF OutInv
<1>4. /\ Holds(batch, d) \/ Holds(espOut, d) \/ Holds(ctlOut, d) => d <= Passed
      /\ Holds(espOut, d) => ~Holds(batch, d)
  BY <1>1, <1>2 DEF PlaceInv
<1>5. /\ InBatches(esp, d) => Holds(espOut, d)
      /\ Holds(ctl, d) => Holds(ctlOut, d)
  BY <1>1, Zenon DEF ChannelInv, InBatches
<1> QED
  BY <1>2, <1>3, <1>4, <1>5, Zenon

\* Release of buffers that are kept and then no longer.
LEMMA ReleaseStep ==
  ASSUME RxInv, NEW ids, Release(ids), UNCHANGED arrived,
         \A d \in 1 .. MaxRead : Kept(d)' <=> Kept(d) /\ d \notin ids,
         \A d \in 1 .. MaxRead : d \in ids => d <= Len(arrived) /\ Kept(d)
  PROVE  ReleaseInv'
<1>1. \A d \in 1 .. MaxRead : released'[d] = IF d \in ids THEN released[d] + 1 ELSE released[d]
  BY ReleaseType, Zenon DEF RxInv
<1>2. \A d \in 1 .. MaxRead : released[d] = IF d <= Len(arrived) /\ ~Kept(d) THEN 1 ELSE 0
  BY Zenon DEF RxInv, ReleaseInv
<1>3. ASSUME NEW d \in 1 .. MaxRead
      PROVE  released'[d] = IF d <= Len(arrived) /\ ~Kept(d)' THEN 1 ELSE 0
  <2>1. CASE d \in ids
    BY <1>1, <1>2, <1>3, <2>1
  <2>2. CASE d \notin ids
    BY <1>1, <1>2, <1>3, <2>2, Zenon
  <2> QED
    BY <2>1, <2>2, Zenon
<1> QED
  BY <1>3, Zenon DEF ReleaseInv

\* Moves between holders that release nothing.
LEMMA KeepStep ==
  ASSUME RxInv, UNCHANGED <<arrived, released>>, \A d \in 1 .. MaxRead : Kept(d)' <=> Kept(d)
  PROVE  ReleaseInv'
<1>1. \A d \in 1 .. MaxRead : released[d] = IF d <= Len(arrived) /\ ~Kept(d) THEN 1 ELSE 0
  BY Zenon DEF RxInv, ReleaseInv
<1>2. ASSUME NEW d \in 1 .. MaxRead
      PROVE  released'[d] = IF d <= Len(arrived') /\ ~Kept(d)' THEN 1 ELSE 0
  BY <1>1, <1>2, Zenon
<1> QED
  BY <1>2, Zenon DEF ReleaseInv

LEMMA KeepaliveStep ==
  ASSUME RxInv, ClassifyKeepalive
  PROVE  RxInv'
<1>t. RxTypeOK /\ ReaderInv /\ RunInv /\ OutInv /\ PlaceInv /\ ChannelInv /\ LossInv /\ ReleaseInv
  BY Zenon DEF RxInv
<1>1. /\ reader.pc = "classify" /\ reader.slots # <<>> /\ Head(reader.slots).kind = "keepalive"
      /\ Next1 /\ Release({Head(reader.slots).id}) /\ arrived' = arrived /\ batch' = batch
      /\ esp' = esp /\ ctl' = ctl /\ espOut' = espOut /\ ctlOut' = ctlOut /\ run' = run
      /\ rxClosed' = rxClosed /\ UNCHANGED <<batched, fastOK, readErr>>
  BY Zenon DEF ClassifyKeepalive
<1>2. /\ ReaderInv' /\ Passed' = Passed + 1 /\ reader'.pc = "classify"
      /\ reader' \in [pc : {"check", "read", "classify", "exited"}, slots : Seq(Datagram),
                      free : 0 .. RxBatch, err : BOOLEAN]
  BY <1>t, <1>1, PassOne, Zenon
<1>3. /\ Passed + 1 \in 1 .. Len(arrived) /\ Head(reader.slots) = arrived[Passed + 1]
      /\ Head(reader.slots).id = Passed + 1 /\ Passed \in Nat /\ Len(arrived) \in Nat
      /\ Len(arrived) <= MaxRead
  BY <1>t, <1>1, FirstSlot, Slots, Zenon
<1>4. RxTypeOK'
  <2>1. released' \in [1 .. MaxRead -> Nat]
    BY <1>t, <1>1, ReleaseType, Zenon
  <2> QED
    BY <1>t, <1>1, <1>2, <2>1, Zenon DEF RxTypeOK
<1>5. RunInv'
  BY <1>t, <1>1, <1>2, Zenon DEF RunInv
<1>6. OutInv'
  BY <1>t, <1>1, Zenon DEF OutInv, Given
<1>7. PlaceInv'
  <2>1. \A d \in 1 .. MaxRead : d <= Passed => d <= Passed'
    BY <1>2, <1>3, RxAssumption
  <2> QED
    BY <1>t, <1>1, <2>1, Zenon DEF PlaceInv
<1>8. ChannelInv'
  BY <1>t, <1>1, Zenon DEF ChannelInv
<1>9. LossInv'
  <2>1. Running' => Running
    BY <1>1, <1>2, Zenon DEF Running
  <2>2. ASSUME NEW d \in 1 .. Len(arrived), Passed < d, ~(Passed' < d)
        PROVE  arrived[d].kind = "keepalive"
    <3>1. d = Passed + 1
      BY <1>2, <1>3, <2>2
    <3> QED
      BY <1>1, <1>3, <3>1, Zenon
  <2> QED
    BY <1>t, <1>1, <2>1, <2>2, Zenon DEF LossInv
<1>10. ReleaseInv'
  <2>1. ASSUME NEW d \in 1 .. MaxRead
        PROVE  Kept(d)' <=> Kept(d) /\ d \notin {Head(reader.slots).id}
    <3>1. d \in {Head(reader.slots).id} <=> d = Passed + 1
      BY <1>3, Zenon
    <3>2. Holds(batch, d) \/ InBatches(esp, d) \/ Holds(ctl, d) => d # Passed + 1
      BY <1>3, <2>1, Places
    <3>3. Passed' < d <=> Passed < d /\ d # Passed + 1
      BY <1>2, <1>3, <2>1, RxAssumption
    <3> QED
      BY <1>1, <3>1, <3>2, <3>3, Zenon DEF Kept
  <2>2. ASSUME NEW d \in 1 .. MaxRead, d \in {Head(reader.slots).id}
        PROVE  d <= Len(arrived) /\ Kept(d)
    BY <1>3, <2>2 DEF Kept
  <2> QED
    BY <1>1, <2>1, <2>2, ReleaseStep, Zenon
<1> QED
  BY <1>2, <1>4, <1>5, <1>6, <1>7, <1>8, <1>9, <1>10, Zenon DEF RxInv
\* An IKE message goes to the demux.
LEMMA IKEStep ==
  ASSUME RxInv, reader.pc = "classify", reader.slots # <<>>, Head(reader.slots).kind = "ike",
         Len(ctl) < CtlCap, ctl' = Append(ctl, Head(reader.slots)),
         ctlOut' = Append(ctlOut, Head(reader.slots)), Next1,
         UNCHANGED <<batched, run, batch, fastOK, readErr, rxClosed, arrived, esp, espOut, released>>
  PROVE  RxInv'
<1>t. RxTypeOK /\ ReaderInv /\ RunInv /\ OutInv /\ PlaceInv /\ ChannelInv /\ LossInv /\ ReleaseInv
  BY Zenon DEF RxInv
<1>1. /\ arrived' = arrived /\ batch' = batch /\ esp' = esp /\ espOut' = espOut /\ run' = run
      /\ rxClosed' = rxClosed /\ released' = released /\ UNCHANGED <<batched, fastOK, readErr>>
  BY Zenon
<1>2. /\ ReaderInv' /\ Passed' = Passed + 1 /\ reader'.pc = "classify"
      /\ reader' \in [pc : {"check", "read", "classify", "exited"}, slots : Seq(Datagram),
                      free : 0 .. RxBatch, err : BOOLEAN]
  BY <1>t, <1>1, PassOne, Zenon
<1> DEFINE x == Head(reader.slots)
<1>3. /\ Passed + 1 \in 1 .. Len(arrived) /\ x = arrived[Passed + 1] /\ x \in Datagram
      /\ x.id = Passed + 1 /\ Passed \in Nat /\ Len(arrived) \in Nat /\ Len(arrived) <= MaxRead
  BY <1>t, FirstSlot, Slots, Zenon
<1>4. /\ x.kind = "ike" /\ ctl' = Append(ctl, x) /\ ctlOut' = Append(ctlOut, x)
      /\ ctl \in Seq(Datagram) /\ ctlOut \in Seq(Datagram)
  BY <1>t, RxTypes, Zenon
<1> HIDE DEF x
<1>5. \A d : (Holds(ctl', d) <=> Holds(ctl, d) \/ d = x.id) /\ (Holds(ctlOut', d) <=> Holds(ctlOut, d) \/ d = x.id)
  BY <1>3, <1>4, HoldsAppend
<1>6. RxTypeOK'
  <2>1. ctl' \in Seq(Datagram) /\ ctlOut' \in Seq(Datagram) /\ Len(ctl') = Len(ctl) + 1 /\ Len(ctl) \in Nat
    BY <1>3, <1>4, AppendFacts
  <2>2. Len(ctl') <= CtlCap
    BY <2>1, RxAssumption
  <2> QED
    BY <1>t, <1>1, <1>2, <2>1, <2>2, Zenon DEF RxTypeOK
<1>7. RunInv'
  BY <1>t, <1>1, <1>2, Zenon DEF RunInv
<1>8. \A d \in 1 .. MaxRead : Holds(ctl, d) \/ Holds(ctlOut, d) => d < x.id
  BY <1>3, Places
<1>9. OutInv'
  <2>1. Ascending(ctlOut')
    BY <1>t, <1>3, <1>4, <1>8, AscendingAppend, Zenon DEF OutInv
  <2>2. Given(ctlOut', "ike")
    BY <1>t, <1>3, <1>4, GivenAppend, Zenon DEF OutInv
  <2>3. Given(ctlOut, "ike")'
    BY <1>1, <2>2, Zenon DEF Given
  <2> QED
    BY <1>t, <1>1, <2>1, <2>3, SMTT(30) DEF OutInv, Given
<1>10. PlaceInv'
  <2>1. \A d \in 1 .. MaxRead : d <= Passed \/ d = x.id => d <= Passed'
    BY <1>2, <1>3, RxAssumption, SMTT(30)
  <2> QED
    BY <1>t, <1>1, <1>5, <2>1, Zenon DEF PlaceInv
<1>11. ChannelInv'
  <2>1. Ascending(ctl')
    BY <1>t, <1>3, <1>4, <1>8, AscendingAppend, Zenon DEF ChannelInv
  <2>2. \A d \in 1 .. MaxRead : Holds(ctl', d) => Holds(ctlOut', d)
    BY <1>t, <1>5, Zenon DEF ChannelInv
  <2> QED
    BY <1>t, <1>1, <2>1, <2>2, Zenon DEF ChannelInv
<1>12. LossInv'
  <2>1. Running' => Running
    BY <1>1, <1>2, Zenon DEF Running
  <2>2. ASSUME NEW d \in 1 .. Len(arrived), Passed < d, ~(Passed' < d)
        PROVE  arrived[d].kind = "ike" /\ Holds(ctlOut', d)
    <3>1. d = Passed + 1
      BY <1>2, <1>3, <2>2
    <3> QED
      BY <1>3, <1>4, <1>5, <3>1, Zenon
  <2> QED
    BY <1>t, <1>1, <1>5, <2>1, <2>2, Zenon DEF LossInv
<1>13. ReleaseInv'
  <2>1. ASSUME NEW d \in 1 .. MaxRead
        PROVE  Kept(d)' <=> Kept(d)
    <3>1. Passed < d <=> Passed' < d \/ d = x.id
      BY <1>2, <1>3, <2>1, RxAssumption
    <3> QED
      BY <1>1, <1>5, <3>1, Zenon DEF Kept
  <2> QED
    BY <1>1, <2>1, KeepStep, Zenon
<1> QED
  BY <1>2, <1>6, <1>7, <1>9, <1>10, <1>11, <1>12, <1>13, Zenon DEF RxInv

\* An ESP datagram goes to Run, which adds it to the batch.
LEMMA ESPStep ==
  ASSUME RxInv, reader.pc = "classify", reader.slots # <<>>, Head(reader.slots).kind = "esp",
         run = "select", batch' = Append(batch, Head(reader.slots)), Len(batch) < RxBatch,
         run' \in {"select", "deliver", "flush"}, run' = "select" => Len(batch) + 1 < RxBatch, Next1,
         UNCHANGED <<batched, fastOK, readErr, rxClosed, arrived, esp, ctl, espOut, ctlOut, released>>
  PROVE  RxInv'
<1>t. RxTypeOK /\ ReaderInv /\ RunInv /\ OutInv /\ PlaceInv /\ ChannelInv /\ LossInv /\ ReleaseInv
  BY Zenon DEF RxInv
<1>1. /\ arrived' = arrived /\ ctl' = ctl /\ esp' = esp /\ espOut' = espOut /\ ctlOut' = ctlOut
      /\ rxClosed' = rxClosed /\ released' = released /\ UNCHANGED <<batched, fastOK, readErr>>
  BY Zenon
<1>2. /\ ReaderInv' /\ Passed' = Passed + 1 /\ reader'.pc = "classify"
      /\ reader' \in [pc : {"check", "read", "classify", "exited"}, slots : Seq(Datagram),
                      free : 0 .. RxBatch, err : BOOLEAN]
  BY <1>t, <1>1, PassOne, Zenon
<1> DEFINE x == Head(reader.slots)
<1>3. /\ Passed + 1 \in 1 .. Len(arrived) /\ x = arrived[Passed + 1] /\ x \in Datagram
      /\ x.id = Passed + 1 /\ Passed \in Nat /\ Len(arrived) \in Nat /\ Len(arrived) <= MaxRead
  BY <1>t, FirstSlot, Slots, Zenon
<1>4. x.kind = "esp" /\ batch' = Append(batch, x) /\ batch \in Seq(Datagram)
  BY <1>t, RxTypes, Zenon
<1> HIDE DEF x
<1>5. \A d : Holds(batch', d) <=> Holds(batch, d) \/ d = x.id
  BY <1>3, <1>4, HoldsAppend
<1>6. RxTypeOK'
  <2>1. batch' \in Seq(Datagram) /\ Len(batch') = Len(batch) + 1 /\ Len(batch) \in Nat
    BY <1>3, <1>4, AppendFacts
  <2>2. Len(batch') <= RxBatch
    BY <2>1, RxAssumption
  <2> QED
    BY <1>t, <1>1, <1>2, <2>1, <2>2, Zenon DEF RxTypeOK
<1>7. RunInv'
  <2>1. Len(batch') = Len(batch) + 1
    BY <1>3, <1>4, AppendFacts
  <2> QED
    BY <2>1, Zenon DEF RunInv
<1>8. \A d \in 1 .. MaxRead : Holds(batch, d) \/ Holds(espOut, d) => d < x.id
  BY <1>3, Places, SMTT(30)
<1>9. OutInv'
  <2>1. Ascending(batch')
    BY <1>t, <1>3, <1>4, <1>8, AscendingAppend, Zenon DEF OutInv
  <2>2. Given(batch', "esp")
    BY <1>t, <1>3, <1>4, GivenAppend, Zenon DEF OutInv
  <2>3. Given(batch, "esp")'
    BY <1>1, <2>2, Zenon DEF Given
  <2> QED
    BY <1>t, <1>1, <2>1, <2>3, SMTT(30) DEF OutInv, Given
<1>10. PlaceInv'
  <2>1. \A d \in 1 .. MaxRead : d <= Passed \/ d = x.id => d <= Passed'
    BY <1>2, <1>3, RxAssumption
  <2>2. \A d \in 1 .. MaxRead : Holds(espOut', d) \/ Holds(batch', d) \/ Holds(ctlOut', d) => d <= Passed'
    BY <1>t, <1>1, <1>5, <2>1, Zenon DEF PlaceInv
  <2>3. \A d, e \in 1 .. MaxRead : Holds(espOut', d) /\ Holds(batch', e) => d < e
    BY <1>t, <1>1, <1>5, <1>8, Zenon DEF PlaceInv
  <2> QED
    BY <2>2, <2>3, Zenon DEF PlaceInv
<1>11. ChannelInv'
  BY <1>t, <1>1, Zenon DEF ChannelInv
<1>12. LossInv'
  <2>1. Running' => Running
    BY <1>1, <1>2, Zenon DEF Running
  <2>2. ASSUME NEW d \in 1 .. Len(arrived), Passed < d, ~(Passed' < d)
        PROVE  arrived[d].kind = "esp" /\ Holds(batch', d)
    <3>1. d = Passed + 1
      BY <1>2, <1>3, <2>2
    <3> QED
      BY <1>3, <1>4, <1>5, <3>1, Zenon
  <2> QED
    BY <1>t, <1>1, <1>5, <2>1, <2>2, Zenon DEF LossInv
<1>13. ReleaseInv'
  <2>1. ASSUME NEW d \in 1 .. MaxRead
        PROVE  Kept(d)' <=> Kept(d)
    <3>1. Passed < d <=> Passed' < d \/ d = x.id
      BY <1>2, <1>3, <2>1, RxAssumption
    <3> QED
      BY <1>1, <1>5, <3>1, Zenon DEF Kept
  <2> QED
    BY <1>1, <2>1, KeepStep, Zenon
<1> QED
  BY <1>2, <1>6, <1>7, <1>9, <1>10, <1>11, <1>12, <1>13, Zenon DEF RxInv
\* The reader met the close: what it holds goes back.
LEMMA GiveUpStep ==
  ASSUME RxInv, rxClosed, ReaderGivesUp,
         UNCHANGED <<batched, run, batch, fastOK, readErr, rxClosed, arrived, esp, ctl, espOut, ctlOut>>
  PROVE  RxInv'
<1>t. RxTypeOK /\ ReaderInv /\ RunInv /\ OutInv /\ PlaceInv /\ ChannelInv /\ LossInv /\ ReleaseInv
  BY Zenon DEF RxInv
<1>1. /\ arrived' = arrived /\ batch' = batch /\ esp' = esp /\ ctl' = ctl /\ espOut' = espOut
      /\ ctlOut' = ctlOut /\ run' = run /\ rxClosed' = rxClosed /\ UNCHANGED <<batched, fastOK, readErr>>
      /\ reader' = [pc |-> "exited", slots |-> <<>>, free |-> 0, err |-> FALSE]
      /\ Release(Ids(reader.slots))
  BY Zenon DEF ReaderGivesUp, Idle
<1>2. /\ Passed \in Nat /\ Passed <= Len(arrived) /\ Len(arrived) \in Nat
      /\ \A d \in Nat : Holds(reader.slots, d) <=> Passed < d /\ d <= Len(arrived)
  BY <1>t, Slots, Zenon
<1>3. Passed' = Len(arrived)
  <2>1. Passed' = Len(arrived) - Len(<<>>)
    BY <1>1, Zenon DEF Passed
  <2>2. Len(<<>>) = 0
    BY Zenon
  <2> QED
    BY <1>2, <2>1, <2>2
<1>4. RxTypeOK'
  <2>1. released' \in [1 .. MaxRead -> Nat]
    BY <1>t, <1>1, ReleaseType, Zenon
  <2>2. reader' \in [pc : {"check", "read", "classify", "exited"}, slots : Seq(Datagram),
                     free : 0 .. RxBatch, err : BOOLEAN]
    BY <1>1, RxAssumption, SMTT(30)
  <2> QED
    BY <1>t, <1>1, <2>1, <2>2, Zenon DEF RxTypeOK
<1>5. ReaderInv'
  <2>1. reader'.slots = <<>> /\ Len(reader'.slots) = 0 /\ reader'.pc = "exited" /\ reader'.free = 0
    BY <1>1, Zenon
  <2> QED
    BY <1>t, <1>1, <1>2, <2>1, SMTT(30) DEF ReaderInv
<1>6. RunInv'
  BY <1>t, <1>1, Zenon DEF RunInv
<1>7. OutInv'
  BY <1>t, <1>1, SMTT(30) DEF OutInv, Given
<1>8. PlaceInv'
  <2>1. \A d \in 1 .. MaxRead : d <= Passed => d <= Passed'
    BY <1>2, <1>3, RxAssumption
  <2> QED
    BY <1>t, <1>1, <2>1, Zenon DEF PlaceInv
<1>9. ChannelInv'
  BY <1>t, <1>1, Zenon DEF ChannelInv
<1>10. LossInv'
  BY <1>1, SMTT(30) DEF LossInv, Running
<1>11. ReleaseInv'
  <2>1. \A d : d \in Ids(reader.slots) <=> Holds(reader.slots, d)
    BY Zenon DEF Ids, Holds
  <2>2. ASSUME NEW d \in 1 .. MaxRead
        PROVE  Kept(d)' <=> Kept(d) /\ d \notin Ids(reader.slots)
    <3>1. d \in Nat
      BY <2>2, RxAssumption
    <3>2. Holds(batch, d) \/ InBatches(esp, d) \/ Holds(ctl, d) => d <= Passed
      BY <2>2, Places, Zenon
    <3>3. Passed' < d <=> Passed < d /\ ~(Passed < d /\ d <= Len(arrived))
      BY <1>2, <1>3, <3>1
    <3>4. d \in Ids(reader.slots) <=> Passed < d /\ d <= Len(arrived)
      BY <1>2, <2>1, <3>1, Zenon
    <3>5. d <= Passed => ~(Passed < d)
      BY <1>2, <3>1
    <3> QED
      BY <1>1, <3>2, <3>3, <3>4, <3>5, Zenon DEF Kept
  <2>3. ASSUME NEW d \in 1 .. MaxRead, d \in Ids(reader.slots)
        PROVE  d <= Len(arrived) /\ Kept(d)
    <3>1. d \in Nat
      BY <2>3, RxAssumption
    <3> QED
      BY <1>2, <2>1, <2>3, <3>1, Zenon DEF Kept
  <2> QED
    BY <1>1, <2>2, <2>3, ReleaseStep, Zenon
<1> QED
  BY <1>4, <1>5, <1>6, <1>7, <1>8, <1>9, <1>10, <1>11, Zenon DEF RxInv

\* Run gives up: the batch goes back.
LEMMA ReturnsStep ==
  ASSUME RxInv, RunReturns
  PROVE  RxInv'
<1>t. RxTypeOK /\ ReaderInv /\ RunInv /\ OutInv /\ PlaceInv /\ ChannelInv /\ LossInv /\ ReleaseInv
  BY Zenon DEF RxInv
<1>1. /\ arrived' = arrived /\ reader' = reader /\ esp' = esp /\ ctl' = ctl /\ espOut' = espOut
      /\ ctlOut' = ctlOut /\ rxClosed' = rxClosed /\ UNCHANGED <<batched, fastOK, readErr>>
      /\ run' = "returned" /\ batch' = <<>> /\ Release(Ids(batch))
  BY Zenon DEF RunReturns
<1>2. Passed' = Passed
  BY <1>1, Zenon DEF Passed
<1>3. \A d : ~Holds(batch', d)
  BY <1>1, HoldsEmpty, Zenon
<1>4. RxTypeOK'
  <2>1. released' \in [1 .. MaxRead -> Nat]
    BY <1>t, <1>1, ReleaseType, Zenon
  <2>2. batch' \in Seq(Datagram) /\ Len(batch') <= RxBatch
    BY <1>1, RxAssumption
  <2> QED
    BY <1>t, <1>1, <2>1, <2>2, Zenon DEF RxTypeOK
<1>5. ReaderInv'
  BY <1>t, <1>1, <1>2, Zenon DEF ReaderInv
<1>6. RunInv'
  BY <1>1, Zenon DEF RunInv
<1>7. OutInv'
  <2>1. Ascending(batch') /\ Given(batch, "esp")'
    BY <1>1, SMTT(30) DEF Ascending, Given
  <2> QED
    BY <1>t, <1>1, <2>1 DEF OutInv, Given
<1>8. PlaceInv'
  BY <1>t, <1>1, <1>2, <1>3, Zenon DEF PlaceInv
<1>9. ChannelInv'
  BY <1>t, <1>1, Zenon DEF ChannelInv
<1>10. LossInv'
  BY <1>1, Zenon DEF LossInv, Running
<1>11. ReleaseInv'
  <2>1. \A d : d \in Ids(batch) <=> Holds(batch, d)
    BY Zenon DEF Ids, Holds
  <2>2. ASSUME NEW d \in 1 .. MaxRead
        PROVE  Kept(d)' <=> Kept(d) /\ d \notin Ids(batch)
    <3>1. Holds(batch, d) => ~(Passed < d) /\ ~InBatches(esp, d) /\ ~Holds(ctl, d)
      BY <2>2, Places, SMTT(30)
    <3> QED
      BY <1>1, <1>2, <1>3, <2>1, <3>1, Zenon DEF Kept
  <2>3. ASSUME NEW d \in 1 .. MaxRead, d \in Ids(batch)
        PROVE  d <= Len(arrived) /\ Kept(d)
    BY <2>1, <2>3, Places, SMTT(30) DEF Kept
  <2> QED
    BY <1>1, <2>2, <2>3, ReleaseStep, Zenon
<1> QED
  BY <1>4, <1>5, <1>6, <1>7, <1>8, <1>9, <1>10, <1>11, Zenon DEF RxInv
\* The batch goes to the ESP pipeline.
LEMMA DeliverStep ==
  ASSUME RxInv, DeliverBatch
  PROVE  RxInv'
<1>t. RxTypeOK /\ ReaderInv /\ RunInv /\ OutInv /\ PlaceInv /\ ChannelInv /\ LossInv /\ ReleaseInv
  BY Zenon DEF RxInv
<1>1. /\ arrived' = arrived /\ reader' = reader /\ ctl' = ctl /\ ctlOut' = ctlOut
      /\ released' = released /\ rxClosed' = rxClosed /\ UNCHANGED <<batched, readErr>>
      /\ run \in {"deliver", "flush"} /\ run' = "select" /\ batch' = <<>> /\ fastOK' = (run = "flush")
      /\ Len(esp) < EspCap /\ esp' = Append(esp, batch) /\ espOut' = espOut \o batch
  BY Zenon DEF DeliverBatch
<1>2. Passed' = Passed
  BY <1>1, Zenon DEF Passed
<1>3. \A d : ~Holds(batch', d)
  BY <1>1, HoldsEmpty, Zenon
<1>4. /\ batch \in Seq(Datagram) /\ espOut \in Seq(Datagram) /\ esp \in Seq(Seq(Datagram))
      /\ Len(esp) \in Nat
  BY <1>t, RxTypes, Zenon
<1>5. /\ esp' \in Seq(Seq(Datagram)) /\ Len(esp') = Len(esp) + 1
      /\ esp'[Len(esp) + 1] = batch /\ \A b \in 1 .. Len(esp) : esp'[b] = esp[b]
  BY <1>1, <1>4, AppendFacts
<1>6. \A d : Holds(espOut', d) <=> Holds(espOut, d) \/ Holds(batch, d)
  BY <1>1, <1>4, HoldsConcat, Zenon
<1>7. ASSUME NEW d
      PROVE  InBatches(esp', d) <=> InBatches(esp, d) \/ Holds(batch, d)
  <2>1. ASSUME NEW b \in 1 .. Len(esp'), Holds(esp'[b], d)
        PROVE  InBatches(esp, d) \/ Holds(batch, d)
    <3>1. CASE b = Len(esp) + 1
      BY <1>5, <2>1, <3>1, Zenon
    <3>2. CASE b \in 1 .. Len(esp)
      BY <1>5, <2>1, <3>2, Zenon DEF InBatches
    <3> QED
      BY <1>4, <1>5, <2>1, <3>1, <3>2, SMTT(30)
  <2>2. ASSUME NEW b \in 1 .. Len(esp), Holds(esp[b], d)
        PROVE  InBatches(esp', d)
    <3>1. b \in 1 .. Len(esp') /\ esp'[b] = esp[b]
      BY <1>4, <1>5, <2>2
    <3> QED
      BY <2>2, <3>1, Zenon DEF InBatches
  <2>3. Holds(batch, d) => InBatches(esp', d)
    <3>1. Len(esp) + 1 \in 1 .. Len(esp')
      BY <1>4, <1>5
    <3> QED
      BY <1>5, <3>1, Zenon DEF InBatches
  <2> QED
    BY <2>1, <2>2, <2>3, Zenon DEF InBatches
<1>8. RxTypeOK'
  <2>1. batch' \in Seq(Datagram) /\ Len(batch') <= RxBatch
    BY <1>1, RxAssumption
  <2>2. espOut' \in Seq(Datagram)
    BY <1>1, <1>4, ConcatFacts, Zenon
  <2>3. Len(esp') <= EspCap
    BY <1>1, <1>4, <1>5, RxAssumption
  <2>4. fastOK' \in BOOLEAN
    BY <1>1, Zenon
  <2> QED
    BY <1>t, <1>1, <1>5, <2>1, <2>2, <2>3, <2>4, Zenon DEF RxTypeOK
<1>9. ReaderInv'
  BY <1>t, <1>1, <1>2, Zenon DEF ReaderInv
<1>10. RunInv'
  BY <1>1, RxAssumption DEF RunInv
<1>11. OutInv'
  <2>1. Ascending(batch') /\ Given(batch, "esp")'
    BY <1>1, SMTT(30) DEF Ascending, Given
  <2>2. Ascending(espOut')
    BY <1>t, <1>1, <1>4, AscendingConcat, Zenon DEF OutInv, PlaceInv
  <2>3. Given(espOut', "esp")
    BY <1>t, <1>1, <1>4, GivenConcat, Zenon DEF OutInv
  <2>4. Given(espOut, "esp")'
    BY <1>1, <2>3, Zenon DEF Given
  <2> QED
    BY <1>t, <1>1, <2>1, <2>2, <2>4, SMTT(30) DEF OutInv, Given
<1>12. PlaceInv'
  BY <1>t, <1>1, <1>2, <1>3, <1>6, Zenon DEF PlaceInv
<1>13. ChannelInv'
  <2>1. ASSUME NEW b \in 1 .. Len(esp'), NEW d \in 1 .. MaxRead, Holds(esp'[b], d)
        PROVE  Holds(espOut', d)
    <3>1. InBatches(esp', d)
      BY <2>1, Zenon DEF InBatches
    <3> QED
      BY <1>6, <1>7, <2>1, <3>1, Places, Zenon
  <2>2. ASSUME NEW b \in 1 .. Len(esp'), NEW c \in 1 .. Len(esp'), NEW d \in 1 .. MaxRead,
               NEW e \in 1 .. MaxRead, b < c, Holds(esp'[b], d), Holds(esp'[c], e)
        PROVE  d < e
    <3>a. b \in 1 .. Len(esp) + 1 /\ c \in 1 .. Len(esp) + 1 /\ b < c
      <4>1. Len(esp') = Len(esp) + 1
        BY <1>5, Zenon
      <4> QED
        BY <2>2, <4>1, Zenon
    <3>b. b \in 1 .. Len(esp) /\ (c \in 1 .. Len(esp) \/ c = Len(esp) + 1)
      BY <1>4, <3>a, SMTT(30)
    <3>1. b \in 1 .. Len(esp) /\ esp'[b] = esp[b]
      BY <1>5, <3>b, Zenon
    <3>2. CASE c \in 1 .. Len(esp)
      BY <1>t, <1>5, <2>2, <3>1, <3>2, Zenon DEF ChannelInv
    <3>3. CASE c = Len(esp) + 1
      <4>1. Holds(espOut, d)
        BY <1>t, <2>2, <3>1, Zenon DEF ChannelInv
      <4>2. Holds(batch, e)
        BY <1>5, <2>2, <3>3, Zenon
      <4> QED
        BY <1>t, <2>2, <4>1, <4>2, Zenon DEF PlaceInv
    <3> QED
      BY <3>b, <3>2, <3>3, Zenon
  <2>3. \A b \in 1 .. Len(esp') : \A d \in 1 .. MaxRead : Holds(esp'[b], d) => Holds(espOut', d)
    BY <2>1, Zenon
  <2>4. \A b, c \in 1 .. Len(esp') : \A d, e \in 1 .. MaxRead :
          b < c /\ Holds(esp'[b], d) /\ Holds(esp'[c], e) => d < e
    BY <2>2, Zenon
  <2> QED
    BY <1>t, <1>1, <2>3, <2>4, Zenon DEF ChannelInv
<1>14. LossInv'
  <2>1. Running' => Running
    BY <1>1, Zenon DEF Running
  <2> QED
    BY <1>t, <1>1, <1>2, <1>6, <2>1, Zenon DEF LossInv
<1>15. ReleaseInv'
  <2>1. \A d \in 1 .. MaxRead : Kept(d)' <=> Kept(d)
    BY <1>1, <1>2, <1>3, <1>7, Zenon DEF Kept
  <2> QED
    BY <1>1, <2>1, KeepStep, Zenon
<1> QED
  BY <1>8, <1>9, <1>10, <1>11, <1>12, <1>13, <1>14, <1>15, Zenon DEF RxInv

\* The ESP pipeline takes a batch and gives its buffers back.
LEMMA ConsumeESPStep ==
  ASSUME RxInv, ConsumeESP
  PROVE  RxInv'
<1>t. RxTypeOK /\ ReaderInv /\ RunInv /\ OutInv /\ PlaceInv /\ ChannelInv /\ LossInv /\ ReleaseInv
  BY Zenon DEF RxInv
<1>1. /\ arrived' = arrived /\ reader' = reader /\ ctl' = ctl /\ espOut' = espOut /\ ctlOut' = ctlOut
      /\ batch' = batch /\ run' = run /\ rxClosed' = rxClosed /\ UNCHANGED <<batched, fastOK, readErr>>
      /\ esp # <<>> /\ esp' = Tail(esp) /\ Release(Ids(Head(esp)))
  BY Zenon DEF ConsumeESP
<1>2. Passed' = Passed
  BY <1>1, Zenon DEF Passed
<1>3. /\ Head(esp) = esp[1] /\ esp' \in Seq(Seq(Datagram)) /\ Len(esp) \in Nat /\ Len(esp) >= 1
      /\ Len(esp') = Len(esp) - 1 /\ \A b \in 1 .. Len(esp) - 1 : esp'[b] = esp[b + 1]
  <2>1. esp \in Seq(Seq(Datagram))
    BY <1>t, RxTypes, Zenon
  <2> QED
    BY <1>1, <2>1, TailFacts, Zenon
<1>4. ASSUME NEW b \in 1 .. Len(esp')
      PROVE  b + 1 \in 1 .. Len(esp) /\ esp'[b] = esp[b + 1] /\ 1 \in 1 .. Len(esp) /\ 1 < b + 1
  BY <1>3, <1>4
<1>5. ASSUME NEW d \in 1 .. MaxRead
      PROVE  InBatches(esp', d) <=> InBatches(esp, d) /\ ~Holds(esp[1], d)
  <2>1. ASSUME NEW b \in 1 .. Len(esp'), Holds(esp'[b], d)
        PROVE  InBatches(esp, d) /\ ~Holds(esp[1], d)
    <3>1. Holds(esp[b + 1], d)
      BY <1>4, <2>1, Zenon
    <3>2. InBatches(esp, d)
      BY <1>4, <2>1, <3>1, Zenon DEF InBatches
    <3>3. Holds(esp[1], d) => d < d
      BY <1>t, <1>4, <1>5, <2>1, <3>1, Zenon DEF ChannelInv
    <3> QED
      BY <1>5, <3>2, <3>3, RxAssumption
  <2>2. ASSUME NEW b \in 1 .. Len(esp), Holds(esp[b], d), ~Holds(esp[1], d)
        PROVE  InBatches(esp', d)
    <3>1. b - 1 \in 1 .. Len(esp') /\ (b - 1) + 1 = b
      BY <1>3, <2>2
    <3>2. esp'[b - 1] = esp[b]
      BY <1>4, <3>1, Zenon
    <3> QED
      BY <2>2, <3>1, <3>2, Zenon DEF InBatches
  <2> QED
    BY <2>1, <2>2, Zenon DEF InBatches
<1>6. RxTypeOK'
  <2>1. released' \in [1 .. MaxRead -> Nat]
    BY <1>t, <1>1, ReleaseType, Zenon
  <2>2. Len(esp') <= EspCap
    BY <1>t, <1>3, RxAssumption DEF RxTypeOK
  <2> QED
    BY <1>t, <1>1, <1>3, <2>1, <2>2 DEF RxTypeOK
<1>7. ReaderInv' /\ RunInv'
  BY <1>t, <1>1, <1>2, Zenon DEF ReaderInv, RunInv
<1>8. OutInv'
  BY <1>t, <1>1, Zenon DEF OutInv, Given
<1>9. PlaceInv'
  BY <1>t, <1>1, <1>2, Zenon DEF PlaceInv
<1>10. ChannelInv'
  <2>1. \A b \in 1 .. Len(esp') : \A d \in 1 .. MaxRead : Holds(esp'[b], d) => Holds(espOut', d)
    BY <1>t, <1>1, <1>4, Zenon DEF ChannelInv
  <2>2. ASSUME NEW b \in 1 .. Len(esp'), NEW c \in 1 .. Len(esp'), b < c
        PROVE  b + 1 < c + 1
    BY <1>3, <2>2
  <2>3. \A b, c \in 1 .. Len(esp') : \A d, e \in 1 .. MaxRead :
          b < c /\ Holds(esp'[b], d) /\ Holds(esp'[c], e) => d < e
    BY <1>t, <1>4, <2>2, Zenon DEF ChannelInv
  <2> QED
    BY <1>t, <1>1, <2>1, <2>3, Zenon DEF ChannelInv
<1>11. LossInv'
  BY <1>t, <1>1, <1>2, Zenon DEF LossInv, Running
<1>12. ReleaseInv'
  <2>1. \A d : d \in Ids(Head(esp)) <=> Holds(esp[1], d)
    BY <1>3, Zenon DEF Ids, Holds
  <2>2. ASSUME NEW d \in 1 .. MaxRead
        PROVE  Holds(esp[1], d) => InBatches(esp, d)
    <3>1. 1 \in 1 .. Len(esp)
      BY <1>3
    <3> QED
      BY <3>1, Zenon DEF InBatches
  <2>3. ASSUME NEW d \in 1 .. MaxRead
        PROVE  Kept(d)' <=> Kept(d) /\ d \notin Ids(Head(esp))
    <3>1. InBatches(esp, d) => d <= Passed /\ ~Holds(batch, d) /\ ~Holds(ctl, d)
      BY <2>3, Places, Zenon
    <3>2. d <= Passed => ~(Passed < d)
      BY <2>3, Places, SMTT(30)
    <3>3. InBatches(esp', d) <=> InBatches(esp, d) /\ d \notin Ids(Head(esp))
      BY <1>5, <2>1, <2>3, Zenon
    <3>4. d \in Ids(Head(esp)) => InBatches(esp, d)
      BY <2>1, <2>2, <2>3, Zenon
    <3> QED
      BY <1>1, <1>2, <3>1, <3>2, <3>3, <3>4, Zenon DEF Kept
  <2>4. ASSUME NEW d \in 1 .. MaxRead, d \in Ids(Head(esp))
        PROVE  d <= Len(arrived) /\ Kept(d)
    BY <2>1, <2>2, <2>4, Places, SMTT(30) DEF Kept
  <2> QED
    BY <1>1, <2>3, <2>4, ReleaseStep, Zenon
<1> QED
  BY <1>6, <1>7, <1>8, <1>9, <1>10, <1>11, <1>12, Zenon DEF RxInv
\* The demux takes a message and gives its buffer back.
LEMMA ConsumeIKEStep ==
  ASSUME RxInv, ConsumeIKE
  PROVE  RxInv'
<1>t. RxTypeOK /\ ReaderInv /\ RunInv /\ OutInv /\ PlaceInv /\ ChannelInv /\ LossInv /\ ReleaseInv
  BY Zenon DEF RxInv
<1>1. /\ arrived' = arrived /\ reader' = reader /\ esp' = esp /\ espOut' = espOut /\ ctlOut' = ctlOut
      /\ batch' = batch /\ run' = run /\ rxClosed' = rxClosed /\ UNCHANGED <<batched, fastOK, readErr>>
      /\ ctl # <<>> /\ ctl' = Tail(ctl) /\ Release({Head(ctl).id})
  BY Zenon DEF ConsumeIKE
<1>2. Passed' = Passed
  BY <1>1, Zenon DEF Passed
<1>3. ctl \in Seq(Datagram) /\ Ascending(ctl)
  BY <1>t, RxTypes, Zenon DEF ChannelInv
<1>4. /\ Head(ctl) = ctl[1] /\ ctl' \in Seq(Datagram) /\ Len(ctl') = Len(ctl) - 1 /\ Len(ctl) \in Nat
  BY <1>1, <1>3, TailFacts, Zenon
<1>5. \A d : Holds(ctl, d) <=> d = ctl[1].id \/ Holds(ctl', d)
  BY <1>1, <1>3, HoldsTail, Zenon
<1>6. Ascending(ctl') /\ ~Holds(ctl', ctl[1].id)
  BY <1>1, <1>3, AscendingTail, Zenon
<1>7. RxTypeOK'
  <2>1. released' \in [1 .. MaxRead -> Nat]
    BY <1>t, <1>1, ReleaseType, Zenon
  <2>2. Len(ctl') <= CtlCap
    BY <1>t, <1>4, RxAssumption DEF RxTypeOK
  <2> QED
    BY <1>t, <1>1, <1>4, <2>1, <2>2 DEF RxTypeOK
<1>8. ReaderInv' /\ RunInv'
  BY <1>t, <1>1, <1>2, Zenon DEF ReaderInv, RunInv
<1>9. OutInv'
  BY <1>t, <1>1, Zenon DEF OutInv, Given
<1>10. PlaceInv'
  BY <1>t, <1>1, <1>2, Zenon DEF PlaceInv
<1>11. ChannelInv'
  <2>1. \A d \in 1 .. MaxRead : Holds(ctl', d) => Holds(ctlOut', d)
    BY <1>t, <1>1, <1>5, Zenon DEF ChannelInv
  <2> QED
    BY <1>t, <1>1, <1>6, <2>1, Zenon DEF ChannelInv
<1>12. LossInv'
  BY <1>t, <1>1, <1>2, Zenon DEF LossInv, Running
<1>13. ReleaseInv'
  <2>1. \A d : d \in {Head(ctl).id} <=> d = ctl[1].id
    BY <1>4, Zenon
  <2>2. ASSUME NEW d \in 1 .. MaxRead
        PROVE  Kept(d)' <=> Kept(d) /\ d \notin {Head(ctl).id}
    <3>1. Holds(ctl, d) => ~(Passed < d) /\ ~Holds(batch, d) /\ ~InBatches(esp, d)
      BY <2>2, Places, SMTT(30)
    <3>2. Holds(ctl', d) <=> Holds(ctl, d) /\ d \notin {Head(ctl).id}
      BY <1>5, <1>6, <2>1, Zenon
    <3>3. d \in {Head(ctl).id} => Holds(ctl, d)
      BY <1>5, <2>1, Zenon
    <3> QED
      BY <1>1, <1>2, <3>1, <3>2, <3>3, Zenon DEF Kept
  <2>3. ASSUME NEW d \in 1 .. MaxRead, d \in {Head(ctl).id}
        PROVE  d <= Len(arrived) /\ Kept(d)
    BY <1>5, <2>1, <2>3, Places, SMTT(30) DEF Kept
  <2> QED
    BY <1>1, <2>2, <2>3, ReleaseStep, Zenon
<1> QED
  BY <1>7, <1>8, <1>9, <1>10, <1>11, <1>12, <1>13, Zenon DEF RxInv

\* The steps that move no datagram.
LEMMA OtherRxStep ==
  ASSUME RxInv, ReaderChecks \/ ReaderLoops \/ RunTicks \/ RunDone \/ RxClose \/ UNCHANGED rxVars
  PROVE  RxInv'
<1>t. RxTypeOK /\ ReaderInv /\ RunInv
  BY Zenon DEF RxInv
<1>r. reader \in [pc : {"check", "read", "classify", "exited"}, slots : Seq(Datagram),
                  free : 0 .. RxBatch, err : BOOLEAN]
  BY <1>t, Zenon DEF RxTypeOK
<1>1. /\ Quiet /\ reader' \in [pc : {"check", "read", "classify", "exited"}, slots : Seq(Datagram),
                               free : 0 .. RxBatch, err : BOOLEAN]
      /\ reader'.pc # "classify" => reader'.slots = <<>>
      /\ reader'.pc \in {"check", "exited"} => reader'.free = 0
      /\ run' = "done" => reader'.pc = "exited"
  <2>1. CASE ReaderChecks
    <3>1. reader.slots = <<>> /\ reader.free = 0 /\ run' = run /\ run # "done"
      BY <1>t, <2>1, Zenon DEF ReaderChecks, ReaderInv, RunInv
    <3>2. CASE rxClosed
      <4>1. reader' = [reader EXCEPT !.pc = "exited"]
        BY <2>1, <3>2, Zenon DEF ReaderChecks
      <4> QED
        BY <1>r, <2>1, <3>1, <4>1, Zenon DEF ReaderChecks, Quiet
    <3>3. CASE ~rxClosed
      <4>1. PICK m \in {RxBatch, 1} : reader' = [reader EXCEPT !.pc = "read", !.free = m]
        BY <2>1, <3>3, Zenon DEF ReaderChecks
      <4>2. m \in 0 .. RxBatch
        BY <4>1, RxAssumption
      <4> QED
        BY <1>r, <2>1, <3>1, <4>1, <4>2, Zenon DEF ReaderChecks, Quiet
    <3> QED
      BY <3>2, <3>3, Zenon
  <2>2. CASE ReaderLoops
    <3>1. /\ reader.slots = <<>> /\ run' = run /\ run # "done"
          /\ \E pc \in {"check", "exited"} : reader' = [pc |-> pc, slots |-> <<>>, free |-> 0, err |-> FALSE]
      BY <1>t, <2>2, Zenon DEF ReaderLoops, Idle, RunInv
    <3> QED
      BY <2>2, <3>1, RxAssumption DEF ReaderLoops, Quiet
  <2>3. CASE RunTicks \/ RunDone \/ RxClose \/ UNCHANGED rxVars
    <3>1. reader' = reader /\ Quiet /\ (run' = "done" => run = "done" \/ reader.pc = "exited")
      BY <2>3, Zenon DEF RunTicks, RunDone, RxClose, rxVars, Quiet
    <3> QED
      BY <1>t, <1>r, <3>1, Zenon DEF ReaderInv, RunInv
  <2> QED
    BY <2>1, <2>2, <2>3, Zenon
<1>2. /\ Running' => Running
      /\ batched' \in BOOLEAN /\ fastOK' \in BOOLEAN /\ readErr' \in BOOLEAN /\ rxClosed' \in BOOLEAN
      /\ run' \in {"select", "deliver", "flush", "returned", "done"}
      /\ run' = "select" => run = "select"
      /\ run' \in {"returned", "done"} => run \in {"returned", "done"}
  <2>1. CASE ReaderChecks
    BY <1>t, <1>r, <2>1, Zenon DEF ReaderChecks, RxTypeOK, Running
  <2>2. CASE ReaderLoops
    BY <1>t, <2>2, Zenon DEF ReaderLoops, RxTypeOK, Running, Idle
  <2>3. CASE RunTicks
    BY <1>t, <2>3, Zenon DEF RunTicks, RxTypeOK, Running
  <2>4. CASE RunDone
    BY <1>t, <2>4, Zenon DEF RunDone, RxTypeOK, Running
  <2>5. CASE RxClose
    BY <1>t, <2>5, Zenon DEF RxClose, RxTypeOK, Running
  <2>6. CASE UNCHANGED rxVars
    BY <1>t, <2>6, Zenon DEF rxVars, RxTypeOK, Running
  <2> QED
    BY <2>1, <2>2, <2>3, <2>4, <2>5, <2>6, Zenon
<1>3. /\ arrived' = arrived /\ reader'.slots = reader.slots /\ batch' = batch /\ esp' = esp /\ ctl' = ctl
      /\ espOut' = espOut /\ ctlOut' = ctlOut /\ released' = released /\ Passed' = Passed
  BY <1>1, Zenon DEF Quiet, Passed
<1>4. OutInv' /\ PlaceInv' /\ ChannelInv' /\ LossInv' /\ ReleaseInv'
  BY <1>1, <1>2, QuietStep, Zenon
<1>5. RxTypeOK'
  BY <1>t, <1>1, <1>2, <1>3, Zenon DEF RxTypeOK
<1>6. ReaderInv'
  BY <1>t, <1>1, <1>3 DEF ReaderInv
<1>7. RunInv'
  BY <1>t, <1>1, <1>2, <1>3, Zenon DEF RunInv
<1> QED
  BY <1>4, <1>5, <1>6, <1>7, Zenon DEF RxInv

LEMMA RxStep ==
  ASSUME RxInv, [RxNext]_rxVars
  PROVE  RxInv'
<1>1. CASE ClassifyIKE
  <2>1. CASE rxClosed /\ ReaderGivesUp /\ UNCHANGED <<ctl, ctlOut>>
    BY <1>1, <2>1, GiveUpStep, Zenon DEF ClassifyIKE
  <2>2. CASE ~(rxClosed /\ ReaderGivesUp /\ UNCHANGED <<ctl, ctlOut>>)
    BY <1>1, <2>2, IKEStep, Zenon DEF ClassifyIKE
  <2> QED
    BY <2>1, <2>2, Zenon
<1>2. CASE ClassifyESP
  <2>1. CASE rxClosed /\ ReaderGivesUp /\ UNCHANGED <<batch, run>>
    BY <1>2, <2>1, GiveUpStep, Zenon DEF ClassifyESP
  <2>2. CASE /\ run = "select"
             /\ batch' = Append(batch, Head(reader.slots))
             /\ run' = CASE Len(batch) + 1 >= RxBatch -> "flush"
                         [] Len(batch) + 1 < RxBatch /\ fastOK -> "deliver"
                         [] OTHER -> "select"
             /\ Next1 /\ UNCHANGED released
    <3>1. Len(batch) < RxBatch /\ Len(batch) \in Nat
      BY <2>2, RxTypes DEF RxInv, RunInv
    <3>2. run' \in {"select", "deliver", "flush"} /\ (run' = "select" => Len(batch) + 1 < RxBatch)
      BY <2>2, <3>1, RxAssumption
    <3> QED
      BY <1>2, <2>2, <3>1, <3>2, ESPStep, Zenon DEF ClassifyESP
  <2> QED
    BY <1>2, <2>1, <2>2, Zenon DEF ClassifyESP
<1>3. CASE \E n \in 0 .. RxBatch, err \in BOOLEAN : WireYields(n, err)
  <2>1. \A n \in 0 .. RxBatch : n \in Nat
    BY RxAssumption
  <2> QED
    BY <1>3, <2>1, WireStep, Zenon
<1>4. CASE RunEnds \/ DeliverAborted
  BY <1>4, ReturnsStep, Zenon DEF RunEnds, DeliverAborted
<1> QED
  BY <1>1, <1>2, <1>3, <1>4, KeepaliveStep, DeliverStep, ConsumeESPStep, ConsumeIKEStep, OtherRxStep, Zenon
  DEF RxNext, ReaderStep, RunStep
LEMMA RxStart == RxInit => RxInv
<1> SUFFICES ASSUME RxInit
             PROVE  RxInv
  BY Zenon
<1>1. /\ arrived = <<>> /\ batch = <<>> /\ esp = <<>> /\ ctl = <<>> /\ espOut = <<>> /\ ctlOut = <<>>
      /\ reader = [pc |-> "check", slots |-> <<>>, free |-> 0, err |-> FALSE] /\ run = "select"
      /\ released = [d \in 1 .. MaxRead |-> 0]
      /\ batched \in BOOLEAN /\ fastOK = TRUE /\ readErr = FALSE /\ rxClosed = FALSE
  BY Zenon DEF RxInit, Idle
<1>2. Len(arrived) = 0 /\ Len(esp) = 0 /\ Len(reader.slots) = 0 /\ Passed = 0
  BY <1>1 DEF Passed
<1>3. \A d : ~Holds(espOut, d) /\ ~Holds(batch, d) /\ ~Holds(ctlOut, d) /\ ~Holds(ctl, d)
  BY <1>1, HoldsEmpty, Zenon
<1>4. RxTypeOK
  <2>1. reader \in [pc : {"check", "read", "classify", "exited"}, slots : Seq(Datagram),
                    free : 0 .. RxBatch, err : BOOLEAN]
    BY <1>1, RxAssumption, SMTT(30)
  <2>2. Len(batch) <= RxBatch /\ Len(esp) <= EspCap /\ Len(ctl) <= CtlCap
    BY <1>1, RxAssumption
  <2>3. /\ batch \in Seq(Datagram) /\ arrived \in Seq(Datagram) /\ esp \in Seq(Seq(Datagram))
        /\ ctl \in Seq(Datagram) /\ espOut \in Seq(Datagram) /\ ctlOut \in Seq(Datagram)
        /\ released \in [1 .. MaxRead -> Nat]
    BY <1>1
  <2> QED
    BY <1>1, <2>1, <2>2, <2>3, Zenon DEF RxTypeOK
<1>5. ReaderInv
  BY <1>1, <1>2 DEF ReaderInv
<1>6. RunInv
  BY <1>1, RxAssumption, SMTT(30) DEF RunInv
<1>7. OutInv
  BY <1>1, SMTT(30) DEF OutInv, Ascending, Given
<1>8. PlaceInv /\ LossInv
  BY <1>2, <1>3, SMTT(30) DEF PlaceInv, LossInv
<1>9. ChannelInv
  BY <1>1, <1>2, <1>3, SMTT(30) DEF ChannelInv, Ascending
<1>10. ReleaseInv
  <2>1. \A d \in 1 .. MaxRead : ~(d <= Len(arrived))
    BY <1>2, RxAssumption
  <2> QED
    BY <1>1, <2>1, Zenon DEF ReleaseInv
<1> QED
  BY <1>4, <1>5, <1>6, <1>7, <1>8, <1>9, <1>10, Zenon DEF RxInv

LEMMA RxSafe ==
  ASSUME RxInv
  PROVE  RxInOrder /\ RxBuffersReturned
<1>t. RxTypeOK /\ ReaderInv /\ RunInv /\ OutInv /\ PlaceInv /\ ChannelInv /\ LossInv /\ ReleaseInv
  BY Zenon DEF RxInv
<1>1. Len(arrived) <= MaxRead /\ Len(arrived) \in Nat /\ Passed \in Nat
  BY <1>t, Slots, Zenon
<1>2. ASSUME NEW d \in 1 .. Len(arrived)
      PROVE  d \in Nat /\ d \in 1 .. MaxRead /\ (Holds(reader.slots, d) <=> Passed < d)
  <2>1. d \in Nat /\ d <= Len(arrived) /\ d \in 1 .. MaxRead
    BY <1>1, <1>2, RxAssumption
  <2> QED
    BY <1>t, <2>1, Slots, Zenon
<1>3. RxInOrder
  <2>1. Running =>
          \A d \in 1 .. Len(arrived) :
            /\ arrived[d].kind = "esp" => Holds(espOut, d) \/ Holds(batch, d) \/ Holds(reader.slots, d)
            /\ arrived[d].kind = "ike" => Holds(ctlOut, d) \/ Holds(reader.slots, d)
    BY <1>t, <1>2, Zenon DEF LossInv
  <2> QED
    BY <1>t, <2>1, Zenon DEF RxInOrder, OutInv
<1>4. ASSUME NEW d \in 1 .. Len(arrived)
      PROVE  /\ released[d] = IF Held(d) THEN 0 ELSE 1
             /\ Holds(reader.slots, d) => ~Holds(batch, d) /\ ~InBatches(esp, d) /\ ~Holds(ctl, d)
             /\ Holds(batch, d) => ~InBatches(esp, d) /\ ~Holds(ctl, d)
             /\ InBatches(esp, d) => ~Holds(ctl, d)
  <2>1. d \in 1 .. MaxRead /\ d \in Nat /\ d <= Len(arrived)
    BY <1>1, <1>2, <1>4
  <2>2. Held(d) <=> Kept(d)
    BY <1>2, <1>4, Zenon DEF Held, Kept
  <2>3. released[d] = IF Held(d) THEN 0 ELSE 1
    <3>1. released[d] = IF d <= Len(arrived) /\ ~Kept(d) THEN 1 ELSE 0
      BY <1>t, <2>1, Zenon DEF ReleaseInv
    <3> QED
      BY <2>1, <2>2, <3>1, Zenon
  <2>4. /\ Passed < d => ~Holds(batch, d) /\ ~InBatches(esp, d) /\ ~Holds(ctl, d)
        /\ Holds(batch, d) => ~InBatches(esp, d) /\ ~Holds(ctl, d)
        /\ InBatches(esp, d) => ~Holds(ctl, d)
    BY <2>1, Places, SMTT(30)
  <2> QED
    BY <1>2, <1>4, <2>3, <2>4, Zenon
<1>5. ASSUME NEW d \in 1 .. Len(arrived), NEW b \in 1 .. Len(esp), NEW c \in 1 .. Len(esp),
             Holds(esp[b], d), Holds(esp[c], d)
      PROVE  b = c
  <2>1. d \in 1 .. MaxRead /\ d \in Nat
    BY <1>2, <1>5, Zenon
  <2>2. ~(d < d)
    BY <2>1
  <2>3. ~(b < c) /\ ~(c < b)
    BY <1>t, <1>5, <2>1, <2>2, Zenon DEF ChannelInv
  <2>4. b \in Nat /\ c \in Nat
    BY <1>t, <1>5, RxTypes
  <2> QED
    BY <2>3, <2>4
<1>6. run = "done" => reader.slots = <<>> /\ reader.free = 0 /\ batch = <<>>
  BY <1>t, Zenon DEF RunInv, ReaderInv
<1>7. RxBuffersReturned
  BY <1>4, <1>5, <1>6, Zenon DEF RxBuffersReturned
<1> QED
  BY <1>3, <1>7, Zenon
-----------------------------------------------------------------------------
(* TxWorker keeps its invariant. *)

LEMMA TxTypes ==
  ASSUME TxTypeOK
  PROVE  /\ frames \in Seq(Frame) /\ Len(frames) \in Nat /\ queued \in Seq(Frame) /\ Len(queued) \in Nat
         /\ written \in Seq(Frame) /\ Len(written) \in Nat
         /\ tx.group \in Seq(Frame) /\ Len(tx.group) \in Nat /\ tx.next \in Nat
         /\ before \in Nat
<1>1. frames \in Seq(Frame) /\ queued \in Seq(Frame) /\ written \in Seq(Frame)
  BY Zenon DEF TxTypeOK
<1>2. tx.group \in Seq(Frame) /\ tx.next \in Nat
  BY Zenon DEF TxTypeOK
<1>3. before \in Nat
  BY TxAssumption DEF TxTypeOK
<1> QED
  BY <1>1, <1>2, <1>3

\* The numbers of frames taken from the channel, and of those not in the group.
LEMMA TxCounts ==
  ASSUME TxTypeOK, FramesInv
  PROVE  /\ TakenFrames \in Nat /\ TakenFrames <= Len(queued) /\ TakenFrames + Len(frames) = Len(queued)
         /\ Len(queued) <= MaxFrames
<1>1. /\ Len(frames) \in Nat /\ Len(queued) \in Nat /\ Len(frames) <= Len(queued)
  BY TxTypes, Zenon DEF FramesInv
<1>2. Len(queued) <= MaxFrames
  <2>1. CASE Len(queued) = 0
    BY <2>1, TxAssumption
  <2>2. CASE Len(queued) # 0
    <3>1. Len(queued) \in 1 .. Len(queued)
      BY <1>1, <2>2
    <3>2. queued[Len(queued)] \in Frame /\ queued[Len(queued)].id = Len(queued)
      BY <3>1, TxTypes, SMTT(30) DEF FramesInv
    <3> QED
      BY <3>2, TxAssumption, SMTT(30) DEF Frame
  <2> QED
    BY <2>1, <2>2, Zenon
<1> QED
  BY <1>1, <1>2 DEF TakenFrames

LEMMA SubmitStep ==
  ASSUME TxInv, Submit
  PROVE  TxInv'
<1>t. TxTypeOK /\ FramesInv /\ GroupInv /\ CloseInv /\ FreedInv
  BY Zenon DEF TxInv
<1>1. PICK f : /\ f.id = Len(queued) + 1 /\ f \in Frame
               /\ frames' = Append(frames, f) /\ queued' = Append(queued, f)
  <2>1. PICK hooked \in BOOLEAN, fits \in BOOLEAN :
          LET f == [id |-> Len(queued) + 1, hooked |-> hooked, fits |-> fits]
          IN  frames' = Append(frames, f) /\ queued' = Append(queued, f)
    BY Zenon DEF Submit
  <2>2. Len(queued) + 1 \in 1 .. MaxFrames
    BY <1>t, TxTypes, TxAssumption, SMTT(30) DEF Submit
  <2>3. [id |-> Len(queued) + 1, hooked |-> hooked, fits |-> fits] \in Frame
    BY <2>2, Zenon DEF Frame
  <2> QED
    BY <2>1, <2>3, Zenon
<1>2. /\ batchWire' = batchWire /\ tx' = tx /\ txClosed' = txClosed /\ before' = before
      /\ written' = written /\ freed' = freed /\ Len(frames) < FramesCap
  BY Zenon DEF Submit
<1>3. /\ frames' \in Seq(Frame) /\ Len(frames') = Len(frames) + 1 /\ frames'[Len(frames) + 1] = f
      /\ \A i \in 1 .. Len(frames) : frames'[i] = frames[i]
  BY <1>t, <1>1, TxTypes, AppendFacts, SMTT(30)
<1>4. /\ queued' \in Seq(Frame) /\ Len(queued') = Len(queued) + 1 /\ queued'[Len(queued) + 1] = f
      /\ \A i \in 1 .. Len(queued) : queued'[i] = queued[i]
  BY <1>t, <1>1, TxTypes, AppendFacts, SMTT(30)
<1>5. /\ Len(frames) \in Nat /\ Len(queued) \in Nat /\ Len(written) \in Nat /\ Len(tx.group) \in Nat
      /\ TakenFrames \in Nat /\ TakenFrames <= Len(queued) /\ TakenFrames + Len(frames) = Len(queued)
  BY <1>t, TxTypes, TxCounts, Zenon
<1>6. TakenFrames' = TakenFrames
  <2>1. TakenFrames' = (Len(queued) + 1) - (Len(frames) + 1)
    BY <1>3, <1>4, Zenon DEF TakenFrames
  <2> QED
    BY <1>5, <2>1 DEF TakenFrames
<1>7. TxTypeOK'
  <2>1. Len(frames') <= FramesCap
    BY <1>2, <1>3, <1>5, TxAssumption
  <2> QED
    BY <1>t, <1>2, <1>3, <1>4, <2>1, Zenon DEF TxTypeOK
<1>8. FramesInv'
  <2>1. ASSUME NEW g \in 1 .. Len(queued')
        PROVE  queued'[g].id = g
    <3>1. CASE g \in 1 .. Len(queued)
      BY <1>t, <1>4, <3>1, Zenon DEF FramesInv
    <3>2. CASE g = Len(queued) + 1
      BY <1>1, <1>4, <3>2, Zenon
    <3> QED
      BY <1>4, <1>5, <2>1, <3>1, <3>2
  <2>2. Len(frames') <= Len(queued')
    BY <1>t, <1>3, <1>4, <1>5 DEF FramesInv
  <2>3. ASSUME NEW i \in 1 .. Len(frames')
        PROVE  frames'[i] = queued'[TakenFrames' + i]
    <3>1. CASE i \in 1 .. Len(frames)
      <4>1. TakenFrames + i \in 1 .. Len(queued)
        BY <1>5, <3>1
      <4> QED
        BY <1>t, <1>3, <1>4, <1>6, <3>1, <4>1, Zenon DEF FramesInv
    <3>2. CASE i = Len(frames) + 1
      <4>1. TakenFrames + i = Len(queued) + 1
        BY <1>5, <3>2
      <4> QED
        BY <1>3, <1>4, <1>6, <3>2, <4>1, Zenon
    <3> QED
      BY <1>3, <1>5, <2>3, <3>1, <3>2
  <2>4. ASSUME NEW i \in 1 .. Len(written)
        PROVE  written[i] = queued'[i]
    <3>1. i \in 1 .. Len(queued)
      BY <1>t, <1>5, <2>4 DEF FramesInv
    <3> QED
      BY <1>t, <1>4, <2>4, <3>1, Zenon DEF FramesInv
  <2>5. Len(written') <= TakenFrames'
    BY <1>t, <1>2, <1>6, Zenon DEF FramesInv
  <2> QED
    BY <1>2, <2>1, <2>2, <2>3, <2>4, <2>5, Zenon DEF FramesInv
<1>9. GroupInv'
  <2>1. ASSUME tx.pc # "failed", NEW i \in 1 .. Len(tx.group)
        PROVE  tx.group[i] = queued'[(TakenFrames - Len(tx.group)) + i]
    <3>1. /\ tx.next \in Nat \ {0} /\ Len(written) + Len(tx.group) + 1 = TakenFrames + tx.next
          /\ tx.next <= Len(tx.group) + 1 /\ Len(tx.group) <= TakenFrames
          /\ tx.group[i] = queued[(TakenFrames - Len(tx.group)) + i]
      BY <1>t, <2>1, Zenon DEF GroupInv
    <3>2. (TakenFrames - Len(tx.group)) + i \in 1 .. Len(queued)
      BY <1>5, <2>1, <3>1
    <3> QED
      BY <1>4, <3>1, <3>2, Zenon
  <2> QED
    BY <1>t, <1>2, <1>6, <2>1, Zenon DEF GroupInv
<1>10. CloseInv'
  <2>1. before' <= Len(queued')
    BY <1>t, <1>2, <1>4, <1>5, TxTypes, SMTT(30) DEF CloseInv
  <2> QED
    BY <1>t, <1>2, <2>1, Zenon DEF CloseInv
<1>11. FreedInv'
  <2>1. ASSUME NEW g \in 1 .. Len(queued'),
               g <= (IF batchWire THEN TakenFrames - Len(tx.group) ELSE Len(written))
        PROVE  g \in 1 .. Len(queued) /\ queued'[g] = queued[g]
    <3>1. g <= Len(queued)
      BY <1>t, <1>4, <1>5, <2>1 DEF FramesInv
    <3>2. g \in 1 .. Len(queued)
      BY <1>4, <1>5, <2>1, <3>1
    <3> QED
      BY <1>4, <3>2, Zenon
  <2> QED
    BY <1>t, <1>2, <1>6, <2>1, Zenon DEF FreedInv
<1> QED
  BY <1>7, <1>8, <1>9, <1>10, <1>11, Zenon DEF TxInv
LEMMA TakeFrameStep ==
  ASSUME TxInv, TakeFrame
  PROVE  TxInv'
<1>t. TxTypeOK /\ FramesInv /\ GroupInv /\ CloseInv /\ FreedInv
  BY Zenon DEF TxInv
<1>1. /\ batchWire' = batchWire /\ queued' = queued /\ txClosed' = txClosed /\ before' = before
      /\ written' = written /\ freed' = freed /\ frames # <<>> /\ frames' = Tail(frames)
      /\ tx' = [tx EXCEPT !.pc = "collect", !.group = Append(tx.group, Head(frames))]
      /\ tx.pc = "select" \/ (tx.pc = "collect" /\ Len(tx.group) <= WriteBatch)
  BY Zenon DEF TakeFrame
<1>2. /\ Head(frames) \in Frame /\ Head(frames) = frames[1] /\ frames' \in Seq(Frame)
      /\ Len(frames) \in Nat /\ Len(frames) >= 1 /\ Len(frames') = Len(frames) - 1
      /\ \A i \in 1 .. Len(frames) - 1 : frames'[i] = frames[i + 1]
  BY <1>t, <1>1, TxTypes, TailFacts, Zenon
<1>3. /\ Len(queued) \in Nat /\ Len(written) \in Nat /\ Len(tx.group) \in Nat /\ tx.group \in Seq(Frame)
      /\ TakenFrames \in Nat /\ TakenFrames <= Len(queued) /\ TakenFrames + Len(frames) = Len(queued)
  BY <1>t, TxTypes, TxCounts, Zenon
<1>4. /\ tx' \in [pc : {"select", "collect", "write", "drain", "failed", "done"},
                  group : Seq(Frame), next : Nat]
      /\ tx'.pc = "collect" /\ tx'.group = Append(tx.group, Head(frames)) /\ tx'.next = tx.next
  <2>1. tx \in [pc : {"select", "collect", "write", "drain", "failed", "done"},
                group : Seq(Frame), next : Nat]
    BY <1>t, Zenon DEF TxTypeOK
  <2>2. Append(tx.group, Head(frames)) \in Seq(Frame)
    BY <1>2, <1>3, AppendFacts, Zenon
  <2> QED
    BY <1>1, <2>1, <2>2, Zenon
<1>5. /\ Len(tx'.group) = Len(tx.group) + 1 /\ tx'.group[Len(tx.group) + 1] = frames[1]
      /\ \A i \in 1 .. Len(tx.group) : tx'.group[i] = tx.group[i]
  BY <1>2, <1>3, <1>4, AppendFacts, SMTT(30)
<1>6. TakenFrames' = TakenFrames + 1
  <2>1. TakenFrames' = Len(queued) - (Len(frames) - 1)
    BY <1>1, <1>2, Zenon DEF TakenFrames
  <2>2. Len(frames) \in Nat /\ Len(queued) \in Nat /\ TakenFrames = Len(queued) - Len(frames)
    BY <1>2, <1>3, Zenon DEF TakenFrames
  <2> QED
    BY <2>1, <2>2
<1>7. /\ tx.next = 1 /\ Len(tx.group) <= TakenFrames
      /\ Len(written) + Len(tx.group) + 1 = TakenFrames + tx.next
      /\ \A i \in 1 .. Len(tx.group) : tx.group[i] = queued[(TakenFrames - Len(tx.group)) + i]
  BY <1>t, <1>1, Zenon DEF GroupInv
<1>8. TxTypeOK'
  <2>1. Len(tx'.group) <= WriteBatch + 1
    <3>1. Len(tx.group) <= WriteBatch
      <4>1. CASE tx.pc = "select"
        <5>1. tx.group = <<>>
          BY <1>t, <4>1, Zenon DEF GroupInv
        <5> QED
          BY <5>1, TxAssumption
      <4> QED
        BY <1>1, <4>1, Zenon
    <3> QED
      BY <1>3, <1>5, <3>1, TxAssumption
  <2>2. Len(frames') <= FramesCap
    BY <1>t, <1>2, TxAssumption DEF TxTypeOK
  <2> QED
    BY <1>t, <1>1, <1>2, <1>4, <2>1, <2>2, Zenon DEF TxTypeOK
<1>9. FramesInv'
  <2>1. ASSUME NEW i \in 1 .. Len(frames')
        PROVE  frames'[i] = queued[(TakenFrames + 1) + i]
    <3>1. i \in 1 .. Len(frames) - 1 /\ i + 1 \in 1 .. Len(frames) /\ (TakenFrames + 1) + i = TakenFrames + (i + 1)
      BY <1>2, <1>3, <2>1
    <3> QED
      BY <1>t, <1>2, <3>1, Zenon DEF FramesInv
  <2>2. Len(frames') <= Len(queued) /\ Len(written) <= TakenFrames + 1
    BY <1>t, <1>2, <1>3 DEF FramesInv
  <2> QED
    BY <1>t, <1>1, <1>6, <2>1, <2>2, Zenon DEF FramesInv
<1>10. GroupInv'
  <2>1. /\ tx'.next = 1 /\ tx'.next <= Len(tx'.group) + 1 /\ Len(tx'.group) <= TakenFrames'
        /\ Len(written') + Len(tx'.group) + 1 = TakenFrames' + tx'.next
        /\ TakenFrames' - Len(tx'.group) = TakenFrames - Len(tx.group)
    <3>1. /\ tx'.next = 1 /\ Len(tx'.group) = Len(tx.group) + 1 /\ written' = written
      BY <1>1, <1>4, <1>5, <1>7, Zenon
    <3>2. /\ Len(tx.group) \in Nat /\ Len(written) \in Nat /\ TakenFrames \in Nat /\ tx.next = 1
          /\ Len(tx.group) <= TakenFrames /\ Len(written) + Len(tx.group) + 1 = TakenFrames + tx.next
      BY <1>3, <1>7, Zenon
    <3> QED
      BY <1>6, <3>1, <3>2
  <2>2. ASSUME NEW i \in 1 .. Len(tx'.group)
        PROVE  tx'.group[i] = queued[(TakenFrames - Len(tx.group)) + i]
    <3>1. CASE i \in 1 .. Len(tx.group)
      BY <1>5, <1>7, <3>1, Zenon
    <3>2. CASE i = Len(tx.group) + 1
      <4>1. (TakenFrames - Len(tx.group)) + i = TakenFrames + 1 /\ 1 \in 1 .. Len(frames)
        <5>1. Len(frames) \in Nat /\ Len(frames) >= 1 /\ Len(tx.group) \in Nat /\ TakenFrames \in Nat
          BY <1>2, <1>3, Zenon
        <5>2. (TakenFrames - Len(tx.group)) + (Len(tx.group) + 1) = TakenFrames + 1
          <6>1. \A a, b \in Nat : (a - b) + (b + 1) = a + 1
            OBVIOUS
          <6> QED
            BY <5>1, <6>1, Zenon
        <5>3. 1 \in 1 .. Len(frames)
          BY <5>1
        <5> QED
          BY <3>2, <5>2, <5>3, Zenon
      <4>2. frames[1] = queued[TakenFrames + 1]
        BY <1>t, <4>1, Zenon DEF FramesInv
      <4> QED
        BY <1>5, <3>2, <4>1, <4>2, Zenon
    <3> QED
      BY <1>3, <1>5, <2>2, <3>1, <3>2, SMTT(30)
  <2>3. \A i \in 1 .. Len(tx'.group) : tx'.group[i] = queued'[(TakenFrames' - Len(tx'.group)) + i]
    BY <1>1, <2>1, <2>2, Zenon
  <2> QED
    BY <1>4, <2>1, <2>3 DEF GroupInv
<1>11. CloseInv'
  BY <1>t, <1>1, <1>4, Zenon DEF CloseInv
<1>12. FreedInv'
  <2>1. TakenFrames' - Len(tx'.group) = TakenFrames - Len(tx.group) /\ tx.pc # "failed"
    BY <1>1, <1>3, <1>5, <1>6, SMTT(30)
  <2>2. \A f \in freed : f <= TakenFrames + 1
    <3>1. \A f \in freed : f \in Nat /\ f <= TakenFrames
      BY <1>t, TxAssumption DEF FreedInv, TxTypeOK
    <3> QED
      BY <1>3, <3>1
  <2>3. \A f \in freed' : f <= TakenFrames'
    BY <1>1, <1>6, <2>2, Zenon
  <2>4. tx'.pc # "failed" =>
          \A f \in freed' : f <= IF batchWire' THEN TakenFrames' - Len(tx'.group) ELSE Len(written')
    BY <1>t, <1>1, <2>1, Zenon DEF FreedInv
  <2>5. \A f \in 1 .. Len(queued') :
          queued'[f].hooked /\ f <= (IF batchWire' THEN TakenFrames' - Len(tx'.group) ELSE Len(written'))
            => f \in freed'
    BY <1>t, <1>1, <2>1, Zenon DEF FreedInv
  <2> QED
    BY <2>3, <2>4, <2>5, Zenon DEF FreedInv
<1> QED
  BY <1>8, <1>9, <1>10, <1>11, <1>12, Zenon DEF TxInv

\* Steps that change only where TxWorker.Run is.
LEMMA TxQuietStep ==
  ASSUME TxInv, GroupReady \/ SeeClose \/ TxClose \/ UNCHANGED txVars
  PROVE  TxInv'
<1>t. TxTypeOK /\ FramesInv /\ GroupInv /\ CloseInv /\ FreedInv
  BY Zenon DEF TxInv
<1>x. tx \in [pc : {"select", "collect", "write", "drain", "failed", "done"},
              group : Seq(Frame), next : Nat]
  BY <1>t, Zenon DEF TxTypeOK
<1>1. /\ batchWire' = batchWire /\ queued' = queued /\ frames' = frames /\ written' = written
      /\ freed' = freed
  BY Zenon DEF GroupReady, SeeClose, TxClose, txVars
<1>2. TakenFrames' = TakenFrames
  BY <1>1, Zenon DEF TakenFrames
<1>3. /\ tx' \in [pc : {"select", "collect", "write", "drain", "failed", "done"},
                  group : Seq(Frame), next : Nat]
      /\ tx'.group = tx.group /\ tx'.next = tx.next
      /\ tx'.pc = tx.pc \/ (tx.pc = "collect" /\ tx'.pc = "write") \/ (tx.pc = "select" /\ tx'.pc = "drain" /\ txClosed)
  <2>1. CASE GroupReady
    <3>1. tx' = [tx EXCEPT !.pc = "write"] /\ tx.pc = "collect"
      BY <2>1, Zenon DEF GroupReady
    <3> QED
      BY <1>x, <3>1, Zenon
  <2>2. CASE SeeClose
    <3>1. tx' = [pc |-> "drain", group |-> <<>>, next |-> 1] /\ tx.pc = "select" /\ txClosed
      BY <2>2, Zenon DEF SeeClose, Clear
    <3>2. tx.group = <<>> /\ tx.next = 1
      BY <1>t, <3>1, Zenon DEF GroupInv
    <3> QED
      BY <3>1, <3>2, SMTT(30)
  <2>3. CASE TxClose \/ UNCHANGED txVars
    <3>1. tx' = tx
      BY <2>3, Zenon DEF TxClose, txVars
    <3> QED
      BY <1>x, <3>1, Zenon
  <2> QED
    BY <2>1, <2>2, <2>3, Zenon
<1>4. /\ txClosed' \in BOOLEAN /\ before' \in 0 .. MaxFrames /\ before' <= Len(queued)
      /\ txClosed => txClosed' /\ before' = before
  <2>1. CASE TxClose
    <3>1. txClosed' = TRUE /\ ~txClosed /\ before' = Len(queued)
      BY <2>1, Zenon DEF TxClose
    <3>2. Len(queued) \in Nat /\ Len(queued) <= MaxFrames
      BY <1>t, TxTypes, TxCounts, Zenon
    <3> QED
      BY <3>1, <3>2, TxAssumption
  <2>2. CASE GroupReady \/ SeeClose \/ UNCHANGED txVars
    <3>1. txClosed' = txClosed /\ before' = before
      BY <2>2, Zenon DEF GroupReady, SeeClose, txVars
    <3> QED
      BY <1>t, <3>1, Zenon DEF TxTypeOK, CloseInv
  <2> QED
    BY <2>1, <2>2, Zenon
<1>5. TxTypeOK'
  BY <1>t, <1>1, <1>3, <1>4, Zenon DEF TxTypeOK
<1>6. FramesInv'
  BY <1>t, <1>1, <1>2, Zenon DEF FramesInv
<1>7. GroupInv'
  <2>1. tx'.pc = "write" => tx'.next <= Len(tx'.group)
    <3>1. CASE tx.pc = "collect" /\ tx'.pc = "write"
      <4>1. Len(tx.group) >= 1 /\ tx.next = 1
        BY <1>t, <3>1, TxTypes, Zenon DEF GroupInv
      <4> QED
        BY <1>3, <4>1, Zenon
    <3> QED
      BY <1>t, <1>3, <3>1, Zenon DEF GroupInv
  <2> QED
    BY <1>t, <1>1, <1>2, <1>3, <2>1, Zenon DEF GroupInv
<1>8. CloseInv'
  BY <1>t, <1>1, <1>3, <1>4, Zenon DEF CloseInv
<1>9. FreedInv'
  BY <1>t, <1>1, <1>2, <1>3, Zenon DEF FreedInv
<1> QED
  BY <1>5, <1>6, <1>7, <1>8, <1>9, Zenon DEF TxInv
LEMMA SubSeqFacts ==
  ASSUME NEW S, NEW q \in Seq(S), NEW a \in 1 .. Len(q), NEW n \in 0 .. Len(q) - a + 1
  PROVE  /\ SubSeq(q, a, a + n - 1) \in Seq(S) /\ Len(SubSeq(q, a, a + n - 1)) = n
         /\ \A i \in 1 .. n : SubSeq(q, a, a + n - 1)[i] = q[a + i - 1]
  OBVIOUS

\* The group in terms of the frames queued.
LEMMA GroupFacts ==
  ASSUME TxInv, tx.pc = "write"
  PROVE  /\ tx.group \in Seq(Frame) /\ Len(tx.group) \in Nat /\ tx.next \in 1 .. Len(tx.group)
         /\ TakenFrames \in Nat /\ TakenFrames <= Len(queued) /\ Len(queued) \in Nat
         /\ Len(written) \in Nat /\ Len(tx.group) <= TakenFrames
         /\ Len(written) + Len(tx.group) + 1 = TakenFrames + tx.next
         /\ \A i \in 1 .. Len(tx.group) :
              /\ (TakenFrames - Len(tx.group)) + i \in 1 .. TakenFrames
              /\ tx.group[i] = queued[(TakenFrames - Len(tx.group)) + i]
              /\ tx.group[i].id = (TakenFrames - Len(tx.group)) + i
<1>1. /\ tx.group \in Seq(Frame) /\ Len(tx.group) \in Nat /\ Len(written) \in Nat /\ Len(queued) \in Nat
      /\ TakenFrames \in Nat /\ TakenFrames <= Len(queued)
  BY TxTypes, TxCounts, Zenon DEF TxInv
<1>2. /\ tx.next \in Nat \ {0} /\ tx.next <= Len(tx.group) /\ Len(tx.group) <= TakenFrames
      /\ Len(written) + Len(tx.group) + 1 = TakenFrames + tx.next
      /\ \A i \in 1 .. Len(tx.group) : tx.group[i] = queued[(TakenFrames - Len(tx.group)) + i]
  BY Zenon DEF TxInv, GroupInv
<1>3. tx.next \in 1 .. Len(tx.group)
  BY <1>1, <1>2
<1>4. ASSUME NEW i \in 1 .. Len(tx.group)
      PROVE  /\ (TakenFrames - Len(tx.group)) + i \in 1 .. TakenFrames
             /\ tx.group[i].id = (TakenFrames - Len(tx.group)) + i
  <2>1. \A a, g \in Nat : g <= a => \A j \in 1 .. g : (a - g) + j \in 1 .. a
    OBVIOUS
  <2>2. (TakenFrames - Len(tx.group)) + i \in 1 .. TakenFrames
    BY <1>1, <1>2, <1>4, <2>1, Zenon
  <2>3. \A a, b \in Nat : a <= b => \A j \in 1 .. a : j \in 1 .. b
    OBVIOUS
  <2>4. (TakenFrames - Len(tx.group)) + i \in 1 .. Len(queued)
    BY <1>1, <2>2, <2>3
  <2> QED
    BY <1>2, <1>4, <2>2, <2>4, Zenon DEF TxInv, FramesInv
<1> QED
  BY <1>1, <1>2, <1>3, <1>4, Zenon

\* writeBatch on the wire: what is written continues the queue.
LEMMA WroteFacts ==
  ASSUME TxInv, tx.pc = "write", NEW n \in 0 .. Len(tx.group) - tx.next + 1,
         written' = written \o SubSeq(tx.group, tx.next, tx.next + n - 1)
  PROVE  /\ n \in Nat /\ written' \in Seq(Frame) /\ Len(written') = Len(written) + n
         /\ Len(written') <= TakenFrames
         /\ \A i \in 1 .. Len(written') : written'[i] = queued[i]
<1>1. /\ tx.group \in Seq(Frame) /\ Len(tx.group) \in Nat /\ tx.next \in 1 .. Len(tx.group)
      /\ TakenFrames \in Nat /\ Len(written) \in Nat /\ Len(tx.group) <= TakenFrames
      /\ Len(written) + Len(tx.group) + 1 = TakenFrames + tx.next
      /\ \A i \in 1 .. Len(tx.group) : tx.group[i] = queued[(TakenFrames - Len(tx.group)) + i]
  BY GroupFacts, Zenon
<1> DEFINE part == SubSeq(tx.group, tx.next, tx.next + n - 1)
<1>2. part \in Seq(Frame) /\ Len(part) = n /\ \A i \in 1 .. n : part[i] = tx.group[tx.next + i - 1]
  <2>1. \A q \in Seq(Frame) : \A a \in 1 .. Len(q) : \A m \in 0 .. Len(q) - a + 1 :
          /\ SubSeq(q, a, a + m - 1) \in Seq(Frame) /\ Len(SubSeq(q, a, a + m - 1)) = m
          /\ \A i \in 1 .. m : SubSeq(q, a, a + m - 1)[i] = q[a + i - 1]
    BY SubSeqFacts, Zenon
  <2> QED
    BY <1>1, <2>1, Zenon
<1>3. written' = written \o part /\ written \in Seq(Frame)
  BY TxTypes, Zenon DEF TxInv
<1> HIDE DEF part
<1>4. /\ written' \in Seq(Frame) /\ Len(written') = Len(written) + n
      /\ \A i \in 1 .. Len(written) : written'[i] = written[i]
      /\ \A i \in 1 .. n : written'[Len(written) + i] = part[i]
  <2>1. \A p, q \in Seq(Frame) :
          /\ p \o q \in Seq(Frame) /\ Len(p \o q) = Len(p) + Len(q)
          /\ \A d \in 1 .. Len(p) : (p \o q)[d] = p[d]
          /\ \A i \in 1 .. Len(q) : (p \o q)[Len(p) + i] = q[i]
    BY ConcatFacts
  <2>2. written \in Seq(Frame) /\ part \in Seq(Frame)
    BY <1>2, <1>3, Zenon
  <2>3. /\ written \o part \in Seq(Frame) /\ Len(written \o part) = Len(written) + Len(part)
        /\ \A d \in 1 .. Len(written) : (written \o part)[d] = written[d]
        /\ \A i \in 1 .. Len(part) : (written \o part)[Len(written) + i] = part[i]
    BY <2>1, <2>2, Zenon
  <2> QED
    BY <1>2, <1>3, <2>3, Zenon
<1>5. n \in Nat /\ Len(written') <= TakenFrames
  <2>1. \A g, w, t \in Nat : \A x \in 1 .. g : \A m \in 0 .. g - x + 1 :
          w + g + 1 = t + x => m \in Nat /\ w + m <= t
    OBVIOUS
  <2>2. n \in Nat /\ Len(written) + n <= TakenFrames
    <3>1. /\ tx.next \in 1 .. Len(tx.group) /\ Len(tx.group) \in Nat /\ Len(written) \in Nat
          /\ TakenFrames \in Nat /\ Len(written) + Len(tx.group) + 1 = TakenFrames + tx.next
      BY <1>1, Zenon
    <3> QED
      BY <2>1, <3>1, Zenon
  <2> QED
    BY <1>4, <2>2, Zenon
<1>6. ASSUME NEW i \in 1 .. n
      PROVE  part[i] = queued[Len(written) + i]
  <2>1. \A g, w, t \in Nat : \A x \in 1 .. g : \A m \in 0 .. g - x + 1 : \A j \in 1 .. m :
          w + g + 1 = t + x => x + j - 1 \in 1 .. g /\ (t - g) + (x + j - 1) = w + j
    OBVIOUS
  <2>2. /\ tx.next + i - 1 \in 1 .. Len(tx.group)
        /\ (TakenFrames - Len(tx.group)) + (tx.next + i - 1) = Len(written) + i
    BY <1>1, <1>6, <2>1, ZenonT(40)
  <2> QED
    BY <1>1, <1>2, <1>6, <2>2, Zenon
<1>7. ASSUME NEW i \in 1 .. Len(written')
      PROVE  written'[i] = queued[i]
  <2>1. CASE i <= Len(written)
    <3>1. i \in 1 .. Len(written)
      BY <1>1, <1>4, <1>5, <1>7, <2>1, SMTT(30)
    <3> QED
      BY <1>4, <3>1, Zenon DEF TxInv, FramesInv
  <2>2. CASE ~(i <= Len(written))
    <3>1. i - Len(written) \in 1 .. n /\ Len(written) + (i - Len(written)) = i
      BY <1>1, <1>4, <1>5, <1>7, <2>2, SMTT(30)
    <3> QED
      BY <1>4, <1>6, <3>1
  <2> QED
    BY <2>1, <2>2, Zenon
<1> QED
  BY <1>4, <1>5, <1>7, Zenon

\* The end of a group: all its frames are released.
LEMMA GroupEndsStep ==
  ASSUME TxInv, tx.pc = "write", batchWire, NEW pc \in {"select", "failed"}, Clear(pc), Free(GroupIds),
         written' \in Seq(Frame), Len(written') \in Nat, Len(written') <= TakenFrames,
         \A i \in 1 .. Len(written') : written'[i] = queued[i],
         pc = "select" => Len(written') = TakenFrames,
         UNCHANGED <<batchWire, frames, queued, txClosed, before>>
  PROVE  TxInv'
<1>t. TxTypeOK /\ FramesInv /\ GroupInv /\ CloseInv /\ FreedInv
  BY Zenon DEF TxInv
<1>1. /\ batchWire' = batchWire /\ queued' = queued /\ txClosed' = txClosed /\ before' = before
      /\ frames' = frames /\ tx' = [pc |-> pc, group |-> <<>>, next |-> 1] /\ tx'.pc = pc
      /\ tx'.group = <<>> /\ tx'.next = 1 /\ Len(tx'.group) = 0 /\ TakenFrames' = TakenFrames
  BY Zenon DEF Clear, TakenFrames
<1>2. /\ TakenFrames \in Nat /\ TakenFrames <= Len(queued) /\ Len(queued) \in Nat
      /\ Len(tx.group) \in Nat /\ Len(tx.group) <= TakenFrames /\ Len(queued) <= MaxFrames
      /\ \A i \in 1 .. Len(tx.group) : tx.group[i].id = (TakenFrames - Len(tx.group)) + i
  BY <1>t, GroupFacts, TxCounts, Zenon
<1>3. ASSUME NEW f \in Nat
      PROVE  f \in GroupIds <=> TakenFrames - Len(tx.group) < f /\ f <= TakenFrames
  <2>1. ASSUME NEW i \in 1 .. Len(tx.group)
        PROVE  /\ TakenFrames - Len(tx.group) < (TakenFrames - Len(tx.group)) + i
               /\ (TakenFrames - Len(tx.group)) + i <= TakenFrames
    <3>1. \A a, g \in Nat : \A j \in 1 .. g : a - g < (a - g) + j /\ (a - g) + j <= a
      BY SMTT(30)
    <3> QED
      BY <1>2, <2>1, <3>1, Zenon
  <2>2. ASSUME TakenFrames - Len(tx.group) < f, f <= TakenFrames
        PROVE  \E i \in 1 .. Len(tx.group) : f = (TakenFrames - Len(tx.group)) + i
    <3>1. \A a, g, x \in Nat : a - g < x /\ x <= a => x - (a - g) \in 1 .. g /\ x = (a - g) + (x - (a - g))
      BY SMTT(30)
    <3> QED
      BY <1>2, <1>3, <2>2, <3>1, ZenonT(40)
  <2> QED
    BY <1>2, <2>1, <2>2, Zenon DEF GroupIds
<1>4. \A f \in Nat : f \in freed' <=> f \in freed \/ (f \in GroupIds /\ queued[f].hooked)
  BY Zenon DEF Free
<1>5. \A f \in freed : f \in 1 .. MaxFrames /\ f \in Nat /\ f <= TakenFrames
  BY <1>t, TxAssumption, SMTT(30) DEF FreedInv, TxTypeOK
<1>6. \A f \in freed' : f \in Nat /\ f \in 1 .. MaxFrames /\ f <= TakenFrames
  <2>1. ASSUME NEW f \in GroupIds
        PROVE  f \in Nat /\ f \in 1 .. MaxFrames /\ f <= TakenFrames
    <3>1. PICK i \in 1 .. Len(tx.group) : f = (TakenFrames - Len(tx.group)) + i
      BY <1>2, <2>1, Zenon DEF GroupIds
    <3>2. \A a, g, m \in Nat : g <= a /\ a <= m =>
            \A j \in 1 .. g : (a - g) + j \in Nat /\ (a - g) + j \in 1 .. m /\ (a - g) + j <= a
      OBVIOUS
    <3>3. TakenFrames <= MaxFrames /\ MaxFrames \in Nat
      BY <1>2, TxAssumption, SMTT(30)
    <3> QED
      BY <1>2, <3>1, <3>2, <3>3, Zenon
  <2> QED
    BY <1>5, <2>1, Zenon DEF Free
<1>7. TxTypeOK'
  <2>1. tx' \in [pc : {"select", "collect", "write", "drain", "failed", "done"},
                 group : Seq(Frame), next : Nat]
    BY <1>1, SMTT(30)
  <2>2. Len(tx'.group) <= WriteBatch + 1
    BY <1>1, TxAssumption, SMTT(30)
  <2>3. freed' \subseteq 1 .. MaxFrames
    BY <1>6, Zenon
  <2> QED
    BY <1>t, <1>1, <2>1, <2>2, <2>3, Zenon DEF TxTypeOK
<1>8. FramesInv'
  BY <1>t, <1>1, Zenon DEF FramesInv
<1>9. GroupInv'
  <2>1. pc = "select" => Len(written') + 0 + 1 = TakenFrames + 1
    BY <1>2, SMTT(30)
  <2> QED
    BY <1>1, <1>2, <2>1, SMTT(30) DEF GroupInv
<1>10. CloseInv'
  BY <1>t, <1>1, Zenon DEF CloseInv
<1>11. FreedInv'
  <2>1. ASSUME NEW f \in 1 .. Len(queued), queued[f].hooked, f <= TakenFrames
        PROVE  f \in freed'
    <3>1. f \in Nat
      BY <1>2, <2>1, SMTT(30)
    <3>2. CASE TakenFrames - Len(tx.group) < f
      BY <1>3, <1>4, <2>1, <3>1, <3>2, Zenon
    <3>3. CASE ~(TakenFrames - Len(tx.group) < f)
      <4>1. f <= TakenFrames - Len(tx.group)
        BY <1>2, <3>1, <3>3
      <4>2. f \in freed
        BY <1>t, <2>1, <4>1, Zenon DEF FreedInv
      <4> QED
        BY <1>4, <3>1, <4>2, Zenon
    <3> QED
      BY <3>2, <3>3, Zenon
  <2>2. TakenFrames' - Len(tx'.group) = TakenFrames
    BY <1>1, <1>2, SMTT(30)
  <2> QED
    BY <1>1, <1>6, <2>1, <2>2, SMTT(30) DEF FreedInv
<1> QED
  BY <1>7, <1>8, <1>9, <1>10, <1>11, Zenon DEF TxInv
LEMMA WriteGroupStep ==
  ASSUME TxInv, WriteGroup
  PROVE  TxInv'
<1>t. TxTypeOK /\ FramesInv /\ GroupInv /\ CloseInv /\ FreedInv
  BY Zenon DEF TxInv
<1>1. /\ tx.pc = "write" /\ batchWire /\ batchWire' = batchWire /\ frames' = frames /\ queued' = queued
      /\ txClosed' = txClosed /\ before' = before
  BY Zenon DEF WriteGroup
<1>2. CASE Clear("failed") /\ Free(GroupIds) /\ UNCHANGED written
  <2>1. /\ written' \in Seq(Frame) /\ Len(written') \in Nat /\ Len(written') <= TakenFrames
        /\ \A i \in 1 .. Len(written') : written'[i] = queued[i]
    BY <1>t, <1>2, TxTypes, Zenon DEF FramesInv
  <2> QED
    BY <1>1, <1>2, <2>1, GroupEndsStep, Zenon
<1>3. ASSUME NEW n \in 0 .. Len(tx.group) - tx.next + 1, NEW err \in BOOLEAN,
             written' = written \o SubSeq(tx.group, tx.next, tx.next + n - 1),
             IF err \/ n = 0 THEN Clear("failed") /\ Free(GroupIds)
             ELSE IF tx.next + n > Len(tx.group) THEN Clear("select") /\ Free(GroupIds)
             ELSE tx' = [tx EXCEPT !.next = tx.next + n] /\ UNCHANGED freed
      PROVE  TxInv'
  <2>1. /\ n \in Nat /\ written' \in Seq(Frame) /\ Len(written') = Len(written) + n
        /\ Len(written') <= TakenFrames /\ \A i \in 1 .. Len(written') : written'[i] = queued[i]
    BY <1>1, <1>3, WroteFacts, Zenon
  <2>2. /\ tx.group \in Seq(Frame) /\ Len(tx.group) \in Nat /\ tx.next \in 1 .. Len(tx.group)
        /\ TakenFrames \in Nat /\ Len(written) \in Nat /\ Len(tx.group) <= TakenFrames
        /\ Len(written) + Len(tx.group) + 1 = TakenFrames + tx.next
    BY <1>1, GroupFacts, Zenon
  <2>3. Len(written') \in Nat
    BY <2>1, <2>2
  <2>4. CASE Clear("failed") /\ Free(GroupIds)
    BY <1>1, <2>1, <2>3, <2>4, GroupEndsStep, Zenon
  <2>5. CASE tx.next + n > Len(tx.group) /\ Clear("select") /\ Free(GroupIds)
    <3>1. Len(written') = TakenFrames
      <4>1. \A g, w, t \in Nat : \A x \in 1 .. g : \A m \in 0 .. g - x + 1 :
              w + g + 1 = t + x /\ x + m > g => w + m = t
        OBVIOUS
      <4>2. Len(written) + n = TakenFrames
        BY <1>3, <2>2, <2>5, <4>1, Zenon
      <4> QED
        BY <2>1, <4>2, Zenon
    <3> QED
      BY <1>1, <2>1, <2>3, <2>5, <3>1, GroupEndsStep, Zenon
  <2>6. CASE /\ ~(tx.next + n > Len(tx.group))
             /\ tx' = [tx EXCEPT !.next = tx.next + n] /\ UNCHANGED freed
    <3>1. /\ tx' \in [pc : {"select", "collect", "write", "drain", "failed", "done"},
                      group : Seq(Frame), next : Nat]
          /\ tx'.pc = "write" /\ tx'.group = tx.group /\ tx'.next = tx.next + n
      <4>1. tx \in [pc : {"select", "collect", "write", "drain", "failed", "done"},
                    group : Seq(Frame), next : Nat]
        BY <1>t, Zenon DEF TxTypeOK
      <4>2. tx.next + n \in Nat
        BY <2>1, <4>1
      <4> QED
        BY <1>1, <2>6, <4>1, <4>2, Zenon
    <3>2. TakenFrames' = TakenFrames
      BY <1>1, Zenon DEF TakenFrames
    <3>3. TxTypeOK'
      BY <1>t, <1>1, <2>1, <2>6, <3>1, Zenon DEF TxTypeOK
    <3>4. FramesInv'
      BY <1>t, <1>1, <2>1, <3>2, Zenon DEF FramesInv
    <3>5. GroupInv'
      <4>1. /\ tx.next + n \in Nat \ {0} /\ tx.next + n <= Len(tx.group)
            /\ (Len(written) + n) + Len(tx.group) + 1 = TakenFrames + (tx.next + n)
        <5>1. PICK g, w, t, x : g = Len(tx.group) /\ w = Len(written) /\ t = TakenFrames /\ x = tx.next
          BY Zenon
        <5>2. /\ g \in Nat /\ w \in Nat /\ t \in Nat /\ n \in Nat /\ x \in 1 .. g
              /\ w + g + 1 = t + x /\ ~(x + n > g)
          BY <2>1, <2>2, <2>6, <5>1, Zenon
        <5>3. x + n \in Nat \ {0} /\ x + n <= g /\ (w + n) + g + 1 = t + (x + n)
          BY <5>2
        <5> QED
          BY <5>1, <5>3, Zenon
      <4>2. tx.next + n <= Len(tx.group) + 1
        BY <2>1, <2>2, <4>1, SMTT(30)
      <4>3. \A i \in 1 .. Len(tx.group) : tx.group[i] = queued[(TakenFrames - Len(tx.group)) + i]
        BY <1>t, <1>1, Zenon DEF GroupInv
      <4> QED
        BY <1>1, <2>1, <2>2, <3>1, <3>2, <4>1, <4>2, <4>3, Zenon DEF GroupInv
    <3>6. CloseInv'
      BY <1>t, <1>1, <3>1, Zenon DEF CloseInv
    <3>7. FreedInv'
      BY <1>t, <1>1, <2>6, <3>1, <3>2, Zenon DEF FreedInv
    <3> QED
      BY <3>3, <3>4, <3>5, <3>6, <3>7, Zenon DEF TxInv
  <2> QED
    BY <1>3, <2>4, <2>5, <2>6, Zenon
<1> QED
  BY <1>2, <1>3, Zenon DEF WriteGroup

\* What one more frame on the wire, or none, makes of what is written.
LEMMA AttemptFacts ==
  ASSUME TxInv, Len(written) + 1 \in 1 .. Len(queued), NEW f, f = queued[Len(written) + 1],
         Attempt(f) \/ written' = Append(written, f)
  PROVE  /\ written' \in Seq(Frame)
         /\ Len(written') = Len(written) \/ Len(written') = Len(written) + 1
         /\ written' # written => Len(written') = Len(written) + 1
         /\ \A i \in 1 .. Len(written') : written'[i] = queued[i]
<1>1. /\ written \in Seq(Frame) /\ Len(written) \in Nat /\ queued \in Seq(Frame)
      /\ \A i \in 1 .. Len(written) : written[i] = queued[i]
  BY TxTypes, Zenon DEF TxInv, FramesInv
<1>2. CASE UNCHANGED written
  BY <1>1, <1>2, Zenon
<1>3. CASE written' = Append(written, f)
  <2>1. f \in Frame
    BY <1>1
  <2>2. /\ written' \in Seq(Frame) /\ Len(written') = Len(written) + 1
        /\ written'[Len(written) + 1] = f /\ \A i \in 1 .. Len(written) : written'[i] = written[i]
    BY <1>1, <1>3, <2>1, AppendFacts, SMTT(30)
  <2>3. \A w \in Nat : \A i \in 1 .. w + 1 : i \in 1 .. w \/ i = w + 1
    OBVIOUS
  <2>4. ASSUME NEW i \in 1 .. Len(written')
        PROVE  i \in 1 .. Len(written) \/ i = Len(written) + 1
    BY <1>1, <2>2, <2>3, <2>4, Zenon
  <2> QED
    BY <1>1, <2>2, <2>4, Zenon
<1> QED
  BY <1>2, <1>3, Zenon DEF Attempt
LEMMA WriteFrameStep ==
  ASSUME TxInv, WriteFrame
  PROVE  TxInv'
<1>t. TxTypeOK /\ FramesInv /\ GroupInv /\ CloseInv /\ FreedInv
  BY Zenon DEF TxInv
<1> DEFINE f == tx.group[tx.next]
<1>1. /\ tx.pc = "write" /\ ~batchWire /\ batchWire' = batchWire /\ frames' = frames /\ queued' = queued
      /\ txClosed' = txClosed /\ before' = before /\ Free({f.id})
      /\ \/ /\ written' = Append(written, f)
            /\ IF tx.next = Len(tx.group) THEN Clear("select")
               ELSE tx' = [tx EXCEPT !.next = tx.next + 1]
         \/ tx' = [tx EXCEPT !.pc = "failed"] /\ Attempt(f)
  BY Zenon DEF WriteFrame
<1>2. /\ tx.group \in Seq(Frame) /\ Len(tx.group) \in Nat /\ tx.next \in 1 .. Len(tx.group)
      /\ TakenFrames \in Nat /\ TakenFrames <= Len(queued) /\ Len(queued) \in Nat
      /\ Len(written) \in Nat /\ Len(tx.group) <= TakenFrames
      /\ Len(written) + Len(tx.group) + 1 = TakenFrames + tx.next
      /\ f = queued[(TakenFrames - Len(tx.group)) + tx.next]
      /\ f.id = (TakenFrames - Len(tx.group)) + tx.next
  BY <1>1, GroupFacts, Zenon
<1> HIDE DEF f
<1>3. /\ (TakenFrames - Len(tx.group)) + tx.next = Len(written) + 1 /\ Len(written) + 1 \in 1 .. Len(queued)
      /\ Len(written) + 1 <= TakenFrames /\ tx.next \in Nat
      /\ tx.next = Len(tx.group) => Len(written) + 1 = TakenFrames
      /\ tx.next # Len(tx.group) =>
           /\ tx.next + 1 <= Len(tx.group)
           /\ (Len(written) + 1) + Len(tx.group) + 1 = TakenFrames + (tx.next + 1)
  <2>1. PICK g, w, t, x, q : /\ g = Len(tx.group) /\ w = Len(written) /\ t = TakenFrames
                             /\ x = tx.next /\ q = Len(queued)
    BY Zenon
  <2>2. /\ g \in Nat /\ w \in Nat /\ t \in Nat /\ q \in Nat /\ x \in 1 .. g
        /\ g <= t /\ t <= q /\ w + g + 1 = t + x
    BY <1>2, <2>1, Zenon
  <2>3. /\ (t - g) + x = w + 1 /\ w + 1 \in 1 .. q /\ w + 1 <= t /\ x \in Nat
        /\ x = g => w + 1 = t
        /\ x # g => x + 1 <= g /\ (w + 1) + g + 1 = t + (x + 1)
    BY <2>2
  <2> QED
    BY <2>1, <2>3, Zenon
<1>4. f = queued[Len(written) + 1] /\ f.id = Len(written) + 1
  BY <1>2, <1>3, Zenon
<1>5. /\ written' \in Seq(Frame) /\ (Len(written') = Len(written) \/ Len(written') = Len(written) + 1)
      /\ \A i \in 1 .. Len(written') : written'[i] = queued[i]
      /\ written' = Append(written, f) => Len(written') = Len(written) + 1
  <2>1. /\ written' \in Seq(Frame) /\ (Len(written') = Len(written) \/ Len(written') = Len(written) + 1)
        /\ \A i \in 1 .. Len(written') : written'[i] = queued[i]
    BY <1>1, <1>3, <1>4, AttemptFacts, Zenon
  <2>2. written' = Append(written, f) => Len(written') = Len(written) + 1
    BY <1>t, TxTypes
  <2> QED
    BY <2>1, <2>2, Zenon
<1>6. TakenFrames' = TakenFrames
  BY <1>1, Zenon DEF TakenFrames
<1>7. /\ tx' \in [pc : {"select", "collect", "write", "drain", "failed", "done"},
                  group : Seq(Frame), next : Nat]
      /\ \/ tx'.pc = "failed" /\ tx'.group = tx.group /\ tx'.next = tx.next
         \/ /\ tx'.pc = "select" /\ tx'.group = <<>> /\ tx'.next = 1
            /\ Len(written') = Len(written) + 1 /\ tx.next = Len(tx.group)
         \/ /\ tx'.pc = "write" /\ tx'.group = tx.group /\ tx'.next = tx.next + 1
            /\ Len(written') = Len(written) + 1 /\ tx.next # Len(tx.group)
  <2>1. tx \in [pc : {"select", "collect", "write", "drain", "failed", "done"},
                group : Seq(Frame), next : Nat]
    BY <1>t, Zenon DEF TxTypeOK
  <2>2. CASE tx' = [tx EXCEPT !.pc = "failed"]
    BY <2>1, <2>2, Zenon
  <2>3. CASE tx.next = Len(tx.group) /\ Clear("select") /\ written' = Append(written, f)
    BY <1>5, <2>3, SMTT(30) DEF Clear
  <2>4. CASE /\ tx.next # Len(tx.group) /\ tx' = [tx EXCEPT !.next = tx.next + 1]
             /\ written' = Append(written, f)
    <3>1. tx.next + 1 \in Nat
      BY <2>1
    <3> QED
      BY <1>1, <1>5, <2>1, <2>4, <3>1, Zenon
  <2> QED
    BY <1>1, <2>2, <2>3, <2>4, Zenon
<1>8. Len(written') \in Nat /\ Len(written') <= TakenFrames /\ Len(written) <= Len(written')
      /\ Len(written') <= Len(written) + 1
  BY <1>2, <1>3, <1>5, SMTT(30)
<1>9. \A g : g \in freed' <=> g \in freed \/ (g = Len(written) + 1 /\ queued[g].hooked)
  BY <1>1, <1>4, Zenon DEF Free
<1>10. \A g \in freed : g \in 1 .. MaxFrames /\ g \in Nat /\ g <= TakenFrames /\ g <= Len(written)
  BY <1>t, <1>1, TxAssumption DEF FreedInv, TxTypeOK
<1>11. \A g \in freed' : g \in 1 .. MaxFrames /\ g \in Nat /\ g <= TakenFrames /\ g <= Len(written) + 1
  <2>1. Len(written) + 1 \in 1 .. MaxFrames
    BY <1>t, <1>2, <1>3, TxCounts, TxAssumption, SMTT(30)
  <2>2. \A g \in freed : g <= Len(written) + 1
    BY <1>2, <1>10, SMTT(30)
  <2> QED
    BY <1>2, <1>3, <1>9, <1>10, <2>1, <2>2, SMTT(30)
<1>12. TxTypeOK'
  <2>1. Len(tx'.group) <= WriteBatch + 1
    <3>1. Len(tx.group) <= WriteBatch + 1
      BY <1>t, Zenon DEF TxTypeOK
    <3> QED
      BY <1>7, <3>1, TxAssumption, SMTT(30)
  <2>2. freed' \subseteq 1 .. MaxFrames
    BY <1>11, Zenon
  <2>3. /\ tx' \in [pc : {"select", "collect", "write", "drain", "failed", "done"},
                    group : Seq(Frame), next : Nat]
        /\ written' \in Seq(Frame)
    BY <1>5, <1>7, Zenon
  <2> QED
    BY <1>t, <1>1, <2>1, <2>2, <2>3, Zenon DEF TxTypeOK
<1>13. FramesInv'
  BY <1>t, <1>1, <1>5, <1>6, <1>8, Zenon DEF FramesInv
<1>14. GroupInv'
  <2>1. CASE tx'.pc = "failed" /\ tx'.group = tx.group /\ tx'.next = tx.next
    BY <1>t, <1>1, <1>6, <2>1, Zenon DEF GroupInv
  <2>2. CASE /\ tx'.pc = "select" /\ tx'.group = <<>> /\ tx'.next = 1
             /\ Len(written') = Len(written) + 1 /\ tx.next = Len(tx.group)
    <3>1. Len(tx'.group) = 0 /\ Len(written') = TakenFrames
      BY <1>3, <2>2, Zenon
    <3> QED
      BY <1>2, <1>6, <2>2, <3>1, SMTT(30) DEF GroupInv
  <2>3. CASE /\ tx'.pc = "write" /\ tx'.group = tx.group /\ tx'.next = tx.next + 1
             /\ Len(written') = Len(written) + 1 /\ tx.next # Len(tx.group)
    <3>1. /\ tx'.next \in Nat \ {0} /\ tx'.next <= Len(tx'.group)
          /\ Len(written') + Len(tx'.group) + 1 = TakenFrames' + tx'.next
      <4>1. /\ tx.next + 1 <= Len(tx.group) /\ tx.next \in Nat
            /\ (Len(written) + 1) + Len(tx.group) + 1 = TakenFrames + (tx.next + 1)
        BY <1>3, <2>3, Zenon
      <4>2. tx.next + 1 \in Nat \ {0}
        BY <4>1
      <4> QED
        BY <1>6, <2>3, <4>1, <4>2, Zenon
    <3>2. tx'.next <= Len(tx'.group) + 1
      BY <1>2, <2>3, <3>1, SMTT(30)
    <3>3. \A i \in 1 .. Len(tx.group) : tx.group[i] = queued[(TakenFrames - Len(tx.group)) + i]
      BY <1>t, <1>1, Zenon DEF GroupInv
    <3> QED
      BY <1>1, <1>2, <1>6, <2>3, <3>1, <3>2, <3>3, Zenon DEF GroupInv
  <2> QED
    BY <1>7, <2>1, <2>2, <2>3, Zenon
<1>15. CloseInv'
  BY <1>t, <1>1, <1>7, Zenon DEF CloseInv
<1>16. FreedInv'
  <2>1. \A g \in freed' : g <= TakenFrames'
    BY <1>6, <1>11, Zenon
  <2>2. tx'.pc # "failed" => \A g \in freed' : g <= Len(written')
    BY <1>7, <1>11, Zenon
  <2>3. ASSUME NEW g \in 1 .. Len(queued), queued[g].hooked, g <= Len(written')
        PROVE  g \in freed'
    <3>1. g \in Nat
      BY <1>2, <2>3
    <3>2. CASE g <= Len(written)
      BY <1>t, <1>1, <1>9, <2>3, <3>2, Zenon DEF FreedInv
    <3>3. CASE ~(g <= Len(written))
      <4>1. g = Len(written) + 1
        BY <1>2, <1>8, <2>3, <3>1, <3>3
      <4> QED
        BY <1>9, <2>3, <4>1, Zenon
    <3> QED
      BY <3>2, <3>3, Zenon
  <2> QED
    BY <1>1, <2>1, <2>2, <2>3, Zenon DEF FreedInv
<1> QED
  BY <1>12, <1>13, <1>14, <1>15, <1>16, Zenon DEF TxInv
LEMMA DrainStep ==
  ASSUME TxInv, Drain
  PROVE  TxInv'
<1>t. TxTypeOK /\ FramesInv /\ GroupInv /\ CloseInv /\ FreedInv
  BY Zenon DEF TxInv
<1>1. /\ tx.pc = "drain" /\ batchWire' = batchWire /\ queued' = queued /\ txClosed' = txClosed
      /\ before' = before
  BY Zenon DEF Drain
<1>2. /\ TakenFrames \in Nat /\ Len(queued) \in Nat /\ Len(frames) \in Nat /\ Len(written) \in Nat
      /\ TakenFrames + Len(frames) = Len(queued) /\ tx.group = <<>> /\ tx.next = 1 /\ Len(tx.group) = 0
      /\ Len(queued) <= MaxFrames /\ Len(written) + Len(tx.group) + 1 = TakenFrames + tx.next
  BY <1>t, <1>1, TxTypes, TxCounts, Zenon DEF GroupInv
<1>3. Len(written) = TakenFrames
  <2>1. Len(written) + 0 + 1 = TakenFrames + 1
    BY <1>2, Zenon
  <2> QED
    BY <1>2, <2>1
<1>4. CASE frames = <<>>
  <2>1. /\ tx' = [pc |-> "done", group |-> <<>>, next |-> 1] /\ tx'.pc = "done" /\ tx'.group = <<>>
        /\ tx'.next = 1 /\ Len(tx'.group) = 0
        /\ frames' = frames /\ written' = written /\ freed' = freed
    BY <1>4 DEF Drain, Clear
  <2>2. TakenFrames' = TakenFrames
    BY <1>1, <2>1, Zenon DEF TakenFrames
  <2>3. before <= Len(written)
    <3>1. Len(frames) = 0
      BY <1>4, Zenon
    <3>2. Len(queued) = TakenFrames
      BY <1>2, <3>1
    <3> QED
      BY <1>t, <1>3, <3>2, Zenon DEF CloseInv
  <2>4. TxTypeOK'
    <3>1. /\ tx' \in [pc : {"select", "collect", "write", "drain", "failed", "done"},
                      group : Seq(Frame), next : Nat]
      BY <2>1, SMTT(30)
    <3>2. Len(tx'.group) <= WriteBatch + 1
      BY <2>1, TxAssumption
    <3> QED
      BY <1>t, <1>1, <2>1, <3>1, <3>2, Zenon DEF TxTypeOK
  <2>5. FramesInv'
    BY <1>t, <1>1, <2>1, <2>2, Zenon DEF FramesInv
  <2>6. GroupInv'
    BY <1>2, <1>3, <2>1, <2>2, SMTT(30) DEF GroupInv
  <2>7. CloseInv'
    BY <1>t, <1>1, <2>1, <2>3, Zenon DEF CloseInv
  <2>8. FreedInv'
    BY <1>t, <1>1, <1>2, <2>1, <2>2, Zenon DEF FreedInv
  <2> QED
    BY <2>4, <2>5, <2>6, <2>7, <2>8, Zenon DEF TxInv
<1>5. CASE frames # <<>>
  <2> DEFINE f == Head(frames)
  <2>1. /\ frames' = Tail(frames) /\ Free({f.id})
        /\ \/ written' = Append(written, f) /\ tx' = tx
           \/ Clear("failed") /\ Attempt(f)
    BY <1>5, Zenon DEF Drain
  <2>2. /\ f = frames[1] /\ frames' \in Seq(Frame) /\ Len(frames) >= 1 /\ Len(frames') = Len(frames) - 1
        /\ \A i \in 1 .. Len(frames) - 1 : frames'[i] = frames[i + 1]
    BY <1>t, <1>5, <2>1, TxTypes, TailFacts, Zenon
  <2> HIDE DEF f
  <2>3. /\ 1 \in 1 .. Len(frames) /\ TakenFrames + 1 \in 1 .. Len(queued)
        /\ TakenFrames' = TakenFrames + 1 /\ Len(frames') \in Nat /\ Len(frames') <= Len(queued)
    <3>1. PICK m, t, q : m = Len(frames) /\ t = TakenFrames /\ q = Len(queued)
      BY Zenon
    <3>2. m \in Nat /\ t \in Nat /\ q \in Nat /\ t + m = q /\ m >= 1
      BY <1>2, <2>2, <3>1, Zenon
    <3>3. 1 \in 1 .. m /\ t + 1 \in 1 .. q /\ q - (m - 1) = t + 1 /\ m - 1 \in Nat /\ m - 1 <= q
      BY <3>2
    <3>4. TakenFrames' = Len(queued) - (Len(frames) - 1)
      BY <1>1, <2>2, Zenon DEF TakenFrames
    <3> QED
      BY <2>2, <3>1, <3>3, <3>4, Zenon
  <2>4. f = queued[Len(written) + 1] /\ f.id = Len(written) + 1
    BY <1>t, <1>3, <2>2, <2>3, Zenon DEF FramesInv
  <2>5. /\ written' \in Seq(Frame) /\ (Len(written') = Len(written) \/ Len(written') = Len(written) + 1)
        /\ \A i \in 1 .. Len(written') : written'[i] = queued[i]
    BY <1>3, <2>1, <2>3, <2>4, AttemptFacts, Zenon
  <2>6. written' = Append(written, f) => Len(written') = Len(written) + 1
    BY <1>t, TxTypes
  <2>7. /\ tx' \in [pc : {"select", "collect", "write", "drain", "failed", "done"},
                    group : Seq(Frame), next : Nat]
        /\ tx'.group = <<>> /\ tx'.next = 1 /\ Len(tx'.group) = 0
        /\ tx'.pc = "failed" \/ (tx'.pc = "drain" /\ Len(written') = Len(written) + 1)
    <3>1. CASE Clear("failed")
      BY <3>1, SMTT(30) DEF Clear
    <3>2. CASE written' = Append(written, f) /\ tx' = tx
      <4>1. tx \in [pc : {"select", "collect", "write", "drain", "failed", "done"},
                    group : Seq(Frame), next : Nat]
        BY <1>t, Zenon DEF TxTypeOK
      <4> QED
        BY <1>1, <1>2, <2>6, <3>2, <4>1, Zenon
    <3> QED
      BY <2>1, <3>1, <3>2, Zenon
  <2>8. \A g : g \in freed' <=> g \in freed \/ (g = Len(written) + 1 /\ queued[g].hooked)
    BY <2>1, <2>4, Zenon DEF Free
  <2>9. \A g \in freed : g \in 1 .. MaxFrames /\ g \in Nat /\ g <= TakenFrames
    BY <1>t, TxAssumption DEF FreedInv, TxTypeOK
  <2>10. \A g \in freed' : g \in 1 .. MaxFrames /\ g \in Nat /\ g <= Len(written) + 1 /\ g <= TakenFrames + 1
    <3>1. Len(written) + 1 \in 1 .. MaxFrames
      BY <1>2, <1>3, <2>3, TxAssumption
    <3>2. \A g \in freed : g <= TakenFrames + 1
      BY <1>2, <2>9
    <3> QED
      BY <1>2, <1>3, <2>8, <2>9, <3>1, <3>2, SMTT(30)
  <2>11. TxTypeOK'
    <3>1. Len(tx'.group) <= WriteBatch + 1
      BY <2>7, TxAssumption
    <3>2. freed' \subseteq 1 .. MaxFrames
      BY <2>10, Zenon
    <3>3. Len(frames') <= FramesCap
      BY <1>t, <1>2, <2>2, TxAssumption, SMTT(30) DEF TxTypeOK
    <3>4. tx' \in [pc : {"select", "collect", "write", "drain", "failed", "done"},
                   group : Seq(Frame), next : Nat]
      BY <2>7, Zenon
    <3> QED
      BY <1>t, <1>1, <2>2, <2>5, <3>1, <3>2, <3>3, <3>4, Zenon DEF TxTypeOK
  <2>12. Len(written') \in Nat /\ Len(written') <= TakenFrames + 1 /\ Len(written') <= Len(written) + 1
    BY <1>2, <1>3, <2>5, SMTT(30)
  <2>13. FramesInv'
    <3>1. ASSUME NEW i \in 1 .. Len(frames')
          PROVE  frames'[i] = queued[(TakenFrames + 1) + i]
      <4>1. i \in 1 .. Len(frames) - 1 /\ i + 1 \in 1 .. Len(frames) /\ (TakenFrames + 1) + i = TakenFrames + (i + 1)
        BY <1>2, <2>2, <3>1
      <4> QED
        BY <1>t, <2>2, <4>1, Zenon DEF FramesInv
    <3> QED
      BY <1>t, <1>1, <2>3, <2>5, <2>12, <3>1, Zenon DEF FramesInv
  <2>14. GroupInv'
    <3>1. tx'.pc = "drain" => Len(written') + 0 + 1 = (TakenFrames + 1) + 1
      BY <1>2, <1>3, <2>7, SMTT(30)
    <3>2. 0 <= TakenFrames + 1 /\ 1 <= 0 + 1
      BY <1>2
    <3> QED
      BY <2>3, <2>7, <3>1, <3>2 DEF GroupInv
  <2>15. CloseInv'
    BY <1>t, <1>1, <2>7, Zenon DEF CloseInv
  <2>16. FreedInv'
    <3>1. ASSUME NEW g \in 1 .. Len(queued), queued[g].hooked, g <= TakenFrames + 1
          PROVE  g \in freed'
      <4>1. g \in Nat
        BY <1>2, <3>1
      <4>2. CASE g <= TakenFrames
        <5>1. g <= TakenFrames - Len(tx.group) /\ g <= Len(written)
          BY <1>2, <1>3, <4>2
        <5>2. g \in freed
          BY <1>t, <3>1, <5>1, Zenon DEF FreedInv
        <5> QED
          BY <2>8, <5>2, Zenon
      <4>3. CASE ~(g <= TakenFrames)
        <5>1. g = Len(written) + 1
          BY <1>2, <1>3, <3>1, <4>1, <4>3
        <5> QED
          BY <2>8, <3>1, <5>1, Zenon
      <4> QED
        BY <4>2, <4>3, Zenon
    <3>2. \A g \in 1 .. Len(queued) : g <= Len(written') => g <= TakenFrames + 1
      BY <1>2, <2>12
    <3>3. TakenFrames' - Len(tx'.group) = TakenFrames + 1
      BY <1>2, <2>3, <2>7
    <3>4. tx'.pc # "failed" => Len(written') = Len(written) + 1
      BY <2>7, Zenon
    <3> QED
      BY <1>1, <2>3, <2>10, <3>1, <3>2, <3>3, <3>4, Zenon DEF FreedInv
  <2> QED
    BY <2>11, <2>13, <2>14, <2>15, <2>16, Zenon DEF TxInv
<1> QED
  BY <1>4, <1>5, Zenon

LEMMA TxStepInv ==
  ASSUME TxInv, [TxNext]_txVars
  PROVE  TxInv'
BY TakeFrameStep, TxQuietStep, WriteGroupStep, WriteFrameStep, DrainStep, SubmitStep, Zenon DEF TxNext, TxStep

\* A write that fails on a wire without WriteBatch releases its own frame.
LEMMA WriteFrameStrands ==
  ASSUME TxInv, WriteFrame, tx'.pc = "failed", NEW g \in 1 .. TakenFrames', queued'[g].hooked
  PROVE  g \in freed' \/ Stranded(g)'
<1> DEFINE f == tx.group[tx.next]
<1>t. TxTypeOK /\ FramesInv /\ GroupInv /\ FreedInv
  BY Zenon DEF TxInv
<1>1. /\ tx.pc = "write" /\ ~batchWire /\ batchWire' = batchWire /\ frames' = frames /\ queued' = queued
      /\ Free({f.id})
      /\ \/ tx' = [tx EXCEPT !.pc = "failed"]
         \/ Clear("select")
         \/ tx' = [tx EXCEPT !.next = tx.next + 1]
  BY Zenon DEF WriteFrame
<1>2. tx \in [pc : {"select", "collect", "write", "drain", "failed", "done"},
              group : Seq(Frame), next : Nat]
  BY <1>t, Zenon DEF TxTypeOK
<1>3. tx'.group = tx.group /\ tx'.next = tx.next
  <2>1. CASE tx' = [tx EXCEPT !.pc = "failed"]
    BY <1>2, <2>1, Zenon
  <2>2. CASE Clear("select")
    BY <2>2, SMTT(30) DEF Clear
  <2>3. CASE tx' = [tx EXCEPT !.next = tx.next + 1]
    <3>1. tx'.pc = "write"
      BY <1>1, <1>2, <2>3, Zenon
    <3> QED
      BY <3>1
  <2> QED
    BY <1>1, <2>1, <2>2, <2>3, Zenon
<1>4. /\ Len(tx.group) \in Nat /\ tx.next \in 1 .. Len(tx.group)
      /\ Len(tx.group) <= TakenFrames
      /\ Len(written) + Len(tx.group) + 1 = TakenFrames + tx.next
      /\ \A j \in 1 .. Len(tx.group) : tx.group[j].id = (TakenFrames - Len(tx.group)) + j
  BY <1>1, GroupFacts, Zenon
<1>5. TakenFrames \in Nat /\ TakenFrames <= Len(queued) /\ Len(queued) \in Nat /\ Len(written) \in Nat
  BY <1>t, TxTypes, TxCounts, Zenon DEF FramesInv
<1>6. TakenFrames' = TakenFrames /\ g \in 1 .. TakenFrames /\ queued[g].hooked
  BY <1>1, Zenon DEF TakenFrames
<1>7. PICK n, w, t, x : n = Len(tx.group) /\ w = Len(written) /\ t = TakenFrames /\ x = tx.next
  BY Zenon
<1>8. /\ n \in Nat /\ w \in Nat /\ t \in Nat /\ x \in 1 .. n /\ n <= t /\ w + n + 1 = t + x
      /\ g \in 1 .. t
  BY <1>4, <1>5, <1>6, <1>7, Zenon
<1>9. CASE g <= w
  <2>1. g \in 1 .. Len(queued) /\ g <= Len(written)
    BY <1>5, <1>6, <1>7, <1>9
  <2>2. g \in freed
    BY <1>t, <1>1, <1>6, <2>1, Zenon DEF FreedInv
  <2> QED
    BY <1>1, <2>2, Zenon DEF Free
<1>10. CASE g = w + 1
  <2>1. (t - n) + x = g
    BY <1>8, <1>10
  <2>2. f.id = g
    BY <1>4, <1>7, <2>1, Zenon
  <2> QED
    BY <1>1, <1>6, <2>2, Zenon DEF Free
<1>11. CASE w + 1 < g
  <2>1. PICK i : i = g - (t - n)
    BY Zenon
  <2>2. i \in x + 1 .. n /\ i \in 1 .. n /\ (t - n) + i = g
    BY <1>8, <1>11, <2>1
  <2>3. tx.group[i].id = g
    BY <1>4, <1>7, <2>2, Zenon
  <2> QED
    BY <1>1, <1>3, <1>7, <2>2, <2>3, Zenon DEF Stranded
<1> QED
  BY <1>8, <1>9, <1>10, <1>11

LEMMA StrandStep ==
  ASSUME TxInv, TxInv', StrandInv, [TxNext]_txVars
  PROVE  StrandInv'
<1> SUFFICES ASSUME tx'.pc = "failed", ~batchWire', NEW g \in 1 .. TakenFrames', queued'[g].hooked
             PROVE  g \in freed' \/ Stranded(g)'
  BY Zenon DEF StrandInv
<1>t. TxTypeOK /\ FramesInv /\ GroupInv /\ FreedInv
  BY Zenon DEF TxInv
<1>x. tx \in [pc : {"select", "collect", "write", "drain", "failed", "done"},
              group : Seq(Frame), next : Nat]
  BY <1>t, Zenon DEF TxTypeOK
<1>1. CASE WriteFrame
  BY <1>1, WriteFrameStrands, Zenon
<1>2. CASE TakeFrame
  <2>1. tx'.pc = "collect"
    BY <1>x, <1>2, Zenon DEF TakeFrame
  <2> QED
    BY <2>1
<1>3. CASE GroupReady
  <2>1. tx'.pc = "write"
    BY <1>x, <1>3, Zenon DEF GroupReady
  <2> QED
    BY <2>1
<1>4. CASE SeeClose
  <2>1. tx'.pc = "drain"
    BY <1>4, SMTT(30) DEF SeeClose, Clear
  <2> QED
    BY <2>1
<1>5. CASE WriteGroup
  BY <1>5, Zenon DEF WriteGroup
<1>6. CASE Drain
  <2> DEFINE f == Head(frames)
  <2>1. tx.pc = "drain" /\ batchWire' = batchWire /\ queued' = queued
    BY <1>6, Zenon DEF Drain
  <2>2. /\ Len(queued) \in Nat /\ Len(frames) \in Nat /\ Len(written) \in Nat /\ TakenFrames \in Nat
        /\ TakenFrames + Len(frames) = Len(queued)
        /\ tx.next = 1 /\ Len(tx.group) = 0 /\ Len(written) + Len(tx.group) + 1 = TakenFrames + tx.next
    BY <1>t, <2>1, TxTypes, TxCounts, Zenon DEF GroupInv
  <2>3. Len(written) = TakenFrames
    BY <2>2
  <2>4. CASE frames = <<>>
    <3>1. tx'.pc = "done"
      BY <1>6, <2>4, SMTT(30) DEF Drain, Clear
    <3> QED
      BY <3>1
  <2>5. CASE frames # <<>>
    <3>1. frames' = Tail(frames) /\ Free({f.id})
      BY <1>6, <2>5, Zenon DEF Drain
    <3>2. f = frames[1] /\ Len(frames) >= 1 /\ Len(frames') = Len(frames) - 1
      BY <1>t, <2>5, <3>1, TxTypes, TailFacts, Zenon
    <3> HIDE DEF f
    <3>3. TakenFrames' = TakenFrames + 1 /\ 1 \in 1 .. Len(frames) /\ TakenFrames + 1 \in 1 .. Len(queued)
      BY <2>1, <2>2, <3>2, SMTT(30) DEF TakenFrames
    <3>4. f.id = TakenFrames + 1
      BY <1>t, <3>2, <3>3, Zenon DEF FramesInv
    <3>5. CASE g <= TakenFrames
      <4>1. g \in 1 .. Len(queued) /\ g <= Len(written)
        BY <2>2, <2>3, <3>3, <3>5
      <4>2. g \in freed
        BY <1>t, <2>1, <4>1, Zenon DEF FreedInv
      <4> QED
        BY <3>1, <4>2, Zenon DEF Free
    <3>6. CASE ~(g <= TakenFrames)
      <4>1. g = TakenFrames + 1
        BY <2>2, <3>3, <3>6
      <4> QED
        BY <2>1, <3>1, <3>4, <4>1, Zenon DEF Free
    <3> QED
      BY <3>5, <3>6, Zenon
  <2> QED
    BY <2>4, <2>5, Zenon
<1>7. CASE TxClose \/ UNCHANGED txVars
  <2>1. /\ tx' = tx /\ batchWire' = batchWire /\ frames' = frames /\ queued' = queued /\ freed' = freed
    BY <1>7, Zenon DEF TxClose, txVars
  <2>2. TakenFrames' = TakenFrames /\ (Stranded(g)' <=> Stranded(g))
    BY <2>1, Zenon DEF TakenFrames, Stranded
  <2> QED
    BY <2>1, <2>2, Zenon DEF StrandInv
<1>8. CASE Submit
  <2>1. PICK f : /\ f \in Frame /\ frames' = Append(frames, f) /\ queued' = Append(queued, f)
    <3>1. PICK hooked \in BOOLEAN, fits \in BOOLEAN :
            LET f == [id |-> Len(queued) + 1, hooked |-> hooked, fits |-> fits]
            IN  frames' = Append(frames, f) /\ queued' = Append(queued, f)
      BY <1>8, Zenon DEF Submit
    <3>2. Len(queued) + 1 \in 1 .. MaxFrames
      BY <1>t, <1>8, TxTypes, TxAssumption, SMTT(30) DEF Submit
    <3>3. [id |-> Len(queued) + 1, hooked |-> hooked, fits |-> fits] \in Frame
      BY <3>2, Zenon DEF Frame
    <3> QED
      BY <3>1, <3>3, Zenon
  <2>2. tx' = tx /\ batchWire' = batchWire /\ freed' = freed
    BY <1>8, Zenon DEF Submit
  <2>3. /\ Len(frames') = Len(frames) + 1 /\ Len(queued') = Len(queued) + 1
        /\ \A i \in 1 .. Len(queued) : queued'[i] = queued[i]
    BY <1>t, <2>1, TxTypes, AppendFacts, SMTT(30)
  <2>4. /\ Len(queued) \in Nat /\ Len(frames) \in Nat /\ TakenFrames \in Nat /\ TakenFrames <= Len(queued)
    BY <1>t, TxTypes, TxCounts, Zenon
  <2>5. TakenFrames' = TakenFrames
    <3>1. TakenFrames' = (Len(queued) + 1) - (Len(frames) + 1)
      BY <2>3, Zenon DEF TakenFrames
    <3> QED
      BY <2>4, <3>1 DEF TakenFrames
  <2>6. g \in 1 .. TakenFrames /\ g \in 1 .. Len(queued)
    BY <2>4, <2>5
  <2>7. Stranded(g)' <=> Stranded(g)
    BY <2>2, Zenon DEF Stranded
  <2> QED
    BY <2>2, <2>3, <2>6, <2>7, Zenon DEF StrandInv
<1> QED
  BY <1>1, <1>2, <1>3, <1>4, <1>5, <1>6, <1>7, <1>8, Zenon DEF TxNext, TxStep

LEMMA TxStart == TxInit => TxInv
<1> SUFFICES ASSUME TxInit
             PROVE  TxInv
  BY Zenon
<1>1. /\ frames = <<>> /\ queued = <<>> /\ written = <<>> /\ tx = [pc |-> "select", group |-> <<>>, next |-> 1]
      /\ txClosed = FALSE /\ before = 0 /\ freed = {} /\ batchWire \in BOOLEAN
      /\ Len(frames) = 0 /\ Len(queued) = 0 /\ Len(written) = 0 /\ Len(tx.group) = 0
      /\ tx.pc = "select" /\ tx.next = 1 /\ tx.group = <<>> /\ TakenFrames = 0
  BY DEF TxInit, TakenFrames
<1>2. TxTypeOK
  <2>1. tx \in [pc : {"select", "collect", "write", "drain", "failed", "done"},
                group : Seq(Frame), next : Nat]
    BY <1>1, SMTT(30)
  <2>2. /\ frames \in Seq(Frame) /\ queued \in Seq(Frame) /\ written \in Seq(Frame)
        /\ freed \subseteq 1 .. MaxFrames /\ before \in 0 .. MaxFrames
    BY <1>1, TxAssumption
  <2>3. Len(tx.group) <= WriteBatch + 1 /\ Len(frames) <= FramesCap /\ Len(queued) <= MaxFrames
    BY <1>1, TxAssumption
  <2> QED
    BY <1>1, <2>1, <2>2, <2>3, Zenon DEF TxTypeOK
<1>3. FramesInv
  BY <1>1 DEF FramesInv
<1>4. GroupInv /\ CloseInv
  BY <1>1, SMTT(30) DEF GroupInv, CloseInv
<1>5. FreedInv
  BY <1>1, SMTT(30) DEF FreedInv
<1> QED
  BY <1>2, <1>3, <1>4, <1>5, Zenon DEF TxInv

LEMMA TxSafe ==
  ASSUME TxInv, StrandInv
  PROVE  TxInOrder /\ TxBuffersReturned
<1>t. TxTypeOK /\ FramesInv /\ GroupInv /\ CloseInv /\ FreedInv
  BY Zenon DEF TxInv
<1>1. /\ TakenFrames \in Nat /\ TakenFrames <= Len(queued) /\ TakenFrames + Len(frames) = Len(queued)
      /\ Len(queued) \in Nat /\ Len(frames) \in Nat /\ Len(written) \in Nat /\ Len(written) <= TakenFrames
  BY <1>t, TxTypes, TxCounts, Zenon DEF FramesInv
<1>2. TxInOrder
  <2>1. Len(written) <= Len(queued)
    BY <1>1
  <2>2. tx.pc = "done" => Len(written) >= before
    BY <1>t, <1>1, TxTypes, Zenon DEF CloseInv
  <2> QED
    BY <1>t, <2>1, <2>2, Zenon DEF TxInOrder, FramesInv
<1>3. ASSUME NEW i \in 1 .. Len(frames)
      PROVE  frames[i].id \notin freed
  <2>1. TakenFrames + i \in 1 .. Len(queued) /\ ~(TakenFrames + i <= TakenFrames)
    BY <1>1, <1>3
  <2>2. frames[i].id = TakenFrames + i
    BY <1>t, <1>3, <2>1, Zenon DEF FramesInv
  <2> QED
    BY <1>t, <2>1, <2>2, Zenon DEF FreedInv
<1>4. ASSUME tx.pc = "write", NEW i \in tx.next .. Len(tx.group)
      PROVE  tx.group[i].id \notin freed
  <2>1. /\ Len(tx.group) \in Nat /\ tx.next \in 1 .. Len(tx.group)
        /\ Len(tx.group) <= TakenFrames
        /\ Len(written) + Len(tx.group) + 1 = TakenFrames + tx.next
        /\ \A j \in 1 .. Len(tx.group) : tx.group[j].id = (TakenFrames - Len(tx.group)) + j
    BY <1>4, GroupFacts, Zenon
  <2>2. PICK g, w, t, x : g = Len(tx.group) /\ w = Len(written) /\ t = TakenFrames /\ x = tx.next
    BY Zenon
  <2>3. g \in Nat /\ w \in Nat /\ t \in Nat /\ x \in 1 .. g /\ g <= t /\ w + g + 1 = t + x /\ i \in x .. g
    BY <1>1, <1>4, <2>1, <2>2, Zenon
  <2>4. i \in 1 .. g /\ ~((t - g) + i <= t - g) /\ ~((t - g) + i <= w)
    BY <2>3
  <2>5. tx.group[i].id = (t - g) + i
    BY <2>1, <2>2, <2>4, Zenon
  <2>6. \A f \in freed : f <= (IF batchWire THEN t - g ELSE w)
    BY <1>t, <1>4, <2>2, Zenon DEF FreedInv
  <2> QED
    BY <2>4, <2>5, <2>6, Zenon
<1>5. ASSUME Ended, NEW f \in 1 .. Len(queued) - Len(frames), queued[f].hooked
      PROVE  f \in freed \/ Stranded(f)
  <2>1. f \in 1 .. TakenFrames
    BY <1>5, Zenon DEF TakenFrames
  <2>2. CASE batchWire \/ tx.pc = "done"
    <3>1. tx.group = <<>> /\ (tx.pc = "done" => tx.next = 1 /\ Len(written) + Len(tx.group) + 1 = TakenFrames + tx.next)
      BY <1>t, <1>5, <2>2, Zenon DEF Ended, GroupInv
    <3>2. /\ TakenFrames - Len(tx.group) = TakenFrames
          /\ tx.pc = "done" => Len(written) = TakenFrames
      BY <1>1, <3>1
    <3>3. f \in 1 .. Len(queued) /\ f <= TakenFrames
      BY <1>1, <2>1
    <3> QED
      BY <1>t, <1>5, <2>2, <3>2, <3>3, Zenon DEF FreedInv
  <2>3. CASE ~batchWire /\ tx.pc # "done"
    BY <1>5, <2>1, <2>3, Zenon DEF Ended, StrandInv
  <2> QED
    BY <2>2, <2>3, Zenon
<1>6. TxBuffersReturned
  BY <1>3, <1>4, <1>5, Zenon DEF TxBuffersReturned
<1> QED
  BY <1>2, <1>6, Zenon

-----------------------------------------------------------------------------
(* The transport. *)

LEMMA Invariance == Spec => []IInv
<1>1. Init => IInv
  <2>1. TxInit => StrandInv
    BY SMTT(30) DEF TxInit, StrandInv
  <2> QED
    BY <2>1, RxStart, TxStart, Zenon DEF Init, IInv
<1>2. IInv /\ [Next]_vars => IInv'
  <2> SUFFICES ASSUME IInv, [Next]_vars
               PROVE  IInv'
    BY Zenon
  <2>1. [RxNext]_rxVars /\ [TxNext]_txVars /\ side' = side
    BY Zenon DEF Next, vars
  <2> QED
    BY <2>1, RxStep, TxStepInv, StrandStep, Zenon DEF IInv
<1> QED
  BY <1>1, <1>2, PTL DEF Spec

\* For every size of the batches and of the channels: datagrams keep their order
\* in both directions, none is repeated, RxWorker loses none while it runs, and
\* TxWorker writes after Close what was queued before it.
THEOREM InOrderAlways == Spec => []NothingLostInOrder
<1>1. IInv => NothingLostInOrder
  BY RxSafe, TxSafe, Zenon DEF IInv, NothingLostInOrder
<1> QED
  BY <1>1, Invariance, PTL

\* For every size of the batches and of the channels: a pooled buffer has one
\* holder or has gone back once, whichever read, delivery or write fails and
\* whenever Close comes, but for those that a failed write on a wire without
\* WriteBatch leaves behind it in its group.
THEOREM BuffersAlwaysReturned == Spec => []BuffersReturned
<1>1. IInv => BuffersReturned
  BY RxSafe, TxSafe, Zenon DEF IInv, BuffersReturned, TypeOK, RxInv, TxInv
<1> QED
  BY <1>1, Invariance, PTL
=============================================================================
