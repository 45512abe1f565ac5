---------------------------- MODULE TunnelProofs -----------------------------
(***************************************************************************)
(* Safety of the packet interface for every size of buffers, batches and   *)
(* channels and any number of calls.                                       *)
(***************************************************************************)
EXTENDS Tunnel, TLAPS

-----------------------------------------------------------------------------
(* The inductive invariant. *)

\* A packet nobody has read from, as it was decrypted.
Whole(s) == s.id \in 1 .. Len(produced) /\ s.from = 0 /\ s.to = produced[s.id]

Holding == pending.from < pending.to

\* What read holds is the end of a decrypted packet; what waits behind it is whole.
HeldInv ==
  /\ pending.from <= pending.to
  /\ Holding => pending.id \in 1 .. Len(produced) /\ pending.to = produced[pending.id]
  /\ \A i \in 1 .. Len(current) : Whole(current[i])
  /\ \A b \in 1 .. Len(pktOut) : \A i \in 1 .. Len(pktOut[b]) : Whole(pktOut[b][i])

\* read waits for a batch only when it holds nothing.
WaitInv == reader.pc \in {"select", "final"} => ~Holding /\ current = <<>>

\* Slice s ends before slice t begins.
Before(s, t) == s.id < t.id \/ (s.id = t.id /\ s.to <= t.from)

\* Copied slices, the slice held, the current batch and the queue follow one
\* another, and each of them is in order.
GotInv ==
  /\ \A i, j \in 1 .. Len(got) : i < j => Before(got[i], got[j])
  /\ \A i \in 1 .. Len(got) : got[i].id \in 1 .. Len(produced) /\ got[i].to <= produced[got[i].id]
  /\ Holding => \A i \in 1 .. Len(got) : Before(got[i], pending)
  /\ \A i \in 1 .. Len(got), j \in 1 .. Len(current) : got[i].id < current[j].id
  /\ \A i \in 1 .. Len(got) : \A b \in 1 .. Len(pktOut) : \A j \in 1 .. Len(pktOut[b]) :
       got[i].id < pktOut[b][j].id

QueueInv ==
  /\ Holding => \A j \in 1 .. Len(current) : pending.id < current[j].id
  /\ Holding => \A b \in 1 .. Len(pktOut) : \A j \in 1 .. Len(pktOut[b]) : pending.id < pktOut[b][j].id
  /\ \A i, j \in 1 .. Len(current) : i < j => current[i].id < current[j].id
  /\ \A i \in 1 .. Len(current) : \A b \in 1 .. Len(pktOut) : \A j \in 1 .. Len(pktOut[b]) :
       current[i].id < pktOut[b][j].id
  /\ \A b \in 1 .. Len(pktOut) : \A i, j \in 1 .. Len(pktOut[b]) :
       i < j => pktOut[b][i].id < pktOut[b][j].id
  /\ \A b, c \in 1 .. Len(pktOut) : \A i \in 1 .. Len(pktOut[b]), j \in 1 .. Len(pktOut[c]) :
       b < c => pktOut[b][i].id < pktOut[c][j].id

\* No byte of a decrypted packet is lost.
CoverInv ==
  \A id \in 1 .. Len(produced) : \A k \in 1 .. produced[id] :
    (\E i \in 1 .. Len(got) : Has(got[i], id, k)) \/ Waiting(id, k) \/ id \in drained

\* closedFlag stays set, so a writer that does not see it was in time.
WriteInv ==
  /\ writer.pc # "idle" => writer.result = "none"
  /\ writer.pc = "recheck" /\ ~flag => writer.early
  /\ AcceptedBeforeEnd

IInv == TypeOK /\ HeldInv /\ WaitInv /\ GotInv /\ QueueInv /\ CoverInv /\ WriteInv

-----------------------------------------------------------------------------
(* Facts about the operators. *)

LEMMA AppendFacts ==
  ASSUME NEW S, NEW q \in Seq(S), NEW x \in S
  PROVE  /\ Append(q, x) \in Seq(S) /\ Len(Append(q, x)) = Len(q) + 1 /\ Len(q) \in Nat
         /\ Append(q, x)[Len(q) + 1] = x
         /\ \A i \in 1 .. Len(q) : Append(q, x)[i] = q[i]
  OBVIOUS

LEMMA ConcatFacts ==
  ASSUME NEW S, NEW p \in Seq(S), NEW q \in Seq(S)
  PROVE  /\ p \o q \in Seq(S) /\ Len(p) \in Nat /\ Len(q) \in Nat
         /\ Len(p \o q) = Len(p) + Len(q)
         /\ \A i \in 1 .. Len(p) : (p \o q)[i] = p[i]
         /\ \A i \in 1 .. Len(q) : (p \o q)[Len(p) + i] = q[i]
  OBVIOUS

LEMMA TailFacts ==
  ASSUME NEW S, NEW q \in Seq(S), q # <<>>
  PROVE  /\ Head(q) \in S /\ Head(q) = q[1] /\ Tail(q) \in Seq(S)
         /\ Len(q) \in Nat /\ Len(q) >= 1 /\ Len(Tail(q)) = Len(q) - 1
         /\ \A i \in 1 .. Len(q) - 1 : Tail(q)[i] = q[i + 1]
  OBVIOUS

LEMMA SliceFacts ==
  ASSUME NEW s \in Slice, NEW n \in Nat
  PROVE  /\ s.id \in Nat /\ s.from \in Nat /\ s.to \in Nat
         /\ Taken(s, n) \in Slice /\ Rest(s, n) \in Slice
         /\ Taken(s, n).id = s.id /\ Taken(s, n).from = s.from /\ Taken(s, n).to = s.from + n
         /\ Rest(s, n).id = s.id /\ Rest(s, n).from = s.from + n /\ Rest(s, n).to = s.to
  BY DEF Slice, Taken, Rest

LEMMA Types ==
  ASSUME TypeOK
  PROVE  /\ pktOut \in Seq(Seq(Slice)) /\ Len(pktOut) \in Nat
         /\ \A b \in 1 .. Len(pktOut) : pktOut[b] \in Seq(Slice) /\ Len(pktOut[b]) \in Nat
         /\ pending \in Slice /\ pending.id \in Nat /\ pending.from \in Nat /\ pending.to \in Nat
         /\ current \in Seq(Slice) /\ Len(current) \in Nat
         /\ produced \in Seq(Nat) /\ Len(produced) \in Nat
         /\ got \in Seq(Slice) /\ Len(got) \in Nat
         /\ reader \in Reader /\ reader.size \in Nat
  BY SMTT(30) DEF TypeOK, Slice, Reader

\* An index of a sequence that has grown.
LEMMA LastOrBefore ==
  ASSUME NEW n \in Nat, NEW m, m = n + 1, NEW b \in 1 .. m
  PROVE  b \in 1 .. n \/ b = n + 1
  OBVIOUS

LEMMA StillWithin ==
  ASSUME NEW n \in Nat, NEW k \in Nat, NEW m, m = n + k, NEW i \in 1 .. n
  PROVE  i \in 1 .. m
  OBVIOUS

-----------------------------------------------------------------------------
(* What the steps do to the bytes. *)

byteVars == <<pktOut, pending, current, produced, got, drained>>

\* runInbound queues a batch of whole packets, numbered on.
LEMMA DecryptedFacts ==
  ASSUME TypeOK, Decrypted
  PROVE  \E shape \in Seq(Nat) :
           /\ Len(shape) \in Nat /\ produced' \in Seq(Nat)
           /\ Len(produced') = Len(produced) + Len(shape)
           /\ \A id \in 1 .. Len(produced) : produced'[id] = produced[id]
           /\ \A i \in 1 .. Len(shape) : produced'[Len(produced) + i] = shape[i]
           /\ pktOut' \in Seq(Seq(Slice)) /\ Len(pktOut') = Len(pktOut) + 1
           /\ \A b \in 1 .. Len(pktOut) : pktOut'[b] = pktOut[b]
           /\ Len(pktOut'[Len(pktOut) + 1]) = Len(shape)
           /\ \A i \in 1 .. Len(shape) :
                /\ pktOut'[Len(pktOut) + 1][i].id = Len(produced) + i
                /\ pktOut'[Len(pktOut) + 1][i].from = 0
                /\ pktOut'[Len(pktOut) + 1][i].to = shape[i]
           /\ UNCHANGED <<pending, current, got, drained, reader>>
<1>1. PICK shape \in Batches :
        /\ pktOut' = Append(pktOut, [i \in 1 .. Len(shape) |->
                                       [id |-> Len(produced) + i, from |-> 0, to |-> shape[i]]])
        /\ produced' = produced \o shape
  BY Zenon DEF Decrypted
<1> DEFINE batch == [i \in 1 .. Len(shape) |->
                       [id |-> Len(produced) + i, from |-> 0, to |-> shape[i]]]
<1>2. shape \in Seq(Nat) /\ Len(shape) \in Nat
  BY TunnelAssumption
<1>3. batch \in Seq(Slice) /\ Len(batch) = Len(shape)
  BY <1>2, Types, SMTT(30) DEF Slice
<1>4. \A i \in 1 .. Len(shape) : /\ batch[i].id = Len(produced) + i
                                /\ batch[i].from = 0 /\ batch[i].to = shape[i]
  BY Zenon
<1>5. /\ produced' \in Seq(Nat) /\ Len(produced') = Len(produced) + Len(shape)
      /\ \A id \in 1 .. Len(produced) : produced'[id] = produced[id]
      /\ \A i \in 1 .. Len(shape) : produced'[Len(produced) + i] = shape[i]
  BY <1>1, <1>2, Types, ConcatFacts
<1>6. pktOut' = Append(pktOut, batch)
  BY <1>1, Zenon
<1> HIDE DEF batch
<1>7. /\ pktOut' \in Seq(Seq(Slice)) /\ Len(pktOut') = Len(pktOut) + 1
      /\ \A b \in 1 .. Len(pktOut) : pktOut'[b] = pktOut[b]
      /\ pktOut'[Len(pktOut) + 1] = batch
  BY <1>3, <1>6, Types, AppendFacts
<1>8. UNCHANGED <<pending, current, got, drained, reader>>
  BY Zenon DEF Decrypted
<1> QED
  BY <1>2, <1>3, <1>4, <1>5, <1>7, <1>8, Zenon

LEMMA CopiedFacts ==
  ASSUME TypeOK, NEW n, Copied(n), reader.pc = "poll"
  PROVE  reader'.pc \in {"poll", "idle"} /\ reader' \in Reader
<1>1. reader \in Reader
  BY Zenon DEF TypeOK
<1>2. CASE reader' = [reader EXCEPT !.pc = "poll", !.n = @ + 1]
  <2>1. reader' = [pc |-> "poll", n |-> reader.n + 1, size |-> reader.size, bufs |-> reader.bufs]
    BY <1>1, <1>2, Zenon DEF Reader
  <2>2. reader.n + 1 \in Nat /\ reader.size \in Nat /\ reader.bufs \in Nat
    BY <1>1 DEF Reader
  <2> QED
    BY <2>1, <2>2, Zenon DEF Reader
<1>3. CASE Return
  BY <1>1, <1>3, Zenon DEF Reader, Return
<1> QED
  BY <1>2, <1>3, Zenon DEF Copied

\* copy of the head of slice s: got grows by it, pending is what follows it.
CopyOf(s, n) ==
  /\ n \in Nat /\ n <= s.to - s.from
  /\ pending'.id = s.id /\ pending'.from = s.from + n /\ pending'.to = s.to
  /\ Len(got') = Len(got) + 1 /\ \A i \in 1 .. Len(got) : got'[i] = got[i]
  /\ got'[Len(got) + 1].id = s.id /\ got'[Len(got) + 1].from = s.from
  /\ got'[Len(got) + 1].to = s.from + n

LEMMA CopyFacts ==
  ASSUME TypeOK, NEW s \in Slice, s.from <= s.to, NEW n, n = Smaller(reader.size, Left(s)),
         pending' = Rest(s, n), got' = Append(got, Taken(s, n))
  PROVE  CopyOf(s, n) /\ pending' \in Slice /\ got' \in Seq(Slice)
<1>1. s.from \in Nat /\ s.to \in Nat /\ reader.size \in Nat
  BY Types, Zenon DEF Slice
<1>2. n \in Nat /\ n <= s.to - s.from
  BY <1>1 DEF Smaller, Left
<1>3. /\ Taken(s, n) \in Slice /\ Rest(s, n) \in Slice
      /\ Taken(s, n).id = s.id /\ Taken(s, n).from = s.from /\ Taken(s, n).to = s.from + n
      /\ Rest(s, n).id = s.id /\ Rest(s, n).from = s.from + n /\ Rest(s, n).to = s.to
  BY <1>2, SliceFacts, ZenonT(60)
<1>4. /\ got' \in Seq(Slice) /\ Len(got') = Len(got) + 1 /\ got'[Len(got) + 1] = Taken(s, n)
      /\ \A i \in 1 .. Len(got) : got'[i] = got[i]
  BY <1>3, Types, AppendFacts
<1> QED
  BY <1>2, <1>3, <1>4, Zenon DEF CopyOf

LEMMA ReadPendingFacts ==
  ASSUME TypeOK, HeldInv, ReadPending
  PROVE  /\ Holding /\ \E n \in Nat : CopyOf(pending, n)
         /\ reader'.pc \in {"poll", "idle"}
         /\ UNCHANGED <<pktOut, current, produced, drained>>
<1> DEFINE n == Smaller(reader.size, Left(pending))
<1>1. pending' = Rest(pending, n) /\ got' = Append(got, Taken(pending, n))
  BY Zenon DEF ReadPending
<1>2. pending \in Slice /\ pending.from \in Nat /\ pending.to \in Nat /\ pending.from <= pending.to
  BY Types, Zenon DEF HeldInv
<1>3. CopyOf(pending, n)
  BY <1>1, <1>2, CopyFacts, Zenon
<1>4. reader'.pc \in {"poll", "idle"}
  BY CopiedFacts, Zenon DEF ReadPending
<1>5. Left(pending) > 0 /\ UNCHANGED <<pktOut, current, produced, drained>>
  BY Zenon DEF ReadPending, ReadFrame
<1> QED
  BY <1>2, <1>3, <1>4, <1>5 DEF CopyOf, Holding, Left

LEMMA ReadPacketFacts ==
  ASSUME TypeOK, HeldInv, ReadPacket
  PROVE  /\ ~Holding /\ reader'.pc \in {"poll", "idle"}
         /\ current[1] \in Slice /\ 1 \in 1 .. Len(current)
         /\ Len(current') = Len(current) - 1
         /\ \A i \in 1 .. Len(current') : i + 1 \in 1 .. Len(current) /\ current'[i] = current[i + 1]
         /\ \/ current[1].from = current[1].to /\ UNCHANGED <<pending, got>>
            \/ \E n \in Nat : CopyOf(current[1], n)
         /\ UNCHANGED <<pktOut, produced, drained>>
<1> DEFINE pkt == Head(current)
           n   == Smaller(reader.size, Left(pkt))
<1>1. /\ pkt \in Slice /\ pkt = current[1] /\ Len(current) \in Nat /\ Len(current) >= 1
      /\ Len(Tail(current)) = Len(current) - 1
      /\ \A i \in 1 .. Len(current) - 1 : Tail(current)[i] = current[i + 1]
  BY Types, TailFacts, Zenon DEF ReadPacket
<1>2. /\ current' = Tail(current) /\ Left(pending) = 0 /\ reader.pc = "poll"
      /\ UNCHANGED <<pktOut, produced, drained>>
  BY Zenon DEF ReadPacket, ReadFrame
<1>3. pkt.from \in Nat /\ pkt.to \in Nat /\ pkt.from <= pkt.to
  <2>1. Whole(pkt)
    BY <1>1 DEF HeldInv
  <2> QED
    BY <1>1, <2>1 DEF Whole, Slice
<1>4. ~Holding
  BY <1>2, Types DEF Left, Holding
<1>5. \/ Left(pkt) = 0 /\ UNCHANGED <<reader, pending, got>>
      \/ pending' = Rest(pkt, n) /\ got' = Append(got, Taken(pkt, n)) /\ Copied(n)
  BY Zenon DEF ReadPacket
<1> HIDE DEF n, pkt
<1>6. CASE Left(pkt) = 0 /\ UNCHANGED <<reader, pending, got>>
  BY <1>1, <1>2, <1>3, <1>4, <1>6 DEF Left
<1>7. CASE pending' = Rest(pkt, n) /\ got' = Append(got, Taken(pkt, n)) /\ Copied(n)
  <2>1. CopyOf(pkt, n)
    BY <1>1, <1>3, <1>7, CopyFacts, Zenon DEF n
  <2>2. reader'.pc \in {"poll", "idle"}
    BY <1>2, <1>7, CopiedFacts, Zenon
  <2>3. n \in Nat
    BY <2>1, Zenon DEF CopyOf
  <2> QED
    BY <1>1, <1>2, <1>4, <2>1, <2>2, <2>3
<1> QED
  BY <1>5, <1>6, <1>7, Zenon

\* A batch is received only when nothing is held.
LEMMA TakeBatchFacts ==
  ASSUME TypeOK, HeldInv, TakeBatch, ~Holding, current = <<>>
  PROVE  /\ reader'.pc = "poll" /\ UNCHANGED <<pending, got, produced, drained>>
         /\ 1 \in 1 .. Len(pktOut) /\ current' = pktOut[1] /\ Len(pktOut') = Len(pktOut) - 1
         /\ \A b \in 1 .. Len(pktOut') : b + 1 \in 1 .. Len(pktOut) /\ pktOut'[b] = pktOut[b + 1]
<1>1. pktOut # <<>> /\ current' = Head(pktOut) /\ pktOut' = Tail(pktOut)
  BY Zenon DEF TakeBatch
<1>2. /\ Head(pktOut) = pktOut[1] /\ Len(pktOut) \in Nat /\ Len(pktOut) >= 1
      /\ Len(Tail(pktOut)) = Len(pktOut) - 1
      /\ \A b \in 1 .. Len(pktOut) - 1 : Tail(pktOut)[b] = pktOut[b + 1]
  BY <1>1, Types, TailFacts, Zenon
<1>3. reader'.pc = "poll" /\ UNCHANGED <<pending, got, produced, drained>>
  BY Zenon DEF TakeBatch, ReadFrame, TypeOK, Reader
<1> QED
  BY <1>1, <1>2, <1>3

\* stop releases the oldest batch.
Drops == stage = "drain" /\ pktOut # <<>> /\ StopDrains

LEMMA DropsFacts ==
  ASSUME TypeOK, Drops
  PROVE  /\ UNCHANGED <<reader, pending, current, got, produced>>
         /\ 1 \in 1 .. Len(pktOut) /\ Len(pktOut') = Len(pktOut) - 1
         /\ \A b \in 1 .. Len(pktOut') : b + 1 \in 1 .. Len(pktOut) /\ pktOut'[b] = pktOut[b + 1]
         /\ drained \subseteq drained'
         /\ \A i \in 1 .. Len(pktOut[1]) : pktOut[1][i].id \in drained'
<1>1. /\ pktOut # <<>> /\ pktOut' = Tail(pktOut)
      /\ drained' = drained \cup {Head(pktOut)[i].id : i \in 1 .. Len(Head(pktOut))}
      /\ UNCHANGED <<reader, pending, current, got, produced>>
  BY Zenon DEF Drops, StopDrains
<1>2. /\ Head(pktOut) = pktOut[1] /\ Len(pktOut) \in Nat /\ Len(pktOut) >= 1
      /\ Len(Tail(pktOut)) = Len(pktOut) - 1
      /\ \A b \in 1 .. Len(pktOut) - 1 : Tail(pktOut)[b] = pktOut[b + 1]
  BY <1>1, Types, TailFacts, Zenon
<1> QED
  BY <1>1, <1>2

\* Only these steps touch the bytes.
LEMMA ByteChanges ==
  ASSUME TypeOK, WaitInv, Next
  PROVE  \/ Decrypted \/ ReadPending \/ ReadPacket \/ (~Holding /\ current = <<>> /\ TakeBatch) \/ Drops
         \/ UNCHANGED byteVars
<1>1. Empty => ~Holding /\ current = <<>>
  BY Types DEF Empty, Left, Holding
<1>2. CASE ReadPoll
  BY <1>1, <1>2, Zenon DEF ReadPoll, ChannelEOF, ReadFrame, byteVars
<1>3. CASE ReadSelect
  BY <1>3, Zenon DEF WaitInv, ReadSelect, ChannelEOF, ReadFrame, byteVars
<1>4. CASE ReadFinal
  BY <1>4, Zenon DEF WaitInv, ReadFinal, ReadFrame, byteVars
<1>5. CASE WriteCall \/ WriteStep
  BY <1>5, Zenon DEF WriteStep, WriteCall, WriteLoop, WriteSelect, WriteRecheck, WriteFrame, byteVars
<1>6. CASE ReadCall \/ Encrypted \/ MarkStep \/ ChildDeleted \/ StopBegins \/ StopCancels
  BY <1>6, Zenon DEF ReadCall, Encrypted, MarkStep, ChildDeleted, StopBegins, StopCancels, ioVars, byteVars
<1>7. CASE StopDrains
  BY <1>7, Zenon DEF StopDrains, Drops, byteVars
<1> QED
  BY <1>2, <1>3, <1>4, <1>5, <1>6, <1>7, Zenon DEF Next, ReadStep

-----------------------------------------------------------------------------
(* The invariant is kept. *)

\* What read holds stays the end of a packet, and what waits stays whole.
LEMMA HeldStep ==
  ASSUME TypeOK, HeldInv, WaitInv, Next
  PROVE  HeldInv'
<1>1. CASE Decrypted
  <2>1. PICK shape \in Seq(Nat) :
          /\ Len(shape) \in Nat /\ Len(produced') = Len(produced) + Len(shape)
          /\ \A id \in 1 .. Len(produced) : produced'[id] = produced[id]
          /\ \A i \in 1 .. Len(shape) : produced'[Len(produced) + i] = shape[i]
          /\ Len(pktOut') = Len(pktOut) + 1
          /\ \A b \in 1 .. Len(pktOut) : pktOut'[b] = pktOut[b]
          /\ Len(pktOut'[Len(pktOut) + 1]) = Len(shape)
          /\ \A i \in 1 .. Len(shape) :
               /\ pktOut'[Len(pktOut) + 1][i].id = Len(produced) + i
               /\ pktOut'[Len(pktOut) + 1][i].from = 0
               /\ pktOut'[Len(pktOut) + 1][i].to = shape[i]
          /\ UNCHANGED <<pending, current>>
    BY <1>1, DecryptedFacts, Zenon
  <2>2. ASSUME NEW s, Whole(s)
        PROVE  s.id \in 1 .. Len(produced') /\ s.from = 0 /\ s.to = produced'[s.id]
    BY <2>1, <2>2, Types, SMTT(30) DEF Whole
  <2>3. /\ pending'.from <= pending'.to
        /\ Holding' => pending'.id \in 1 .. Len(produced') /\ pending'.to = produced'[pending'.id]
    BY <2>1, Types, StillWithin, Zenon DEF HeldInv, Holding
  <2>4. \A i \in 1 .. Len(current') : Whole(current[i])'
    BY <2>1, <2>2, Zenon DEF HeldInv, Whole
  <2>5. ASSUME NEW b \in 1 .. Len(pktOut'), NEW i \in 1 .. Len(pktOut'[b])
        PROVE  Whole(pktOut[b][i])'
    <3>1. CASE b \in 1 .. Len(pktOut)
      BY <2>1, <2>2, <2>5, <3>1, SMTT(30) DEF HeldInv, Whole
    <3>2. CASE b = Len(pktOut) + 1
      <4>1. i \in 1 .. Len(shape) /\ i \in Nat
        BY <2>1, <2>5, <3>2
      <4>2. Len(produced) + i \in 1 .. Len(produced')
        BY <2>1, <4>1, Types
      <4> QED
        BY <2>1, <3>2, <4>1, <4>2 DEF Whole
    <3> QED
      BY <2>1, <2>5, <3>1, <3>2, Types, LastOrBefore, Zenon
  <2> QED
    BY <2>3, <2>4, <2>5, Zenon DEF HeldInv
<1>2. CASE ReadPending
  <2>1. Holding /\ UNCHANGED <<pktOut, current, produced>>
    BY <1>2, ReadPendingFacts, Zenon
  <2>2. PICK n \in Nat : CopyOf(pending, n)
    BY <1>2, ReadPendingFacts, Zenon
  <2>3. /\ pending'.from <= pending'.to /\ pending'.id = pending.id /\ pending'.to = pending.to
    BY <2>2, Types, SMTT(30) DEF CopyOf
  <2> QED
    BY <2>1, <2>3, Zenon DEF HeldInv, Holding, Whole
<1>3. CASE ReadPacket
  <2>1. /\ UNCHANGED <<pktOut, produced>> /\ 1 \in 1 .. Len(current)
        /\ Len(current') = Len(current) - 1 /\ current[1] \in Slice
        /\ \A i \in 1 .. Len(current') : i + 1 \in 1 .. Len(current) /\ current'[i] = current[i + 1]
        /\ UNCHANGED pending \/ \E n \in Nat : CopyOf(current[1], n)
    BY <1>3, ReadPacketFacts, Zenon
  <2>2. Whole(current[1])
    BY <2>1, Zenon DEF HeldInv
  <2>3. /\ pending'.from <= pending'.to
        /\ Holding' => pending'.id \in 1 .. Len(produced) /\ pending'.to = produced[pending'.id]
    <3>1. CASE UNCHANGED pending
      BY <3>1, Zenon DEF HeldInv, Holding
    <3>2. CASE \E n \in Nat : CopyOf(current[1], n)
      BY <2>1, <2>2, <3>2 DEF CopyOf, Whole, Slice
    <3> QED
      BY <2>1, <3>1, <3>2, Zenon
  <2>4. \A i \in 1 .. Len(current') : Whole(current[i])'
    BY <2>1, SMTT(30) DEF HeldInv, Whole
  <2> QED
    BY <2>1, <2>3, <2>4, Zenon DEF HeldInv, Whole
<1>4. CASE ~Holding /\ current = <<>> /\ TakeBatch
  <2>1. /\ UNCHANGED <<pending, produced>> /\ 1 \in 1 .. Len(pktOut) /\ current' = pktOut[1]
        /\ \A b \in 1 .. Len(pktOut') : b + 1 \in 1 .. Len(pktOut) /\ pktOut'[b] = pktOut[b + 1]
    BY <1>4, TakeBatchFacts, Zenon
  <2>2. \A i \in 1 .. Len(current') : Whole(current'[i])
    BY <2>1, Zenon DEF HeldInv
  <2>3. \A b \in 1 .. Len(pktOut') : \A i \in 1 .. Len(pktOut'[b]) : Whole(pktOut'[b][i])
    BY <2>1, Zenon DEF HeldInv
  <2> QED
    BY <2>1, <2>2, <2>3 DEF HeldInv, Holding, Whole
<1>5. CASE Drops
  <2>1. /\ UNCHANGED <<pending, produced, current>>
        /\ \A b \in 1 .. Len(pktOut') : b + 1 \in 1 .. Len(pktOut) /\ pktOut'[b] = pktOut[b + 1]
    BY <1>5, DropsFacts, Zenon
  <2> QED
    BY <2>1, SMTT(30) DEF HeldInv, Holding, Whole
<1>6. CASE UNCHANGED byteVars
  BY <1>6, Zenon DEF byteVars, HeldInv, Whole, Holding
<1> QED
  BY <1>1, <1>2, <1>3, <1>4, <1>5, <1>6, ByteChanges, Zenon

\* read goes on to wait only from an empty poll.
LEMMA WaitStep ==
  ASSUME TypeOK, HeldInv, WaitInv, Next
  PROVE  WaitInv'
<1>1. CASE ReadPending \/ ReadPacket \/ (~Holding /\ current = <<>> /\ TakeBatch)
  BY <1>1, ReadPendingFacts, ReadPacketFacts, TakeBatchFacts, Zenon DEF WaitInv
<1>2. CASE ReadCall
  BY <1>2 DEF WaitInv, ReadCall
<1>3. CASE UNCHANGED <<reader, pending, current>>
  BY <1>3, Zenon DEF WaitInv, Holding
<1>4. CASE ReadPoll
  <2>1. ~Holding /\ current = <<>>
    BY <1>4, Types DEF ReadPoll, Empty, Left, Holding
  <2>2. TakeBatch \/ UNCHANGED <<pending, current>>
    BY <1>4, Zenon DEF ReadPoll, ChannelEOF
  <2> QED
    BY <1>1, <2>1, <2>2, Zenon DEF WaitInv, Holding
<1>5. CASE ReadSelect \/ ReadFinal
  <2>1. ~Holding /\ current = <<>>
    BY <1>5, Zenon DEF WaitInv, ReadSelect, ReadFinal
  <2>2. TakeBatch \/ UNCHANGED <<pending, current>>
    BY <1>5, Zenon DEF ReadSelect, ReadFinal, ChannelEOF
  <2> QED
    BY <1>1, <2>1, <2>2, Zenon DEF WaitInv, Holding
<1>6. CASE WriteCall \/ WriteStep \/ Decrypted \/ Encrypted
  BY <1>3, <1>6, Zenon DEF WriteStep, WriteCall, WriteLoop, WriteSelect, WriteRecheck, WriteFrame, Decrypted,
                    Encrypted
<1>7. CASE MarkStep \/ ChildDeleted \/ StopBegins \/ StopCancels \/ StopDrains
  BY <1>3, <1>7, Zenon DEF MarkStep, ChildDeleted, StopBegins, StopCancels, StopDrains, ioVars
<1> QED
  BY <1>1, <1>2, <1>4, <1>5, <1>6, <1>7, Zenon DEF Next, ReadStep

LEMMA GotFrame ==
  ASSUME GotInv, UNCHANGED byteVars
  PROVE  GotInv'
<1>1. /\ (Holding' <=> Holding) /\ pending' = pending /\ current' = current /\ pktOut' = pktOut
      /\ got' = got /\ produced' = produced
  BY Zenon DEF byteVars, Holding
<1>2. /\ \A i, j \in 1 .. Len(got') : i < j => Before(got[i], got[j])'
      /\ Holding' => \A i \in 1 .. Len(got') : Before(got[i], pending)'
  BY <1>1 DEF GotInv, Before
<1>3. \A i \in 1 .. Len(got') : got'[i].id \in 1 .. Len(produced') /\ got'[i].to <= produced'[got'[i].id]
  BY <1>1, Zenon DEF GotInv
<1>4. \A i \in 1 .. Len(got'), j \in 1 .. Len(current') : got'[i].id < current'[j].id
  BY <1>1, Zenon DEF GotInv
<1>5. \A i \in 1 .. Len(got') : \A b \in 1 .. Len(pktOut') : \A j \in 1 .. Len(pktOut'[b]) :
        got'[i].id < pktOut'[b][j].id
  BY <1>1 DEF GotInv
<1> QED
  BY <1>2, <1>3, <1>4, <1>5, Zenon DEF GotInv

\* The application gets each slice after the slices before it.
LEMMA GotStep ==
  ASSUME TypeOK, HeldInv, WaitInv, GotInv, QueueInv, Next
  PROVE  GotInv'
<1>a. \A i, j \in 1 .. Len(got) : i < j => Before(got[i], got[j])
  BY Zenon DEF GotInv
<1>b. \A i \in 1 .. Len(got) : got[i].id \in 1 .. Len(produced) /\ got[i].to <= produced[got[i].id]
  BY Zenon DEF GotInv
<1>c. \A i \in 1 .. Len(got), j \in 1 .. Len(current) : got[i].id < current[j].id
  BY Zenon DEF GotInv
<1>d. \A i \in 1 .. Len(got) : \A b \in 1 .. Len(pktOut) : \A j \in 1 .. Len(pktOut[b]) :
        got[i].id < pktOut[b][j].id
  BY Zenon DEF GotInv
<1>e. /\ Len(got) \in Nat /\ Len(produced) \in Nat /\ Len(pktOut) \in Nat
      /\ \A i \in 1 .. Len(got) : got[i].id \in Nat /\ got[i].to \in Nat
  <2>1. \A i \in 1 .. Len(got) : got[i] \in Slice
    BY Types
  <2> QED
    BY <2>1, Types, Zenon DEF Slice
<1>f. \A id \in 1 .. Len(produced) : produced[id] \in Nat
  BY Types, SMTT(30)
<1>1. CASE Decrypted
  <2>1. PICK shape \in Seq(Nat) :
          /\ Len(shape) \in Nat /\ Len(produced') = Len(produced) + Len(shape)
          /\ \A id \in 1 .. Len(produced) : produced'[id] = produced[id]
          /\ Len(pktOut') = Len(pktOut) + 1
          /\ \A b \in 1 .. Len(pktOut) : pktOut'[b] = pktOut[b]
          /\ Len(pktOut'[Len(pktOut) + 1]) = Len(shape)
          /\ \A i \in 1 .. Len(shape) : pktOut'[Len(pktOut) + 1][i].id = Len(produced) + i
          /\ UNCHANGED <<pending, current, got>>
    BY <1>1, DecryptedFacts, Zenon
  <2>2. /\ \A i, j \in 1 .. Len(got) : i < j => Before(got[i], got[j])
        /\ Holding => \A i \in 1 .. Len(got) : Before(got[i], pending)
        /\ \A i \in 1 .. Len(got), j \in 1 .. Len(current) : got[i].id < current[j].id
    BY Zenon DEF GotInv
  <2>3. \A i \in 1 .. Len(got) : got[i].id \in 1 .. Len(produced') /\ got[i].to <= produced'[got[i].id]
    <3> SUFFICES ASSUME NEW i \in 1 .. Len(got)
                 PROVE  got[i].id \in 1 .. Len(produced') /\ got[i].to <= produced'[got[i].id]
      BY Zenon
    <3>1. got[i].id \in 1 .. Len(produced) /\ got[i].to <= produced[got[i].id]
      BY <1>b, Zenon
    <3> QED
      BY <2>1, <3>1, <1>e
  <2>4. ASSUME NEW i \in 1 .. Len(got), NEW b \in 1 .. Len(pktOut'), NEW j \in 1 .. Len(pktOut'[b])
        PROVE  got[i].id < pktOut'[b][j].id
    <3>1. CASE b \in 1 .. Len(pktOut)
      BY <2>1, <2>4, <3>1, Zenon DEF GotInv
    <3>2. CASE b = Len(pktOut) + 1
      <4>1. j \in 1 .. Len(shape) /\ got[i].id \in 1 .. Len(produced)
        BY <1>b, <2>1, <2>4, <3>2, Zenon
      <4>2. pktOut'[b][j].id = Len(produced) + j
        BY <2>1, <3>2, <4>1, Zenon
      <4> QED
        BY <1>e, <4>1, <4>2, SMTT(30)
    <3>3. Len(pktOut') = Len(pktOut) + 1
      BY <2>1, Zenon
    <3>4. b \in 1 .. Len(pktOut) \/ b = Len(pktOut) + 1
      BY <1>e, <3>3, LastOrBefore, Zenon
    <3> QED
      BY <3>1, <3>2, <3>4, Zenon
  <2> QED
    BY <2>1, <2>2, <2>3, <2>4 DEF GotInv, Before, Holding
<1>2. CASE ReadPending
  <2>1. Holding /\ UNCHANGED <<pktOut, current, produced>>
    BY <1>2, ReadPendingFacts, Zenon
  <2>2. PICK n \in Nat : CopyOf(pending, n)
    BY <1>2, ReadPendingFacts, Zenon
  <2> DEFINE l == Len(got)
  <2>3. /\ l \in Nat /\ Len(got') = l + 1 /\ \A i \in 1 .. l : got'[i] = got[i]
        /\ got'[l + 1].id = pending.id /\ got'[l + 1].from = pending.from
        /\ got'[l + 1].to = pending.from + n
    BY <2>2, Types, Zenon DEF CopyOf
  <2>4. /\ pending'.id = pending.id /\ pending'.from = pending.from + n /\ pending'.to = pending.to
        /\ n <= pending.to - pending.from
    BY <2>2, Zenon DEF CopyOf
  <2>5. \A i \in 1 .. l : Before(got[i], pending)
    BY <2>1, Zenon DEF GotInv
  <2>6. \A i, j \in 1 .. Len(got') : i < j => Before(got[i], got[j])'
    <3> SUFFICES ASSUME NEW i \in 1 .. l + 1, NEW j \in 1 .. l + 1, i < j
                 PROVE  Before(got'[i], got'[j])
      BY <2>3, Zenon DEF Before
    <3>1. i \in 1 .. l /\ (j \in 1 .. l \/ j = l + 1)
      BY <2>3
    <3>2. CASE j \in 1 .. l
      BY <1>a, <2>3, <3>1, <3>2, Zenon
    <3>3. CASE j = l + 1
      BY <2>3, <2>5, <3>1, <3>3, Zenon DEF Before
    <3> QED
      BY <3>1, <3>2, <3>3, Zenon
  <2>7. \A i \in 1 .. Len(got') : got'[i].id \in 1 .. Len(produced) /\ got'[i].to <= produced[got'[i].id]
    <3>1. pending.id \in 1 .. Len(produced) /\ pending.from + n <= produced[pending.id]
      BY <2>1, <2>4, Types, SMTT(30) DEF HeldInv
    <3> QED
      BY <1>b, <2>3, <3>1, SMTT(30)
  <2>9. \A i \in 1 .. Len(got') : Before(got[i], pending)'
    <3> SUFFICES ASSUME NEW i \in 1 .. l + 1
                 PROVE  Before(got'[i], pending')
      BY <2>3, Zenon DEF Before
    <3>1. CASE i \in 1 .. l
      <4>1. /\ got'[i] = got[i] /\ Before(got[i], pending) /\ got[i].id \in Nat /\ got[i].to \in Nat
        BY <1>e, <2>3, <2>5, <3>1, Zenon
      <4>2. pending.id \in Nat /\ pending.from \in Nat
        BY Types, Zenon
      <4> QED
        BY <2>4, <4>1, <4>2 DEF Before
    <3>2. CASE i = l + 1
      BY <2>3, <2>4, <3>2, Types DEF Before
    <3> QED
      BY <2>3, <3>1, <3>2
  <2>10. \A i \in 1 .. Len(got'), j \in 1 .. Len(current) : got'[i].id < current[j].id
    <3>1. \A j \in 1 .. Len(current) : pending.id < current[j].id
      BY <2>1, Zenon DEF QueueInv
    <3> QED
      BY <1>c, <2>3, <3>1
  <2>11. \A i \in 1 .. Len(got') : \A b \in 1 .. Len(pktOut) : \A j \in 1 .. Len(pktOut[b]) :
           got'[i].id < pktOut[b][j].id
    <3>1. \A b \in 1 .. Len(pktOut) : \A j \in 1 .. Len(pktOut[b]) : pending.id < pktOut[b][j].id
      BY <2>1, Zenon DEF QueueInv
    <3> QED
      BY <1>d, <2>3, <3>1, SMTT(30)
  <2> QED
    BY <2>1, <2>6, <2>7, <2>9, <2>10, <2>11, Zenon DEF GotInv
<1>3. CASE ReadPacket
  <2>1. /\ UNCHANGED <<pktOut, produced>> /\ 1 \in 1 .. Len(current) /\ ~Holding
        /\ current[1] \in Slice /\ Len(current') = Len(current) - 1
        /\ \A i \in 1 .. Len(current') : i + 1 \in 1 .. Len(current) /\ current'[i] = current[i + 1]
        /\ UNCHANGED <<pending, got>> \/ \E n \in Nat : CopyOf(current[1], n)
    BY <1>3, ReadPacketFacts, Zenon
  <2>2. CASE UNCHANGED <<pending, got>>
    <3>1. ~Holding'
      BY <2>1, <2>2, Zenon DEF Holding
    <3>2. \A i \in 1 .. Len(got), j \in 1 .. Len(current') : got[i].id < current'[j].id
      BY <1>c, <2>1, Zenon
    <3> QED
      BY <1>a, <1>b, <1>d, <2>1, <2>2, <3>1, <3>2, SMTT(30) DEF GotInv, Before
  <2>3. CASE \E n \in Nat : CopyOf(current[1], n)
    <3> DEFINE l == Len(got)
               s == current[1]
    <3>1. PICK n \in Nat : CopyOf(s, n)
      BY <2>3, Zenon
    <3>2. /\ l \in Nat /\ Len(got') = l + 1 /\ \A i \in 1 .. l : got'[i] = got[i]
          /\ got'[l + 1].id = s.id /\ got'[l + 1].from = s.from /\ got'[l + 1].to = s.from + n
      BY <3>1, Types, Zenon DEF CopyOf
    <3>3. /\ pending'.id = s.id /\ pending'.from = s.from + n /\ pending'.to = s.to
          /\ n <= s.to - s.from
      BY <3>1, Zenon DEF CopyOf
    <3>4. /\ s.id \in 1 .. Len(produced) /\ s.from = 0 /\ s.to = produced[s.id] /\ s.to \in Nat
      BY <2>1, Zenon DEF HeldInv, Whole, Slice
    <3>5. \A i \in 1 .. l : got[i].id < s.id
      BY <2>1, Zenon DEF GotInv
    <3>6. \A i \in 1 .. Len(current') : s.id < current'[i].id
      <4> SUFFICES ASSUME NEW i \in 1 .. Len(current')
                   PROVE  s.id < current'[i].id
        BY Zenon
      <4>1. i + 1 \in 1 .. Len(current) /\ current'[i] = current[i + 1] /\ 1 < i + 1
        BY <2>1, Types, SMTT(30)
      <4> QED
        BY <2>1, <4>1, Zenon DEF QueueInv
    <3>7. \A b \in 1 .. Len(pktOut) : \A j \in 1 .. Len(pktOut[b]) : s.id < pktOut[b][j].id
      BY <2>1, Zenon DEF QueueInv
    <3> HIDE DEF s
    <3>8. \A i, j \in 1 .. Len(got') : i < j => Before(got[i], got[j])'
      <4> SUFFICES ASSUME NEW i \in 1 .. l + 1, NEW j \in 1 .. l + 1, i < j
                   PROVE  Before(got'[i], got'[j])
        BY <3>2, Zenon DEF Before
      <4>1. i \in 1 .. l /\ (j \in 1 .. l \/ j = l + 1)
        BY <3>2
      <4>2. CASE j \in 1 .. l
        BY <1>a, <3>2, <4>1, <4>2, Zenon
      <4>3. CASE j = l + 1
        BY <3>2, <3>5, <4>1, <4>3, Zenon DEF Before
      <4> QED
        BY <4>1, <4>2, <4>3, Zenon
    <3>9. \A i \in 1 .. Len(got') : got'[i].id \in 1 .. Len(produced) /\ got'[i].to <= produced[got'[i].id]
      <4>1. s.from + n <= produced[s.id]
        BY <3>3, <3>4
      <4> QED
        BY <1>b, <3>2, <3>4, <4>1, SMTT(30)
    <3>10. \A i \in 1 .. Len(got') : Before(got[i], pending)'
      BY <3>2, <3>3, <3>4, <3>5 DEF Before
    <3>11. \A i \in 1 .. Len(got'), j \in 1 .. Len(current') : got'[i].id < current'[j].id
      <4> SUFFICES ASSUME NEW i \in 1 .. l + 1, NEW j \in 1 .. Len(current')
                   PROVE  got'[i].id < current'[j].id
        BY <3>2, Zenon
      <4>1. j + 1 \in 1 .. Len(current) /\ current'[j] = current[j + 1]
        BY <2>1, Zenon
      <4>2. CASE i \in 1 .. l
        BY <1>c, <3>2, <4>1, <4>2, Zenon
      <4>3. CASE i = l + 1
        BY <3>2, <3>6, <4>3, Zenon
      <4> QED
        BY <3>2, <4>2, <4>3
    <3>12. \A i \in 1 .. Len(got') : \A b \in 1 .. Len(pktOut) : \A j \in 1 .. Len(pktOut[b]) :
             got'[i].id < pktOut[b][j].id
      <4> SUFFICES ASSUME NEW i \in 1 .. l + 1, NEW b \in 1 .. Len(pktOut), NEW j \in 1 .. Len(pktOut[b])
                   PROVE  got'[i].id < pktOut[b][j].id
        BY <3>2, Zenon
      <4>1. CASE i \in 1 .. l
        BY <1>d, <3>2, <4>1, Zenon
      <4>2. CASE i = l + 1
        BY <3>2, <3>7, <4>2, Zenon
      <4> QED
        BY <3>2, <4>1, <4>2
    <3> QED
      BY <2>1, <3>8, <3>9, <3>10, <3>11, <3>12, Zenon DEF GotInv
  <2> QED
    BY <2>1, <2>2, <2>3, Zenon
<1>4. CASE ~Holding /\ current = <<>> /\ TakeBatch
  <2>1. /\ UNCHANGED <<pending, got, produced>> /\ 1 \in 1 .. Len(pktOut) /\ current' = pktOut[1]
        /\ \A b \in 1 .. Len(pktOut') : b + 1 \in 1 .. Len(pktOut) /\ pktOut'[b] = pktOut[b + 1]
    BY <1>4, TakeBatchFacts, Zenon
  <2>2. \A i \in 1 .. Len(got), j \in 1 .. Len(current') : got[i].id < current'[j].id
    BY <2>1, Zenon DEF GotInv
  <2>3. \A i \in 1 .. Len(got) : \A b \in 1 .. Len(pktOut') : \A j \in 1 .. Len(pktOut'[b]) :
          got[i].id < pktOut'[b][j].id
    BY <2>1, Zenon DEF GotInv
  <2> QED
    BY <2>1, <2>2, <2>3 DEF GotInv, Before, Holding
<1>5. CASE Drops
  <2>1. /\ UNCHANGED <<pending, current, got, produced>>
        /\ \A b \in 1 .. Len(pktOut') : b + 1 \in 1 .. Len(pktOut) /\ pktOut'[b] = pktOut[b + 1]
    BY <1>5, DropsFacts, Zenon
  <2>2. \A i \in 1 .. Len(got) : \A b \in 1 .. Len(pktOut') : \A j \in 1 .. Len(pktOut'[b]) :
          got[i].id < pktOut'[b][j].id
    BY <2>1, Zenon DEF GotInv
  <2> QED
    BY <2>1, <2>2, SMTT(30) DEF GotInv, Before, Holding
<1>6. CASE UNCHANGED byteVars
  BY <1>6, GotFrame, Zenon
<1> QED
  BY <1>1, <1>2, <1>3, <1>4, <1>5, <1>6, ByteChanges, Zenon

LEMMA QueueFrame ==
  ASSUME QueueInv, UNCHANGED byteVars
  PROVE  QueueInv'
<1>1. (Holding' <=> Holding) /\ pending' = pending /\ current' = current /\ pktOut' = pktOut
  BY Zenon DEF byteVars, Holding
<1>2. /\ Holding' => \A j \in 1 .. Len(current') : pending'.id < current'[j].id
      /\ Holding' => \A b \in 1 .. Len(pktOut') : \A j \in 1 .. Len(pktOut'[b]) :
                        pending'.id < pktOut'[b][j].id
  BY <1>1, Zenon DEF QueueInv
<1>3. /\ \A i, j \in 1 .. Len(current') : i < j => current'[i].id < current'[j].id
      /\ \A i \in 1 .. Len(current') : \A b \in 1 .. Len(pktOut') : \A j \in 1 .. Len(pktOut'[b]) :
           current'[i].id < pktOut'[b][j].id
  BY <1>1 DEF QueueInv
<1>4. \A b \in 1 .. Len(pktOut') : \A i, j \in 1 .. Len(pktOut'[b]) :
        i < j => pktOut'[b][i].id < pktOut'[b][j].id
  BY <1>1 DEF QueueInv
<1>5. \A b, c \in 1 .. Len(pktOut') : \A i \in 1 .. Len(pktOut'[b]), j \in 1 .. Len(pktOut'[c]) :
        b < c => pktOut'[b][i].id < pktOut'[c][j].id
  BY <1>1 DEF QueueInv
<1> QED
  BY <1>2, <1>3, <1>4, <1>5, Zenon DEF QueueInv

\* The packets wait in the order of decryption.
LEMMA QueueStep ==
  ASSUME TypeOK, HeldInv, WaitInv, QueueInv, Next
  PROVE  QueueInv'
<1>a. \A i \in 1 .. Len(current) : \A b \in 1 .. Len(pktOut) : \A j \in 1 .. Len(pktOut[b]) :
        current[i].id < pktOut[b][j].id
  BY Zenon DEF QueueInv
<1>b. \A b \in 1 .. Len(pktOut) : \A i, j \in 1 .. Len(pktOut[b]) :
        i < j => pktOut[b][i].id < pktOut[b][j].id
  BY Zenon DEF QueueInv
<1>c. \A b, c \in 1 .. Len(pktOut) : \A i \in 1 .. Len(pktOut[b]), j \in 1 .. Len(pktOut[c]) :
        b < c => pktOut[b][i].id < pktOut[c][j].id
  BY Zenon DEF QueueInv
<1>1. CASE Decrypted
  <2>1. PICK shape \in Seq(Nat) :
          /\ Len(shape) \in Nat /\ Len(pktOut') = Len(pktOut) + 1
          /\ \A b \in 1 .. Len(pktOut) : pktOut'[b] = pktOut[b]
          /\ Len(pktOut'[Len(pktOut) + 1]) = Len(shape)
          /\ \A i \in 1 .. Len(shape) : pktOut'[Len(pktOut) + 1][i].id = Len(produced) + i
          /\ UNCHANGED <<pending, current>>
    BY <1>1, DecryptedFacts, Zenon
  <2> DEFINE l == Len(pktOut)
  <2>2. l \in Nat /\ Len(produced) \in Nat
    BY Types, Zenon
  <2>3. \A b \in 1 .. Len(pktOut') : b \in 1 .. l \/ b = l + 1
    BY <2>1, <2>2
  <2>4. \A b \in 1 .. l : \A i \in 1 .. Len(pktOut[b]) : pktOut[b][i].id \in 1 .. Len(produced)
    BY Zenon DEF HeldInv, Whole
  <2>5. \A i \in 1 .. Len(current) : current[i].id \in 1 .. Len(produced)
    BY Zenon DEF HeldInv, Whole
  <2>6. Holding => pending.id \in 1 .. Len(produced)
    BY Zenon DEF HeldInv
  <2>7. ASSUME Holding, NEW b \in 1 .. Len(pktOut'), NEW j \in 1 .. Len(pktOut'[b])
        PROVE  pending.id < pktOut'[b][j].id
    <3>1. CASE b \in 1 .. l
      BY <2>1, <2>7, <3>1, Zenon DEF QueueInv
    <3>2. CASE b = l + 1
      BY <2>1, <2>2, <2>6, <2>7, <3>2
    <3> QED
      BY <2>3, <3>1, <3>2, Zenon
  <2>8. ASSUME NEW i \in 1 .. Len(current), NEW b \in 1 .. Len(pktOut'), NEW j \in 1 .. Len(pktOut'[b])
        PROVE  current[i].id < pktOut'[b][j].id
    <3>1. CASE b \in 1 .. l
      BY <2>1, <2>8, <3>1, Zenon DEF QueueInv
    <3>2. CASE b = l + 1
      BY <2>1, <2>2, <2>5, <2>8, <3>2, SMTT(30)
    <3> QED
      BY <2>3, <3>1, <3>2, Zenon
  <2>9. ASSUME NEW b \in 1 .. Len(pktOut'), NEW i \in 1 .. Len(pktOut'[b]), NEW j \in 1 .. Len(pktOut'[b]),
               i < j
        PROVE  pktOut'[b][i].id < pktOut'[b][j].id
    <3>1. CASE b \in 1 .. l
      BY <2>1, <2>9, <3>1, Zenon DEF QueueInv
    <3>2. CASE b = l + 1
      BY <2>1, <2>2, <2>9, <3>2, SMTT(30)
    <3> QED
      BY <2>3, <3>1, <3>2, Zenon
  <2>10. ASSUME NEW b \in 1 .. Len(pktOut'), NEW c \in 1 .. Len(pktOut'), b < c,
                NEW i \in 1 .. Len(pktOut'[b]), NEW j \in 1 .. Len(pktOut'[c])
         PROVE  pktOut'[b][i].id < pktOut'[c][j].id
    <3>0. b \in 1 .. l
      BY <2>1, <2>2, <2>10
    <3>1. CASE c \in 1 .. l
      BY <2>1, <2>10, <3>0, <3>1, Zenon DEF QueueInv
    <3>2. CASE c = l + 1
      <4>1. pktOut'[b][i].id \in 1 .. Len(produced)
        BY <2>1, <2>4, <2>10, <3>0, Zenon
      <4>2. j \in 1 .. Len(shape) /\ pktOut'[c][j].id = Len(produced) + j
        BY <2>1, <2>10, <3>2, Zenon
      <4>3. \A x \in 1 .. Len(produced) : x < Len(produced) + j
        BY <2>2, <4>2
      <4> QED
        BY <4>1, <4>2, <4>3, Zenon
    <3> QED
      BY <2>3, <3>1, <3>2, Zenon
  <2>11. /\ Holding => \A j \in 1 .. Len(current) : pending.id < current[j].id
         /\ \A i, j \in 1 .. Len(current) : i < j => current[i].id < current[j].id
    BY Zenon DEF QueueInv
  <2> QED
    BY <2>1, <2>7, <2>8, <2>9, <2>10, <2>11 DEF QueueInv, Holding
<1>2. CASE ReadPending
  <2>1. /\ Holding /\ UNCHANGED <<pktOut, current>> /\ pending'.id = pending.id
    BY <1>2, ReadPendingFacts, Zenon DEF CopyOf
  <2> QED
    BY <2>1 DEF QueueInv
<1>3. CASE ReadPacket
  <2>1. /\ UNCHANGED pktOut /\ 1 \in 1 .. Len(current) /\ ~Holding
        /\ \A i \in 1 .. Len(current') : /\ i + 1 \in 1 .. Len(current)
                                        /\ current'[i] = current[i + 1]
        /\ UNCHANGED pending \/ pending'.id = current[1].id
    BY <1>3, ReadPacketFacts, Zenon DEF CopyOf
  <2>2. \A i \in 1 .. Len(current') : i \in Nat /\ 1 < i + 1
    BY <1>3, ReadPacketFacts, Types
  <2>3. \A j \in 1 .. Len(current') : current[1].id < current'[j].id
    BY <2>1, <2>2, Zenon DEF QueueInv
  <2>4. \A b \in 1 .. Len(pktOut) : \A j \in 1 .. Len(pktOut[b]) : current[1].id < pktOut[b][j].id
    BY <2>1, Zenon DEF QueueInv
  <2>5. \A i, j \in 1 .. Len(current') : i < j => current'[i].id < current'[j].id
    BY <2>1, <2>2, SMTT(30) DEF QueueInv
  <2>6. \A i \in 1 .. Len(current') : \A b \in 1 .. Len(pktOut) : \A j \in 1 .. Len(pktOut[b]) :
          current'[i].id < pktOut[b][j].id
    BY <2>1, ZenonT(60) DEF QueueInv
  <2>7. Holding' => pending'.id = current[1].id
    BY <2>1, Zenon DEF Holding
  <2> QED
    BY <2>1, <2>3, <2>4, <2>5, <2>6, <2>7, SMTT(30) DEF QueueInv
<1>4. CASE ~Holding /\ current = <<>> /\ TakeBatch
  <2>1. /\ UNCHANGED pending /\ 1 \in 1 .. Len(pktOut) /\ current' = pktOut[1]
        /\ \A b \in 1 .. Len(pktOut') : /\ b + 1 \in 1 .. Len(pktOut) /\ b \in Nat
                                       /\ pktOut'[b] = pktOut[b + 1]
    <3>1. \A b \in 1 .. Len(pktOut') : b \in Nat
      BY <1>4, TakeBatchFacts, Types
    <3> QED
      BY <1>4, <3>1, TakeBatchFacts, Zenon
  <2>2. ~Holding'
    BY <1>4, <2>1, Zenon DEF Holding
  <2>3. \A i, j \in 1 .. Len(current') : i < j => current'[i].id < current'[j].id
    BY <2>1, Zenon DEF QueueInv
  <2>4. \A i \in 1 .. Len(current') : \A b \in 1 .. Len(pktOut') : \A j \in 1 .. Len(pktOut'[b]) :
          current'[i].id < pktOut'[b][j].id
    <3> SUFFICES ASSUME NEW b \in 1 .. Len(pktOut'), NEW i \in 1 .. Len(current'),
                        NEW j \in 1 .. Len(pktOut'[b])
                 PROVE  current'[i].id < pktOut'[b][j].id
      BY Zenon
    <3>1. b + 1 \in 1 .. Len(pktOut) /\ 1 < b + 1 /\ pktOut'[b] = pktOut[b + 1]
      BY <2>1
    <3> QED
      BY <1>c, <2>1, <3>1, Zenon
  <2>5. \A b \in 1 .. Len(pktOut') : \A i, j \in 1 .. Len(pktOut'[b]) :
          i < j => pktOut'[b][i].id < pktOut'[b][j].id
    BY <1>b, <2>1, Zenon
  <2>6. \A b, c \in 1 .. Len(pktOut') : \A i \in 1 .. Len(pktOut'[b]), j \in 1 .. Len(pktOut'[c]) :
          b < c => pktOut'[b][i].id < pktOut'[c][j].id
    <3> SUFFICES ASSUME NEW b \in 1 .. Len(pktOut'), NEW c \in 1 .. Len(pktOut'), b < c,
                        NEW i \in 1 .. Len(pktOut'[b]), NEW j \in 1 .. Len(pktOut'[c])
                 PROVE  pktOut'[b][i].id < pktOut'[c][j].id
      BY Zenon
    <3>1. b + 1 \in 1 .. Len(pktOut) /\ c + 1 \in 1 .. Len(pktOut) /\ b + 1 < c + 1
      BY <2>1
    <3> QED
      BY <1>c, <2>1, <3>1, Zenon
  <2> QED
    BY <2>2, <2>3, <2>4, <2>5, <2>6, Zenon DEF QueueInv
<1>5. CASE Drops
  <2>1. /\ UNCHANGED <<pending, current>>
        /\ \A b \in 1 .. Len(pktOut') : /\ b + 1 \in 1 .. Len(pktOut) /\ b \in Nat
                                       /\ pktOut'[b] = pktOut[b + 1]
    BY <1>5, DropsFacts, Types
  <2>2. /\ Holding => \A j \in 1 .. Len(current) : pending.id < current[j].id
        /\ Holding => \A b \in 1 .. Len(pktOut') : \A j \in 1 .. Len(pktOut'[b]) :
                        pending.id < pktOut'[b][j].id
    BY <2>1, Zenon DEF QueueInv
  <2>3. /\ \A i, j \in 1 .. Len(current) : i < j => current[i].id < current[j].id
        /\ \A i \in 1 .. Len(current) : \A b \in 1 .. Len(pktOut') : \A j \in 1 .. Len(pktOut'[b]) :
             current[i].id < pktOut'[b][j].id
    BY <2>1, Zenon DEF QueueInv
  <2>5. \A b \in 1 .. Len(pktOut') : \A i, j \in 1 .. Len(pktOut'[b]) :
          i < j => pktOut'[b][i].id < pktOut'[b][j].id
    BY <1>b, <2>1, Zenon
  <2>6. \A b, c \in 1 .. Len(pktOut') : \A i \in 1 .. Len(pktOut'[b]), j \in 1 .. Len(pktOut'[c]) :
          b < c => pktOut'[b][i].id < pktOut'[c][j].id
    <3> SUFFICES ASSUME NEW b \in 1 .. Len(pktOut'), NEW c \in 1 .. Len(pktOut'), b < c,
                        NEW i \in 1 .. Len(pktOut'[b]), NEW j \in 1 .. Len(pktOut'[c])
                 PROVE  pktOut'[b][i].id < pktOut'[c][j].id
      BY Zenon
    <3>1. b + 1 \in 1 .. Len(pktOut) /\ c + 1 \in 1 .. Len(pktOut) /\ b + 1 < c + 1
      BY <2>1
    <3> QED
      BY <1>c, <2>1, <3>1, Zenon
  <2> QED
    BY <2>1, <2>2, <2>3, <2>5, <2>6 DEF QueueInv, Holding
<1>6. CASE UNCHANGED byteVars
  BY <1>6, QueueFrame, Zenon
<1> QED
  BY <1>1, <1>2, <1>3, <1>4, <1>5, <1>6, ByteChanges, Zenon

\* No step loses a byte.
LEMMA CoverStep ==
  ASSUME TypeOK, HeldInv, WaitInv, CoverInv, Next
  PROVE  CoverInv'
<1> DEFINE Got(id, k) == \E i \in 1 .. Len(got) : Has(got[i], id, k)
           InCurrent(id, k) == \E i \in 1 .. Len(current) : Has(current[i], id, k)
           Queued(id, k) == \E b \in 1 .. Len(pktOut) : \E i \in 1 .. Len(pktOut[b]) :
                              Has(pktOut[b][i], id, k)
           Covered(id, k) == Got(id, k) \/ Has(pending, id, k) \/ InCurrent(id, k) \/ Queued(id, k)
                             \/ id \in drained
<1>a. CoverInv <=> \A id \in 1 .. Len(produced) : \A k \in 1 .. produced[id] : Covered(id, k)
  BY Zenon DEF CoverInv, Waiting
<1>b. CoverInv' <=> \A id \in 1 .. Len(produced') : \A k \in 1 .. produced'[id] : Covered(id, k)'
  BY Zenon DEF CoverInv, Waiting
<1>1. CASE Decrypted
  <2>1. PICK shape \in Seq(Nat) :
          /\ Len(shape) \in Nat /\ Len(produced') = Len(produced) + Len(shape)
          /\ \A id \in 1 .. Len(produced) : produced'[id] = produced[id]
          /\ \A i \in 1 .. Len(shape) : produced'[Len(produced) + i] = shape[i]
          /\ Len(pktOut') = Len(pktOut) + 1
          /\ \A b \in 1 .. Len(pktOut) : pktOut'[b] = pktOut[b]
          /\ Len(pktOut'[Len(pktOut) + 1]) = Len(shape)
          /\ \A i \in 1 .. Len(shape) :
               /\ pktOut'[Len(pktOut) + 1][i].id = Len(produced) + i
               /\ pktOut'[Len(pktOut) + 1][i].from = 0
               /\ pktOut'[Len(pktOut) + 1][i].to = shape[i]
          /\ UNCHANGED <<pending, current, got, drained>>
    BY <1>1, DecryptedFacts, Zenon
  <2>2. Len(produced) \in Nat /\ Len(pktOut) \in Nat
    BY Types, Zenon
  <2>3. ASSUME NEW id \in 1 .. Len(produced'), NEW k \in 1 .. produced'[id]
        PROVE  Covered(id, k)'
    <3>1. CASE id \in 1 .. Len(produced)
      <4>1. Covered(id, k)
        BY <1>a, <2>1, <3>1, Zenon
      <4>2. Queued(id, k) => Queued(id, k)'
        <5> SUFFICES ASSUME NEW b \in 1 .. Len(pktOut), NEW i \in 1 .. Len(pktOut[b]),
                            Has(pktOut[b][i], id, k)
                     PROVE  Queued(id, k)'
          BY Zenon
        <5>1. b \in 1 .. Len(pktOut') /\ pktOut'[b] = pktOut[b]
          BY <2>1, <2>2
        <5> QED
          BY <5>1, Zenon DEF Has
      <4> QED
        BY <2>1, <4>1, <4>2, Zenon DEF Has
    <3>2. CASE id \notin 1 .. Len(produced)
      <4>1. PICK i \in 1 .. Len(shape) : id = Len(produced) + i
        <5>1. id - Len(produced) \in 1 .. Len(shape) /\ id = Len(produced) + (id - Len(produced))
          BY <2>1, <2>2, <3>2
        <5> QED
          BY <5>1, Zenon
      <4>2. Has(pktOut'[Len(pktOut) + 1][i], id, k)
        BY <2>1, <4>1 DEF Has
      <4>3. Len(pktOut) + 1 \in 1 .. Len(pktOut') /\ i \in 1 .. Len(pktOut'[Len(pktOut) + 1])
        BY <2>1, <2>2
      <4>4. Queued(id, k)'
        BY <4>2, <4>3, Zenon
      <4> QED
        BY <4>4, Zenon
    <3> QED
      BY <3>1, <3>2, Zenon
  <2> QED
    BY <1>b, <2>3, Zenon
<1>2. CASE ReadPending
  <2>1. UNCHANGED <<pktOut, current, produced, drained>>
    BY <1>2, ReadPendingFacts, Zenon
  <2>2. PICK n \in Nat : CopyOf(pending, n)
    BY <1>2, ReadPendingFacts, Zenon
  <2>3. ASSUME NEW id \in 1 .. Len(produced), NEW k \in 1 .. produced[id]
        PROVE  Covered(id, k)'
    <3>1. Covered(id, k)
      BY <1>a, Zenon
    <3>2. Got(id, k) => Got(id, k)'
      BY <2>2, Types, SMTT(30) DEF CopyOf, Has
    <3>3. Has(pending, id, k) => Got(id, k)' \/ Has(pending, id, k)'
      <4> SUFFICES ASSUME Has(pending, id, k), ~Has(pending, id, k)'
                   PROVE  Got(id, k)'
        BY Zenon
      <4>1. Has(got'[Len(got) + 1], id, k)
        <5>1. /\ got'[Len(got) + 1].id = pending.id /\ got'[Len(got) + 1].from = pending.from
              /\ got'[Len(got) + 1].to = pending.from + n
              /\ pending'.id = pending.id /\ pending'.from = pending.from + n /\ pending'.to = pending.to
          BY <2>2, Zenon DEF CopyOf
        <5>2. pending.from \in Nat /\ pending.to \in Nat /\ pending.from + n \in Nat
          <6>1. n \in Nat
            BY <2>2, Zenon
          <6>2. pending.from \in Nat /\ pending.to \in Nat
            BY Types, Zenon
          <6> QED
            BY <6>1, <6>2
        <5>3. k \in Nat
          <6>1. produced[id] \in Nat
            BY <2>3, Types, SMTT(30)
          <6> QED
            BY <2>3, <6>1
        <5> QED
          BY <5>1, <5>2, <5>3 DEF Has
      <4>2. Len(got) + 1 \in 1 .. Len(got')
        BY <2>2, Types DEF CopyOf
      <4> QED
        BY <4>1, <4>2, Zenon
    <3> QED
      BY <2>1, <3>1, <3>2, <3>3, Zenon DEF Has
  <2> QED
    BY <1>b, <2>1, <2>3, Zenon
<1>3. CASE ReadPacket
  <2>1. /\ UNCHANGED <<pktOut, produced, drained>> /\ ~Holding
        /\ current[1] \in Slice /\ 1 \in 1 .. Len(current)
        /\ Len(current') = Len(current) - 1
        /\ \A i \in 1 .. Len(current') : current'[i] = current[i + 1]
        /\ \/ current[1].from = current[1].to /\ UNCHANGED <<pending, got>>
           \/ \E n \in Nat : CopyOf(current[1], n)
    BY <1>3, ReadPacketFacts, Zenon
  <2>2. ASSUME NEW id \in 1 .. Len(produced), NEW k \in 1 .. produced[id]
        PROVE  Covered(id, k)'
    <3>1. Covered(id, k)
      BY <1>a, Zenon
    <3>2. ~Has(pending, id, k)
      BY <2>1, Types DEF Holding, Has
    <3>3. Got(id, k) => Got(id, k)'
      <4>1. CASE UNCHANGED got
        BY <4>1, Zenon
      <4>2. CASE \E n \in Nat : CopyOf(current[1], n)
        BY <4>2, Types DEF CopyOf
      <4> QED
        BY <2>1, <4>1, <4>2, Zenon
    <3>4. Has(current[1], id, k) => Got(id, k)' \/ Has(pending, id, k)'
      <4> SUFFICES ASSUME Has(current[1], id, k), ~Has(pending, id, k)'
                   PROVE  Got(id, k)'
        BY Zenon
      <4>1. current[1].from \in Nat /\ current[1].to \in Nat
        BY <2>1, Zenon DEF Slice
      <4>2. PICK n \in Nat : CopyOf(current[1], n)
        BY <2>1, <4>1 DEF Has
      <4>3. Has(got'[Len(got) + 1], id, k)
        BY <4>1, <4>2, SMTT(30) DEF CopyOf, Has
      <4>4. Len(got) + 1 \in 1 .. Len(got')
        BY <4>2, Types, SMTT(30) DEF CopyOf
      <4> QED
        BY <4>3, <4>4, Zenon
    <3>5. ASSUME NEW i \in 1 .. Len(current), Has(current[i], id, k), i # 1
          PROVE  InCurrent(id, k)'
      <4>1. i - 1 \in 1 .. Len(current') /\ (i - 1) + 1 = i
        BY <2>1, <3>5, Types
      <4>2. Has(current'[i - 1], id, k)
        BY <2>1, <3>5, <4>1, Zenon
      <4> QED
        BY <4>1, <4>2, Zenon
    <3>6. InCurrent(id, k) => Covered(id, k)'
      BY <3>4, <3>5, Zenon
    <3> QED
      BY <2>1, <3>1, <3>2, <3>3, <3>6, Zenon DEF Has
  <2> QED
    BY <1>b, <2>1, <2>2, Zenon
<1>4. CASE ~Holding /\ current = <<>> /\ TakeBatch
  <2>1. /\ UNCHANGED <<pending, got, produced, drained>> /\ current' = pktOut[1]
        /\ Len(pktOut') = Len(pktOut) - 1
        /\ \A b \in 1 .. Len(pktOut') : pktOut'[b] = pktOut[b + 1]
    BY <1>4, TakeBatchFacts, Zenon
  <2>2. ASSUME NEW id \in 1 .. Len(produced), NEW k \in 1 .. produced[id]
        PROVE  Covered(id, k)'
    <3>1. Covered(id, k)
      BY <1>a, Zenon
    <3>2. ~InCurrent(id, k)
      BY <1>4
    <3>3. ASSUME NEW b \in 1 .. Len(pktOut), NEW i \in 1 .. Len(pktOut[b]), Has(pktOut[b][i], id, k)
          PROVE  InCurrent(id, k)' \/ Queued(id, k)'
      <4>1. CASE b = 1
        BY <2>1, <3>3, <4>1, Zenon
      <4>2. CASE b # 1
        <5>1. b - 1 \in 1 .. Len(pktOut') /\ (b - 1) + 1 = b
          BY <2>1, <3>3, <4>2, Types
        <5>2. pktOut'[b - 1] = pktOut[b]
          BY <2>1, <5>1, Zenon
        <5> QED
          BY <3>3, <5>1, <5>2, Zenon
      <4> QED
        BY <4>1, <4>2, Zenon
    <3> QED
      BY <2>1, <3>1, <3>2, <3>3, Zenon DEF Has
  <2> QED
    BY <1>b, <2>1, <2>2, Zenon
<1>5. CASE Drops
  <2>1. /\ UNCHANGED <<pending, current, got, produced>> /\ Len(pktOut') = Len(pktOut) - 1
        /\ \A b \in 1 .. Len(pktOut') : pktOut'[b] = pktOut[b + 1]
        /\ drained \subseteq drained'
        /\ \A i \in 1 .. Len(pktOut[1]) : pktOut[1][i].id \in drained'
    BY <1>5, DropsFacts, Zenon
  <2>2. ASSUME NEW id \in 1 .. Len(produced), NEW k \in 1 .. produced[id]
        PROVE  Covered(id, k)'
    <3>1. Covered(id, k)
      BY <1>a, Zenon
    <3>2. ASSUME NEW b \in 1 .. Len(pktOut), NEW i \in 1 .. Len(pktOut[b]), Has(pktOut[b][i], id, k)
          PROVE  id \in drained' \/ Queued(id, k)'
      <4>1. CASE b = 1
        BY <2>1, <3>2, <4>1, Zenon DEF Has
      <4>2. CASE b # 1
        <5>1. b - 1 \in 1 .. Len(pktOut') /\ (b - 1) + 1 = b
          BY <2>1, <3>2, <4>2, Types
        <5>2. pktOut'[b - 1] = pktOut[b]
          BY <2>1, <5>1, Zenon
        <5> QED
          BY <3>2, <5>1, <5>2, Zenon
      <4> QED
        BY <4>1, <4>2, Zenon
    <3> QED
      BY <2>1, <3>1, <3>2, Zenon DEF Has
  <2> QED
    BY <1>b, <2>1, <2>2, Zenon
<1>6. CASE UNCHANGED byteVars
  <2>1. \A id \in 1 .. Len(produced') : \A k \in 1 .. produced'[id] : Covered(id, k) <=> Covered(id, k)'
    BY <1>6, ZenonT(40) DEF byteVars
  <2> QED
    BY <1>a, <1>b, <1>6, <2>1, Zenon DEF byteVars
<1> QED
  BY <1>1, <1>2, <1>3, <1>4, <1>5, <1>6, ByteChanges, Zenon

\* closedFlag is never reset.
LEMMA WriteStepInv ==
  ASSUME TypeOK, WriteInv, Next
  PROVE  WriteInv'
<1> USE DEF WriteInv, AcceptedBeforeEnd
<1>t. writer \in Writer /\ flag \in BOOLEAN
  BY Zenon DEF TypeOK
<1>1. CASE WriteCall \/ WriteStep
  <2>1. CASE WriteCall
    BY <2>1, Zenon DEF WriteCall
  <2>2. CASE WriteLoop
    BY <1>t, <2>2, Zenon DEF WriteLoop, WriteReturns, Writer
  <2>3. CASE WriteSelect
    <3>1. UNCHANGED flag /\ writer.result = "none"
      BY <2>3, Zenon DEF WriteSelect, WriteFrame, markVars
    <3>2. CASE WriteReturns("closed")
      BY <1>t, <3>2, Zenon DEF WriteReturns, Writer
    <3>3. CASE writer' = [writer EXCEPT !.pc = "recheck", !.early = ~flag]
      <4>1. writer'.pc = "recheck" /\ writer'.early = ~flag /\ writer'.result = writer.result
        BY <1>t, <3>3, Zenon DEF Writer
      <4> QED
        BY <3>1, <4>1, Zenon
    <3> QED
      BY <2>3, <3>2, <3>3, Zenon DEF WriteSelect
  <2>4. CASE WriteRecheck
    BY <1>t, <2>4, Zenon DEF WriteRecheck, WriteReturns, Writer
  <2> QED
    BY <1>1, <2>1, <2>2, <2>3, <2>4, Zenon DEF WriteStep
<1>2. CASE MarkStep
  BY <1>2, Zenon DEF MarkStep, ioVars, WriteInv, AcceptedBeforeEnd
<1>3. CASE UNCHANGED <<flag, writer>>
  BY <1>3, Zenon DEF WriteInv, AcceptedBeforeEnd
<1>4. CASE ReadCall \/ ReadStep
  BY <1>3, <1>4, Zenon DEF ReadCall, ReadStep, ReadPending, ReadPacket, ReadPoll, ReadSelect, ReadFinal,
                    TakeBatch, ChannelEOF, ReadFrame, markVars
<1>5. CASE Decrypted \/ Encrypted \/ ChildDeleted \/ StopBegins \/ StopCancels \/ StopDrains
  BY <1>3, <1>5, Zenon DEF Decrypted, Encrypted, ChildDeleted, StopBegins, StopCancels, StopDrains, markVars,
                    ioVars
<1> QED
  BY <1>1, <1>2, <1>4, <1>5, Zenon DEF Next

-----------------------------------------------------------------------------
(* Types. *)

LEMMA TypeStep ==
  ASSUME IInv, Next
  PROVE  TypeOK'
<1> USE DEF markVars, ioVars
<1>t. TypeOK /\ HeldInv
  BY Zenon DEF IInv
<1>1. CASE ReadCall
  <2>1. reader' \in Reader /\ reads' \in Nat
    BY <1>t, <1>1, TunnelAssumption DEF TypeOK, ReadCall, Reader
  <2> QED
    BY <1>t, <1>1, <2>1, Zenon DEF TypeOK, ReadCall
<1>2. CASE ReadPending
  <2>1. pending' \in Slice /\ got' \in Seq(Slice)
    <3>1. pending \in Slice /\ pending.from <= pending.to
      BY <1>t, Zenon DEF TypeOK, HeldInv
    <3> QED
      BY <1>t, <1>2, <3>1, CopyFacts, Zenon DEF ReadPending
  <2>2. reader' \in Reader
    BY <1>t, <1>2, CopiedFacts, Zenon DEF ReadPending
  <2> QED
    BY <1>t, <1>2, <2>1, <2>2, Zenon DEF TypeOK, ReadPending, ReadFrame
<1>3. CASE ReadPacket
  <2>1. /\ Head(current) \in Slice /\ Head(current) = current[1] /\ Tail(current) \in Seq(Slice)
        /\ Len(current) \in Nat /\ Len(current) >= 1
    BY <1>t, <1>3, Types, TailFacts, Zenon DEF ReadPacket
  <2>2. Head(current).from <= Head(current).to
    <3>1. Whole(current[1])
      BY <1>t, <2>1 DEF HeldInv
    <3> QED
      BY <2>1, <3>1 DEF Whole, Slice
  <2>3. pending' \in Slice /\ got' \in Seq(Slice)
    BY <1>t, <1>3, <2>1, <2>2, CopyFacts, Zenon DEF ReadPacket, TypeOK
  <2>4. reader' \in Reader
    BY <1>t, <1>3, CopiedFacts, Zenon DEF ReadPacket, TypeOK
  <2>5. current' \in Seq(Slice)
    BY <1>3, <2>1, Zenon DEF ReadPacket
  <2> QED
    BY <1>t, <1>3, <2>3, <2>4, <2>5, Zenon DEF TypeOK, ReadPacket, ReadFrame
<1>4. CASE TakeBatch
  <2>1. current' \in Seq(Slice) /\ pktOut' \in Seq(Seq(Slice)) /\ Len(pktOut') <= PktOutCap
    <3>1. pktOut # <<>> /\ current' = Head(pktOut) /\ pktOut' = Tail(pktOut)
      BY <1>4, Zenon DEF TakeBatch
    <3>2. /\ Head(pktOut) \in Seq(Slice) /\ Tail(pktOut) \in Seq(Seq(Slice))
          /\ Len(Tail(pktOut)) = Len(pktOut) - 1 /\ Len(pktOut) \in Nat
      BY <1>t, <3>1, Types, TailFacts, Zenon
    <3> QED
      BY <1>t, <3>1, <3>2, TunnelAssumption DEF TypeOK
  <2>2. reader' \in Reader
    BY <1>t, <1>4, Zenon DEF TypeOK, TakeBatch, Reader
  <2> QED
    BY <1>t, <1>4, <2>1, <2>2, Zenon DEF TypeOK, TakeBatch, ReadFrame
<1>5. CASE ReadPoll \/ ReadSelect \/ ReadFinal
  <2>1. TakeBatch \/ (reader' \in Reader /\ ReadFrame /\ UNCHANGED <<pktOut, current, pending, got>>)
    BY <1>t, <1>5, ZenonT(60) DEF ReadPoll, ReadSelect, ReadFinal, ChannelEOF, Return, TypeOK, Reader
  <2> QED
    BY <1>t, <1>4, <2>1, ZenonT(60) DEF TypeOK, ReadFrame
<1>6. CASE WriteCall \/ WriteStep
  <2>1. writer' \in Writer /\ pktIn' \in 0 .. PktInCap /\ writes' \in Nat
    <3>1. CASE WriteCall
      BY <1>t, <3>1 DEF TypeOK, WriteCall, Writer
    <3>2. CASE WriteLoop
      BY <1>t, <3>2, ZenonT(60) DEF TypeOK, WriteLoop, WriteReturns, Writer
    <3>3. CASE WriteSelect
      <4>1. pktIn' \in 0 .. PktInCap /\ writes' \in Nat
        BY <1>t, <3>3, TunnelAssumption, SMTT(30) DEF TypeOK, WriteSelect
      <4>2. writer \in Writer /\ flag \in BOOLEAN
        BY <1>t, Zenon DEF TypeOK
      <4>3. \/ writer' = [writer EXCEPT !.pc = "idle", !.result = "closed"]
            \/ writer' = [writer EXCEPT !.pc = "recheck", !.early = ~flag]
        BY <3>3, Zenon DEF WriteSelect, WriteReturns
      <4>4. writer' \in Writer
        BY <4>2, <4>3, ZenonT(60) DEF Writer
      <4> QED
        BY <4>1, <4>4, Zenon
    <3>4. CASE WriteRecheck
      BY <1>t, <3>4, Zenon DEF TypeOK, WriteRecheck, WriteReturns, Writer
    <3> QED
      BY <1>6, <3>1, <3>2, <3>3, <3>4, Zenon DEF WriteStep
  <2>2. WriteFrame
    BY <1>6, Zenon DEF WriteStep, WriteCall, WriteLoop, WriteSelect, WriteRecheck
  <2> QED
    BY <1>t, <2>1, <2>2, Zenon DEF TypeOK, WriteFrame
<1>7. CASE Decrypted
  <2>1. produced' \in Seq(Nat) /\ pktOut' \in Seq(Seq(Slice)) /\ Len(pktOut') = Len(pktOut) + 1
    BY <1>t, <1>7, DecryptedFacts, Zenon
  <2>2. Len(pktOut') <= PktOutCap
    <3>1. Len(pktOut) < PktOutCap /\ Len(pktOut) \in Nat
      BY <1>t, <1>7, Types, Zenon DEF Decrypted
    <3> QED
      BY <2>1, <3>1, TunnelAssumption
  <2>3. batches' \in Nat
    BY <1>t, <1>7 DEF Decrypted, TypeOK
  <2> QED
    BY <1>t, <1>7, <2>1, <2>2, <2>3 DEF TypeOK, Decrypted
<1>8. CASE Encrypted
  <2>1. pktIn' \in 0 .. PktInCap
    BY <1>t, <1>8, TunnelAssumption DEF TypeOK, Encrypted
  <2> QED
    BY <1>t, <1>8, <2>1 DEF TypeOK, Encrypted
<1>9. CASE MarkStep
  BY <1>t, <1>9, Zenon DEF TypeOK, MarkStep
<1>10. CASE ChildDeleted \/ StopBegins \/ StopCancels
  BY <1>t, <1>10, ZenonT(60) DEF TypeOK, ChildDeleted, StopBegins, StopCancels
<1>11. CASE StopDrains
  <2>1. CASE pktOut # <<>>
    <3>1. /\ Head(pktOut) \in Seq(Slice) /\ Tail(pktOut) \in Seq(Seq(Slice))
          /\ Len(Tail(pktOut)) = Len(pktOut) - 1 /\ Len(pktOut) \in Nat
      BY <1>t, <2>1, Types, TailFacts, Zenon
    <3>2. \A i \in 1 .. Len(Head(pktOut)) : Head(pktOut)[i].id \in Nat
      <4>1. \A i \in 1 .. Len(Head(pktOut)) : Head(pktOut)[i] \in Slice
        BY <3>1
      <4> QED
        BY <4>1, Zenon DEF Slice
    <3>3. pktOut' \in Seq(Seq(Slice)) /\ Len(pktOut') <= PktOutCap /\ drained' \subseteq Nat
      <4>1. /\ pktOut' = Tail(pktOut)
            /\ drained' = drained \cup {Head(pktOut)[i].id : i \in 1 .. Len(Head(pktOut))}
        BY <1>11, <2>1, Zenon DEF StopDrains
      <4>2. drained \subseteq Nat /\ Len(pktOut) <= PktOutCap /\ PktOutCap \in Nat
        BY <1>t, TunnelAssumption, Zenon DEF TypeOK
      <4>3. drained' \subseteq Nat
        BY <3>2, <4>1, <4>2, Zenon
      <4> QED
        BY <3>1, <4>1, <4>2, <4>3
    <3> QED
      BY <1>t, <1>11, <2>1, <3>3, Zenon DEF TypeOK, StopDrains
  <2>2. CASE pktOut = <<>>
    BY <1>t, <1>11, <2>2, Zenon DEF TypeOK, StopDrains
  <2> QED
    BY <2>1, <2>2, Zenon
<1> QED
  BY <1>1, <1>2, <1>3, <1>5, <1>6, <1>7, <1>8, <1>9, <1>10, <1>11, Zenon DEF Next, ReadStep

-----------------------------------------------------------------------------
(* The theorems. *)

LEMMA InitIInv == Init => IInv
<1> SUFFICES ASSUME Init
             PROVE  IInv
  BY Zenon
<1>1. TypeOK
  <2>1. reader \in Reader /\ writer \in Writer /\ pending \in Slice
    BY Zenon DEF Init, Reader, Writer, Slice, Nothing
  <2>2. pktOut \in Seq(Seq(Slice)) /\ Len(pktOut) = 0 /\ current \in Seq(Slice) /\ got \in Seq(Slice)
    BY DEF Init
  <2>3. produced \in Seq(Nat) /\ pktIn \in 0 .. PktInCap /\ Len(pktOut) <= PktOutCap
    BY <2>2, TunnelAssumption, SMTT(30) DEF Init
  <2> QED
    BY <2>1, <2>2, <2>3, Zenon DEF Init, TypeOK
<1>2. HeldInv /\ WaitInv
  BY SMTT(30) DEF Init, HeldInv, WaitInv, Holding, Nothing
<1>3. GotInv /\ QueueInv
  <2>1. Len(got) = 0 /\ Len(current) = 0 /\ Len(pktOut) = 0 /\ ~Holding
    BY SMTT(30) DEF Init, Holding, Nothing
  <2> QED
    BY <2>1, SMTT(30) DEF GotInv, QueueInv
<1>4. CoverInv /\ WriteInv
  BY SMTT(30) DEF Init, CoverInv, WriteInv, AcceptedBeforeEnd
<1> QED
  BY <1>1, <1>2, <1>3, <1>4, Zenon DEF IInv

LEMMA IInvStep == IInv /\ [Next]_vars => IInv'
<1>1. IInv /\ Next => IInv'
  BY TypeStep, HeldStep, WaitStep, GotStep, QueueStep, CoverStep, WriteStepInv, Zenon DEF IInv
<1>2. IInv /\ UNCHANGED vars => IInv'
  <2> SUFFICES ASSUME IInv, UNCHANGED vars
               PROVE  IInv'
    BY Zenon
  <2> USE DEF vars, markVars, ioVars
  <2>1. TypeOK'
    BY DEF IInv, TypeOK
  <2>2. HeldInv' /\ WaitInv'
    BY Zenon DEF IInv, HeldInv, WaitInv, Holding, Whole
  <2>3. GotInv'
    BY GotFrame, Zenon DEF IInv, byteVars
  <2>4. QueueInv'
    BY QueueFrame, Zenon DEF IInv, byteVars
  <2>5. CoverInv' /\ WriteInv'
    BY ZenonT(40) DEF IInv, CoverInv, Waiting, Has, WriteInv, AcceptedBeforeEnd
  <2> QED
    BY <2>1, <2>2, <2>3, <2>4, <2>5, Zenon DEF IInv
<1> QED
  BY <1>1, <1>2, Zenon

LEMMA Invariance == Spec => []IInv
BY InitIInv, IInvStep, PTL DEF Spec

\* For every size of batches, buffers and channels: the application gets the
\* decrypted bytes in order and once, and what it has not got is held by read,
\* queued, or was released by the drain of Session.stop.
THEOREM ExactReads == Spec => []ReadsAreExact
<1>1. IInv => ReadsAreExact
  BY Zenon DEF IInv, GotInv, Before, CoverInv, ReadsAreExact
<1> QED
  BY <1>1, Invariance, PTL

\* A Write that overlaps markEnded returns success only if its packet was queued
\* before closedFlag was set, wherever markEnded falls between its steps.
THEOREM AcceptedInTime == Spec => []AcceptedBeforeEnd
<1>1. IInv => AcceptedBeforeEnd
  BY Zenon DEF IInv, WriteInv
<1> QED
  BY <1>1, Invariance, PTL
=============================================================================
