------------------------------- MODULE Tunnel -------------------------------
(***************************************************************************)
(* The packet interface that Start hands out (tunnel.go): Read, ReadBatch  *)
(* and Write of the application against markEnded, and the two channels it *)
(* shares with the ESP workers, pktOut (decrypted batches) and pktIn.      *)
(*                                                                         *)
(* A slice [id, from, to] is the bytes from+1 .. to of packet id, numbered *)
(* in the order of decryption: what is left of a packet, or what one copy  *)
(* has taken of it.  An IP packet may be empty; a buffer of the caller may *)
(* be smaller than the packet, or of length zero.                          *)
(***************************************************************************)
EXTENDS Naturals, Sequences

CONSTANTS Batches,     \* shapes of a decrypted batch: sequences of packet sizes
          Buffers,     \* lengths of the caller's buffers
          ReadBatchN,  \* buffers of one ReadBatch
          PktOutCap,   \* capacity of pktOut
          PktInCap,    \* capacity of pktIn
          MaxBatch,    \* bound of the model: batches decrypted
          MaxReads,    \* bound of the model: calls of Read and ReadBatch
          MaxWrites    \* bound of the model: calls of Write

ASSUME TunnelAssumption ==
  /\ Batches \subseteq Seq(Nat) /\ Buffers \subseteq Nat
  /\ ReadBatchN \in Nat /\ PktOutCap \in Nat /\ PktInCap \in Nat
  /\ MaxBatch \in Nat /\ MaxReads \in Nat /\ MaxWrites \in Nat

VARIABLES stage,     \* how far Session.stop has come
          marking,   \* somebody has called markEnded
          flag,      \* Tunnel.closedFlag
          closed,    \* the channel Tunnel.closed
          ended,     \* the channel Tunnel.done
          pktOut,    \* decrypted batches, oldest first
          outClosed, \* close(pktOut) has run
          pktIn,     \* number of packets written and not yet encrypted
          reader,    \* the Read or ReadBatch in progress
          pending,   \* Tunnel.pending: the rest of a packet, no bytes for none
          current,   \* Tunnel.pendingBatch
          writer,    \* the Write in progress
          produced,  \* size of every packet put into pktOut, by its number
          got,       \* the slices copied to the application, in order
          drained,   \* packets released by Session.stop
          batches, reads, writes  \* how many so far

ioVars == <<pktOut, outClosed, pktIn, reader, pending, current, writer, produced, got,
            drained, batches, reads, writes>>
markVars == <<marking, flag, closed, ended>>
vars == <<stage, markVars, ioVars>>

Slice == [id : Nat, from : Nat, to : Nat]
Nothing == [id |-> 0, from |-> 0, to |-> 0]

Left(s)     == s.to - s.from
Taken(s, n) == [s EXCEPT !.to = s.from + n]
Rest(s, n)  == [s EXCEPT !.from = s.from + n]

Reader == [pc : {"idle", "poll", "select", "final"}, n : Nat, size : Nat, bufs : Nat]
Writer == [pc : {"idle", "loop", "flag", "select", "recheck"},
           early : BOOLEAN, result : {"none", "ok", "closed"}]

TypeOK ==
  /\ stage \in {"live", "marking", "over", "drain", "closed"}
  /\ marking \in BOOLEAN /\ flag \in BOOLEAN /\ closed \in BOOLEAN /\ ended \in BOOLEAN
  /\ outClosed \in BOOLEAN
  /\ pktOut \in Seq(Seq(Slice)) /\ Len(pktOut) <= PktOutCap
  /\ pktIn \in 0 .. PktInCap
  /\ reader \in Reader /\ writer \in Writer
  /\ pending \in Slice /\ current \in Seq(Slice)
  /\ produced \in Seq(Nat) /\ got \in Seq(Slice)
  /\ drained \subseteq Nat
  /\ batches \in Nat /\ reads \in Nat /\ writes \in Nat

Init ==
  /\ stage = "live" /\ marking = FALSE
  /\ flag = FALSE /\ closed = FALSE /\ ended = FALSE
  /\ pktOut = <<>> /\ outClosed = FALSE /\ pktIn = 0
  /\ reader = [pc |-> "idle", n |-> 0, size |-> 0, bufs |-> 0]
  /\ writer = [pc |-> "idle", early |-> FALSE, result |-> "none"]
  /\ pending = Nothing /\ current = <<>>
  /\ produced = <<>> /\ got = <<>> /\ drained = {}
  /\ batches = 0 /\ reads = 0 /\ writes = 0

-----------------------------------------------------------------------------
(* markEnded: endOnce lets one caller through; the others wait for it. *)

\* A mutant: the marker of the readers and writers is left open.
MarkStep_NotClosed ==
  /\ marking /\ ~ended
  /\ flag' = TRUE /\ ended' = flag
  /\ UNCHANGED <<stage, marking, closed, ioVars>>

\* The flag is set before the channels are closed.
MarkStep ==
  /\ marking /\ ~ended
  /\ flag' = TRUE /\ closed' = flag /\ ended' = closed
  /\ UNCHANGED <<stage, marking, ioVars>>

-----------------------------------------------------------------------------
(* The ESP workers' ends of the two channels. *)

EspRuns == stage \in {"live", "marking", "over"}

\* runInbound sends a batch it has decrypted.
Decrypted ==
  /\ EspRuns
  /\ batches < MaxBatch
  /\ Len(pktOut) < PktOutCap
  /\ \E shape \in Batches :
       /\ pktOut' = Append(pktOut, [i \in 1 .. Len(shape) |->
                                      [id |-> Len(produced) + i, from |-> 0, to |-> shape[i]]])
       /\ produced' = produced \o shape
  /\ batches' = batches + 1
  /\ UNCHANGED <<stage, markVars, outClosed, pktIn, reader, pending, current, writer, got, drained,
                 reads, writes>>

\* runOutbound takes a packet.
Encrypted ==
  /\ EspRuns /\ pktIn > 0
  /\ pktIn' = pktIn - 1
  /\ UNCHANGED <<stage, markVars, pktOut, outClosed, reader, pending, current, writer, produced, got,
                 drained, batches, reads, writes>>

-----------------------------------------------------------------------------
(* Read and ReadBatch. *)

\* Read has one buffer; ReadBatch has ReadBatchN of them, and only its first
\* read blocks.
ReadCall ==
  /\ reader.pc = "idle" /\ reads < MaxReads
  /\ \E size \in Buffers, bufs \in {1, ReadBatchN} :
       reader' = [pc |-> "poll", n |-> 0, size |-> size, bufs |-> bufs]
  /\ reads' = reads + 1
  /\ UNCHANGED <<stage, markVars, pktOut, outClosed, pktIn, pending, current, writer, produced, got,
                 drained, batches, writes>>

Return == reader' = [reader EXCEPT !.pc = "idle"]

\* The loop of ReadBatch after read has copied n bytes.
Copied(n) ==
  IF n > 0 /\ reader.n + 1 < reader.bufs
  THEN reader' = [reader EXCEPT !.pc = "poll", !.n = @ + 1]
  ELSE Return

ReadFrame == UNCHANGED <<stage, markVars, outClosed, pktIn, writer, produced, drained, batches, reads, writes>>

Smaller(a, b) == IF a < b THEN a ELSE b

\* The rest of a packet goes first.
ReadPending ==
  /\ reader.pc = "poll" /\ Left(pending) > 0
  /\ LET n == Smaller(reader.size, Left(pending))
     IN  /\ pending' = Rest(pending, n)
         /\ got' = Append(got, Taken(pending, n))
         /\ Copied(n)
  /\ ReadFrame /\ UNCHANGED <<pktOut, current>>

\* A mutant: the rest of a packet is only kept when something was copied.
ReadPacket_DropsRest ==
  /\ reader.pc = "poll" /\ Left(pending) = 0 /\ current # <<>>
  /\ LET pkt == Head(current)
         n   == Smaller(reader.size, Left(pkt))
     IN  IF Left(pkt) = 0
         THEN UNCHANGED <<reader, pending, got>>
         ELSE /\ pending' = IF n = 0 THEN Nothing ELSE Rest(pkt, n)
              /\ got' = Append(got, Taken(pkt, n))
              /\ Copied(n)
  /\ current' = Tail(current)
  /\ ReadFrame /\ UNCHANGED pktOut

\* deliverPacket: the packet is released once its bytes are copied, what does
\* not fit is kept; an empty packet is released and skipped.
ReadPacket ==
  /\ reader.pc = "poll" /\ Left(pending) = 0 /\ current # <<>>
  /\ LET pkt == Head(current)
         n   == Smaller(reader.size, Left(pkt))
     IN  IF Left(pkt) = 0
         THEN UNCHANGED <<reader, pending, got>>
         ELSE /\ pending' = Rest(pkt, n)
              /\ got' = Append(got, Taken(pkt, n))
              /\ Copied(n)
  /\ current' = Tail(current)
  /\ ReadFrame /\ UNCHANGED pktOut

Empty == Left(pending) = 0 /\ current = <<>>

TakeBatch ==
  /\ pktOut # <<>>
  /\ current' = Head(pktOut) /\ pktOut' = Tail(pktOut)
  /\ reader' = [reader EXCEPT !.pc = "poll"]
  /\ ReadFrame /\ UNCHANGED <<pending, got>>

\* A closed channel is still drained before it reports its end.
ChannelEOF ==
  /\ outClosed /\ pktOut = <<>>
  /\ Return
  /\ ReadFrame /\ UNCHANGED <<pktOut, current, pending, got>>

\* Nothing is buffered: the first receive does not block, and only a blocking
\* read goes on to wait.
ReadPoll ==
  /\ reader.pc = "poll" /\ Empty
  /\ \/ TakeBatch
     \/ ChannelEOF
     \/ /\ pktOut = <<>> /\ ~outClosed
        /\ reader' = [reader EXCEPT !.pc = IF reader.n = 0 THEN "select" ELSE "idle"]
        /\ ReadFrame /\ UNCHANGED <<pktOut, current, pending, got>>

\* select of a batch and the end marker: either, when both are ready.
ReadSelect ==
  /\ reader.pc = "select"
  /\ \/ TakeBatch
     \/ ChannelEOF
     \/ /\ closed
        /\ reader' = [reader EXCEPT !.pc = "final"]
        /\ ReadFrame /\ UNCHANGED <<pktOut, current, pending, got>>

\* The last look into the channel before EOF.
ReadFinal ==
  /\ reader.pc = "final"
  /\ \/ TakeBatch
     \/ /\ pktOut = <<>>
        /\ Return
        /\ ReadFrame /\ UNCHANGED <<pktOut, current, pending, got>>

ReadStep == ReadPending \/ ReadPacket \/ ReadPoll \/ ReadSelect \/ ReadFinal

-----------------------------------------------------------------------------
(* Write of a packet that is not empty. *)

WriteFrame == UNCHANGED <<stage, markVars, pktOut, outClosed, reader, pending, current, produced,
                          got, drained, batches, reads>>

WriteReturns(result) == writer' = [writer EXCEPT !.pc = "idle", !.result = result]

WriteCall ==
  /\ writer.pc = "idle" /\ writes < MaxWrites
  /\ writer' = IF flag THEN [pc |-> "idle", early |-> FALSE, result |-> "closed"]
                       ELSE [pc |-> "loop", early |-> FALSE, result |-> "none"]
  /\ writes' = writes + 1
  /\ UNCHANGED pktIn /\ WriteFrame

\* The two checks at the head of the loop.
WriteLoop ==
  /\ writer.pc \in {"loop", "flag"}
  /\ IF (writer.pc = "loop" /\ closed) \/ (writer.pc = "flag" /\ flag)
     THEN WriteReturns("closed")
     ELSE writer' = [writer EXCEPT !.pc = IF @ = "loop" THEN "flag" ELSE "select"]
  /\ UNCHANGED <<pktIn, writes>> /\ WriteFrame

\* A full queue blocks the caller; early records that the packet went in
\* before the flag was set.
WriteSelect ==
  /\ writer.pc = "select"
  /\ \/ closed /\ WriteReturns("closed") /\ UNCHANGED pktIn
     \/ /\ pktIn < PktInCap
        /\ pktIn' = pktIn + 1
        /\ writer' = [writer EXCEPT !.pc = "recheck", !.early = ~flag]
  /\ UNCHANGED writes /\ WriteFrame

\* A mutant: no second look at the flag.
WriteRecheck_Skipped ==
  /\ writer.pc = "recheck"
  /\ WriteReturns("ok")
  /\ UNCHANGED <<pktIn, writes>> /\ WriteFrame

WriteRecheck ==
  /\ writer.pc = "recheck"
  /\ WriteReturns(IF flag THEN "closed" ELSE "ok")
  /\ UNCHANGED <<pktIn, writes>> /\ WriteFrame

WriteStep == WriteLoop \/ WriteSelect \/ WriteRecheck

-----------------------------------------------------------------------------
(* The end of the tunnel: Session.stop, step by step (see Session), and a peer *)
(* that deletes the child while the session and its ESP workers stay.          *)

ChildDeleted ==
  /\ stage = "live" /\ ~marking /\ marking' = TRUE
  /\ UNCHANGED <<stage, flag, closed, ended, ioVars>>

StopBegins ==
  /\ stage = "live" /\ stage' = "marking" /\ marking' = TRUE
  /\ UNCHANGED <<flag, closed, ended, ioVars>>

\* The context is cancelled when markEnded has returned; the ESP workers exit.
StopCancels ==
  /\ \/ stage = "marking" /\ ended /\ stage' = "over"
     \/ stage = "over" /\ stage' = "drain"
  /\ UNCHANGED <<markVars, ioVars>>

\* The batches nobody has read are released, then the channel is closed.
StopDrains ==
  /\ stage = "drain"
  /\ IF pktOut # <<>>
     THEN /\ drained' = drained \cup {Head(pktOut)[i].id : i \in 1 .. Len(Head(pktOut))}
          /\ pktOut' = Tail(pktOut)
          /\ UNCHANGED <<stage, outClosed>>
     ELSE stage' = "closed" /\ outClosed' = TRUE /\ UNCHANGED <<pktOut, drained>>
  /\ UNCHANGED <<markVars, pktIn, reader, pending, current, writer, produced, got, batches, reads,
                 writes>>

Next ==
  \/ ReadCall \/ ReadStep \/ WriteCall \/ WriteStep
  \/ Decrypted \/ Encrypted \/ MarkStep
  \/ ChildDeleted \/ StopBegins \/ StopCancels \/ StopDrains

Spec == Init /\ [][Next]_vars

\* A call goes on by itself, and so does a markEnded that has begun.
FairSpec == Spec /\ WF_vars(ReadStep) /\ WF_vars(WriteStep) /\ WF_vars(MarkStep)

-----------------------------------------------------------------------------
(* Properties of the packet interface. *)

\* Byte k of packet id is in slice s; read holds it, or it is still queued.
Has(s, id, k) == s.id = id /\ s.from < k /\ k <= s.to
Waiting(id, k) ==
  \/ Has(pending, id, k)
  \/ \E i \in 1 .. Len(current) : Has(current[i], id, k)
  \/ \E b \in 1 .. Len(pktOut) : \E i \in 1 .. Len(pktOut[b]) : Has(pktOut[b][i], id, k)

\* Reading loses, repeats and mixes nothing: the application gets the bytes in
\* the order of decryption and only bytes that were decrypted, and a byte that it
\* has not got is still held by read, still queued, or was released by the drain
\* in Session.stop; whatever the sizes of the buffers.  (The variables keep their
\* types, the channels their capacities.)
ReadsAreExact ==
  /\ TypeOK
  /\ \A i, j \in 1 .. Len(got) :
       i < j => got[i].id < got[j].id \/ (got[i].id = got[j].id /\ got[i].to <= got[j].from)
  /\ \A i \in 1 .. Len(got) : got[i].id \in 1 .. Len(produced) /\ got[i].to <= produced[got[i].id]
  /\ \A id \in 1 .. Len(produced) : \A k \in 1 .. produced[id] :
       (\E i \in 1 .. Len(got) : Has(got[i], id, k)) \/ Waiting(id, k) \/ id \in drained

\* Write reports success only for a packet that was queued before markEnded set
\* closedFlag: a Write that overlaps the end of the tunnel never claims that a
\* packet went out when it did not.
AcceptedBeforeEnd == writer.result = "ok" => writer.early

\* A Read or a Write that blocks returns once somebody has called markEnded,
\* whether the session ends or only the child, and whatever the ESP workers do.
BlockedCallsReturn ==
  /\ (marking /\ reader.pc # "idle") ~> reader.pc = "idle"
  /\ (marking /\ writer.pc # "idle") ~> writer.pc = "idle"
=============================================================================
