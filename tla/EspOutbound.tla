----------------------------- MODULE EspOutbound -----------------------------
(***************************************************************************)
(* The outbound half of the data plane: the codec esp.Outbound with its    *)
(* sequence counter and its rekey triggers, the worker Pipeline.runOutbound *)
(* that encrypts packets in batches, and what happens around it meanwhile: *)
(* ReplaceChild installs the codec of another child, the control actor     *)
(* deletes the replaced child, the session is cancelled.                   *)
(*                                                                         *)
(* A packet is what process tells apart about it: "ip" is sent, "foreign"  *)
(* fails before it is given a number (its version, the IV), "jumbo" after  *)
(* (its length, the cipher).  Children are numbered in the order in which  *)
(* they are installed.                                                     *)
(***************************************************************************)
EXTENDS Naturals, Sequences

CONSTANTS SeqMod,      \* size of the sequence counter (2^32)
          Thresholds,  \* values of Rekey.NearWrapThreshold, in thousandths
          FlowLimit,   \* Rekey.Child: [packets, bytes], zero disables
          TxBatch,     \* packets taken after the first one (32)
          QueueCap,    \* capacity of pktIn
          TxCap,       \* capacity of txFrames
          MaxChild     \* bound of the model: children installed

ASSUME OutboundAssumption ==
  /\ SeqMod \in Nat /\ SeqMod > 2
  /\ Thresholds \subseteq Nat
  /\ FlowLimit \in [packets : Nat, bytes : Nat]
  /\ TxBatch \in Nat /\ QueueCap \in Nat /\ TxCap \in Nat /\ MaxChild \in Nat

VARIABLES warnAt,    \* OutboundConfig.WarnAt
          codec,     \* child -> its Outbound
          outbound,  \* Pipeline.outbound: the newest child
          pktIn,     \* the queue Tunnel.Write fills
          worker,    \* where runOutbound is, with its batch, codec and frames
          queued,    \* number of frames in txFrames
          sent,      \* every ESP frame put into txFrames, in order
          nearWrap,  \* a trigger is in the channel FlowWarn
          fatal,     \* the channel fatalOut
          deletes,   \* children whose DELETE the actor has put into txFrames
          cancelled  \* the session context is cancelled

workerVars == <<worker, codec, sent, queued, nearWrap, fatal, pktIn>>
contextVars == <<warnAt, outbound, deletes, cancelled>>
vars == <<contextVars, workerVars>>

Kinds == {"ip", "foreign", "jumbo"}
Size(kind) == IF kind = "jumbo" THEN 2 ELSE 1

Child  == 1 .. MaxChild + 1
Frame  == [child : Child, seq : 0 .. SeqMod - 1]
Codec  == [seq : 0 .. SeqMod - 1, wrapped : BOOLEAN, warned : BOOLEAN,
           packets : Nat, bytes : Nat]
Worker == [pc : {"recv", "drain", "encrypt", "send", "exited"},
           batch : Seq(Kinds), using : Child, frames : Seq(Frame)]

TypeOK ==
  /\ warnAt \in 1 .. SeqMod - 1
  /\ codec \in [Child -> Codec]
  /\ outbound \in Child
  /\ pktIn \in Seq(Kinds)
  /\ worker \in Worker
  /\ queued \in Nat
  /\ sent \in Seq(Frame)
  /\ nearWrap \in BOOLEAN
  /\ fatal \in {"none", "queued", "taken"}
  /\ deletes \subseteq Nat
  /\ cancelled \in BOOLEAN

\* NewOutbound: the sequence number starts at 1.
NewOutbound == [seq |-> 1, wrapped |-> FALSE, warned |-> FALSE, packets |-> 0, bytes |-> 0]

\* uint32(float64(^uint32(0)) * threshold): a product that does not fit gives a
\* value that Go leaves to the implementation.
Converted(threshold) ==
  LET product == ((SeqMod - 1) * threshold) \div 1000
  IN  IF product < SeqMod THEN {product} ELSE 0 .. SeqMod - 1

\* childOutboundConfig: zero means the default, and a zero WarnAt becomes 1.
WarnAts(threshold) ==
  LET t == IF threshold = 0 THEN 900 ELSE threshold
  IN  {IF w = 0 THEN 1 ELSE w : w \in Converted(t)}

Init ==
  /\ \E threshold \in Thresholds : warnAt \in WarnAts(threshold)
  /\ codec = [c \in Child |-> NewOutbound]
  /\ outbound = 1
  /\ pktIn = <<>>
  /\ worker = [pc |-> "recv", batch |-> <<>>, using |-> 1, frames |-> <<>>]
  /\ queued = 0
  /\ sent = <<>>
  /\ nearWrap = FALSE
  /\ fatal = "none"
  /\ deletes = {}
  /\ cancelled = FALSE

-----------------------------------------------------------------------------
(* Outbound.process on the packet at the head of the batch. *)

\* A mutant: the near-wrap test misses its boundary.
LimitHit_After(o) ==
  \/ FlowLimit.bytes > 0 /\ o.bytes >= FlowLimit.bytes
  \/ FlowLimit.packets > 0 /\ o.packets >= FlowLimit.packets
  \/ o.seq > warnAt

\* checkFlowTriggers: a byte or packet limit is reached, or the counter comes
\* close to its end.
LimitHit(o) ==
  \/ FlowLimit.bytes > 0 /\ o.bytes >= FlowLimit.bytes
  \/ FlowLimit.packets > 0 /\ o.packets >= FlowLimit.packets
  \/ o.seq >= warnAt

\* The codec after it has given out a number for a packet.
Numbered(o, kind) ==
  LET n == [o EXCEPT !.seq = (@ + 1) % SeqMod, !.packets = @ + 1, !.bytes = @ + Size(kind)]
  IN  [n EXCEPT !.warned = @ \/ LimitHit(n)]

\* The trigger is raised once per codec and never blocks.
Triggered(o, n) == nearWrap \/ (n.warned /\ ~o.warned)

\* A mutant: the counter is tested only after it was given out.
Wraps_Late(o, kind) == o.wrapped

\* The counter has cycled: no packet may be sent under this codec.
Wraps(o, kind) == o.wrapped \/ (kind # "foreign" /\ o.seq = 0)

Using == codec[worker.using]

\* Where the loop over the batch goes on.
Advanced(w) ==
  [w EXCEPT !.batch = Tail(@), !.pc = IF Len(w.batch) = 1 THEN "send" ELSE "encrypt"]

Processing == worker.pc = "encrypt" /\ worker.batch # <<>>

\* ErrSeqWrapped: the error is reported once and the worker returns; the frames
\* it has built of this batch go nowhere.
EncryptWrapped ==
  /\ Processing
  /\ Wraps(Using, Head(worker.batch))
  /\ codec' = [codec EXCEPT ![worker.using].wrapped = TRUE]
  /\ fatal' = IF fatal = "none" THEN "queued" ELSE fatal
  /\ worker' = [worker EXCEPT !.pc = "exited", !.batch = <<>>]
  /\ UNCHANGED <<sent, queued, nearWrap, pktIn>>

EncryptForeign ==
  /\ Processing
  /\ Head(worker.batch) = "foreign" /\ ~Using.wrapped
  /\ worker' = Advanced(worker)
  /\ UNCHANGED <<codec, sent, queued, nearWrap, fatal, pktIn>>

\* The packet has its number; it becomes a frame unless it is too long.
EncryptNumbered ==
  /\ Processing
  /\ Head(worker.batch) # "foreign" /\ ~Wraps(Using, Head(worker.batch))
  /\ LET kind  == Head(worker.batch)
         next  == Numbered(Using, kind)
         frame == [child |-> worker.using, seq |-> Using.seq]
     IN  /\ codec' = [codec EXCEPT ![worker.using] = next]
         /\ nearWrap' = Triggered(Using, next)
         /\ worker' = [Advanced(worker) EXCEPT
                         !.frames = IF kind = "ip" THEN Append(@, frame) ELSE @]
  /\ UNCHANGED <<sent, queued, fatal, pktIn>>

-----------------------------------------------------------------------------
(* The other steps of runOutbound. *)

ReceiveFirst ==
  /\ worker.pc = "recv" /\ pktIn # <<>>
  /\ worker' = [worker EXCEPT !.pc = "drain", !.batch = <<Head(pktIn)>>]
  /\ pktIn' = Tail(pktIn)
  /\ UNCHANGED <<codec, sent, queued, nearWrap, fatal>>

DrainMore ==
  /\ worker.pc = "drain" /\ pktIn # <<>> /\ Len(worker.batch) <= TxBatch
  /\ worker' = [worker EXCEPT !.batch = Append(@, Head(pktIn))]
  /\ pktIn' = Tail(pktIn)
  /\ UNCHANGED <<codec, sent, queued, nearWrap, fatal>>

\* The codec is loaded once per batch.
LoadCodec ==
  /\ worker.pc = "drain" /\ (pktIn = <<>> \/ Len(worker.batch) > TxBatch)
  /\ worker' = [worker EXCEPT !.pc = "encrypt", !.using = outbound, !.frames = <<>>]
  /\ UNCHANGED <<codec, sent, queued, nearWrap, fatal, pktIn>>

SubmitFrame ==
  /\ worker.pc = "send" /\ worker.frames # <<>> /\ queued < TxCap
  /\ sent' = Append(sent, Head(worker.frames))
  /\ queued' = queued + 1
  /\ worker' = [worker EXCEPT !.frames = Tail(@)]
  /\ UNCHANGED <<codec, nearWrap, fatal, pktIn>>

BatchDone ==
  /\ worker.pc = "send" /\ worker.frames = <<>>
  /\ worker' = [worker EXCEPT !.pc = "recv"]
  /\ UNCHANGED <<codec, sent, queued, nearWrap, fatal, pktIn>>

\* A mutant: the send of a frame does not listen to the context.
WorkerStop_NotSending ==
  /\ cancelled /\ worker.pc = "recv"
  /\ worker' = [worker EXCEPT !.pc = "exited"]
  /\ UNCHANGED <<codec, sent, queued, nearWrap, fatal, pktIn>>

\* ctx.Done is ready in one of the two selects; unsent frames are released.
WorkerStop ==
  /\ cancelled /\ (worker.pc = "recv" \/ (worker.pc = "send" /\ worker.frames # <<>>))
  /\ worker' = [worker EXCEPT !.pc = "exited", !.frames = <<>>]
  /\ UNCHANGED <<codec, sent, queued, nearWrap, fatal, pktIn>>

WorkerStep ==
  \/ ReceiveFirst \/ DrainMore \/ LoadCodec
  \/ EncryptWrapped \/ EncryptForeign \/ EncryptNumbered
  \/ SubmitFrame \/ BatchDone \/ WorkerStop

-----------------------------------------------------------------------------
(* Around the worker. *)

\* Tunnel.Write enqueues a packet.  A writer that passed its checks before the
\* tunnel ended may still do so afterwards.
UserPacket(kind) ==
  /\ Len(pktIn) < QueueCap
  /\ pktIn' = Append(pktIn, kind)
  /\ UNCHANGED contextVars
  /\ UNCHANGED <<worker, codec, sent, queued, nearWrap, fatal>>

\* The transport worker takes a frame.
TxTakes ==
  /\ queued > 0
  /\ queued' = queued - 1
  /\ UNCHANGED contextVars
  /\ UNCHANGED <<worker, codec, sent, nearWrap, fatal, pktIn>>

\* Running takes the trigger from its side of the channel.
TakeNearWrap ==
  /\ nearWrap
  /\ nearWrap' = FALSE
  /\ UNCHANGED contextVars
  /\ UNCHANGED <<worker, codec, sent, queued, fatal, pktIn>>

\* ReplaceChild publishes the codec of the next child.
ReplaceChild ==
  /\ outbound <= MaxChild /\ ~cancelled
  /\ outbound' = outbound + 1
  /\ UNCHANGED <<warnAt, deletes, cancelled, workerVars>>

\* sendDeleteOldChild, after the acknowledgement of ReplaceChild: the DELETE of
\* the replaced child goes into the queue the ESP frames go into.
DeleteReplaced ==
  /\ outbound > 1 /\ outbound - 1 \notin deletes /\ queued < TxCap
  /\ deletes' = deletes \cup {outbound - 1}
  /\ queued' = queued + 1
  /\ UNCHANGED <<warnAt, outbound, cancelled>>
  /\ UNCHANGED <<worker, codec, sent, nearWrap, fatal, pktIn>>

\* watchDataFatal: fail stops the session, which cancels its context.
WatchDataFatal ==
  /\ fatal = "queued"
  /\ fatal' = "taken"
  /\ cancelled' = TRUE
  /\ UNCHANGED <<warnAt, outbound, deletes>>
  /\ UNCHANGED <<worker, codec, sent, queued, nearWrap, pktIn>>

\* Stop or the caller's context.
Cancel ==
  /\ ~cancelled
  /\ cancelled' = TRUE
  /\ UNCHANGED <<warnAt, outbound, deletes, workerVars>>

ContextStep ==
  \/ \E kind \in Kinds : UserPacket(kind)
  \/ TxTakes \/ TakeNearWrap \/ ReplaceChild \/ DeleteReplaced
  \/ WatchDataFatal \/ Cancel

RunOutbound == WorkerStep /\ UNCHANGED contextVars

Next == RunOutbound \/ ContextStep

Spec == Init /\ [][Next]_vars

\* The goroutines are scheduled, and select chooses fairly among ready cases, so
\* a context that is ready again and again is seen.
Fairness ==
  /\ WF_vars(RunOutbound)
  /\ SF_vars(WorkerStop /\ UNCHANGED contextVars)
  /\ WF_vars(WatchDataFatal)

FairSpec == Spec /\ Fairness

-----------------------------------------------------------------------------
(* Properties. *)

\* Frames in the order in which a receiver must see them: the children in the
\* order of their installation, each one's numbers rising from 1.
Precedes(f, g) == f.child < g.child \/ (f.child = g.child /\ f.seq < g.seq)

\* "Sequence numbers are allocated strictly in order by this single worker":
\* whatever is dropped, however the codec is replaced between and during
\* batches, and even when the counter has cycled, no number is used twice
\* under a key, none comes late, and no frame of a replaced child follows one
\* of its successor.
FramesAscend ==
  LET all == sent \o worker.frames
  IN  \A i, j \in 1 .. Len(all) : i < j => Precedes(all[i], all[j])

\* "With the near-wraparound emergency rekey this should be unreachable": a
\* counter never cycles before its codec has asked for a rekey, for every
\* threshold, even one whose conversion overflows.
WarnedBeforeWrap == \A c \in Child : codec[c].seq = 0 => codec[c].warned

\* "instead of a silent data-plane blackhole": when the counter has cycled and a
\* packet met it, the session is torn down (reportFatal, watchDataFatal); and a
\* session that is torn down, for this reason or another, gets rid of the
\* worker, wherever it is in its batch and even if the transport takes nothing.
WorkerEnds ==
  (cancelled \/ \E c \in Child : codec[c].wrapped) ~> (cancelled /\ worker.pc = "exited")
=============================================================================
