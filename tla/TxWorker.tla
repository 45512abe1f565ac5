------------------------------ MODULE TxWorker ------------------------------
(***************************************************************************)
(* transport.TxWorker: the one writer of the wire.  A frame is [id,        *)
(* hooked, fits]: numbered in the order in which it was queued; an ESP     *)
(* frame owns a pooled buffer with a release hook, a control frame has     *)
(* none; a frame that exceeds MaxWireDatagram does not fit.                *)
(***************************************************************************)
EXTENDS Naturals, Sequences

CONSTANTS WriteBatch,  \* writeBatch (32): frames drained after the first one
          FramesCap,   \* capacity of the channel frames
          MaxFrames    \* bound of the model: frames queued

ASSUME TxAssumption == WriteBatch \in Nat \ {0} /\ FramesCap \in Nat \ {0} /\ MaxFrames \in Nat \ {0}

VARIABLES batchWire, \* the wire has a WriteBatch
          frames,    \* the channel
          queued,    \* every frame ever queued, in order
          tx,        \* where TxWorker.Run is, and the frames it has taken
          txClosed,  \* the channel closed
          before,    \* how many frames were queued when Close was called
          written,   \* frames the wire has taken, in order
          freed      \* the frames whose hook has run

txVars == <<batchWire, frames, queued, tx, txClosed, before, written, freed>>

Frame == [id : 1 .. MaxFrames, hooked : BOOLEAN, fits : BOOLEAN]

TxTypeOK ==
  /\ batchWire \in BOOLEAN /\ txClosed \in BOOLEAN
  /\ frames \in Seq(Frame) /\ Len(frames) <= FramesCap
  /\ queued \in Seq(Frame) /\ written \in Seq(Frame)
  /\ tx \in [pc : {"select", "collect", "write", "drain", "failed", "done"},
             group : Seq(Frame), next : Nat]
  /\ Len(tx.group) <= WriteBatch + 1
  /\ before \in 0 .. MaxFrames
  /\ freed \subseteq 1 .. MaxFrames

TxInit ==
  /\ batchWire \in BOOLEAN
  /\ frames = <<>> /\ queued = <<>> /\ written = <<>>
  /\ tx = [pc |-> "select", group |-> <<>>, next |-> 1]
  /\ txClosed = FALSE /\ before = 0
  /\ freed = {}

\* Frame.Release: a no-op without a hook, and once the hook has run.
Free(ids) == freed' = freed \cup {f \in ids : queued[f].hooked}

GroupIds == {tx.group[i].id : i \in 1 .. Len(tx.group)}

\* A producer: the control actors, which are cancelled before Close, and the
\* ESP worker.
Submit ==
  /\ Len(frames) < FramesCap /\ Len(queued) < MaxFrames
  /\ \E hooked, fits \in BOOLEAN :
       LET f == [id |-> Len(queued) + 1, hooked |-> hooked, fits |-> fits]
       IN  frames' = Append(frames, f) /\ queued' = Append(queued, f)
  /\ UNCHANGED <<batchWire, tx, txClosed, before, written, freed>>

\* The first frame is waited for, the others are taken as long as there are any.
TakeFrame ==
  /\ \/ tx.pc = "select"
     \/ tx.pc = "collect" /\ Len(tx.group) <= WriteBatch
  /\ frames # <<>>
  /\ frames' = Tail(frames)
  /\ tx' = [tx EXCEPT !.pc = "collect", !.group = Append(@, Head(frames))]
  /\ UNCHANGED <<batchWire, queued, txClosed, before, written, freed>>

GroupReady ==
  /\ tx.pc = "collect" /\ (frames = <<>> \/ Len(tx.group) > WriteBatch)
  /\ tx' = [tx EXCEPT !.pc = "write"]
  /\ UNCHANGED <<batchWire, frames, queued, txClosed, before, written, freed>>

Clear(pc) == tx' = [pc |-> pc, group |-> <<>>, next |-> 1]

\* writeBatch: no frame is written unless all fit; the wire takes any number of
\* them at a time, and none or an error ends the worker.  All are released.
WriteGroup ==
  /\ tx.pc = "write" /\ batchWire
  /\ \/ /\ \E i \in 1 .. Len(tx.group) : ~tx.group[i].fits
        /\ Clear("failed") /\ Free(GroupIds) /\ UNCHANGED written
     \/ /\ \A i \in 1 .. Len(tx.group) : tx.group[i].fits
        /\ \E n \in 0 .. Len(tx.group) - tx.next + 1, err \in BOOLEAN :
             /\ written' = written \o SubSeq(tx.group, tx.next, tx.next + n - 1)
             /\ IF err \/ n = 0 THEN Clear("failed") /\ Free(GroupIds)
                ELSE IF tx.next + n > Len(tx.group) THEN Clear("select") /\ Free(GroupIds)
                ELSE tx' = [tx EXCEPT !.next = @ + n] /\ UNCHANGED freed
  /\ UNCHANGED <<batchWire, frames, queued, txClosed, before>>

\* A write that fails may have sent the frame.
Attempt(f) == UNCHANGED written \/ (f.fits /\ written' = Append(written, f))

\* A mutant: a frame whose write failed is not released.
WriteFrame_KeepsFailed ==
  /\ tx.pc = "write" /\ ~batchWire
  /\ LET f == tx.group[tx.next]
     IN  \/ /\ f.fits /\ written' = Append(written, f)
            /\ IF tx.next = Len(tx.group) THEN Clear("select")
               ELSE tx' = [tx EXCEPT !.next = @ + 1]
            /\ Free({f.id})
         \/ tx' = [tx EXCEPT !.pc = "failed"] /\ Attempt(f) /\ UNCHANGED freed
  /\ UNCHANGED <<batchWire, frames, queued, txClosed, before>>

\* writeFrame on a wire without WriteBatch: the frame is released whatever
\* happens; an error ends the worker, and the rest of the group stays with it.
WriteFrame ==
  /\ tx.pc = "write" /\ ~batchWire
  /\ LET f == tx.group[tx.next]
     IN  /\ \/ /\ f.fits /\ written' = Append(written, f)
               /\ IF tx.next = Len(tx.group) THEN Clear("select")
                  ELSE tx' = [tx EXCEPT !.next = @ + 1]
            \/ tx' = [tx EXCEPT !.pc = "failed"] /\ Attempt(f)
         /\ Free({f.id})
  /\ UNCHANGED <<batchWire, frames, queued, txClosed, before>>

\* A mutant: a closed worker leaves the queue as it is.
SeeClose_NoDrain ==
  /\ tx.pc = "select" /\ txClosed
  /\ Clear("done")
  /\ UNCHANGED <<batchWire, frames, queued, txClosed, before, written, freed>>

SeeClose ==
  /\ tx.pc = "select" /\ txClosed
  /\ Clear("drain")
  /\ UNCHANGED <<batchWire, frames, queued, txClosed, before, written, freed>>

\* After Close the queue is written one frame at a time until it is empty.
Drain ==
  /\ tx.pc = "drain"
  /\ IF frames = <<>> THEN Clear("done") /\ UNCHANGED <<frames, written, freed>>
     ELSE LET f == Head(frames)
          IN  /\ \/ f.fits /\ written' = Append(written, f) /\ UNCHANGED tx
                 \/ Clear("failed") /\ Attempt(f)
              /\ frames' = Tail(frames) /\ Free({f.id})
  /\ UNCHANGED <<batchWire, queued, txClosed, before>>

TxClose ==
  /\ ~txClosed /\ txClosed' = TRUE /\ before' = Len(queued)
  /\ UNCHANGED <<batchWire, frames, queued, tx, written, freed>>

TxStep == TakeFrame \/ GroupReady \/ WriteGroup \/ WriteFrame \/ SeeClose \/ Drain

TxNext == TxStep \/ Submit \/ TxClose

-----------------------------------------------------------------------------
(* Properties. *)

Ended == tx.pc \in {"failed", "done"}

\* The wire gets the frames in the order in which they were queued, each at most
\* once, without a gap; and a worker that was closed and met no error has
\* written every frame that was queued before the Close.  Session.stop counts on
\* it: it queues the DELETEs and closes the worker at once.
TxInOrder ==
  /\ Len(written) <= Len(queued) /\ \A i \in 1 .. Len(written) : written[i] = queued[i]
  /\ tx.pc = "done" => Len(written) >= before

\* The frames that a failed write on a wire without WriteBatch leaves behind it
\* in its group: Run returns, and nothing releases them.
Stranded(f) ==
  /\ tx.pc = "failed" /\ ~batchWire
  /\ \E i \in tx.next + 1 .. Len(tx.group) : tx.group[i].id = f

\* A pooled buffer does not go back, for another packet to be built in it,
\* while its frame is queued or still to be written; and when the worker has
\* ended, whatever failed, every frame that it took has been released, the one
\* whose write failed included, but for the frames behind that one in the group
\* on a wire without WriteBatch: these are never released, although SetRelease
\* promises it "on both success and error paths".
TxBuffersReturned ==
  /\ \A i \in 1 .. Len(frames) : frames[i].id \notin freed
  /\ tx.pc = "write" => \A i \in tx.next .. Len(tx.group) : tx.group[i].id \notin freed
  /\ Ended => \A f \in 1 .. Len(queued) - Len(frames) :
                queued[f].hooked => f \in freed \/ Stranded(f)

\* A closed worker ends once the wire takes writes and the producers have stopped.
TxCloseEnds == txClosed ~> Ended
=============================================================================
