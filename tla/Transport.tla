------------------------------ MODULE Transport ------------------------------
(***************************************************************************)
(* The two transport workers.  They share no state (each has its own half  *)
(* of the wire and its own channels), so a behaviour of both is an         *)
(* interleaving of a behaviour of each, and each is explored by itself.    *)
(***************************************************************************)
EXTENDS RxWorker, TxWorker

VARIABLE side  \* the worker whose behaviours are explored

vars == <<side, rxVars, txVars>>

TypeOK == side \in {"rx", "tx"} /\ RxTypeOK /\ TxTypeOK

Init == side \in {"rx", "tx"} /\ RxInit /\ TxInit

Next ==
  \/ side = "rx" /\ RxNext /\ UNCHANGED <<side, txVars>>
  \/ side = "tx" /\ TxNext /\ UNCHANGED <<side, rxVars>>

Spec == Init /\ [][Next]_vars

\* Goroutines run and the wire yields and takes; nothing is assumed of the
\* consumers of the channels, of the ticker and of the producers.
FairSpec ==
  /\ Spec
  /\ WF_vars(side = "rx" /\ ReaderStep /\ UNCHANGED <<side, txVars>>)
  /\ WF_vars(side = "rx" /\ RunStep /\ UNCHANGED <<side, txVars>>)
  /\ WF_vars(side = "rx" /\ (\E n \in 0 .. RxBatch, err \in BOOLEAN : WireYields(n, err))
               /\ UNCHANGED <<side, txVars>>)
  /\ WF_vars(side = "tx" /\ TxStep /\ UNCHANGED <<side, rxVars>>)

-----------------------------------------------------------------------------
(* Properties of the transport: each is one of either worker. *)

\* In both directions datagrams keep their order, none is repeated, and none is
\* lost while the worker runs; and what was queued before TxWorker.Close, the
\* DELETEs of the graceful close among it, is still written.
NothingLostInOrder == RxInOrder /\ TxInOrder

\* In both directions a pooled buffer goes back to its pool once and not before
\* its last use, whichever read, delivery or write fails and whenever Close
\* comes; except that a failed write on a wire without WriteBatch strands the
\* buffers of the frames behind it in its group (workers.go:398-402, against
\* frame.go:62-65).  (The variables keep their types, the channels their
\* capacities.)
BuffersReturned == TypeOK /\ RxBuffersReturned /\ TxBuffersReturned

\* RxWorker.Close and TxWorker.Close end their workers.
CloseEnds == RxCloseEnds /\ TxCloseEnds
=============================================================================
