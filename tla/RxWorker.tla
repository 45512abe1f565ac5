------------------------------ MODULE RxWorker ------------------------------
(***************************************************************************)
(* transport.RxWorker: the reader goroutine that blocks in the wire and    *)
(* the Run loop that collects ESP datagrams into batches.  A datagram is   *)
(* [id, kind], numbered in the order in which the wire gives them; each    *)
(* lies in one buffer of the pool until it is released.                    *)
(***************************************************************************)
EXTENDS Naturals, Sequences

CONSTANTS RxBatch,   \* rxBatch (32): size of a batch, and of a ReadBatch
          EspCap,    \* capacity of the channel esp
          CtlCap,    \* capacity of the channel ctl
          MaxRead    \* bound of the model: datagrams the wire gives

ASSUME RxAssumption ==
  RxBatch \in Nat \ {0} /\ EspCap \in Nat \ {0} /\ CtlCap \in Nat \ {0} /\ MaxRead \in Nat \ {0}

Kinds == {"keepalive", "ike", "esp"}

VARIABLES batched,   \* the wire has a ReadBatch
          reader,    \* the goroutine RxWorker.read and the buffers it holds
          run,       \* where RxWorker.Run is
          batch,     \* the batch being collected
          fastOK,    \* the next single packet may go out at once
          readErr,   \* the channel readErr
          rxClosed,  \* the channel closed
          arrived,   \* every datagram read, in order
          esp, ctl,  \* the channels to the ESP pipeline and to the demux
          espOut, ctlOut,  \* every packet ever sent on them, in order
          released   \* how often the buffer of each datagram went back

rxVars == <<batched, reader, run, batch, fastOK, readErr, rxClosed, arrived, esp, ctl, espOut,
            ctlOut, released>>

Datagram == [id : 1 .. MaxRead, kind : Kinds]

RxTypeOK ==
  /\ batched \in BOOLEAN /\ fastOK \in BOOLEAN /\ readErr \in BOOLEAN /\ rxClosed \in BOOLEAN
  /\ reader \in [pc : {"check", "read", "classify", "exited"}, slots : Seq(Datagram),
                 free : 0 .. RxBatch, err : BOOLEAN]
  /\ run \in {"select", "deliver", "flush", "returned", "done"}
  /\ batch \in Seq(Datagram) /\ Len(batch) <= RxBatch
  /\ arrived \in Seq(Datagram)
  /\ esp \in Seq(Seq(Datagram)) /\ Len(esp) <= EspCap
  /\ ctl \in Seq(Datagram) /\ Len(ctl) <= CtlCap
  /\ espOut \in Seq(Datagram) /\ ctlOut \in Seq(Datagram)
  /\ released \in [1 .. MaxRead -> Nat]

Idle == [pc |-> "check", slots |-> <<>>, free |-> 0, err |-> FALSE]

RxInit ==
  /\ batched \in BOOLEAN
  /\ reader = Idle /\ run = "select" /\ batch = <<>> /\ fastOK = TRUE
  /\ readErr = FALSE /\ rxClosed = FALSE
  /\ arrived = <<>> /\ esp = <<>> /\ ctl = <<>> /\ espOut = <<>> /\ ctlOut = <<>>
  /\ released = [d \in 1 .. MaxRead |-> 0]

Ids(s) == {s[i].id : i \in 1 .. Len(s)}

Release(ids) == released' = [d \in 1 .. MaxRead |-> IF d \in ids THEN released[d] + 1 ELSE released[d]]

-----------------------------------------------------------------------------
(* The reader goroutine. *)

ReaderChecks ==
  /\ reader.pc = "check"
  /\ reader' = IF rxClosed THEN [reader EXCEPT !.pc = "exited"]
               ELSE [reader EXCEPT !.pc = "read", !.free = IF batched THEN RxBatch ELSE 1]
  /\ UNCHANGED <<batched, run, batch, fastOK, readErr, rxClosed, arrived, esp, ctl, espOut, ctlOut,
                 released>>

\* The wire yields: one datagram or an error, from ReadBatch up to RxBatch
\* datagrams and perhaps an error with them.
WireYields(n, err) ==
  /\ reader.pc = "read"
  /\ n <= reader.free /\ Len(arrived) + n <= MaxRead
  /\ ~batched => (n = 1 <=> ~err)
  /\ \E kinds \in [1 .. n -> Kinds] :
       LET new == [i \in 1 .. n |-> [id |-> Len(arrived) + i, kind |-> kinds[i]]]
       IN  /\ arrived' = arrived \o new
           /\ reader' = [pc |-> "classify", slots |-> new, free |-> reader.free - n, err |-> err]
  /\ UNCHANGED <<batched, run, batch, fastOK, readErr, rxClosed, esp, ctl, espOut, ctlOut, released>>

Next1 == reader' = [reader EXCEPT !.slots = Tail(@)]

\* A close met in the middle: this packet and the slots behind it go back.
ReaderGivesUp ==
  /\ reader' = [Idle EXCEPT !.pc = "exited"]
  /\ Release(Ids(reader.slots))

\* classifyAndDeliver of a keepalive and of an IKE message.
ClassifyKeepalive ==
  /\ reader.pc = "classify" /\ reader.slots # <<>> /\ Head(reader.slots).kind = "keepalive"
  /\ Next1 /\ Release({Head(reader.slots).id})
  /\ UNCHANGED <<batched, run, batch, fastOK, readErr, rxClosed, arrived, esp, ctl, espOut, ctlOut>>

ClassifyIKE ==
  /\ reader.pc = "classify" /\ reader.slots # <<>> /\ Head(reader.slots).kind = "ike"
  /\ \/ /\ Len(ctl) < CtlCap
        /\ ctl' = Append(ctl, Head(reader.slots)) /\ ctlOut' = Append(ctlOut, Head(reader.slots))
        /\ Next1 /\ UNCHANGED released
     \/ rxClosed /\ ReaderGivesUp /\ UNCHANGED <<ctl, ctlOut>>
  /\ UNCHANGED <<batched, run, batch, fastOK, readErr, rxClosed, arrived, esp, espOut>>

\* The unbuffered channel packets hands an ESP datagram to Run, which sends a
\* full batch, or the first packet after a quiet time, at once.
ClassifyESP ==
  /\ reader.pc = "classify" /\ reader.slots # <<>> /\ Head(reader.slots).kind = "esp"
  /\ \/ /\ run = "select"
        /\ batch' = Append(batch, Head(reader.slots))
        /\ run' = CASE Len(batch) + 1 >= RxBatch -> "flush"
                    [] Len(batch) + 1 < RxBatch /\ fastOK -> "deliver"
                    [] OTHER -> "select"
        /\ Next1 /\ UNCHANGED released
     \/ rxClosed /\ ReaderGivesUp /\ UNCHANGED <<batch, run>>
  /\ UNCHANGED <<batched, fastOK, readErr, rxClosed, arrived, esp, ctl, espOut, ctlOut>>

\* The datagrams of one read are done: an error ends the reader, and Run is
\* told of it unless the error is the end of a wire that is being closed.
ReaderLoops ==
  /\ reader.pc = "classify" /\ reader.slots = <<>>
  /\ IF reader.err
     THEN /\ reader' = [Idle EXCEPT !.pc = "exited"]
          /\ readErr' \in (IF rxClosed THEN BOOLEAN ELSE {TRUE})
     ELSE reader' = Idle /\ UNCHANGED readErr
  /\ UNCHANGED <<batched, run, batch, fastOK, rxClosed, arrived, esp, ctl, espOut, ctlOut, released>>

-----------------------------------------------------------------------------
(* Run. *)

RunReturns ==
  /\ run' = "returned" /\ batch' = <<>> /\ Release(Ids(batch))
  /\ UNCHANGED <<batched, reader, fastOK, readErr, rxClosed, arrived, esp, ctl, espOut, ctlOut>>

\* A close or a read error ends the loop; a batch that is not full is released.
RunEnds == run = "select" /\ (rxClosed \/ readErr) /\ RunReturns

RunTicks ==
  /\ run = "select" /\ batch # <<>>
  /\ run' = "flush"
  /\ UNCHANGED <<batched, reader, batch, fastOK, readErr, rxClosed, arrived, esp, ctl, espOut,
                 ctlOut, released>>

\* deliverBatch; after a full batch or a tick the next packet may go out alone.
DeliverBatch ==
  /\ run \in {"deliver", "flush"} /\ Len(esp) < EspCap
  /\ esp' = Append(esp, batch) /\ espOut' = espOut \o batch
  /\ run' = "select" /\ batch' = <<>> /\ fastOK' = (run = "flush")
  /\ UNCHANGED <<batched, reader, readErr, rxClosed, arrived, ctl, ctlOut, released>>

\* A mutant: a full channel is waited for even when the worker is closed.
DeliverAborted_Never == FALSE /\ UNCHANGED rxVars

DeliverAborted == run \in {"deliver", "flush"} /\ rxClosed /\ RunReturns

\* The deferred function waits for the reader and closes done.
RunDone ==
  /\ run = "returned" /\ reader.pc = "exited"
  /\ run' = "done"
  /\ UNCHANGED <<batched, reader, batch, fastOK, readErr, rxClosed, arrived, esp, ctl, espOut,
                 ctlOut, released>>

RxClose ==
  /\ ~rxClosed /\ rxClosed' = TRUE
  /\ UNCHANGED <<batched, reader, run, batch, fastOK, readErr, arrived, esp, ctl, espOut, ctlOut,
                 released>>

\* The owners of the channels take what is in them and release it.
ConsumeESP ==
  /\ esp # <<>> /\ esp' = Tail(esp) /\ Release(Ids(Head(esp)))
  /\ UNCHANGED <<batched, reader, run, batch, fastOK, readErr, rxClosed, arrived, ctl, espOut, ctlOut>>

ConsumeIKE ==
  /\ ctl # <<>> /\ ctl' = Tail(ctl) /\ Release({Head(ctl).id})
  /\ UNCHANGED <<batched, reader, run, batch, fastOK, readErr, rxClosed, arrived, esp, espOut, ctlOut>>

ReaderStep == ReaderChecks \/ ClassifyKeepalive \/ ClassifyIKE \/ ClassifyESP \/ ReaderLoops
RunStep == RunEnds \/ DeliverBatch \/ DeliverAborted \/ RunDone

RxNext ==
  \/ ReaderStep \/ RunStep \/ RunTicks \/ RxClose \/ ConsumeESP \/ ConsumeIKE
  \/ \E n \in 0 .. RxBatch, err \in BOOLEAN : WireYields(n, err)

-----------------------------------------------------------------------------
(* Properties. *)

Running == run \in {"select", "deliver", "flush"} /\ (rxClosed => reader.pc # "exited")

Ascending(s) == \A i, j \in 1 .. Len(s) : i < j => s[i].id < s[j].id

\* Sequence s holds datagrams of the kind as the wire gave them.
Given(s, kind) ==
  \A i \in 1 .. Len(s) :
    s[i].id \in 1 .. Len(arrived) /\ s[i] = arrived[s[i].id] /\ s[i].kind = kind

\* Datagram d is in s.
Holds(s, d) == \E i \in 1 .. Len(s) : s[i].id = d

InBatches(s, d) == \E b \in 1 .. Len(s) : Holds(s[b], d)

\* No datagram is repeated, changed or moved past another of its kind, whichever
\* way a batch was flushed; and while the worker runs none is lost: an ESP or IKE
\* datagram the wire gave went out, is in the batch, or is with the reader.
RxInOrder ==
  /\ Ascending(espOut) /\ Given(espOut, "esp")
  /\ Ascending(ctlOut) /\ Given(ctlOut, "ike")
  /\ Running =>
       \A d \in 1 .. Len(arrived) :
         /\ arrived[d].kind = "esp" => Holds(espOut, d) \/ Holds(batch, d) \/ Holds(reader.slots, d)
         /\ arrived[d].kind = "ike" => Holds(ctlOut, d) \/ Holds(reader.slots, d)

Held(d) == Holds(reader.slots, d) \/ Holds(batch, d) \/ InBatches(esp, d) \/ Holds(ctl, d)

\* Every buffer is released once or still has exactly one holder: the reader,
\* the batch, or a channel.  When the worker is done it holds none.
RxBuffersReturned ==
  /\ \A d \in 1 .. Len(arrived) :
       /\ released[d] = IF Held(d) THEN 0 ELSE 1
       /\ Holds(reader.slots, d) => ~Holds(batch, d) /\ ~InBatches(esp, d) /\ ~Holds(ctl, d)
       /\ Holds(batch, d) => ~InBatches(esp, d) /\ ~Holds(ctl, d)
       /\ InBatches(esp, d) => ~Holds(ctl, d)
       /\ \A b, c \in 1 .. Len(esp) : Holds(esp[b], d) /\ Holds(esp[c], d) => b = c
  /\ run = "done" => reader.slots = <<>> /\ reader.free = 0 /\ batch = <<>>

\* A Close ends the worker as soon as the wire yields, even if nobody takes
\* anything from the channels any more.
RxCloseEnds == rxClosed ~> run = "done"
=============================================================================
