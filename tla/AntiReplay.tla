----------------------------- MODULE AntiReplay -----------------------------
(***************************************************************************)
(* What the inbound half of an ESP SA promises about sequence numbers,     *)
(* without saying how: a genuine packet is delivered exactly when its      *)
(* sequence number has not been delivered before and is not WindowSlots or *)
(* more behind the highest number delivered; anything else is discarded    *)
(* and leaves no trace.                                                    *)
(***************************************************************************)
EXTENDS Naturals

CONSTANTS WindowSlots, MaxSeq

VARIABLES delivered,  \* the sequence numbers handed to the Tunnel so far
          verdict     \* what became of the last datagram

Admissible(seq) ==
  /\ seq \notin delivered
  /\ \A d \in delivered : d < seq + WindowSlots

Init ==
  /\ delivered = {}
  /\ verdict = [seq |-> 0, genuine |-> FALSE, accepted |-> FALSE]

Deliver(seq) ==
  /\ Admissible(seq)
  /\ delivered' = delivered \cup {seq}
  /\ verdict' = [seq |-> seq, genuine |-> TRUE, accepted |-> TRUE]

Discard(seq, genuine) ==
  /\ genuine => ~Admissible(seq)
  /\ verdict' = [seq |-> seq, genuine |-> genuine, accepted |-> FALSE]
  /\ UNCHANGED delivered

Next ==
  \/ \E seq \in 1..MaxSeq : Deliver(seq)
  \/ \E seq \in 0..MaxSeq, genuine \in BOOLEAN : Discard(seq, genuine)

Spec == Init /\ [][Next]_<<delivered, verdict>>
=============================================================================
