----------------------------- MODULE EspInbound -----------------------------
(***************************************************************************)
(* The inbound half of one ESP SA: Inbound.ProcessPooled (esp/inflow.go)   *)
(* with its ReplayWindow (esp/replay.go).                                  *)
(*                                                                         *)
(* The wire may lose, duplicate, delay, reorder and corrupt datagrams, so  *)
(* any datagram may arrive at any time.  Contents are abstracted to what   *)
(* ProcessPooled tells apart: whether the SPI is this SA's, the sequence   *)
(* number, and whether the body fails authentication ("forged"),           *)
(* authenticates but carries an unusable trailer ("malformed"), or holds   *)
(* an IP packet ("ip").                                                    *)
(***************************************************************************)
EXTENDS Naturals

CONSTANTS WindowSlots,  \* slots of the replay bitmap (64 in the code)
          MaxSeq        \* largest sequence number (2^32 - 1 in the code)

ASSUME WindowAssumption == WindowSlots \in Nat \ {0} /\ MaxSeq \in Nat \ {0}

VARIABLES highest,  \* ReplayWindow.highest; 0 until the first packet
          bitmap,   \* ReplayWindow.bitmap: d is set when highest - d was seen
          count,    \* history: how often each number reached the Tunnel
          verdict   \* history: what became of the last datagram

inboundVars == <<highest, bitmap, count, verdict>>

Seqs  == 1..MaxSeq
Slots == 0..(WindowSlots - 1)

Datagram == [ours : BOOLEAN, seq : 0..MaxSeq, body : {"forged", "malformed", "ip"}]

InboundTypeOK ==
  /\ highest \in 0..MaxSeq
  /\ bitmap \in SUBSET Slots
  /\ count \in [Seqs -> Nat]
  /\ verdict \in [seq : 0..MaxSeq, genuine : BOOLEAN, accepted : BOOLEAN]

InboundInit ==
  /\ highest = 0
  /\ bitmap = {}
  /\ count = [s \in Seqs |-> 0]
  /\ verdict = [seq |-> 0, genuine |-> FALSE, accepted |-> FALSE]

-----------------------------------------------------------------------------
(* ReplayWindow.Accept, split into its verdict and what it records. *)

\* A mutant: the shift is one slot short.
Shifted_OneShort(delta) == {d \in Slots : d + 1 >= delta /\ (d + 1) - delta \in bitmap}

\* bitmap << delta: a shift of WindowSlots or more leaves nothing, which is the
\* code's separate "delta >= 64" branch.
Shifted(delta) == {d \in Slots : d >= delta /\ d - delta \in bitmap}

Accepts(seq) ==
  /\ seq # 0
  /\ \/ highest = 0
     \/ seq > highest
     \/ highest - seq < WindowSlots /\ highest - seq \notin bitmap

\* The seeding branch (highest = 0) is the advancing branch with an empty bitmap.
Record(seq) ==
  IF seq > highest
  THEN highest' = seq /\ bitmap' = {0} \cup Shifted(seq - highest)
  ELSE bitmap' = bitmap \cup {highest - seq} /\ UNCHANGED highest

-----------------------------------------------------------------------------
(* Inbound.ProcessPooled: every check before window.Accept, then the window. *)

Genuine(p) == p.ours /\ p.seq # 0 /\ p.body = "ip"

Deliver(p) ==
  /\ Genuine(p) /\ Accepts(p.seq)
  /\ Record(p.seq)
  /\ count' = [count EXCEPT ![p.seq] = @ + 1]
  /\ verdict' = [seq |-> p.seq, genuine |-> TRUE, accepted |-> TRUE]

\* A mutant: the window is consulted before the packet is authenticated.
Drop_WindowFirst(p) ==
  /\ ~(Genuine(p) /\ Accepts(p.seq))
  /\ IF p.ours /\ Accepts(p.seq) THEN Record(p.seq) ELSE UNCHANGED <<highest, bitmap>>
  /\ verdict' = [seq |-> p.seq, genuine |-> Genuine(p), accepted |-> FALSE]
  /\ UNCHANGED count

Drop(p) ==
  /\ ~(Genuine(p) /\ Accepts(p.seq))
  /\ verdict' = [seq |-> p.seq, genuine |-> Genuine(p), accepted |-> FALSE]
  /\ UNCHANGED <<highest, bitmap, count>>

ProcessPooled(p) == Deliver(p) \/ Drop(p)

InboundNext == \E p \in Datagram : ProcessPooled(p)

InboundSpec == InboundInit /\ [][InboundNext]_inboundVars

-----------------------------------------------------------------------------
(* Properties. *)

\* No inner packet reaches the Tunnel twice, whatever the wire duplicates,
\* delays or reorders (ReplayWindow.Accept returns false for duplicates).
AtMostOnce == \A s \in Seqs : count[s] <= 1

\* The bitmap is an exact record of the last WindowSlots numbers: a bit is set
\* just when that number was delivered, highest itself was delivered, and
\* nothing above it was.  Both a stale and a missing bit would break it.
WindowExact ==
  /\ \A s \in Seqs : s > highest => count[s] = 0
  /\ highest # 0 => count[highest] = 1
  /\ bitmap = {d \in Slots : d < highest /\ count[highest - d] = 1}

\* The bitmap implementation keeps the promise of AntiReplay: a genuine packet
\* is refused only when it is a duplicate or behind the window, and datagrams
\* that fail a check before window.Accept cannot move the window.
Promise == INSTANCE AntiReplay WITH delivered <- {s \in Seqs : count[s] > 0}
ImplementsAntiReplay == Promise!Spec
=============================================================================
