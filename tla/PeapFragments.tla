---------------------------- MODULE PeapFragments ----------------------------
(***************************************************************************)
(* eap/peap/fragment.go: the two fragmenters.  A TLS message is a sequence *)
(* of opaque units; a PEAP packet is [L, M, len, data], L and M its flags  *)
(* and len the declared length, which counts only with L.                  *)
(***************************************************************************)
EXTENDS Naturals, Sequences

Pending(rest) == rest # <<>>

Cut(payload, chunk) == IF Len(payload) > chunk THEN chunk ELSE Len(payload)

\* A mutant: the offset stays on the last unit sent.
FragStart_Offset(payload, chunk, includeLength) ==
  LET more == Len(payload) > chunk
      n == Cut(payload, chunk)
  IN  [packet |-> [L |-> more \/ includeLength, M |-> more,
                   len |-> IF more \/ includeLength THEN Len(payload) ELSE 0,
                   data |-> SubSeq(payload, 1, n)],
       rest |-> IF more THEN SubSeq(payload, n, Len(payload)) ELSE <<>>]

\* OutboundFragmenter.Start: the packet and what is left of the payload.
FragStart(payload, chunk, includeLength) ==
  LET more == Len(payload) > chunk
      n == Cut(payload, chunk)
  IN  [packet |-> [L |-> more \/ includeLength, M |-> more,
                   len |-> IF more \/ includeLength THEN Len(payload) ELSE 0,
                   data |-> SubSeq(payload, 1, n)],
       rest |-> SubSeq(payload, n + 1, Len(payload))]

FragNext(rest, chunk) ==
  LET n == Cut(rest, chunk)
  IN  [packet |-> [L |-> FALSE, M |-> n < Len(rest), len |-> 0, data |-> SubSeq(rest, 1, n)],
       rest |-> SubSeq(rest, n + 1, Len(rest))]

\* InboundFragmenter: parts joined so far, and the declared length (none: no
\* message is open).
NoParts == [open |-> FALSE, expected |-> 0, got |-> <<>>]

PushFails(in) == [in |-> in, result |-> "error", whole |-> <<>>]

\* A mutant: a complete message is not forgotten.
Push_NotReset(in, p) ==
  LET got == IF p.L THEN p.data ELSE in.got \o p.data
      expected == IF p.L THEN p.len ELSE in.expected
      now == [open |-> TRUE, expected |-> expected, got |-> got]
  IN  IF (p.L /\ (in.open \/ p.len = 0)) \/ (~p.L /\ ~in.open /\ p.M) THEN PushFails(in)
      ELSE IF ~p.L /\ ~in.open THEN [in |-> in, result |-> "complete", whole |-> p.data]
      ELSE IF Len(got) > expected \/ (~p.M /\ Len(got) # expected) THEN PushFails(now)
      ELSE IF p.M THEN [in |-> now, result |-> "more", whole |-> <<>>]
      ELSE [in |-> now, result |-> "complete", whole |-> got]

Push(in, p) ==
  LET got == IF p.L THEN p.data ELSE in.got \o p.data
      expected == IF p.L THEN p.len ELSE in.expected
      now == [open |-> TRUE, expected |-> expected, got |-> got]
  IN  IF (p.L /\ (in.open \/ p.len = 0)) \/ (~p.L /\ ~in.open /\ p.M) THEN PushFails(in)
      ELSE IF ~p.L /\ ~in.open THEN [in |-> in, result |-> "complete", whole |-> p.data]
      ELSE IF Len(got) > expected \/ (~p.M /\ Len(got) # expected) THEN PushFails(now)
      ELSE IF p.M THEN [in |-> now, result |-> "more", whole |-> <<>>]
      ELSE [in |-> NoParts, result |-> "complete", whole |-> got]
=============================================================================
