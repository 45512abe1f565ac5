----------------------------- MODULE Fragments ------------------------------
(***************************************************************************)
(* Reassembly of protected IKE messages from encrypted fragments (SKF),    *)
(* src/control/protected.go: collectSKFragment and the part of             *)
(* openProtectedRawState around it.                                        *)
(*                                                                         *)
(* A packet is a record with the fields id (message ID), ex (exchange),    *)
(* skf (an SKF envelope, or else SK), n and total (the fragment header),   *)
(* first (the inner next-payload, None but in the first fragment) and data *)
(* (the decrypted bytes, a tuple that names where they come from).         *)
(* Authentication succeeded: a packet that fails it never gets here.       *)
(***************************************************************************)
EXTENDS Naturals, Sequences

None == "none"

NoPart == <<>>

\* FragmentReassembly.
Buffer ==
  [id : Nat, ex : {None, "IKE_AUTH", "INFORMATIONAL"}, first : {None, "EAP", "IDr"},
   parts : Seq(Seq(Nat))]

\* State.InboundFragments = nil.
NoBuffer == [id |-> 0, ex |-> None, first |-> None, parts |-> <<>>]

\* A fresh FragmentReassembly with one empty slot per announced fragment.
NewTable(p) ==
  [id |-> p.id, ex |-> p.ex, first |-> None, parts |-> [i \in 1..p.total |-> NoPart]]

\* The table collectSKFragment works on: the stored one, unless it has expired
\* or announces fewer fragments than the packet.
Table(buf, p, expired) ==
  IF buf = NoBuffer \/ expired \/ p.total > Len(buf.parts) THEN NewTable(p) ELSE buf

\* The slot is written once; fragment 1 brings the first payload type.
Stored(t, p) ==
  [t EXCEPT !.first = IF p.n = 1 THEN p.first ELSE @,
            !.parts[p.n] = IF @ = NoPart THEN p.data ELSE @]

More(t) == [status |-> "more", buf |-> t, parts |-> <<>>, first |-> None]

Refused(t) == [status |-> "error", buf |-> t, parts |-> <<>>, first |-> None]

Joined(s, p) ==
  IF \E i \in DOMAIN s.parts : s.parts[i] = NoPart
  THEN More(s)
  ELSE [status |-> "complete", buf |-> NoBuffer, parts |-> s.parts, first |-> p.first]

\* Variant: a fragment goes to its slot whatever total it announces.
CollectSKFragment_Mixed(buf, p, expired) ==
  LET t == IF buf = NoBuffer \/ expired \/ p.n > Len(buf.parts) THEN NewTable(p) ELSE buf
  IN Joined(Stored(t, p), p)

\* collectSKFragment: a stored set of another message is an error, a smaller
\* announced total is ignored, and the set is handed over when no slot is empty.
CollectSKFragment(buf, p, expired) ==
  LET t == Table(buf, p, expired)
      mismatch == \/ buf # NoBuffer /\ ~expired /\ (buf.ex # p.ex \/ buf.id # p.id)
                  \/ p.total = Len(t.parts) /\
                     IF p.n = 1 THEN t.first \notin {None, p.first} ELSE p.first # None
  IN CASE mismatch -> Refused(t)
       [] ~mismatch /\ p.total < Len(t.parts) -> More(t)
       [] OTHER -> Joined(Stored(t, p), p)

\* openProtectedRawState: an SK packet is whole; for an SKF packet the first
\* payload type remembered before the fragment was collected, if any, is the
\* type of the joined message.
OpenProtectedRawState(buf, p, expired) ==
  IF ~p.skf
  THEN [status |-> "complete", buf |-> buf, parts |-> <<p.data>>, first |-> p.first]
  ELSE LET r == CollectSKFragment(buf, p, expired)
       IN IF r.status = "complete" /\ buf.first # None THEN [r EXCEPT !.first = buf.first] ELSE r
=============================================================================
