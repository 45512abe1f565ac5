------------------------------ MODULE DataPlane ------------------------------
(***************************************************************************)
(* The receiving end of control.Config.DataUpdates: the bounded channel    *)
(* from the Running actor to the public Session, the goroutine             *)
(* Session.watchControlUpdates that serves it (session.go), and the parts  *)
(* of esp.Pipeline and Tunnel it updates: the table of inbound codecs, the *)
(* outbound codec, the published CHILD_SA and the end-of-tunnel marker.    *)
(*                                                                         *)
(* A CHILD_SA is a number: its inbound and outbound SPI are drawn together *)
(* and are never reused, so one number stands for both.                    *)
(***************************************************************************)
EXTENDS Naturals, Sequences

CONSTANT UpdateCap  \* capacity of dataUpdates (16 in NewSession)

ASSUME UpdateCapAssumption == UpdateCap \in Nat \ {0}

VARIABLES updates,   \* the channel, oldest update first
          acked,     \* the last child whose Ack channel was written
          inTable,   \* Pipeline.inbound: children that can be decrypted
          outCodec,  \* Pipeline.outbound: the child that encrypts
          current,   \* Tunnel.childSA
          ended,     \* Tunnel.markEnded has run
          storing    \* a child between the two stores of ReplaceChild

planeVars == <<acked, inTable, outCodec, current, ended, storing>>

NoChild == 0

Update == [kind : {"installed", "deleted", "assigned"}, child : Nat]

Installed(c) == [kind |-> "installed", child |-> c]
Deleted(c)   == [kind |-> "deleted", child |-> c]
Assigned     == [kind |-> "assigned", child |-> NoChild]

PlaneTypeOK ==
  /\ updates \in Seq(Update) /\ Len(updates) <= UpdateCap
  /\ acked \in Nat
  /\ inTable \in SUBSET Nat
  /\ outCodec \in Nat
  /\ current \in Nat
  /\ ended \in BOOLEAN
  /\ storing \in Nat

PlaneInit(child) ==
  /\ updates = <<>>
  /\ acked = NoChild
  /\ inTable = {child}
  /\ outCodec = child
  /\ current = child
  /\ ended = FALSE
  /\ storing = NoChild

-----------------------------------------------------------------------------
(* The sender's two ways to use the channel. *)

HasRoom == Len(updates) < UpdateCap

\* select { case ch <- u: default: }: a full channel drops the update.
Offer(u) == updates' = IF HasRoom THEN Append(updates, u) ELSE updates

-----------------------------------------------------------------------------
(* watchControlUpdates, one update at a time. *)

Take(kind) ==
  /\ storing = NoChild
  /\ updates # <<>>
  /\ Head(updates).kind = kind
  /\ updates' = Tail(updates)

\* A mutant: the new table is built without the codecs of the old one.
StoreInbound_NoCopy ==
  /\ Take("installed")
  /\ inTable' = {Head(updates).child}
  /\ storing' = Head(updates).child
  /\ UNCHANGED <<acked, outCodec, current, ended>>

\* ReplaceChild publishes the new inbound table first ...
StoreInbound ==
  /\ Take("installed")
  /\ inTable' = inTable \cup {Head(updates).child}
  /\ storing' = Head(updates).child
  /\ UNCHANGED <<acked, outCodec, current, ended>>

\* ... then the outbound codec; setCurrentChild and the Ack follow.
StoreOutbound ==
  /\ storing # NoChild
  /\ outCodec' = storing
  /\ current' = storing
  /\ acked' = storing
  /\ storing' = NoChild
  /\ UNCHANGED <<updates, inTable, ended>>

\* A mutant: the deletion of the current child only drops its codec.
ChildDeleted_NeverEnds ==
  /\ Take("deleted")
  /\ inTable' = inTable \ {Head(updates).child}
  /\ UNCHANGED <<acked, outCodec, current, ended, storing>>

\* The current child ends the tunnel, any other loses its codec.
ChildDeleted ==
  /\ Take("deleted")
  /\ IF current = Head(updates).child
     THEN ended' = TRUE /\ UNCHANGED inTable
     ELSE inTable' = inTable \ {Head(updates).child} /\ UNCHANGED ended
  /\ UNCHANGED <<acked, outCodec, current, storing>>

AssignedUpdated ==
  /\ Take("assigned")
  /\ UNCHANGED planeVars

WatchControlUpdates == StoreInbound \/ StoreOutbound \/ ChildDeleted \/ AssignedUpdated
=============================================================================
