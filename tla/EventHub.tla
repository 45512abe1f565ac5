------------------------------ MODULE EventHub ------------------------------
(***************************************************************************)
(* events.Hub: one goroutine behind a bounded mailbox fans events out to   *)
(* the subscribers' bounded channels and replays the last events to a new  *)
(* one.  Emit, EmitSync, Subscribe, Stream.Close and Hub.Close may be      *)
(* called by any goroutine at any time.                                    *)
(*                                                                         *)
(* An event is its rank in the mailbox.  A subscriber calls Subscribe      *)
(* once, so its name stands for its Stream as well.                        *)
(***************************************************************************)
EXTENDS Naturals, Sequences

\* A slice of streams without its i-th one.
RemoveAt(s, i) == SubSeq(s, 1, i - 1) \o SubSeq(s, i + 1, Len(s))

CONSTANTS Subscribers,  \* callers of Subscribe
          Syncers,      \* callers of EmitSync
          Nobody,       \* the caller of an Emit, which nobody waits for
          MailboxCap,   \* hubMailboxCapacity (256)
          Queue,        \* capacity of a subscriber's channel
          Replay,       \* length of the retained history (16)
          MaxEvents     \* bound of the model: events emitted before Emit is disabled

\* NewHub raises queue to the length of the history, and to one.
ASSUME HubAssumption ==
  /\ Subscribers \cap Syncers = {} /\ Nobody \notin Subscribers \cup Syncers
  /\ MailboxCap \in Nat \ {0} /\ Queue \in Nat \ {0} /\ Replay \in Nat
  /\ Queue >= Replay
  /\ MaxEvents \in Nat

VARIABLES mailbox,   \* Hub.mailbox, oldest request first
          retained,  \* Hub.retained
          subs,      \* Hub.subs
          stopped,   \* Hub.stopped is closed
          hub,       \* the goroutine: where it is, its emit request, the loop index
          put,       \* put[s]: every event ever sent into the channel of s
          fill,      \* fill[s]: how many of them are still in the channel
          reply,     \* reply[s]: the channel s's Subscribe waits on
          call,      \* call[p]: where p is in Subscribe and Close, or in EmitSync
          done,      \* the callers of EmitSync whose done channel is closed
          emitted,   \* the event accepted last
          latest,    \* history: the event dispatched last
          missed,    \* history: missed[s], events the full channel of s refused
          opened,    \* history: opened[s], latest when s was registered
          closed     \* history: closed[s], latest when s was closed

hubVars == <<mailbox, retained, subs, hub, latest>>
streamVars == <<put, fill, missed, opened>>
callVars == <<stopped, call, closed>>
vars == <<hubVars, streamVars, callVars, reply, done, emitted>>

Events == Nat \ {0}
None == 0

Emitting(e, p)   == [kind |-> "emit", event |-> e, by |-> p]
Subscribing(s)   == [kind |-> "subscribe", event |-> None, by |-> s]
Unsubscribing(s) == [kind |-> "unsubscribe", event |-> None, by |-> s]

Parties == Subscribers \cup Syncers
Request == [kind : {"emit"}, event : Events, by : Syncers \cup {Nobody}]
           \cup [kind : {"subscribe", "unsubscribe"}, event : {None}, by : Subscribers]

\* Stream.closed: Close has run its first statement.
IsClosed(s) == call[s] \in {"closing", "closed"}

TypeOK ==
  /\ mailbox \in Seq(Request) /\ Len(mailbox) <= MailboxCap
  /\ retained \in Seq(Events) /\ Len(retained) <= Replay
  /\ subs \in Seq(Subscribers)
  /\ stopped \in BOOLEAN
  /\ hub \in [at : {"select", "check", "put", "drain", "exited"}, event : Events \cup {None},
              by : Syncers \cup {Nobody}, i : Nat \ {0}]
  /\ put \in [Subscribers -> Seq(Events)]
  /\ fill \in [Subscribers -> 0..Queue]
  /\ reply \in [Subscribers -> {"none", "stream", "nil"}]
  /\ call \in [Parties -> {"idle", "sending", "waiting", "open", "closing", "closed",
                           "nil", "true", "false"}]
  /\ done \in SUBSET Syncers
  /\ emitted \in Nat
  /\ latest \in Nat
  /\ missed \in [Subscribers -> SUBSET Events]
  /\ opened \in [Subscribers -> Nat]
  /\ closed \in [Subscribers -> Nat]

AtSelect == [at |-> "select", event |-> None, by |-> Nobody, i |-> 1]

Init ==
  /\ mailbox = <<>> /\ retained = <<>> /\ subs = <<>> /\ latest = 0
  /\ stopped = FALSE
  /\ hub = AtSelect
  /\ put = [s \in Subscribers |-> <<>>]
  /\ fill = [s \in Subscribers |-> 0]
  /\ missed = [s \in Subscribers |-> {}]
  /\ opened = [s \in Subscribers |-> 0]
  /\ closed = [s \in Subscribers |-> 0]
  /\ reply = [s \in Subscribers |-> "none"]
  /\ call = [p \in Parties |-> "idle"]
  /\ done = {}
  /\ emitted = 0

-----------------------------------------------------------------------------
(* The hub goroutine: run, handle, dispatch, subscribe, removeSub, drain. *)

\* run: select takes any ready case, so requests may still be served after Close.
TakeRequest(kind) ==
  /\ hub.at = "select"
  /\ mailbox # <<>> /\ Head(mailbox).kind = kind
  /\ mailbox' = Tail(mailbox)

\* retain: a full ring is shifted left by one.
Retain(e) ==
  IF Replay = 0 THEN retained
  ELSE IF Len(retained) = Replay THEN Append(Tail(retained), e)
  ELSE Append(retained, e)

\* A mutant: done is closed when the request is taken.
Dispatch_DoneFirst ==
  /\ TakeRequest("emit")
  /\ LET req == Head(mailbox)
     IN /\ retained' = Retain(req.event)
        /\ latest' = req.event
        /\ hub' = [at |-> "check", event |-> req.event, by |-> req.by, i |-> 1]
        /\ done' = done \cup ({req.by} \ {Nobody})
  /\ UNCHANGED <<subs, streamVars, callVars, reply, emitted>>

\* dispatch retains the event, then walks over the subscribers.
Dispatch ==
  /\ TakeRequest("emit")
  /\ LET req == Head(mailbox)
     IN /\ retained' = Retain(req.event)
        /\ latest' = req.event
        /\ hub' = [at |-> "check", event |-> req.event, by |-> req.by, i |-> 1]
  /\ UNCHANGED <<subs, streamVars, callVars, reply, done, emitted>>

\* A mutant: the removal of a stream moves the index on.
RemoveClosed_Skips ==
  /\ hub.at = "check" /\ hub.i <= Len(subs) /\ IsClosed(subs[hub.i])
  /\ subs' = RemoveAt(subs, hub.i)
  /\ hub' = [hub EXCEPT !.i = @ + 1]
  /\ UNCHANGED <<mailbox, retained, latest, streamVars, callVars, reply, done, emitted>>

\* A mutant: the removal of a stream starts the walk again.
RemoveClosed_Restarts ==
  /\ hub.at = "check" /\ hub.i <= Len(subs) /\ IsClosed(subs[hub.i])
  /\ subs' = RemoveAt(subs, hub.i)
  /\ hub' = [hub EXCEPT !.i = 1]
  /\ UNCHANGED <<mailbox, retained, latest, streamVars, callVars, reply, done, emitted>>

\* A stream found closed is removed, and the index stays.
RemoveClosed ==
  /\ hub.at = "check" /\ hub.i <= Len(subs) /\ IsClosed(subs[hub.i])
  /\ subs' = RemoveAt(subs, hub.i)
  /\ UNCHANGED <<mailbox, retained, latest, hub, streamVars, callVars, reply, done, emitted>>

\* A mutant: the marker of a closed stream is not looked at.
FindOpen_Any ==
  /\ hub.at = "check" /\ hub.i <= Len(subs)
  /\ hub' = [hub EXCEPT !.at = "put"]
  /\ UNCHANGED <<mailbox, retained, subs, latest, streamVars, callVars, reply, done, emitted>>

FindOpen ==
  /\ hub.at = "check" /\ hub.i <= Len(subs) /\ ~IsClosed(subs[hub.i])
  /\ hub' = [hub EXCEPT !.at = "put"]
  /\ UNCHANGED <<mailbox, retained, subs, latest, streamVars, callVars, reply, done, emitted>>

\* The second select of the loop; the stream may have been closed meanwhile.
PutEvent ==
  /\ hub.at = "put"
  /\ LET s == subs[hub.i]
     IN IF fill[s] < Queue
        THEN /\ put' = [put EXCEPT ![s] = Append(@, hub.event)]
             /\ fill' = [fill EXCEPT ![s] = @ + 1]
             /\ UNCHANGED missed
        ELSE /\ missed' = [missed EXCEPT ![s] = @ \cup {hub.event}]
             /\ UNCHANGED <<put, fill>>
  /\ hub' = [hub EXCEPT !.at = "check", !.i = @ + 1]
  /\ UNCHANGED <<mailbox, retained, subs, latest, opened, callVars, reply, done, emitted>>

\* The loop ends; handle's deferred close(req.done) follows.
Dispatched ==
  /\ hub.at = "check" /\ hub.i > Len(subs)
  /\ hub' = AtSelect
  /\ done' = done \cup ({hub.by} \ {Nobody})
  /\ UNCHANGED <<mailbox, retained, subs, latest, streamVars, callVars, reply, emitted>>

\* subscribe: the history first, then the registration, then the reply.
HandleSubscribe ==
  /\ TakeRequest("subscribe")
  /\ LET s == Head(mailbox).by
     IN /\ put' = [put EXCEPT ![s] = retained]
        /\ fill' = [fill EXCEPT ![s] = Len(retained)]
        /\ opened' = [opened EXCEPT ![s] = latest]
        /\ subs' = Append(subs, s)
        /\ reply' = [reply EXCEPT ![s] = "stream"]
  /\ UNCHANGED <<retained, hub, latest, missed, callVars, done, emitted>>

HandleUnsubscribe ==
  /\ TakeRequest("unsubscribe")
  /\ LET s == Head(mailbox).by
     IN \/ \E i \in 1..Len(subs) : subs[i] = s /\ subs' = RemoveAt(subs, i)
        \/ (\A i \in 1..Len(subs) : subs[i] # s) /\ UNCHANGED subs
  /\ UNCHANGED <<retained, hub, latest, streamVars, callVars, reply, done, emitted>>

BeginDrain ==
  /\ hub.at = "select" /\ stopped
  /\ hub' = [hub EXCEPT !.at = "drain"]
  /\ UNCHANGED <<mailbox, retained, subs, latest, streamVars, callVars, reply, done, emitted>>

\* drain: only a Subscribe is answered, with nil.
DrainOne ==
  /\ hub.at = "drain" /\ mailbox # <<>>
  /\ mailbox' = Tail(mailbox)
  /\ LET req == Head(mailbox)
     IN IF req.kind = "subscribe" THEN reply' = [reply EXCEPT ![req.by] = "nil"]
        ELSE UNCHANGED reply
  /\ UNCHANGED <<retained, subs, hub, latest, streamVars, callVars, done, emitted>>

HubExit ==
  /\ hub.at = "drain" /\ mailbox = <<>>
  /\ hub' = [hub EXCEPT !.at = "exited"]
  /\ UNCHANGED <<mailbox, retained, subs, latest, streamVars, callVars, reply, done, emitted>>

HubStep ==
  \/ Dispatch \/ RemoveClosed \/ FindOpen \/ PutEvent \/ Dispatched
  \/ HandleSubscribe \/ HandleUnsubscribe
  \/ BeginDrain \/ DrainOne \/ HubExit

-----------------------------------------------------------------------------
(* The callers. *)

HasRoom == Len(mailbox) < MailboxCap

Send(req) == HasRoom /\ mailbox' = Append(mailbox, req)
Goto(p, pc) == call' = [call EXCEPT ![p] = pc]

\* Emit: a full mailbox drops the event.
Emit ==
  /\ emitted < MaxEvents
  /\ IF HasRoom THEN emitted' = emitted + 1 /\ Send(Emitting(emitted + 1, Nobody))
     ELSE UNCHANGED <<mailbox, emitted>>
  /\ UNCHANGED <<retained, subs, hub, latest, streamVars, callVars, reply, done>>

EmitSyncCall(p) ==
  /\ call[p] = "idle"
  /\ Goto(p, "sending")
  /\ UNCHANGED <<hubVars, streamVars, stopped, closed, reply, done, emitted>>

EmitSyncSend(p) ==
  /\ call[p] = "sending"
  /\ emitted' = emitted + 1
  /\ Send(Emitting(emitted + 1, p))
  /\ Goto(p, "waiting")
  /\ UNCHANGED <<retained, subs, hub, latest, streamVars, stopped, closed, reply, done>>

EmitSyncDone(p) ==
  /\ call[p] = "waiting" /\ p \in done
  /\ Goto(p, "true")
  /\ UNCHANGED <<hubVars, streamVars, stopped, closed, reply, done, emitted>>

\* Either select finds the hub closed.
EmitSyncStopped(p) ==
  /\ call[p] \in {"sending", "waiting"} /\ stopped
  /\ Goto(p, "false")
  /\ UNCHANGED <<hubVars, streamVars, stopped, closed, reply, done, emitted>>

SubscribeCall(s) ==
  /\ call[s] = "idle"
  /\ Goto(s, IF stopped THEN "nil" ELSE "sending")
  /\ UNCHANGED <<hubVars, streamVars, stopped, closed, reply, done, emitted>>

SubscribeSend(s) ==
  /\ call[s] = "sending"
  /\ Send(Subscribing(s))
  /\ Goto(s, "waiting")
  /\ UNCHANGED <<retained, subs, hub, latest, streamVars, stopped, closed, reply, done, emitted>>

SubscribeReply(s) ==
  /\ call[s] = "waiting" /\ reply[s] # "none"
  /\ Goto(s, IF reply[s] = "stream" THEN "open" ELSE "nil")
  /\ UNCHANGED <<hubVars, streamVars, stopped, closed, reply, done, emitted>>

\* A mutant: the wait for the reply does not watch the hub's end.
SubscribeStopped_SendOnly(s) ==
  /\ call[s] = "sending" /\ stopped
  /\ Goto(s, "nil")
  /\ UNCHANGED <<hubVars, streamVars, stopped, closed, reply, done, emitted>>

\* Either select finds the hub closed, and no reply is there yet.
SubscribeStopped(s) ==
  /\ call[s] \in {"sending", "waiting"} /\ stopped /\ reply[s] = "none"
  /\ Goto(s, "nil")
  /\ UNCHANGED <<hubVars, streamVars, stopped, closed, reply, done, emitted>>

Receive(s) ==
  /\ call[s] = "open" /\ fill[s] > 0
  /\ fill' = [fill EXCEPT ![s] = @ - 1]
  /\ UNCHANGED <<hubVars, put, missed, opened, callVars, reply, done, emitted>>

\* Stream.Close: the marker, then the request, which a full mailbox drops.
StreamClose(s) ==
  /\ call[s] = "open"
  /\ Goto(s, "closing")
  /\ closed' = [closed EXCEPT ![s] = latest]
  /\ UNCHANGED <<hubVars, streamVars, stopped, reply, done, emitted>>

Unsubscribe(s) ==
  /\ call[s] = "closing"
  /\ Goto(s, "closed")
  /\ IF HasRoom THEN Send(Unsubscribing(s)) ELSE UNCHANGED mailbox
  /\ UNCHANGED <<retained, subs, hub, latest, streamVars, stopped, closed, reply, done, emitted>>

HubClose ==
  /\ stopped = FALSE
  /\ stopped' = TRUE
  /\ UNCHANGED <<hubVars, streamVars, call, closed, reply, done, emitted>>

SyncStep(p) == EmitSyncCall(p) \/ EmitSyncSend(p) \/ EmitSyncDone(p) \/ EmitSyncStopped(p)

StreamStep(s) ==
  \/ SubscribeCall(s) \/ SubscribeSend(s) \/ SubscribeReply(s) \/ SubscribeStopped(s)
  \/ Receive(s) \/ StreamClose(s) \/ Unsubscribe(s)

Next ==
  \/ HubStep \/ Emit \/ HubClose
  \/ \E p \in Syncers : SyncStep(p)
  \/ \E s \in Subscribers : StreamStep(s)

Spec == Init /\ [][Next]_vars

\* The goroutine runs, a caller whose wait is over returns, and a blocked sender is
\* served before later ones: a Go channel queues its senders.
Fairness ==
  /\ WF_vars(HubStep)
  /\ \A p \in Syncers : SF_vars(EmitSyncSend(p)) /\ WF_vars(EmitSyncDone(p) \/ EmitSyncStopped(p))
  /\ \A s \in Subscribers :
       SF_vars(SubscribeSend(s)) /\ WF_vars(SubscribeReply(s) \/ SubscribeStopped(s))

FairSpec == Spec /\ Fairness

-----------------------------------------------------------------------------
(* Properties. *)

\* "Replay and later live events can never duplicate" (subscribe), and "the single
\* hub goroutine preserves emitter ordering" (Hub): each stream carries every event
\* at most once and in the order of emission.
DeliveredInOrder ==
  \A s \in Subscribers : \A i, j \in 1..Len(put[s]) : i < j => put[s][i] < put[s][j]

\* dispatch: "each full subscriber channel drops this one event without affecting
\* the others".  Between two requests a registered open stream has had, from the
\* replayed history on, every event dispatched that its own full channel did not
\* refuse, whatever the other streams did.
NothingLostSilently ==
  hub.at = "select" =>
    \A i \in 1..Len(subs) :
      LET s == subs[i]
      IN ~IsClosed(s) =>
           \A e \in 1..latest :
             e + Replay > opened[s] =>
               e \in missed[s] \/ \E j \in 1..Len(put[s]) : put[s][j] = e

\* EmitSync "blocks until the hub worker has processed it (delivered it to every
\* subscriber's mailbox or dropped it because a mailbox was full)": when it has
\* returned true the fan-out of its event is over.  Session.stop closes the hub on
\* the strength of this.
SyncMeansProcessed ==
  \A p \in Syncers : call[p] = "true" => p # hub.by /\ \A i \in 1..Len(mailbox) : mailbox[i].by # p

\* unsubscribe: a request dropped by a full mailbox does no harm, "the reference is
\* released no later than the next event".  A closed stream is given no event
\* dispatched after its closing, and is gone when the first such event is through.
ClosedIsReleased ==
  \A s \in Subscribers : IsClosed(s) =>
    /\ \A j \in 1..Len(put[s]) : put[s][j] <= closed[s]
    /\ hub.at = "select" /\ latest > closed[s] => \A i \in 1..Len(subs) : subs[i] # s

\* Close: "Emitters and subscribers racing with Close remain non-blocking": every
\* EmitSync and Subscribe returns, served or not, hub closed or not.
CallsReturn == \A p \in Parties : []<>(call[p] \notin {"sending", "waiting"})
=============================================================================
