------------------------------- MODULE Session -------------------------------
(***************************************************************************)
(* The life of a Session (session.go) from Start to Done: calls of Start,  *)
(* which may fail and be repeated, Stop from the application, from         *)
(* Tunnel.Close and from the watcher goroutines, and the order in which    *)
(* stop takes the actors down.  The transport workers, the handshake, the  *)
(* Running actor and the ESP pipeline appear as the state a Session can    *)
(* see of them.  A critical section of s.mu is one step.                   *)
(***************************************************************************)
EXTENDS Naturals, Sequences

CONSTANT MaxStarts  \* bound of the model: calls of Start

ASSUME MaxStartsAssumption == MaxStarts \in Nat

Calls == 1 .. MaxStarts

VARIABLES started, starting, stopping,  \* the flags under s.mu
          installed, \* the call whose rx, tx and cancelRun are in s, or 0
          start,     \* where each call of Start is
          ctx,       \* the context each call has derived
          workers,   \* the transport workers of each call; down: one has ended
          running,   \* the Running actor and its exit value
          runningDone, \* the channel s.runningDone
          esp,       \* the pipeline
          ended,     \* Tunnel.markEnded has run
          outClosed, \* close(pktOut) has run
          fatal,     \* the channel espFatal
          proc,      \* the goroutines that may end the session
          stopper,   \* the one run of stop, with its snapshot
          done,      \* the channel s.done
          hubOpen,   \* the event hub still takes events
          brokenOnce,
          log        \* the events Started, Broken, Stopping and Stopped on the hub

startVars == <<started, starting, installed, start>>
actorVars == <<ctx, workers, running, runningDone, esp, fatal>>
endVars   == <<stopping, stopper, done, hubOpen>>
markVars  == <<ended, outClosed>>
vars == <<markVars, startVars, actorVars, proc, endVars, brokenOnce, log>>

Monitor(c) == <<"monitorTransport", c>>
WatchRunning == <<"watchRunning", 0>>
WatchData    == <<"watchDataFatal", 0>>
User         == <<"Stop", 0>>
Procs == {Monitor(c) : c \in Calls} \cup {WatchRunning, WatchData, User}

StartPC == {"idle", "begin", "handshake", "failing", "established", "abort",
            "refused", "failed", "ok"}
ProcPC  == {"none", "wait", "check", "fail", "emit", "done"}
StopPC  == {"none", "lock", "stopping", "mark", "cancel", "running", "close", "workers",
            "esp", "drain", "stopped", "done", "hub", "finished"}
Kinds   == {"started", "broken", "stopping", "stopped"}

\* An event of the session itself (by = 0), or of the handshake of one call,
\* which emits Broken and Stopped on the same hub when it fails.
Events == [kind : Kinds, by : {0} \cup Calls]

Event(kind, by) == [kind |-> kind, by |-> by]

\* stop's place in its sequence, its snapshot, and two facts of history: a fail
\* raced it, and its wait for the pipeline timed out.
Stoppers == [pc : StopPC, gen : {0} \cup Calls, live : BOOLEAN, raced : BOOLEAN, late : BOOLEAN]

TypeOK ==
  /\ started \in BOOLEAN /\ starting \in BOOLEAN /\ stopping \in BOOLEAN
  /\ ended \in BOOLEAN /\ outClosed \in BOOLEAN /\ runningDone \in BOOLEAN
  /\ done \in BOOLEAN /\ hubOpen \in BOOLEAN /\ brokenOnce \in BOOLEAN
  /\ installed \in {0} \cup Calls /\ (started => installed # 0)
  /\ start \in [Calls -> StartPC]
  /\ ctx \in [Calls -> {"none", "live", "over"}]
  /\ workers \in [Calls -> {"none", "up", "closing", "down"}]
  /\ running \in {"none", "unarmed", "armed", "nil", "cancelled", "error"}
  /\ esp \in {"none", "up", "down"}
  /\ fatal \in {"none", "queued", "taken"}
  /\ proc \in [Procs -> ProcPC]
  /\ stopper \in Stoppers
  /\ log \in Seq(Events)

Init ==
  /\ ended = FALSE /\ outClosed = FALSE
  /\ started = FALSE /\ starting = FALSE /\ stopping = FALSE /\ installed = 0
  /\ start = [c \in Calls |-> "idle"] /\ ctx = [c \in Calls |-> "none"]
  /\ workers = [c \in Calls |-> "none"]
  /\ running = "none" /\ runningDone = FALSE /\ esp = "none" /\ fatal = "none"
  /\ proc = [p \in Procs |-> IF p = User THEN "wait" ELSE "none"]
  /\ stopper = [pc |-> "none", gen |-> 0, live |-> FALSE, raced |-> FALSE, late |-> FALSE]
  /\ done = FALSE /\ hubOpen = TRUE /\ brokenOnce = FALSE /\ log = <<>>

\* Emit: a hub that is closed takes nothing.
Emit(kind, by) == log' = IF hubOpen THEN Append(log, Event(kind, by)) ELSE log

CancelCtx(c) == ctx' = [ctx EXCEPT ![c] = IF @ = "live" THEN "over" ELSE @]

CloseWorkers(c) == workers' = [workers EXCEPT ![c] = IF @ = "up" THEN "closing" ELSE @]

Goto(c, pc) == start' = [start EXCEPT ![c] = pc]

-----------------------------------------------------------------------------
(* Start. *)

\* Calls are numbered in the order in which they are made.
StartCall(c) ==
  /\ start[c] = "idle" /\ \A d \in 1 .. c - 1 : start[d] # "idle"
  /\ IF started \/ starting \/ stopping
     THEN Goto(c, "refused") /\ UNCHANGED starting
     ELSE Goto(c, "begin") /\ starting' = TRUE
  /\ UNCHANGED <<markVars, started, installed, actorVars, proc, endVars, brokenOnce, log>>

\* A mutant: a Stop that came before is not looked for.
StartInstall_Blind(c) ==
  /\ start[c] = "begin"
  /\ Goto(c, "handshake") /\ installed' = c
  /\ ctx' = [ctx EXCEPT ![c] = "live"]
  /\ workers' = [workers EXCEPT ![c] = "up"]
  /\ proc' = [proc EXCEPT ![Monitor(c)] = "wait"]
  /\ UNCHANGED starting
  /\ UNCHANGED <<markVars, started, running, runningDone, esp, fatal, endVars, brokenOnce, log>>

\* The second critical section: the workers of this call become visible to stop.
StartInstall(c) ==
  /\ start[c] = "begin"
  /\ IF stopping
     THEN /\ Goto(c, "refused") /\ starting' = FALSE
          /\ UNCHANGED <<installed, ctx, workers, proc>>
     ELSE /\ Goto(c, "handshake") /\ installed' = c
          /\ ctx' = [ctx EXCEPT ![c] = "live"]
          /\ workers' = [workers EXCEPT ![c] = "up"]
          /\ proc' = [proc EXCEPT ![Monitor(c)] = "wait"]
          /\ UNCHANGED starting
  /\ UNCHANGED <<markVars, started, running, runningDone, esp, fatal, endVars, brokenOnce, log>>

\* The handshake fails: Handshake.fail emits Broken, then Stopped; ctrl.Run
\* returns the error and Start takes its workers down.
HandshakeFails(c) ==
  /\ start[c] = "handshake"
  /\ Goto(c, "failing")
  /\ Emit("broken", c)
  /\ UNCHANGED <<markVars, started, starting, installed, actorVars, proc, endVars, brokenOnce>>

StartFails(c) ==
  /\ start[c] = "failing"
  /\ Goto(c, "abort")
  /\ Emit("stopped", c)
  /\ CancelCtx(c) /\ CloseWorkers(c)
  /\ UNCHANGED <<markVars, started, starting, installed, running, runningDone, esp, fatal,
                 proc, endVars, brokenOnce>>

\* ctrl.Run returns an established SA whose Running actor waits for Arm.
HandshakeSucceeds(c) ==
  /\ start[c] = "handshake"
  /\ Goto(c, "established") /\ running' = "unarmed"
  /\ UNCHANGED <<markVars, started, starting, installed, ctx, workers, runningDone, esp,
                 fatal, proc, endVars, brokenOnce, log>>

\* The waits for the workers are bounded, so Start returns whatever they do.
StartAborted(c) ==
  /\ start[c] = "abort"
  /\ Goto(c, "failed") /\ starting' = FALSE
  /\ UNCHANGED <<markVars, started, installed, actorVars, proc, endVars, brokenOnce, log>>

Committed(c) ==
  /\ started' = TRUE /\ starting' = FALSE /\ Goto(c, "ok")
  /\ running' = IF running = "unarmed" THEN "armed" ELSE running
  /\ esp' = "up"
  /\ proc' = [proc EXCEPT ![WatchRunning] = "wait", ![WatchData] = "wait"]
  /\ Emit("started", 0)
  /\ UNCHANGED <<ctx, workers>>

\* A mutant: a Stop that came during the handshake is not looked for.
StartCommit_Always(c) ==
  /\ start[c] = "established"
  /\ Committed(c)
  /\ UNCHANGED <<markVars, installed, runningDone, fatal, endVars, brokenOnce>>

\* The third critical section: commit, or leave the teardown to a Stop that
\* has come meanwhile.
StartCommit(c) ==
  /\ start[c] = "established"
  /\ IF stopping
     THEN /\ Goto(c, "abort") /\ CancelCtx(c) /\ CloseWorkers(c)
          /\ UNCHANGED <<started, starting, running, esp, proc, log>>
     ELSE Committed(c)
  /\ UNCHANGED <<markVars, installed, runningDone, fatal, endVars, brokenOnce>>

-----------------------------------------------------------------------------
(* What the other actors do. *)

\* The caller cancels the context it gave to Start, or its deadline passes.
CallerCancels(c) ==
  /\ ctx[c] = "live"
  /\ ctx' = [ctx EXCEPT ![c] = "over"]
  /\ UNCHANGED <<markVars, startVars, workers, running, runningDone, esp, fatal, proc, endVars,
                 brokenOnce, log>>

\* A worker ends: the wire failed under it, or it has seen its close.  Nothing
\* makes a Read or Write that blocks in the wire return.
WorkerEnds(c) ==
  /\ workers[c] \in {"up", "closing"}
  /\ workers' = [workers EXCEPT ![c] = "down"]
  /\ UNCHANGED <<markVars, startVars, ctx, running, runningDone, esp, fatal, proc, endVars,
                 brokenOnce, log>>

Over(c) == ctx[c] = "over"

ContextOver == installed # 0 /\ Over(installed)

\* Running ends with nil when the peer deletes the IKE SA, with an error on a
\* failure, and with ctx.Err() when its context is over; an expired deadline
\* is not context.Canceled and counts as an error.
RunningExits ==
  /\ \/ running = "armed" /\ running' \in {"nil", "error"}
     \/ /\ running \in {"armed", "unarmed"} /\ ContextOver
        /\ running' \in {"cancelled", "error"}
  /\ UNCHANGED <<markVars, startVars, ctx, workers, runningDone, esp, fatal, proc, endVars,
                 brokenOnce, log>>

EspFatal ==
  /\ esp = "up" /\ fatal = "none"
  /\ fatal' = "queued"
  /\ UNCHANGED <<markVars, startVars, ctx, workers, running, runningDone, esp, proc, endVars,
                 brokenOnce, log>>

\* The workers of the pipeline see that their context is over.
EspExits ==
  /\ esp = "up" /\ ContextOver
  /\ esp' = "down"
  /\ UNCHANGED <<markVars, startVars, ctx, workers, running, runningDone, fatal, proc, endVars,
                 brokenOnce, log>>

-----------------------------------------------------------------------------
(* The goroutines that may end the session. *)

Move(p, pc) == proc' = [proc EXCEPT ![p] = pc]

\* Stop: stopOnce lets the first caller run stop, the others wait for it; a
\* caller has nothing more to do when Stop returns.
Stop(p) ==
  /\ Move(p, "done")
  /\ stopper' = IF stopper.pc = "none" THEN [stopper EXCEPT !.pc = "lock"] ELSE stopper
  /\ UNCHANGED <<stopping, done, hubOpen>>

MonitorWakes(c) ==
  /\ proc[Monitor(c)] = "wait" /\ workers[c] = "down"
  /\ Move(Monitor(c), "check")
  /\ UNCHANGED <<markVars, startVars, actorVars, endVars, brokenOnce, log>>

MonitorChecks(c) ==
  /\ proc[Monitor(c)] = "check"
  /\ Move(Monitor(c), IF started /\ ~stopping THEN "fail" ELSE "done")
  /\ UNCHANGED <<markVars, startVars, actorVars, endVars, brokenOnce, log>>

\* A mutant: an actor that ends with its context is taken for part of a Stop.
WatchRunningWakes_Canceled ==
  /\ proc[WatchRunning] = "wait"
  /\ \/ running = "nil" /\ Stop(WatchRunning)
     \/ running = "cancelled" /\ Move(WatchRunning, "done") /\ UNCHANGED endVars
     \/ running = "error" /\ Move(WatchRunning, "fail") /\ UNCHANGED endVars
  /\ runningDone' = TRUE
  /\ UNCHANGED <<markVars, startVars, ctx, workers, running, esp, fatal, brokenOnce, log>>

\* watchRunning closes runningDone before it acts on the exit value.
WatchRunningWakes ==
  /\ proc[WatchRunning] = "wait"
  /\ \/ running = "nil" /\ Stop(WatchRunning)
     \/ running = "cancelled" /\ Move(WatchRunning, "check") /\ UNCHANGED endVars
     \/ running = "error" /\ Move(WatchRunning, "fail") /\ UNCHANGED endVars
  /\ runningDone' = TRUE
  /\ UNCHANGED <<markVars, startVars, ctx, workers, running, esp, fatal, brokenOnce, log>>

WatchRunningChecks ==
  /\ proc[WatchRunning] = "check"
  /\ IF stopping THEN Move(WatchRunning, "done") /\ UNCHANGED endVars ELSE Stop(WatchRunning)
  /\ UNCHANGED <<markVars, startVars, actorVars, brokenOnce, log>>

WatchDataWakes ==
  /\ proc[WatchData] = "wait"
  /\ \/ fatal = "queued" /\ fatal' = "taken" /\ Move(WatchData, "fail")
     \/ done /\ Move(WatchData, "done") /\ UNCHANGED fatal
  /\ UNCHANGED <<markVars, startVars, ctx, workers, running, runningDone, esp, endVars,
                 brokenOnce, log>>

\* watchControlUpdates is told that the peer deleted the current child: the
\* tunnel ends, the session stays.
ChildDeleted ==
  /\ started /\ ~done /\ ~ended
  /\ ended' = TRUE
  /\ UNCHANGED <<outClosed, startVars, actorVars, proc, endVars, brokenOnce, log>>

\* The application calls Stop, or Tunnel.Close, which only calls Stop and then
\* ends a tunnel that stop has ended.
StopCall ==
  /\ proc[User] = "wait" /\ Stop(User)
  /\ UNCHANGED <<markVars, startVars, actorVars, brokenOnce, log>>

\* A mutant: fail does not look at stopping.
FailChecks_Blind(p) ==
  /\ proc[p] = "fail"
  /\ Move(p, "emit")
  /\ UNCHANGED <<markVars, startVars, actorVars, endVars, brokenOnce, log>>

\* fail looks at stopping, then emits Broken once, then calls Stop.
FailChecks(p) ==
  /\ proc[p] = "fail"
  /\ Move(p, IF stopping THEN "done" ELSE "emit")
  /\ UNCHANGED <<markVars, startVars, actorVars, endVars, brokenOnce, log>>

FailEmits(p) ==
  /\ proc[p] = "emit"
  /\ IF brokenOnce THEN UNCHANGED log ELSE Emit("broken", 0)
  /\ brokenOnce' = TRUE /\ Stop(p)
  /\ UNCHANGED <<markVars, startVars, actorVars>>

-----------------------------------------------------------------------------
(* stop, by the caller that won stopOnce. *)

StopGoto(pc) == stopper' = [stopper EXCEPT !.pc = pc]

\* The snapshot.  A session that never had workers has nothing to take down.
\* raced: a fail is past its look at stopping.
StopLock ==
  /\ stopper.pc = "lock"
  /\ stopping' = TRUE
  /\ stopper' = [pc |-> IF ~started /\ installed = 0 THEN "stopped" ELSE "stopping",
                 gen |-> installed, live |-> started,
                 raced |-> \E p \in Procs : proc[p] = "emit", late |-> FALSE]
  /\ UNCHANGED <<markVars, startVars, actorVars, proc, done, hubOpen, brokenOnce, log>>

StopEmits ==
  /\ stopper.pc = "stopping"
  /\ Emit("stopping", 0) /\ StopGoto("mark")
  /\ UNCHANGED <<markVars, startVars, actorVars, proc, stopping, done, hubOpen, brokenOnce>>

StopMarks ==
  /\ stopper.pc = "mark"
  /\ ended' = (ended \/ stopper.live)
  /\ StopGoto("cancel") /\ UNCHANGED outClosed
  /\ UNCHANGED <<startVars, actorVars, proc, stopping, done, hubOpen, brokenOnce, log>>

StopCancels ==
  /\ stopper.pc = "cancel"
  /\ CancelCtx(stopper.gen) /\ StopGoto("running")
  /\ UNCHANGED <<markVars, startVars, workers, running, runningDone, esp, fatal, proc, stopping,
                 done, hubOpen, brokenOnce, log>>

\* A mutant: the close sequence runs even when the wait has timed out.
StopAwaitsRunning_Anyway ==
  /\ stopper.pc = "running"
  /\ StopGoto("close")
  /\ UNCHANGED <<markVars, startVars, actorVars, proc, stopping, done, hubOpen, brokenOnce, log>>

\* waitDoneResult on runningDone: only an actor that has provably exited leaves
\* the State to the close sequence.  The wait may time out, and there is nothing
\* to wait for when the handshake did not finish.
StopAwaitsRunning ==
  /\ stopper.pc = "running"
  /\ \/ stopper.live /\ runningDone /\ StopGoto("close")
     \/ ~(stopper.live /\ runningDone) /\ StopGoto("workers")
  /\ UNCHANGED <<markVars, startVars, actorVars, proc, stopping, done, hubOpen, brokenOnce, log>>

\* ctrl.Close has used the State, and returned.
StopClosed ==
  /\ stopper.pc = "close"
  /\ StopGoto("workers")
  /\ UNCHANGED <<markVars, startVars, actorVars, proc, stopping, done, hubOpen, brokenOnce, log>>

\* The waits for the workers are bounded.
StopWorkers ==
  /\ stopper.pc = "workers"
  /\ CloseWorkers(stopper.gen) /\ StopGoto("esp")
  /\ UNCHANGED <<markVars, startVars, ctx, running, runningDone, esp, fatal, proc, stopping,
                 done, hubOpen, brokenOnce, log>>

\* waitDone on the pipeline, for at most five seconds; late records that it was
\* in vain.
StopAwaitsEsp ==
  /\ stopper.pc = "esp"
  /\ \/ (stopper.live => esp = "down") /\ StopGoto("drain")
     \/ stopper.live /\ esp = "up" /\ stopper' = [stopper EXCEPT !.pc = "drain", !.late = TRUE]
  /\ UNCHANGED <<markVars, startVars, actorVars, proc, stopping, done, hubOpen, brokenOnce, log>>

\* The batches nobody has read are released (see Tunnel), then the channel is
\* closed.
StopDrains ==
  /\ stopper.pc = "drain"
  /\ outClosed' = TRUE /\ StopGoto("stopped")
  /\ UNCHANGED <<ended, startVars, actorVars, proc, stopping, done, hubOpen, brokenOnce, log>>

\* EmitSync of Stopped, close(done), and the end of the hub.
StopEnds ==
  /\ \/ stopper.pc = "stopped" /\ Emit("stopped", 0) /\ StopGoto("done") /\ UNCHANGED <<done, hubOpen>>
     \/ stopper.pc = "done" /\ done' = TRUE /\ StopGoto("hub") /\ UNCHANGED <<hubOpen, log>>
     \/ stopper.pc = "hub" /\ hubOpen' = FALSE /\ StopGoto("finished") /\ UNCHANGED <<done, log>>
  /\ UNCHANGED <<markVars, startVars, actorVars, proc, stopping, brokenOnce>>

-----------------------------------------------------------------------------
StartStep(c) == StartInstall(c) \/ StartFails(c) \/ StartCommit(c) \/ StartAborted(c)

ProcStep(p) == FailChecks(p) \/ FailEmits(p)

WatcherStep ==
  \/ \E c \in Calls : MonitorWakes(c) \/ MonitorChecks(c)
  \/ WatchRunningWakes \/ WatchRunningChecks \/ WatchDataWakes

StopStep == StopLock \/ StopEmits \/ StopMarks \/ StopCancels \/ StopAwaitsRunning \/ StopClosed
            \/ StopWorkers \/ StopAwaitsEsp \/ StopDrains \/ StopEnds

Next ==
  \/ \E c \in Calls : StartCall(c) \/ StartStep(c) \/ HandshakeFails(c) \/ HandshakeSucceeds(c)
                      \/ CallerCancels(c) \/ WorkerEnds(c)
  \/ RunningExits \/ EspFatal \/ EspExits
  \/ ChildDeleted \/ StopCall \/ WatcherStep \/ StopStep
  \/ \E p \in Procs : ProcStep(p)

Spec == Init /\ [][Next]_vars

\* What goroutines do by themselves; a handshake and an actor see that their
\* context is over.
SystemStep ==
  \/ \E c \in Calls : StartStep(c) \/ (Over(c) /\ HandshakeFails(c))
  \/ \E p \in Procs : ProcStep(p)
  \/ WatcherStep \/ StopStep \/ EspExits
  \/ ContextOver /\ RunningExits

\* Goroutines run.  Nothing is assumed of the wire, the peer and the
\* application.  No goroutine here loops, so fairness of their union is enough.
FairSpec == Spec /\ WF_vars(SystemStep)

-----------------------------------------------------------------------------
(* Properties. *)

\* The control State has one owner at a time: a handshake, the armed Running
\* actor, or the close sequence in stop.  This is the handoff the comment in
\* stop relies on instead of a lock.  (The variables keep their types.)
OneStateOwner ==
  LET InHandshake(c) == start[c] \in {"handshake", "failing"}
  IN  /\ TypeOK
      /\ \A c, d \in Calls : InHandshake(c) /\ InHandshake(d) => c = d
      /\ (\E c \in Calls : InHandshake(c)) => running # "armed" /\ stopper.pc # "close"
      /\ stopper.pc = "close" => running \notin {"armed", "unarmed"}

\* When Stop has returned nothing is left running: no context is live, no
\* transport worker was forgotten, the pipeline is down, and a tunnel that was
\* handed out has ended; whenever Stop came, and whichever Start it overlapped.
\* On the way pktOut is closed only when the pipeline can no longer send into
\* it (a send on a closed channel panics).  The exception is a pipeline that
\* outlives the five seconds stop waits for it.
StopLeavesNothing ==
  /\ stopper.pc = "finished" =>
       /\ \A c \in Calls : ctx[c] # "live" /\ workers[c] # "up"
       /\ esp # "up" \/ stopper.late
       /\ started => ended /\ outClosed
  /\ outClosed => esp # "up" \/ stopper.late

\* What an application sees on the hub.  Each event comes at most once from the
\* session, and once from the handshake of each failed call of Start: that
\* gives Broken, then Stopped, and no other call's events come in between; all
\* of it before the Started of the call that succeeds.  Of the session's own
\* events Started is the first, Broken comes only of a session seen started,
\* Stopped after Stopping, and Broken before Stopping unless fail had looked at
\* stopping before stop set it: fail then emits without the lock, so Broken may
\* follow.
EventsInOrder ==
  \A i, j \in 1 .. Len(log) :
    /\ log[i] = log[j] => i = j
    /\ log[i].kind = "started" /\ log[j].by = 0 => i <= j
    /\ log[i].kind = "started" /\ log[j].by # 0 => j < i
    /\ log[i] = Event("stopping", 0) /\ log[j] = Event("stopped", 0) => i < j
    /\ log[i] = Event("stopping", 0) /\ log[j] = Event("broken", 0) /\ i < j => stopper.raced
    /\ log[i] = Event("broken", 0) => \E k \in 1 .. i : log[k] = Event("started", 0)
    /\ log[i].kind = "stopped" /\ log[i].by # 0 =>
         \E k \in 1 .. i - 1 : /\ log[k] = Event("broken", log[i].by)
                               /\ \A m \in k + 1 .. i - 1 : log[m].by = 0

\* The causes for which a session must end: Stop was called, the context of a
\* started session is over, its Running actor has exited, its data plane has
\* failed, or its transport failed while monitorTransport was watching.
MustEnd ==
  \/ stopper.pc # "none"
  \/ started /\ (ContextOver \/ running \in {"nil", "cancelled", "error"} \/ fatal = "queued")
  \/ started /\ proc[Monitor(installed)] = "wait" /\ workers[installed] = "down"

\* Each of them ends it: Stop completes and Done is closed, even if a wire
\* blocks its worker forever and Stop overlaps a Start.
SessionEnds == MustEnd ~> stopper.pc = "finished"
=============================================================================
