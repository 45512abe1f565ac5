---------------------------- MODULE SessionProofs ----------------------------
(***************************************************************************)
(* Safety of the life of a Session for any number of calls of Start.       *)
(***************************************************************************)
EXTENDS Session, TLAPS

-----------------------------------------------------------------------------
(* The inductive invariant. *)

Active(c) == start[c] \in {"begin", "handshake", "failing", "established", "abort"}

\* s.starting is held by one call at a time, and s.started by the call whose
\* workers are installed.
StartInv ==
  /\ \A c, d \in Calls : Active(c) /\ Active(d) => c = d
  /\ \A c \in Calls : Active(c) => starting /\ ~started
  /\ starting => \E c \in Calls : Active(c)
  /\ \A c \in Calls : start[c] \in {"handshake", "failing", "established", "ok"} => installed = c
  /\ started => installed \in Calls /\ start[installed] = "ok"
  /\ \A c \in Calls : start[c] = "ok" => started

Exited == {"nil", "cancelled", "error"}

\* One handshake succeeds at most, and it is over when the Running actor exists.
RunInv ==
  /\ running # "none" => \A c \in Calls : start[c] \notin {"begin", "handshake", "failing"}
  /\ running # "none" => started \/ stopping \/ \E c \in Calls : start[c] = "established"
  /\ running = "armed" => started
  /\ runningDone => running \in Exited
  /\ esp = "up" => started

\* What a call has brought up is live only while that call is installed.
LiveInv ==
  \A c \in Calls :
    ctx[c] = "live" \/ workers[c] = "up"
      => installed = c /\ start[c] \in {"handshake", "failing", "established", "ok"}

Ended      == {"stopped", "done", "hub", "finished"}
EspPassed  == {"drain"} \cup Ended
WorkersPassed == {"esp"} \cup EspPassed
CancelPassed  == {"running", "close", "workers"} \cup WorkersPassed
MarkPassed    == {"cancel"} \cup CancelPassed

\* stop works on a snapshot that stays true, and each of its steps stays done.
StopInv ==
  /\ stopping <=> stopper.pc \notin {"none", "lock"}
  /\ stopping => stopper.gen = installed /\ stopper.live = started
  /\ stopping /\ installed = 0 => stopper.pc \in Ended
  /\ stopper.pc = "close" => runningDone
  /\ stopper.pc \in MarkPassed /\ started => ended
  /\ stopper.pc \in CancelPassed => \A c \in Calls : ctx[c] # "live"
  /\ stopper.pc \in WorkersPassed => \A c \in Calls : workers[c] # "up"
  /\ stopper.pc \in EspPassed => esp # "up" \/ stopper.late
  /\ stopper.pc \in Ended /\ started => outClosed
  /\ outClosed => stopper.pc \in Ended
  /\ ~hubOpen => stopper.pc = "finished"

\* The watchers of a session exist when it is started, and only they fail it.
ProcInv ==
  /\ \A p \in Procs : proc[p] \in {"fail", "emit"} => started
  /\ proc[WatchRunning] # "none" => started
  /\ proc[WatchData] # "none" => started

\* Without a fail that raced stop, nobody emits Broken any more.
RaceInv == stopping /\ ~stopper.raced => \A p \in Procs : proc[p] # "emit"

Gone == {"failing", "abort", "failed"}

\* An event is in the log only when the step that emits it has been made, and
\* the Broken of a call is the last event of a call until its Stopped follows.
LogInv ==
  /\ started <=> \E i \in 1 .. Len(log) : log[i] = Event("started", 0)
  /\ \A i \in 1 .. Len(log) :
       /\ log[i].kind \in {"started", "stopping"} => log[i].by = 0
       /\ log[i] = Event("broken", 0) => brokenOnce /\ started
       /\ log[i] = Event("stopping", 0) => stopper.pc \notin {"none", "lock", "stopping"}
       /\ log[i] = Event("stopped", 0) => stopper.pc \in Ended \ {"stopped"}
       /\ log[i].by # 0 => start[log[i].by] \in Gone
       /\ log[i].by # 0 /\ log[i].kind = "stopped" => start[log[i].by] # "failing"
  /\ \A c \in Calls : start[c] = "failing" /\ hubOpen =>
       \E k \in 1 .. Len(log) : /\ log[k] = Event("broken", c)
                                /\ \A m \in k + 1 .. Len(log) : log[m].by = 0
  /\ EventsInOrder

IInv == TypeOK /\ StartInv /\ RunInv /\ LiveInv /\ StopInv /\ ProcInv /\ RaceInv /\ LogInv

-----------------------------------------------------------------------------
(* Facts about the operators. *)

LEMMA AppendFacts ==
  ASSUME NEW S, NEW q \in Seq(S), NEW x \in S
  PROVE  /\ Append(q, x) \in Seq(S) /\ Len(Append(q, x)) = Len(q) + 1 /\ Len(q) \in Nat
         /\ Append(q, x)[Len(q) + 1] = x
         /\ \A i \in 1 .. Len(q) : Append(q, x)[i] = q[i]
  OBVIOUS

LEMMA LogTypes ==
  /\ \A q \in Seq(Events), e \in Events : Append(q, e) \in Seq(Events)
  /\ \A k \in Kinds, c \in {0} \cup Calls : Event(k, c) \in Events
<1>1. \A q \in Seq(Events), e \in Events : Append(q, e) \in Seq(Events)
  OBVIOUS
<1>2. \A k \in Kinds, c \in {0} \cup Calls : Event(k, c) \in Events
  BY Zenon DEF Events, Event
<1> QED
  BY <1>1, <1>2, Zenon

LEMMA ProcFacts ==
  /\ WatchRunning \in Procs /\ WatchData \in Procs /\ User \in Procs
  /\ \A c \in Calls : Monitor(c) \in Procs /\ Monitor(c) # WatchRunning /\ Monitor(c) # WatchData
  /\ WatchRunning # WatchData /\ User # WatchRunning /\ User # WatchData
BY Zenon DEF Procs, Monitor, WatchRunning, WatchData, User

\* Zero is no call: it stands for a session that has installed nothing.
LEMMA NoCallZero == 0 \notin Calls
BY MaxStartsAssumption DEF Calls

-----------------------------------------------------------------------------
(* Start: the flags, the phase of a call and what is installed. *)

\* Only Start touches them.
LEMMA StartChanges ==
  ASSUME Next
  PROVE  \/ \E c \in Calls : StartCall(c) \/ StartInstall(c) \/ StartCommit(c) \/
               StartAborted(c) \/ HandshakeFails(c) \/ StartFails(c) \/ HandshakeSucceeds(c)
         \/ UNCHANGED startVars
BY ZenonT(30) DEF Next, StartStep, ProcStep, WatcherStep, StopStep, CallerCancels, WorkerEnds,
       MonitorWakes, MonitorChecks, RunningExits, EspFatal, EspExits, ChildDeleted, StopCall,
       WatchRunningWakes, WatchRunningChecks, WatchDataWakes, StopLock, StopEmits, StopMarks,
       StopCancels, StopAwaitsRunning, StopClosed, StopWorkers, StopAwaitsEsp, StopDrains,
       StopEnds, FailChecks, FailEmits, Stop, startVars, actorVars, endVars, markVars

\* Calls of Start take turns.
LEMMA StartStepInv ==
  ASSUME IInv, Next
  PROVE  StartInv'
<1> USE DEF startVars, actorVars, endVars, markVars, Active
<1>t. TypeOK /\ StartInv
  BY Zenon DEF IInv
<1>1. ASSUME NEW c \in Calls, StartCall(c)
      PROVE  StartInv'
  BY <1>t, <1>1, NoCallZero DEF TypeOK, StartInv, StartCall, Goto
<1>2. ASSUME NEW c \in Calls, StartInstall(c)
      PROVE  StartInv'
  BY <1>t, <1>2 DEF TypeOK, StartInv, StartInstall, Goto
<1>3. ASSUME NEW c \in Calls, StartCommit(c)
      PROVE  StartInv'
  BY <1>t, <1>3 DEF TypeOK, StartInv, StartCommit, Committed, Goto, CancelCtx, CloseWorkers, Emit
<1>4. ASSUME NEW c \in Calls, StartAborted(c)
      PROVE  StartInv'
  BY <1>t, <1>4 DEF TypeOK, StartInv, StartAborted, Goto
<1>5. ASSUME NEW c \in Calls, HandshakeFails(c)
      PROVE  StartInv'
  BY <1>t, <1>5 DEF TypeOK, StartInv, HandshakeFails, Goto
<1>5a. ASSUME NEW c \in Calls, StartFails(c)
      PROVE  StartInv'
  BY <1>t, <1>5a DEF TypeOK, StartInv, StartFails, Goto, CancelCtx, CloseWorkers
<1>6. ASSUME NEW c \in Calls, HandshakeSucceeds(c)
      PROVE  StartInv'
  BY <1>t, <1>6 DEF TypeOK, StartInv, HandshakeSucceeds, Goto
<1>7. ASSUME UNCHANGED startVars
      PROVE  StartInv'
  BY <1>t, <1>7, Zenon DEF TypeOK, StartInv
<1> QED
  BY <1>1, <1>2, <1>3, <1>4, <1>5, <1>5a, <1>6, <1>7, StartChanges, Zenon

-----------------------------------------------------------------------------
(* The Running actor and the pipeline. *)

\* Who touches them.
LEMMA RunChanges ==
  ASSUME Next
  PROVE  \/ \E c \in Calls : StartCall(c) \/ StartInstall(c) \/ StartCommit(c) \/
               StartAborted(c) \/ HandshakeFails(c) \/ StartFails(c) \/ HandshakeSucceeds(c)
         \/ RunningExits \/ EspExits \/ WatchRunningWakes \/ StopLock
         \/ UNCHANGED <<startVars, running, runningDone, esp, stopping>>
BY ZenonT(30) DEF Next, StartStep, ProcStep, WatcherStep, StopStep, CallerCancels, WorkerEnds,
       MonitorWakes, MonitorChecks, EspFatal, ChildDeleted, StopCall, WatchRunningChecks,
       WatchDataWakes, StopEmits, StopMarks, StopCancels, StopAwaitsRunning, StopClosed,
       StopWorkers, StopAwaitsEsp, StopDrains, StopEnds, FailChecks, FailEmits, Stop, startVars,
       actorVars, endVars, markVars

\* A handshake and a Running actor never coexist.
LEMMA RunStepInv ==
  ASSUME IInv, Next
  PROVE  RunInv'
<1> USE DEF startVars, actorVars, endVars, markVars, Active, Exited
<1>t. TypeOK /\ StartInv /\ RunInv
  BY Zenon DEF IInv
<1>1. ASSUME NEW c \in Calls, StartCall(c)
      PROVE  RunInv'
  BY <1>t, <1>1 DEF TypeOK, StartInv, RunInv, StartCall, Goto
<1>2. ASSUME NEW c \in Calls, StartInstall(c)
      PROVE  RunInv'
  BY <1>t, <1>2, Zenon DEF TypeOK, StartInv, RunInv, StartInstall, Goto
<1>3. ASSUME NEW c \in Calls, StartCommit(c)
      PROVE  RunInv'
  BY <1>t, <1>3 DEF TypeOK, StartInv, RunInv, StartCommit, Committed, Goto, CancelCtx,
         CloseWorkers, Emit
<1>4. ASSUME NEW c \in Calls, StartAborted(c)
      PROVE  RunInv'
  BY <1>t, <1>4, Zenon DEF TypeOK, StartInv, RunInv, StartAborted, Goto
<1>5. ASSUME NEW c \in Calls, HandshakeFails(c)
      PROVE  RunInv'
  BY <1>t, <1>5, Zenon DEF TypeOK, StartInv, RunInv, HandshakeFails, Goto
<1>5a. ASSUME NEW c \in Calls, StartFails(c)
      PROVE  RunInv'
  BY <1>t, <1>5a, Zenon DEF TypeOK, StartInv, RunInv, StartFails, Goto, CancelCtx, CloseWorkers
<1>6. ASSUME NEW c \in Calls, HandshakeSucceeds(c)
      PROVE  RunInv'
  BY <1>t, <1>6, Zenon DEF TypeOK, StartInv, RunInv, HandshakeSucceeds, Goto
<1>7. ASSUME RunningExits
      PROVE  RunInv'
  BY <1>t, <1>7, Zenon DEF TypeOK, StartInv, RunInv, RunningExits
<1>8. ASSUME EspExits
      PROVE  RunInv'
  BY <1>t, <1>8, Zenon DEF TypeOK, StartInv, RunInv, EspExits
<1>9. ASSUME WatchRunningWakes
      PROVE  RunInv'
  BY <1>t, <1>9, Zenon DEF TypeOK, StartInv, RunInv, WatchRunningWakes, Stop, Move
<1>10. ASSUME StopLock
      PROVE  RunInv'
  BY <1>t, <1>10, Zenon DEF TypeOK, StartInv, RunInv, StopLock
<1>11. ASSUME UNCHANGED <<startVars, running, runningDone, esp, stopping>>
      PROVE  RunInv'
  BY <1>t, <1>11, Zenon DEF TypeOK, StartInv, RunInv
<1> QED
  BY <1>1, <1>2, <1>3, <1>4, <1>5, <1>5a, <1>6, <1>7, <1>8, <1>9, <1>10, <1>11, RunChanges, Zenon

-----------------------------------------------------------------------------
(* Contexts and transport workers. *)

\* Who touches them.
LEMMA LiveChanges ==
  ASSUME Next
  PROVE  \/ \E c \in Calls : StartCall(c) \/ StartInstall(c) \/ StartCommit(c) \/
               StartAborted(c) \/ HandshakeFails(c) \/ StartFails(c) \/ HandshakeSucceeds(c) \/ CallerCancels(c) \/
               WorkerEnds(c)
         \/ StopCancels \/ StopWorkers
         \/ UNCHANGED <<startVars, ctx, workers>>
BY ZenonT(30) DEF Next, StartStep, ProcStep, WatcherStep, StopStep, MonitorWakes, MonitorChecks,
       RunningExits, EspFatal, EspExits, ChildDeleted, StopCall, WatchRunningWakes,
       WatchRunningChecks, WatchDataWakes, StopLock, StopEmits, StopMarks, StopAwaitsRunning,
       StopClosed, StopAwaitsEsp, StopDrains, StopEnds, FailChecks, FailEmits, Stop, startVars,
       actorVars, endVars, markVars

\* A call that gives up takes down what it has brought up.
LEMMA LiveStepInv ==
  ASSUME IInv, Next
  PROVE  LiveInv'
<1> USE DEF startVars, actorVars, endVars, markVars, Active
<1>t. TypeOK /\ StartInv /\ LiveInv
  BY Zenon DEF IInv
<1>1. ASSUME NEW c \in Calls, StartCall(c)
      PROVE  LiveInv'
  BY <1>t, <1>1 DEF TypeOK, StartInv, LiveInv, StartCall, Goto
<1>2. ASSUME NEW c \in Calls, StartInstall(c)
      PROVE  LiveInv'
  BY <1>t, <1>2 DEF TypeOK, StartInv, LiveInv, StartInstall, Goto
<1>3. ASSUME NEW c \in Calls, StartCommit(c)
      PROVE  LiveInv'
  BY <1>t, <1>3 DEF TypeOK, StartInv, LiveInv, StartCommit, Committed, Goto, CancelCtx,
         CloseWorkers, Emit
<1>4. ASSUME NEW c \in Calls, StartAborted(c)
      PROVE  LiveInv'
  BY <1>t, <1>4 DEF TypeOK, StartInv, LiveInv, StartAborted, Goto
<1>5. ASSUME NEW c \in Calls, HandshakeFails(c)
      PROVE  LiveInv'
  BY <1>t, <1>5 DEF TypeOK, StartInv, LiveInv, HandshakeFails, Goto
<1>5a. ASSUME NEW c \in Calls, StartFails(c)
      PROVE  LiveInv'
  BY <1>t, <1>5a DEF TypeOK, StartInv, LiveInv, StartFails, Goto, CancelCtx, CloseWorkers
<1>6. ASSUME NEW c \in Calls, HandshakeSucceeds(c)
      PROVE  LiveInv'
  BY <1>t, <1>6 DEF TypeOK, StartInv, LiveInv, HandshakeSucceeds, Goto
<1>7. ASSUME NEW c \in Calls, CallerCancels(c)
      PROVE  LiveInv'
  BY <1>t, <1>7 DEF TypeOK, StartInv, LiveInv, CallerCancels
<1>8. ASSUME NEW c \in Calls, WorkerEnds(c)
      PROVE  LiveInv'
  BY <1>t, <1>8, Zenon DEF TypeOK, StartInv, LiveInv, WorkerEnds
<1>9. ASSUME StopCancels
      PROVE  LiveInv'
  BY <1>t, <1>9 DEF TypeOK, StartInv, LiveInv, StopCancels, CancelCtx, StopGoto
<1>10. ASSUME StopWorkers
      PROVE  LiveInv'
  BY <1>t, <1>10 DEF TypeOK, StartInv, LiveInv, StopWorkers, CloseWorkers, StopGoto
<1>11. ASSUME UNCHANGED <<startVars, ctx, workers>>
      PROVE  LiveInv'
  BY <1>t, <1>11, Zenon DEF TypeOK, StartInv, LiveInv
<1> QED
  BY <1>1, <1>2, <1>3, <1>4, <1>5, <1>5a, <1>6, <1>7, <1>8, <1>9, <1>10, <1>11, LiveChanges, Zenon

-----------------------------------------------------------------------------
(* stop. *)

\* Who touches what stop relies on.
LEMMA StopChanges ==
  ASSUME Next
  PROVE  \/ \E c \in Calls : StartInstall(c) \/ StartCommit(c) \/ StartFails(c) \/
               CallerCancels(c) \/ WorkerEnds(c)
         \/ \E p \in Procs : FailEmits(p)
         \/ EspExits \/ WatchRunningWakes \/ WatchRunningChecks \/ ChildDeleted \/ StopCall
         \/ StopLock \/ StopEmits \/ StopMarks \/ StopCancels \/ StopAwaitsRunning
         \/ StopClosed \/ StopWorkers \/ StopAwaitsEsp \/ StopDrains \/ StopEnds
         \/ UNCHANGED <<stopping, stopper, installed, started, runningDone, markVars, ctx,
               workers, esp, hubOpen>>
BY ZenonT(30) DEF Next, StartStep, ProcStep, WatcherStep, StopStep, StartCall, StartAborted,
       HandshakeFails, HandshakeSucceeds, MonitorWakes, MonitorChecks, RunningExits, EspFatal, WatchDataWakes,
       FailChecks, Stop, startVars, actorVars, endVars, markVars

\* The snapshot of stop stays true while it works, and what it took down stays down.
LEMMA StopStepInv ==
  ASSUME IInv, Next
  PROVE  StopInv'
<1> USE DEF startVars, actorVars, endVars, markVars, Ended, EspPassed, WorkersPassed, CancelPassed,
            MarkPassed, Stoppers
<1>t. TypeOK /\ StartInv /\ RunInv /\ LiveInv /\ StopInv
  BY Zenon DEF IInv
<1>1. ASSUME NEW c \in Calls, StartInstall(c)
      PROVE  StopInv'
  BY <1>t, <1>1, Zenon DEF TypeOK, StopInv, StartInstall, Goto
<1>2. ASSUME NEW c \in Calls, StartCommit(c)
      PROVE  StopInv'
  BY <1>t, <1>2 DEF TypeOK, StopInv, StartCommit, Committed, Goto, CancelCtx, CloseWorkers, Emit
<1>3. ASSUME NEW c \in Calls, StartFails(c)
      PROVE  StopInv'
  BY <1>t, <1>3, Zenon DEF TypeOK, StopInv, StartFails, Goto, CancelCtx, CloseWorkers
<1>4. ASSUME NEW c \in Calls, CallerCancels(c)
      PROVE  StopInv'
  BY <1>t, <1>4, Zenon DEF TypeOK, StopInv, CallerCancels
<1>5. ASSUME NEW c \in Calls, WorkerEnds(c)
      PROVE  StopInv'
  BY <1>t, <1>5, Zenon DEF TypeOK, StopInv, WorkerEnds
<1>6. ASSUME EspExits
      PROVE  StopInv'
  BY <1>t, <1>6, Zenon DEF TypeOK, StopInv, EspExits
<1>7. ASSUME WatchRunningWakes
      PROVE  StopInv'
  BY <1>t, <1>7 DEF TypeOK, StopInv, WatchRunningWakes, Stop, Move
<1>8. ASSUME WatchRunningChecks
      PROVE  StopInv'
  BY <1>t, <1>8 DEF TypeOK, StopInv, WatchRunningChecks, Stop, Move
<1>9. ASSUME ChildDeleted
      PROVE  StopInv'
  BY <1>t, <1>9, Zenon DEF TypeOK, StopInv, ChildDeleted
<1>10. ASSUME StopCall
      PROVE  StopInv'
  BY <1>t, <1>10, Zenon DEF TypeOK, StopInv, StopCall, Stop, Move
<1>11. ASSUME NEW p \in Procs, FailEmits(p)
      PROVE  StopInv'
  BY <1>t, <1>11, Zenon DEF TypeOK, StopInv, FailEmits, Emit, Move, Stop
<1>12. ASSUME StopLock
      PROVE  StopInv'
  BY <1>t, <1>12 DEF TypeOK, StopInv, RunInv, LiveInv, StopLock
<1>13. ASSUME StopEmits
      PROVE  StopInv'
  BY <1>t, <1>13, Zenon DEF TypeOK, StopInv, StopEmits, Emit, StopGoto
<1>14. ASSUME StopMarks
      PROVE  StopInv'
  BY <1>t, <1>14, Zenon DEF TypeOK, StopInv, StopMarks, StopGoto
<1>15. ASSUME StopCancels
      PROVE  StopInv'
  BY <1>t, <1>15 DEF TypeOK, StopInv, LiveInv, StopCancels, CancelCtx, StopGoto
<1>16. ASSUME StopAwaitsRunning
      PROVE  StopInv'
  BY <1>t, <1>16 DEF TypeOK, StopInv, StopAwaitsRunning, StopGoto
<1>17. ASSUME StopClosed
      PROVE  StopInv'
  BY <1>t, <1>17, Zenon DEF TypeOK, StopInv, StopClosed, StopGoto
<1>18. ASSUME StopWorkers
      PROVE  StopInv'
  BY <1>t, <1>18 DEF TypeOK, StopInv, LiveInv, StopWorkers, CloseWorkers, StopGoto
<1>19. ASSUME StopAwaitsEsp
      PROVE  StopInv'
  BY <1>t, <1>19, Zenon DEF TypeOK, StopInv, RunInv, StopAwaitsEsp, StopGoto
<1>20. ASSUME StopDrains
      PROVE  StopInv'
  BY <1>t, <1>20, Zenon DEF TypeOK, StopInv, StopDrains, StopGoto
<1>21. ASSUME StopEnds
      PROVE  StopInv'
  BY <1>t, <1>21 DEF TypeOK, StopInv, StopEnds, Emit, StopGoto
<1>22. ASSUME UNCHANGED <<stopping, stopper, installed, started, runningDone, markVars, ctx, workers,
                          esp, hubOpen>>
      PROVE  StopInv'
  BY <1>t, <1>22, Zenon DEF TypeOK, StopInv
<1> QED
  BY <1>1, <1>2, <1>3, <1>4, <1>5, <1>6, <1>7, <1>8, <1>9, <1>10, <1>11, <1>12, <1>13, <1>14,
         <1>15, <1>16, <1>17, <1>18, <1>19, <1>20, <1>21, <1>22, StopChanges, Zenon

-----------------------------------------------------------------------------
(* The watchers. *)

\* Who moves them.
LEMMA ProcChanges ==
  ASSUME Next
  PROVE  \/ \E c \in Calls : StartInstall(c) \/ StartCommit(c) \/ MonitorWakes(c) \/
               MonitorChecks(c)
         \/ \E p \in Procs : FailChecks(p) \/ FailEmits(p)
         \/ StopCall \/ WatchRunningWakes \/ WatchRunningChecks \/ WatchDataWakes
         \/ UNCHANGED <<proc, started>>
BY ZenonT(30) DEF Next, StartStep, ProcStep, WatcherStep, StopStep, StartCall, StartAborted,
       HandshakeFails, StartFails, HandshakeSucceeds, CallerCancels, WorkerEnds, RunningExits, EspFatal,
       EspExits, ChildDeleted, StopLock, StopEmits, StopMarks, StopCancels, StopAwaitsRunning,
       StopClosed, StopWorkers, StopAwaitsEsp, StopDrains, StopEnds, Stop, startVars, actorVars,
       endVars, markVars

\* Only a started session is failed.
LEMMA ProcStepInv ==
  ASSUME IInv, Next
  PROVE  ProcInv'
<1> USE DEF startVars, actorVars, endVars, markVars
<1>t. TypeOK /\ ProcInv
  BY Zenon DEF IInv
<1>1. ASSUME NEW c \in Calls, StartInstall(c)
      PROVE  ProcInv'
  BY <1>t, <1>1, ProcFacts DEF TypeOK, ProcInv, StartInstall, Goto
<1>2. ASSUME NEW c \in Calls, StartCommit(c)
      PROVE  ProcInv'
  BY <1>t, <1>2, ProcFacts, Zenon DEF TypeOK, ProcInv, StartCommit, Committed, Goto, CancelCtx,
         CloseWorkers, Emit
<1>3. ASSUME NEW c \in Calls, MonitorWakes(c)
      PROVE  ProcInv'
  BY <1>t, <1>3, ProcFacts, Zenon DEF TypeOK, ProcInv, MonitorWakes, Move
<1>4. ASSUME NEW c \in Calls, MonitorChecks(c)
      PROVE  ProcInv'
  BY <1>t, <1>4, ProcFacts, Zenon DEF TypeOK, ProcInv, MonitorChecks, Move
<1>5. ASSUME StopCall
      PROVE  ProcInv'
  BY <1>t, <1>5, ProcFacts, Zenon DEF TypeOK, ProcInv, StopCall, Stop, Move
<1>6. ASSUME WatchRunningWakes
      PROVE  ProcInv'
  BY <1>t, <1>6, ProcFacts, Zenon DEF TypeOK, ProcInv, WatchRunningWakes, Stop, Move
<1>7. ASSUME WatchRunningChecks
      PROVE  ProcInv'
  BY <1>t, <1>7, ProcFacts, Zenon DEF TypeOK, ProcInv, WatchRunningChecks, Stop, Move
<1>8. ASSUME WatchDataWakes
      PROVE  ProcInv'
  BY <1>t, <1>8, ProcFacts, Zenon DEF TypeOK, ProcInv, WatchDataWakes, Move
<1>9. ASSUME NEW p \in Procs, FailChecks(p)
      PROVE  ProcInv'
  BY <1>t, <1>9, ProcFacts, Zenon DEF TypeOK, ProcInv, FailChecks, Move
<1>10. ASSUME NEW p \in Procs, FailEmits(p)
      PROVE  ProcInv'
  BY <1>t, <1>10, ProcFacts, Zenon DEF TypeOK, ProcInv, FailEmits, Emit, Move, Stop
<1>11. ASSUME UNCHANGED <<proc, started>>
      PROVE  ProcInv'
  BY <1>t, <1>11, Zenon DEF TypeOK, ProcInv
<1> QED
  BY <1>1, <1>2, <1>3, <1>4, <1>5, <1>6, <1>7, <1>8, <1>9, <1>10, <1>11, ProcChanges, Zenon

-----------------------------------------------------------------------------
(* The race of fail against stop. *)

\* stop takes its snapshot once.
LEMMA SnapshotOnce ==
  ASSUME TypeOK, Next
  PROVE  StopLock \/ (stopping' = stopping /\ stopper'.raced = stopper.raced)
<1> USE DEF Stoppers
<1>1. StopLock \/ stopping' = stopping
  BY ZenonT(30) DEF Next, StartStep, ProcStep, WatcherStep, StopStep, StartCall, StartInstall,
       StartCommit, StartAborted, HandshakeFails, StartFails, HandshakeSucceeds, CallerCancels,
       WorkerEnds, MonitorWakes, MonitorChecks, RunningExits, EspFatal, EspExits, ChildDeleted,
       StopCall, WatchRunningWakes, WatchRunningChecks, WatchDataWakes, StopEmits, StopMarks,
       StopCancels, StopAwaitsRunning, StopClosed, StopWorkers, StopAwaitsEsp, StopDrains,
       StopEnds, FailChecks, FailEmits, Stop, endVars
<1>2. \/ StopLock \/ UNCHANGED stopper
      \/ \E pc : stopper' = [stopper EXCEPT !.pc = pc]
      \/ stopper' = [stopper EXCEPT !.pc = "drain", !.late = TRUE]
  BY ZenonT(60) DEF Next, StartStep, ProcStep, WatcherStep, StopStep, StartCall, StartInstall,
       StartCommit, StartAborted, HandshakeFails, StartFails, HandshakeSucceeds, CallerCancels,
       WorkerEnds, MonitorWakes, MonitorChecks, RunningExits, EspFatal, EspExits, ChildDeleted,
       StopCall, WatchRunningWakes, WatchRunningChecks, WatchDataWakes, StopEmits, StopMarks,
       StopCancels, StopAwaitsRunning, StopClosed, StopWorkers, StopAwaitsEsp, StopDrains,
       StopEnds, FailChecks, FailEmits, Stop, StopGoto, endVars
<1>3. StopLock \/ stopper'.raced = stopper.raced
  BY <1>2 DEF TypeOK
<1> QED
  BY <1>1, <1>3, Zenon

\* After its snapshot no fail passes its look at stopping.
LEMMA RaceStepInv ==
  ASSUME IInv, Next
  PROVE  RaceInv'
<1> USE DEF startVars, actorVars, endVars, markVars
<1>t. TypeOK /\ RaceInv
  BY Zenon DEF IInv
<1>1. CASE StopLock
  <2>1. stopper'.raced = (\E p \in Procs : proc[p] = "emit") /\ UNCHANGED proc
    BY <1>1 DEF StopLock
  <2> QED
    BY <2>1, Zenon DEF RaceInv
<1>2. CASE stopping' = stopping /\ stopper'.raced = stopper.raced
  <2> SUFFICES ASSUME stopping, NEW q \in Procs, proc'[q] = "emit"
               PROVE  proc[q] = "emit"
    BY <1>t, <1>2, Zenon DEF RaceInv
  <2>1. ASSUME NEW c \in Calls, StartInstall(c)
        PROVE  proc[q] = "emit"
    BY <1>t, <2>1, ProcFacts, Zenon DEF TypeOK, StartInstall
  <2>2. ASSUME NEW c \in Calls, StartCommit(c)
        PROVE  proc[q] = "emit"
    BY <1>t, <2>2, Zenon DEF StartCommit
  <2>3. ASSUME NEW c \in Calls, MonitorWakes(c) \/ MonitorChecks(c)
        PROVE  proc[q] = "emit"
    BY <1>t, <2>3, ProcFacts, Zenon DEF TypeOK, MonitorWakes, MonitorChecks, Move
  <2>4. ASSUME StopCall \/ WatchRunningWakes \/ WatchRunningChecks \/ WatchDataWakes
        PROVE  proc[q] = "emit"
    BY <1>t, <2>4, ProcFacts, Zenon DEF TypeOK, StopCall, WatchRunningWakes, WatchRunningChecks,
       WatchDataWakes, Stop, Move
  <2>5. ASSUME NEW p \in Procs, FailChecks(p) \/ FailEmits(p)
        PROVE  proc[q] = "emit"
    BY <1>t, <2>5, Zenon DEF TypeOK, FailChecks, FailEmits, Stop, Move
  <2>6. CASE UNCHANGED <<proc, started>>
    BY <2>6, Zenon
  <2> QED
    BY <2>1, <2>2, <2>3, <2>4, <2>5, <2>6, ProcChanges, Zenon
<1> QED
  BY <1>t, <1>1, <1>2, SnapshotOnce, Zenon

-----------------------------------------------------------------------------
(* The events. *)

\* What the log is compared with only moves forward.
Forward ==
  /\ stopper.pc \notin {"none", "lock", "stopping"} =>
       stopper'.pc \notin {"none", "lock", "stopping"}
  /\ stopper.pc \in Ended \ {"stopped"} => stopper'.pc \in Ended \ {"stopped"}
  /\ stopper'.raced = stopper.raced \/ stopper.pc = "lock"
  /\ hubOpen' => hubOpen
  /\ \A c \in Calls : /\ start[c] \in Gone => start'[c] \in Gone
                      /\ start[c] \in Gone /\ start'[c] = "failing" => start[c] = "failing"
                      /\ start'[c] = "failing" => start[c] = "failing" \/ HandshakeFails(c)

LEMMA StepsForward ==
  ASSUME IInv, Next
  PROVE  Forward
<1> USE DEF startVars, actorVars, endVars, markVars, Ended, Gone
<1>t. TypeOK
  BY Zenon DEF IInv
<1>1. stopper'.raced = stopper.raced \/ stopper.pc = "lock"
  BY <1>t, SnapshotOnce, Zenon DEF StopLock
<1>2. /\ stopper.pc \notin {"none", "lock", "stopping"} =>
           stopper'.pc \notin {"none", "lock", "stopping"}
      /\ stopper.pc \in Ended \ {"stopped"} => stopper'.pc \in Ended \ {"stopped"}
      /\ hubOpen' => hubOpen
  <2> USE DEF Stoppers
  <2>1. CASE UNCHANGED <<stopper, hubOpen>>
    BY <2>1, Zenon
  <2>2. CASE StopCall \/ WatchRunningWakes \/ WatchRunningChecks \/ \E p \in Procs : FailEmits(p)
    BY <1>t, <2>2 DEF TypeOK, StopCall, WatchRunningWakes, WatchRunningChecks, FailEmits, Stop
  <2>3. CASE StopLock \/ StopEmits \/ StopMarks \/ StopCancels \/ StopAwaitsRunning
    BY <1>t, <2>3 DEF TypeOK, StopLock, StopEmits, StopMarks, StopCancels, StopAwaitsRunning,
       StopGoto
  <2>4. CASE StopClosed \/ StopWorkers \/ StopDrains
    BY <1>t, <2>4 DEF TypeOK, StopClosed, StopWorkers, StopDrains, StopGoto
  <2>8. CASE StopAwaitsEsp
    <3>1. stopper.pc = "esp" /\ stopper'.pc = "drain" /\ UNCHANGED hubOpen
      BY <1>t, <2>8 DEF TypeOK, StopAwaitsEsp, StopGoto
    <3> QED
      BY <3>1, Zenon
  <2>7. CASE StopEnds
    <3>1. hubOpen' => hubOpen
      BY <1>t, <2>7, Zenon DEF TypeOK, StopEnds
    <3>2. /\ stopper.pc \in {"stopped", "done", "hub"}
          /\ stopper'.pc \in {"done", "hub", "finished"}
      BY <1>t, <2>7 DEF TypeOK, StopEnds, StopGoto
    <3> QED
      BY <3>1, <3>2, Zenon
  <2>5. CASE \E c \in Calls : StartInstall(c) \/ StartCommit(c) \/ StartFails(c) \/
                              CallerCancels(c) \/ WorkerEnds(c)
    <3>1. UNCHANGED endVars
      BY <2>5, Zenon DEF StartInstall, StartCommit, StartFails, CallerCancels, WorkerEnds
    <3> QED
      BY <3>1, Zenon
  <2>6. CASE EspExits \/ ChildDeleted
    <3>1. UNCHANGED endVars
      BY <2>6, Zenon DEF EspExits, ChildDeleted
    <3> QED
      BY <3>1, Zenon
  <2> QED
    BY <2>1, <2>2, <2>3, <2>4, <2>5, <2>6, <2>7, <2>8, StopChanges, Zenon
<1>3. ASSUME NEW c \in Calls
      PROVE  /\ start[c] \in Gone => start'[c] \in Gone
             /\ start[c] \in Gone /\ start'[c] = "failing" => start[c] = "failing"
             /\ start'[c] = "failing" => start[c] = "failing" \/ HandshakeFails(c)
  <2>1. CASE UNCHANGED startVars
    BY <2>1, Zenon
  <2>2. ASSUME NEW d \in Calls, StartCall(d) \/ StartInstall(d) \/ StartAborted(d)
        PROVE  start[c] # start'[c] => start[c] \in {"idle", "begin", "abort"}
                                       /\ start'[c] \in {"begin", "refused", "handshake", "failed"}
                                       /\ (start[c] = "abort" => start'[c] = "failed")
    BY <1>t, <2>2, Zenon DEF TypeOK, StartCall, StartInstall, StartAborted, Goto
  <2>3. ASSUME NEW d \in Calls, StartCommit(d) \/ HandshakeSucceeds(d)
        PROVE  start[c] # start'[c] => start[c] \in {"established", "handshake"}
                                       /\ start'[c] \in {"ok", "abort", "established"}
    BY <1>t, <2>3, Zenon DEF TypeOK, StartCommit, Committed, HandshakeSucceeds, Goto
  <2>4. ASSUME NEW d \in Calls, HandshakeFails(d)
        PROVE  start[c] # start'[c] => start[c] = "handshake" /\ c = d
    BY <1>t, <2>4, Zenon DEF TypeOK, HandshakeFails, Goto
  <2>5. ASSUME NEW d \in Calls, StartFails(d)
        PROVE  start[c] # start'[c] => start[c] = "failing" /\ start'[c] = "abort"
    BY <1>t, <2>5, Zenon DEF TypeOK, StartFails, Goto
  <2> QED
    BY <2>1, <2>2, <2>3, <2>4, <2>5, StartChanges, Zenon
<1> QED
  BY <1>1, <1>2, <1>3, Zenon DEF Forward

\* Who emits.
LEMMA LogChanges ==
  ASSUME Next
  PROVE  \/ \E c \in Calls : StartCommit(c) \/ HandshakeFails(c) \/ StartFails(c)
         \/ \E p \in Procs : FailEmits(p)
         \/ StopEmits \/ StopEnds
         \/ UNCHANGED <<log, started, brokenOnce>> /\ \A c \in Calls : ~HandshakeFails(c)
<1>1. \/ \E c \in Calls : StartCommit(c) \/ HandshakeFails(c) \/ StartFails(c)
      \/ \E p \in Procs : FailEmits(p)
      \/ StopEmits \/ StopEnds
      \/ UNCHANGED <<log, started, brokenOnce>>
  BY ZenonT(30) DEF Next, StartStep, ProcStep, WatcherStep, StopStep, StartCall, StartInstall,
       StartAborted, HandshakeSucceeds, CallerCancels, WorkerEnds, MonitorWakes,
       MonitorChecks, RunningExits, EspFatal, EspExits, ChildDeleted, WatchDataWakes, FailChecks,
       StopCall, WatchRunningWakes, WatchRunningChecks, StopLock, StopMarks, StopCancels,
       StopAwaitsRunning, StopClosed, StopWorkers, StopAwaitsEsp, StopDrains, startVars
<1> QED
  BY <1>1, Zenon

\* An event that comes in its place.
Placed(e) ==
  /\ \A i \in 1 .. Len(log) : log[i] # e
  /\ e.kind \in {"started", "stopping"} => e.by = 0
  /\ e.kind = "started" => \A i \in 1 .. Len(log) : log[i].by # 0
  /\ e.by # 0 => \A i \in 1 .. Len(log) : log[i].kind # "started"
  /\ e = Event("stopping", 0) => \A i \in 1 .. Len(log) : log[i] # Event("stopped", 0)
  /\ e = Event("broken", 0) =>
       /\ \E i \in 1 .. Len(log) : log[i] = Event("started", 0)
       /\ ~stopper.raced => \A i \in 1 .. Len(log) : log[i] # Event("stopping", 0)
  /\ e.kind = "stopped" /\ e.by # 0 =>
       \E k \in 1 .. Len(log) : /\ log[k] = Event("broken", e.by)
                                /\ \A m \in k + 1 .. Len(log) : log[m].by = 0

\* Different events are different records.
LEMMA EventFacts ==
  /\ \A k, c : Event(k, c).kind = k /\ Event(k, c).by = c
  /\ \A e \in Events : e = Event(e.kind, e.by) /\ e.kind \in Kinds /\ e.by \in {0} \cup Calls
  /\ \A e \in Events : \A k, c : e = Event(k, c) <=> e.kind = k /\ e.by = c
BY DEF Event, Events

LEMMA EventIs ==
  ASSUME NEW k \in Kinds, NEW c \in {0} \cup Calls, NEW e, e = Event(k, c)
  PROVE  /\ e \in Events /\ e.kind = k /\ e.by = c
         /\ \A j, d : e = Event(j, d) <=> j = k /\ d = c
<1>1. e \in Events /\ e.kind = k /\ e.by = c
  BY EventFacts, LogTypes, Zenon
<1>2. ASSUME NEW j, NEW d
      PROVE  e = Event(j, d) <=> j = k /\ d = c
  <2>1. Event(j, d).kind = j /\ Event(j, d).by = d
    BY EventFacts, Zenon
  <2> QED
    BY <1>1, <2>1, Zenon
<1> QED
  BY <1>1, <1>2, Zenon

\* An event appended in its place keeps the order.
LEMMA EmitInOrder ==
  ASSUME log \in Seq(Events), EventsInOrder, NEW e \in Events, log' = Append(log, e), Placed(e),
         \/ stopper'.raced = stopper.raced
         \/ \A i \in 1 .. Len(log) : log[i] # Event("stopping", 0)
  PROVE  EventsInOrder'
<1> DEFINE n == Len(log) + 1
<1>1. /\ Len(log) \in Nat /\ Len(log') = n /\ log'[n] = e
      /\ \A i \in 1 .. Len(log) : log'[i] = log[i]
  BY AppendFacts
<1> HIDE DEF n
<1>n. n = Len(log) + 1 /\ \A i \in 1 .. n : i \in 1 .. Len(log) \/ i = n
  BY <1>1 DEF n
<1>i. ASSUME NEW i \in 1 .. n
      PROVE  /\ log'[i] = Event("broken", 0) =>
                  \E k \in 1 .. i : log'[k] = Event("started", 0)
             /\ log'[i].kind = "stopped" /\ log'[i].by # 0 =>
                  \E k \in 1 .. i - 1 : /\ log'[k] = Event("broken", log'[i].by)
                                        /\ \A m \in k + 1 .. i - 1 : log'[m].by = 0
  <2>1. CASE i \in 1 .. Len(log)
    BY <1>1, <1>n, <2>1 DEF EventsInOrder
  <2>2. CASE i = n
    BY <1>1, <1>n, <2>2 DEF Placed
  <2> QED
    BY <1>n, <2>1, <2>2
<1>j. ASSUME NEW i \in 1 .. n, NEW j \in 1 .. n
      PROVE  /\ log'[i] = log'[j] => i = j
             /\ log'[i].kind = "started" /\ log'[j].by = 0 => i <= j
             /\ log'[i].kind = "started" /\ log'[j].by # 0 => j < i
             /\ log'[i] = Event("stopping", 0) /\ log'[j] = Event("stopped", 0) => i < j
             /\ log'[i] = Event("stopping", 0) /\ log'[j] = Event("broken", 0) /\ i < j =>
                  stopper'.raced
  <2>0. \A k, c : Event(k, c).kind = k /\ Event(k, c).by = c
    BY EventFacts, Zenon
  <2>1. CASE i \in 1 .. Len(log) /\ j \in 1 .. Len(log)
    BY <1>1, <2>1 DEF EventsInOrder
  <2>2. CASE i = n /\ j \in 1 .. Len(log)
    BY <1>1, <1>n, <2>0, <2>2 DEF Placed
  <2>3. CASE i \in 1 .. Len(log) /\ j = n
    BY <1>1, <1>n, <2>0, <2>3 DEF Placed
  <2>4. CASE i = n /\ j = n
    BY <1>1, <1>n, <2>0, <2>4 DEF Placed
  <2> QED
    BY <1>n, <2>1, <2>2, <2>3, <2>4
<1> QED
  BY <1>1, <1>i, <1>j DEF EventsInOrder

\* A step that emits nothing.
LEMMA LogKept ==
  ASSUME IInv, Forward, UNCHANGED <<log, started>>, brokenOnce => brokenOnce',
         \A c \in Calls : start'[c] = "failing" /\ hubOpen' => start[c] = "failing"
  PROVE  LogInv'
<1>t. LogInv /\ log \in Seq(Events)
  BY Zenon DEF IInv, TypeOK
<1>1. \A i \in 1 .. Len(log) : log[i].by # 0 => log[i].by \in Calls
  <2>1. \A i \in 1 .. Len(log) : log[i] \in Events
    BY <1>t
  <2> QED
    BY <2>1, EventFacts, Zenon
<1>2. EventsInOrder'
  <2>1. \/ stopper'.raced = stopper.raced
        \/ \A i \in 1 .. Len(log) : log[i] # Event("stopping", 0)
    BY <1>t, Zenon DEF LogInv, Forward
  <2> QED
    BY <1>t, <2>1 DEF LogInv, EventsInOrder
<1>3. \A i \in 1 .. Len(log) :
        /\ log[i] = Event("broken", 0) => brokenOnce' /\ started'
        /\ log[i] = Event("stopping", 0) => stopper'.pc \notin {"none", "lock", "stopping"}
        /\ log[i] = Event("stopped", 0) => stopper'.pc \in Ended \ {"stopped"}
        /\ log[i].by # 0 => start'[log[i].by] \in Gone
        /\ log[i].by # 0 /\ log[i].kind = "stopped" => start'[log[i].by] # "failing"
  BY <1>t, <1>1, Zenon DEF LogInv, Forward
<1>4. \A c \in Calls : start'[c] = "failing" /\ hubOpen' =>
        \E k \in 1 .. Len(log) : /\ log[k] = Event("broken", c)
                                 /\ \A m \in k + 1 .. Len(log) : log[m].by = 0
  BY <1>t, Zenon DEF LogInv, Forward
<1> QED
  BY <1>t, <1>2, <1>3, <1>4, Zenon DEF LogInv

\* A step that emits e.
LEMMA LogGrows ==
  ASSUME IInv, Forward, NEW e \in Events, log' = Append(log, e), Placed(e),
         started' <=> (started \/ e = Event("started", 0)),
         brokenOnce => brokenOnce',
         e = Event("broken", 0) => brokenOnce' /\ started',
         e = Event("stopping", 0) => stopper'.pc \notin {"none", "lock", "stopping"},
         e = Event("stopped", 0) => stopper'.pc \in Ended \ {"stopped"},
         e.by # 0 => start'[e.by] \in Gone,
         e.by # 0 /\ e.kind = "stopped" => start'[e.by] # "failing",
         \A c \in Calls : start'[c] = "failing" =>
           e = Event("broken", c) \/ (start[c] = "failing" /\ e.by = 0)
  PROVE  LogInv'
<1> DEFINE n == Len(log) + 1
<1>t. LogInv /\ log \in Seq(Events)
  BY Zenon DEF IInv, TypeOK
<1>1. /\ Len(log) \in Nat /\ Len(log') = n /\ log'[n] = e
      /\ \A i \in 1 .. Len(log) : log'[i] = log[i]
  BY <1>t, AppendFacts
<1> HIDE DEF n
<1>n. n = Len(log) + 1 /\ n \in 1 .. n /\ \A i \in 1 .. n : i \in 1 .. Len(log) \/ i = n
  BY <1>1 DEF n
<1>m. \A i \in 1 .. Len(log) : i \in 1 .. n
  BY <1>1, <1>n
<1>c. \A i \in 1 .. Len(log) : log[i].by # 0 => log[i].by \in Calls
  <2>1. \A i \in 1 .. Len(log) : log[i] \in Events
    BY <1>t
  <2> QED
    BY <2>1, EventFacts, Zenon
<1>2. EventsInOrder'
  <2>1. \/ stopper'.raced = stopper.raced
        \/ \A i \in 1 .. Len(log) : log[i] # Event("stopping", 0)
    BY <1>t, Zenon DEF LogInv, Forward
  <2> QED
    BY <1>t, <2>1, EmitInOrder, Zenon DEF LogInv
<1>3. \A i \in 1 .. n :
        /\ log'[i].kind \in {"started", "stopping"} => log'[i].by = 0
        /\ log'[i] = Event("broken", 0) => brokenOnce' /\ started'
        /\ log'[i] = Event("stopping", 0) => stopper'.pc \notin {"none", "lock", "stopping"}
        /\ log'[i] = Event("stopped", 0) => stopper'.pc \in Ended \ {"stopped"}
        /\ log'[i].by # 0 => start'[log'[i].by] \in Gone
        /\ log'[i].by # 0 /\ log'[i].kind = "stopped" => start'[log'[i].by] # "failing"
  <2>1. ASSUME NEW i \in 1 .. Len(log)
        PROVE  /\ log[i].kind \in {"started", "stopping"} => log[i].by = 0
               /\ log[i] = Event("broken", 0) => brokenOnce' /\ started'
               /\ log[i] = Event("stopping", 0) => stopper'.pc \notin {"none", "lock", "stopping"}
               /\ log[i] = Event("stopped", 0) => stopper'.pc \in Ended \ {"stopped"}
               /\ log[i].by # 0 => start'[log[i].by] \in Gone
               /\ log[i].by # 0 /\ log[i].kind = "stopped" => start'[log[i].by] # "failing"
    BY <1>t, <1>c, Zenon DEF LogInv, Forward
  <2>2. e.kind \in {"started", "stopping"} => e.by = 0
    BY Zenon DEF Placed
  <2> QED
    BY <1>1, <1>n, <2>1, <2>2, Zenon
<1>4. started' <=> \E i \in 1 .. n : log'[i] = Event("started", 0)
  BY <1>t, <1>1, <1>n, <1>m, Zenon DEF LogInv
<1>5. ASSUME NEW c \in Calls, start'[c] = "failing", hubOpen'
      PROVE  \E k \in 1 .. n : /\ log'[k] = Event("broken", c)
                               /\ \A m \in k + 1 .. n : log'[m].by = 0
  <2>1. CASE e = Event("broken", c)
    <3>1. \A m \in n + 1 .. n : log'[m].by = 0
      BY <1>1, <1>n
    <3> QED
      BY <1>1, <1>n, <2>1, <3>1, Zenon
  <2>2. CASE start[c] = "failing" /\ e.by = 0
    <3>1. PICK k \in 1 .. Len(log) : /\ log[k] = Event("broken", c)
                                     /\ \A m \in k + 1 .. Len(log) : log[m].by = 0
      BY <1>t, <1>5, <2>2, Zenon DEF LogInv, Forward
    <3>2. \A m \in k + 1 .. n : log'[m].by = 0
      BY <1>1, <1>n, <2>2, <3>1
    <3> QED
      BY <1>1, <1>m, <3>1, <3>2, Zenon
  <2> QED
    BY <1>5, <2>1, <2>2, Zenon
<1> QED
  BY <1>1, <1>2, <1>3, <1>4, <1>5, Zenon DEF LogInv

\* Each event is emitted once, in its place.
LEMMA LogStepInv ==
  ASSUME IInv, Next
  PROVE  LogInv'
<1> USE DEF startVars, actorVars, endVars, markVars, Ended
<1>t. TypeOK /\ StartInv /\ StopInv /\ ProcInv /\ RaceInv /\ LogInv
  BY Zenon DEF IInv
<1>f. Forward
  BY StepsForward
<1>e. /\ \A k, c : Event(k, c).kind = k /\ Event(k, c).by = c
      /\ \A k \in Kinds, c \in {0} \cup Calls : Event(k, c) \in Events
      /\ \A e \in Events : \A k, c : e = Event(k, c) <=> e.kind = k /\ e.by = c
      /\ \A i \in 1 .. Len(log) : log[i] \in Events /\ log[i] = Event(log[i].kind, log[i].by)
                                  /\ log[i].kind \in Kinds /\ log[i].by \in {0} \cup Calls
  <2>1. \A i \in 1 .. Len(log) : log[i] \in Events
    BY <1>t DEF TypeOK
  <2> QED
    BY <2>1, EventFacts, LogTypes, Zenon
<1>1. ASSUME NEW c \in Calls, StartCommit(c)
      PROVE  LogInv'
  <2>1. CASE stopping
    <3>1. UNCHANGED <<log, started, brokenOnce>>
      BY <1>1, <2>1, Zenon DEF StartCommit
    <3>2. \A d \in Calls : ~HandshakeFails(d)
      BY <1>t, <1>1, Zenon DEF StartInv, Active, StartCommit, HandshakeFails
    <3> QED
      BY <1>f, <3>1, <3>2, LogKept, Zenon DEF Forward
  <2>2. CASE ~stopping
    <3> DEFINE e == Event("started", 0)
    <3>e. e = Event("started", 0)
      OBVIOUS
    <3> HIDE DEF e
    <3>1. /\ ~started /\ started' = TRUE /\ stopper.pc \in {"none", "lock"} /\ stopper' = stopper
          /\ log' = Append(log, e) /\ UNCHANGED brokenOnce
      BY <3>e, <1>t, <1>1, <2>2, Zenon DEF StartInv, Active, StopInv, StartCommit, Committed, Emit
    <3>2. \A i \in 1 .. Len(log) : log[i] # e /\ log[i].by # 0
      <4>1. ASSUME NEW i \in 1 .. Len(log), log[i].by = 0
            PROVE  FALSE
        <5>1. log[i].kind \in Kinds /\ log[i] = Event(log[i].kind, 0)
          BY <1>e, <4>1, Zenon
        <5> QED
          BY <1>t, <3>1, <5>1, Zenon DEF LogInv, Kinds
      <4>2. e.by = 0
        BY <1>e, <3>e, Zenon
      <4> QED
        BY <4>1, <4>2, Zenon
    <3>3. e \in Events /\ e.kind = "started" /\ e.by = 0
          /\ \A k, d : e = Event(k, d) <=> k = "started" /\ d = 0
      <4>1. "started" \in Kinds /\ 0 \in {0} \cup Calls
        BY Zenon DEF Kinds
      <4> QED
        BY <3>e, <4>1, EventIs
    <3>4. Placed(e)
      BY <3>e, <1>e, <3>2, <3>3 DEF Placed
    <3>5. \A d \in Calls : start'[d] # "failing"
      BY <3>e, <1>t, <1>1, <1>f, Zenon DEF Forward, StartInv, Active, StartCommit, HandshakeFails
    <3> QED
      BY <1>f, <3>1, <3>3, <3>4, <3>5, LogGrows
  <2> QED
    BY <2>1, <2>2, Zenon
<1>2. ASSUME NEW c \in Calls, HandshakeFails(c)
      PROVE  LogInv'
  <2>1. UNCHANGED <<started, brokenOnce, hubOpen, stopper>> /\ ~started /\ start[c] = "handshake"
        /\ start' = [start EXCEPT ![c] = "failing"]
        /\ c # 0
    BY <1>t, <1>2, NoCallZero, Zenon DEF HandshakeFails, StartInv, Active, Goto
  <2>a. /\ start'[c] = "failing"
        /\ \A d \in Calls : start'[d] = "failing" => d = c
    BY <1>t, <2>1, Zenon DEF TypeOK, StartInv, Active
  <2>2. CASE ~hubOpen
    <3>1. UNCHANGED log
      BY <1>2, <2>2, Zenon DEF HandshakeFails, Emit
    <3> QED
      BY <1>f, <2>1, <2>2, <3>1, LogKept, Zenon
  <2>3. CASE hubOpen
    <3> DEFINE e == Event("broken", c)
    <3>e. e = Event("broken", c)
      OBVIOUS
    <3> HIDE DEF e
    <3>1. log' = Append(log, e)
      BY <3>e, <1>2, <2>3, Zenon DEF HandshakeFails, Emit
    <3>2. e \in Events /\ e.kind = "broken" /\ e.by = c
          /\ \A k, d : e = Event(k, d) <=> k = "broken" /\ d = c
      <4>1. "broken" \in Kinds /\ c \in {0} \cup Calls
        BY Zenon DEF Kinds
      <4> QED
        BY <3>e, <4>1, EventIs
    <3>3. ASSUME NEW i \in 1 .. Len(log)
          PROVE  log[i].by # c /\ log[i].kind # "started"
      <4>1. log[i] = Event(log[i].kind, log[i].by)
        BY <1>e, Zenon
      <4>2. log[i].kind # "started"
        BY <1>t, <2>1, <4>1, Zenon DEF LogInv
      <4> QED
        BY <1>t, <2>1, <4>2, Zenon DEF LogInv, Gone
    <3>4. Placed(e)
      BY <3>e, <1>e, <2>1, <3>2, <3>3 DEF Placed
    <3> QED
      BY <1>f, <2>1, <2>a, <3>1, <3>2, <3>4, LogGrows DEF Gone
  <2> QED
    BY <2>2, <2>3, Zenon
<1>3. ASSUME NEW c \in Calls, StartFails(c)
      PROVE  LogInv'
  <2>1. UNCHANGED <<started, brokenOnce, hubOpen, stopper>> /\ ~started /\ start[c] = "failing"
        /\ start' = [start EXCEPT ![c] = "abort"]
        /\ c # 0
    BY <1>t, <1>3, NoCallZero, Zenon DEF StartFails, StartInv, Active, Goto
  <2>a. start'[c] = "abort" /\ \A d \in Calls : start'[d] # "failing"
    BY <1>t, <2>1, Zenon DEF TypeOK, StartInv, Active
  <2>2. CASE ~hubOpen
    <3>1. UNCHANGED log
      BY <1>3, <2>2, Zenon DEF StartFails, Emit
    <3> QED
      BY <1>f, <2>1, <2>a, <3>1, LogKept, Zenon
  <2>3. CASE hubOpen
    <3> DEFINE e == Event("stopped", c)
    <3>e. e = Event("stopped", c)
      OBVIOUS
    <3> HIDE DEF e
    <3>1. log' = Append(log, e)
      BY <3>e, <1>3, <2>3, Zenon DEF StartFails, Emit
    <3>2. e \in Events /\ e.kind = "stopped" /\ e.by = c
          /\ \A k, d : e = Event(k, d) <=> k = "stopped" /\ d = c
      <4>1. "stopped" \in Kinds /\ c \in {0} \cup Calls
        BY Zenon DEF Kinds
      <4> QED
        BY <3>e, <4>1, EventIs
    <3>3. ASSUME NEW i \in 1 .. Len(log)
          PROVE  log[i] # e /\ log[i].kind # "started"
      <4>1. log[i] = Event(log[i].kind, log[i].by)
        BY <1>e, Zenon
      <4>2. log[i].kind # "started"
        BY <1>t, <2>1, <4>1, Zenon DEF LogInv
      <4> QED
        BY <1>t, <2>1, <3>2, <4>2, Zenon DEF LogInv
    <3>4. \E k \in 1 .. Len(log) : /\ log[k] = Event("broken", c)
                                   /\ \A m \in k + 1 .. Len(log) : log[m].by = 0
      BY <3>e, <1>t, <2>1, <2>3, Zenon DEF LogInv
    <3>5. Placed(e)
      BY <3>e, <1>e, <2>1, <3>2, <3>3, <3>4 DEF Placed
    <3> QED
      BY <1>f, <2>1, <2>a, <3>1, <3>2, <3>5, LogGrows DEF Gone
  <2> QED
    BY <2>2, <2>3, Zenon
<1>4. ASSUME NEW p \in Procs, FailEmits(p)
      PROVE  LogInv'
  <2>1. started /\ brokenOnce' = TRUE /\ UNCHANGED <<start, started, hubOpen>> /\ proc[p] = "emit"
    BY <1>t, <1>4, Zenon DEF ProcInv, FailEmits, Stop
  <2>a. \A c \in Calls : start'[c] # "failing"
    BY <1>t, <2>1, Zenon DEF StartInv, Active
  <2>2. CASE UNCHANGED log
    BY <1>f, <2>1, <2>2, LogKept, Zenon
  <2>3. CASE log' # log
    <3> DEFINE e == Event("broken", 0)
    <3>e. e = Event("broken", 0)
      OBVIOUS
    <3> HIDE DEF e
    <3>1. log' = Append(log, e) /\ ~brokenOnce
      BY <3>e, <1>4, <2>3, Zenon DEF FailEmits, Emit
    <3>2. e \in Events /\ e.kind = "broken" /\ e.by = 0
          /\ \A k, d : e = Event(k, d) <=> k = "broken" /\ d = 0
      <4>1. "broken" \in Kinds /\ 0 \in {0} \cup Calls
        BY Zenon DEF Kinds
      <4> QED
        BY <3>e, <4>1, EventIs
    <3>3. \A i \in 1 .. Len(log) : log[i] # e
      BY <3>e, <1>t, <3>1, Zenon DEF LogInv
    <3>4. ~stopper.raced => ~stopping
      BY <3>e, <1>t, <2>1, Zenon DEF RaceInv
    <3>5. ~stopper.raced => \A i \in 1 .. Len(log) : log[i] # Event("stopping", 0)
      BY <3>e, <1>t, <3>4, Zenon DEF LogInv, StopInv
    <3>6. \E i \in 1 .. Len(log) : log[i] = Event("started", 0)
      BY <3>e, <1>t, <2>1, Zenon DEF LogInv
    <3>7. Placed(e)
      BY <3>e, <1>e, <3>2, <3>3, <3>5, <3>6 DEF Placed
    <3> QED
      BY <1>f, <2>1, <2>a, <3>1, <3>2, <3>7, LogGrows
  <2> QED
    BY <2>2, <2>3, Zenon
<1>5. ASSUME StopEmits
      PROVE  LogInv'
  <2> DEFINE e == Event("stopping", 0)
  <2>e. e = Event("stopping", 0)
    OBVIOUS
  <2> HIDE DEF e
  <2>1. UNCHANGED <<start, started, hubOpen, brokenOnce>> /\ stopper.pc = "stopping"
    BY <2>e, <1>5, Zenon DEF StopEmits
  <2>2. log' = Append(log, e)
    BY <2>e, <1>t, <1>5, <2>1, Zenon DEF StopInv, StopEmits, Emit
  <2>3. stopper'.pc = "mark"
    BY <2>e, <1>t, <1>5 DEF TypeOK, Stoppers, StopEmits, StopGoto
  <2>4. e \in Events /\ e.kind = "stopping" /\ e.by = 0
          /\ \A k, d : e = Event(k, d) <=> k = "stopping" /\ d = 0
    <3>1. "stopping" \in Kinds /\ 0 \in {0} \cup Calls
      BY Zenon DEF Kinds
    <3> QED
      BY <2>e, <3>1, EventIs
  <2>5. \A i \in 1 .. Len(log) : log[i] # e /\ log[i] # Event("stopped", 0)
    BY <2>e, <1>t, <2>1, Zenon DEF LogInv
  <2>6. Placed(e)
    BY <2>e, <1>e, <2>4, <2>5 DEF Placed
  <2> QED
    BY <1>f, <2>1, <2>2, <2>3, <2>4, <2>6, LogGrows
<1>6. ASSUME StopEnds
      PROVE  LogInv'
  <2>1. UNCHANGED <<start, started, brokenOnce>>
    BY <1>6, Zenon DEF StopEnds
  <2>2. CASE UNCHANGED log
    BY <1>f, <2>1, <2>2, LogKept, Zenon
  <2>3. CASE log' # log
    <3> DEFINE e == Event("stopped", 0)
    <3>e. e = Event("stopped", 0)
      OBVIOUS
    <3> HIDE DEF e
    <3>1. stopper.pc = "stopped" /\ log' = Append(log, e)
      BY <3>e, <1>6, <2>3, Zenon DEF StopEnds, Emit
    <3>2. stopper'.pc = "done"
      BY <3>e, <1>t, <1>6, <3>1 DEF TypeOK, Stoppers, StopEnds, StopGoto
    <3>3. e \in Events /\ e.kind = "stopped" /\ e.by = 0
          /\ \A k, d : e = Event(k, d) <=> k = "stopped" /\ d = 0
      <4>1. "stopped" \in Kinds /\ 0 \in {0} \cup Calls
        BY Zenon DEF Kinds
      <4> QED
        BY <3>e, <4>1, EventIs
    <3>4. \A i \in 1 .. Len(log) : log[i] # e
      BY <3>e, <1>t, <3>1, Zenon DEF LogInv
    <3>5. Placed(e)
      BY <3>e, <1>e, <3>3, <3>4 DEF Placed
    <3> QED
      BY <1>f, <2>1, <3>1, <3>2, <3>3, <3>5, LogGrows
  <2> QED
    BY <2>2, <2>3, Zenon
<1>7. ASSUME UNCHANGED <<log, started, brokenOnce>>, \A c \in Calls : ~HandshakeFails(c)
      PROVE  LogInv'
  BY <1>f, <1>7, LogKept, Zenon DEF Forward
<1> QED
  BY <1>1, <1>2, <1>3, <1>4, <1>5, <1>6, <1>7, LogChanges, Zenon

-----------------------------------------------------------------------------
(* Types. *)

\* Every step keeps the types.
LEMMA TypeStepInv ==
  ASSUME IInv, Next
  PROVE  TypeOK'
<1> USE DEF startVars, actorVars, endVars, markVars, StartPC, ProcPC, StopPC, Stoppers, Kinds
<1>t. TypeOK
  BY Zenon DEF IInv
<1>1. ASSUME NEW c \in Calls, StartCall(c)
      PROVE  TypeOK'
  <2>1. start' \in [Calls -> StartPC]
    <3>1. \E pc \in StartPC : start' = [start EXCEPT ![c] = pc]
      BY <1>1, Zenon DEF StartCall, Goto
    <3> QED
      BY <1>t, <3>1, SMTT(30) DEF TypeOK
  <2>2. starting' \in BOOLEAN
    BY <1>t, <1>1, Zenon DEF TypeOK, StartCall
  <2> QED
    BY <1>t, <1>1, <2>1, <2>2, SMTT(30) DEF TypeOK, StartCall
<1>2. ASSUME NEW c \in Calls, StartInstall(c)
      PROVE  TypeOK'
  <2>1. start' \in [Calls -> StartPC]
    <3>1. \E pc \in StartPC : start' = [start EXCEPT ![c] = pc]
      BY <1>2, Zenon DEF StartInstall, Goto
    <3> QED
      BY <1>t, <3>1, SMTT(30) DEF TypeOK
  <2>6. starting' \in BOOLEAN
    BY <1>t, <1>2, Zenon DEF TypeOK, StartInstall
  <2>2. ctx' \in [Calls -> {"none", "live", "over"}]
    BY <1>t, <1>2, SMTT(30) DEF TypeOK, StartInstall
  <2>3. workers' \in [Calls -> {"none", "up", "closing", "down"}]
    BY <1>t, <1>2, SMTT(30) DEF TypeOK, StartInstall
  <2>4. proc' \in [Procs -> ProcPC]
    BY <1>t, <1>2, ProcFacts, SMTT(30) DEF TypeOK, StartInstall
  <2>5. installed' \in {0} \cup Calls /\ (started' => installed' # 0)
    BY <1>t, <1>2, NoCallZero, SMTT(30) DEF TypeOK, StartInstall
  <2> QED
    BY <1>t, <1>2, <2>1, <2>2, <2>3, <2>4, <2>5, <2>6, SMTT(30) DEF TypeOK, StartInstall
<1>3. ASSUME NEW c \in Calls, StartCommit(c)
      PROVE  TypeOK'
  <2>1. start' \in [Calls -> StartPC]
    <3>1. \E pc \in StartPC : start' = [start EXCEPT ![c] = pc]
      BY <1>3, Zenon DEF StartCommit, Committed, Goto
    <3> QED
      BY <1>t, <3>1, SMTT(30) DEF TypeOK
  <2>7. starting' \in BOOLEAN /\ started' \in BOOLEAN
    BY <1>t, <1>3, Zenon DEF TypeOK, StartCommit, Committed
  <2>2. ctx' \in [Calls -> {"none", "live", "over"}]
    BY <1>t, <1>3, SMTT(30) DEF TypeOK, StartCommit, Committed, CancelCtx
  <2>3. workers' \in [Calls -> {"none", "up", "closing", "down"}]
    BY <1>t, <1>3, SMTT(30) DEF TypeOK, StartCommit, Committed, CloseWorkers
  <2>4. proc' \in [Procs -> ProcPC]
    BY <1>t, <1>3, ProcFacts, SMTT(30) DEF TypeOK, StartCommit, Committed
  <2>5. installed' \in Calls /\ installed' # 0
    BY <1>t, <1>3, NoCallZero, Zenon DEF IInv, StartInv, StartCommit
  <2>6. log' \in Seq(Events)
    BY <1>t, <1>3, LogTypes, SMTT(30) DEF TypeOK, StartCommit, Committed, Emit
  <2> QED
    BY <1>t, <1>3, <2>1, <2>2, <2>3, <2>4, <2>5, <2>6, <2>7, SMTT(30) DEF TypeOK, StartCommit,
       Committed
<1>4. ASSUME NEW c \in Calls, StartAborted(c)
      PROVE  TypeOK'
  <2>1. start' \in [Calls -> StartPC] /\ starting' \in BOOLEAN
    BY <1>t, <1>4, Zenon DEF TypeOK, StartAborted, Goto
  <2>2. UNCHANGED <<started, installed, ctx, workers, proc, stopper, log>>
    BY <1>4, Zenon DEF StartAborted
  <2>3. UNCHANGED <<markVars, running, runningDone, esp, fatal, stopping, done, hubOpen, brokenOnce>>
    BY <1>4, Zenon DEF StartAborted
  <2> HIDE DEF StartPC, ProcPC, StopPC, Stoppers, Kinds
  <2> QED
    BY <1>t, <2>1, <2>2, <2>3, SMTT(30) DEF TypeOK
<1>5. ASSUME NEW c \in Calls, HandshakeFails(c)
      PROVE  TypeOK'
  <2>1. start' \in [Calls -> StartPC]
    BY <1>t, <1>5, SMTT(30) DEF TypeOK, HandshakeFails, Goto
  <2>2. log' \in Seq(Events)
    <3>1. Event("broken", c) \in Events /\ log \in Seq(Events)
      BY <1>t, LogTypes, Zenon DEF TypeOK
    <3> QED
      BY <1>5, <3>1, LogTypes, Zenon DEF HandshakeFails, Emit
  <2>3. UNCHANGED <<started, starting, installed, ctx, workers, proc, stopper>>
    BY <1>5, Zenon DEF HandshakeFails
  <2>4. UNCHANGED <<markVars, running, runningDone, esp, fatal, stopping, done, hubOpen, brokenOnce>>
    BY <1>5, Zenon DEF HandshakeFails
  <2> HIDE DEF StartPC, ProcPC, StopPC, Stoppers, Kinds
  <2> QED
    BY <1>t, <2>1, <2>2, <2>3, <2>4, SMTT(30) DEF TypeOK
<1>5a. ASSUME NEW c \in Calls, StartFails(c)
      PROVE  TypeOK'
  <2>1. start' \in [Calls -> StartPC]
    BY <1>t, <1>5a, SMTT(30) DEF TypeOK, StartFails, Goto
  <2>2. log' \in Seq(Events)
    <3>1. Event("stopped", c) \in Events /\ log \in Seq(Events)
      BY <1>t, LogTypes, Zenon DEF TypeOK
    <3> QED
      BY <1>5a, <3>1, LogTypes, Zenon DEF StartFails, Emit
  <2>3. ctx' \in [Calls -> {"none", "live", "over"}]
    BY <1>t, <1>5a, SMTT(30) DEF TypeOK, StartFails, CancelCtx
  <2>4. workers' \in [Calls -> {"none", "up", "closing", "down"}]
    BY <1>t, <1>5a, SMTT(30) DEF TypeOK, StartFails, CloseWorkers
  <2>5. UNCHANGED <<started, starting, installed, proc, stopper>>
    BY <1>5a, Zenon DEF StartFails
  <2>6. UNCHANGED <<markVars, running, runningDone, esp, fatal, stopping, done, hubOpen, brokenOnce>>
    BY <1>5a, Zenon DEF StartFails
  <2> HIDE DEF StartPC, ProcPC, StopPC, Stoppers, Kinds
  <2> QED
    BY <1>t, <2>1, <2>2, <2>3, <2>4, <2>5, <2>6, SMTT(30) DEF TypeOK
<1>6. ASSUME NEW c \in Calls, HandshakeSucceeds(c)
      PROVE  TypeOK'
  BY <1>t, <1>6, ProcFacts, SMTT(30) DEF TypeOK, HandshakeSucceeds, Goto
<1>7. ASSUME NEW c \in Calls, CallerCancels(c)
      PROVE  TypeOK'
  BY <1>t, <1>7, ProcFacts, SMTT(30) DEF TypeOK, CallerCancels
<1>8. ASSUME NEW c \in Calls, WorkerEnds(c)
      PROVE  TypeOK'
  BY <1>t, <1>8, ProcFacts, SMTT(30) DEF TypeOK, WorkerEnds
<1>9. ASSUME NEW c \in Calls, MonitorWakes(c)
      PROVE  TypeOK'
  BY <1>t, <1>9, ProcFacts, SMTT(30) DEF TypeOK, MonitorWakes, Move
<1>10. ASSUME NEW c \in Calls, MonitorChecks(c)
      PROVE  TypeOK'
  BY <1>t, <1>10, ProcFacts, SMTT(30) DEF TypeOK, MonitorChecks, Move
<1>11. ASSUME RunningExits
      PROVE  TypeOK'
  BY <1>t, <1>11, ProcFacts, SMTT(30) DEF TypeOK, RunningExits
<1>12. ASSUME EspFatal
      PROVE  TypeOK'
  BY <1>t, <1>12, ProcFacts, SMTT(30) DEF TypeOK, EspFatal
<1>13. ASSUME EspExits
      PROVE  TypeOK'
  BY <1>t, <1>13, ProcFacts, SMTT(30) DEF TypeOK, EspExits
<1>14. ASSUME ChildDeleted
      PROVE  TypeOK'
  BY <1>t, <1>14, ProcFacts, SMTT(30) DEF TypeOK, ChildDeleted
<1>15. ASSUME StopCall
      PROVE  TypeOK'
  BY <1>t, <1>15, ProcFacts, SMTT(30) DEF TypeOK, StopCall, Stop, Move
<1>16. ASSUME WatchRunningWakes
      PROVE  TypeOK'
  BY <1>t, <1>16, ProcFacts, SMTT(30) DEF TypeOK, WatchRunningWakes, Stop, Move
<1>17. ASSUME WatchRunningChecks
      PROVE  TypeOK'
  BY <1>t, <1>17, ProcFacts, SMTT(30) DEF TypeOK, WatchRunningChecks, Stop, Move
<1>18. ASSUME WatchDataWakes
      PROVE  TypeOK'
  BY <1>t, <1>18, ProcFacts, SMTT(30) DEF TypeOK, WatchDataWakes, Move
<1>19. ASSUME StopLock
      PROVE  TypeOK'
  <2>1. stopping' \in BOOLEAN
    BY <1>19, Zenon DEF StopLock
  <2>2. stopper' \in Stoppers
    BY <1>t, <1>19, Zenon DEF TypeOK, StopLock
  <2> QED
    BY <1>t, <1>19, <2>1, <2>2, SMTT(30) DEF TypeOK, StopLock
<1>20. ASSUME StopEmits
      PROVE  TypeOK'
  <2>1. log' \in Seq(Events)
    BY <1>t, <1>20, LogTypes, SMTT(30) DEF TypeOK, StopEmits, Emit
  <2>2. stopper' \in Stoppers
    BY <1>t, <1>20, SMTT(30) DEF TypeOK, StopEmits, StopGoto
  <2> QED
    BY <1>t, <1>20, <2>1, <2>2, SMTT(30) DEF TypeOK, StopEmits
<1>21. ASSUME StopMarks
      PROVE  TypeOK'
  BY <1>t, <1>21, ProcFacts, SMTT(30) DEF TypeOK, StopMarks, StopGoto
<1>22. ASSUME StopCancels
      PROVE  TypeOK'
  <2>1. ctx' \in [Calls -> {"none", "live", "over"}]
    BY <1>t, <1>22, Zenon DEF TypeOK, StopCancels, CancelCtx
  <2>2. stopper' \in Stoppers
    BY <1>t, <1>22, SMTT(30) DEF TypeOK, StopCancels, StopGoto
  <2> QED
    BY <1>t, <1>22, <2>1, <2>2, SMTT(30) DEF TypeOK, StopCancels
<1>23. ASSUME StopAwaitsRunning
      PROVE  TypeOK'
  BY <1>t, <1>23, ProcFacts, SMTT(30) DEF TypeOK, StopAwaitsRunning, StopGoto
<1>24. ASSUME StopClosed
      PROVE  TypeOK'
  BY <1>t, <1>24, ProcFacts, SMTT(30) DEF TypeOK, StopClosed, StopGoto
<1>25. ASSUME StopWorkers
      PROVE  TypeOK'
  <2>1. workers' \in [Calls -> {"none", "up", "closing", "down"}]
    BY <1>t, <1>25, Zenon DEF TypeOK, StopWorkers, CloseWorkers
  <2>2. stopper' \in Stoppers
    BY <1>t, <1>25, SMTT(30) DEF TypeOK, StopWorkers, StopGoto
  <2> QED
    BY <1>t, <1>25, <2>1, <2>2, SMTT(30) DEF TypeOK, StopWorkers
<1>26. ASSUME StopAwaitsEsp
      PROVE  TypeOK'
  <2>1. stopper' \in Stoppers
    BY <1>t, <1>26, Zenon DEF TypeOK, StopAwaitsEsp, StopGoto
  <2> QED
    BY <1>t, <1>26, <2>1, SMTT(30) DEF TypeOK, StopAwaitsEsp
<1>27. ASSUME StopDrains
      PROVE  TypeOK'
  BY <1>t, <1>27, ProcFacts, SMTT(30) DEF TypeOK, StopDrains, StopGoto
<1>28. ASSUME StopEnds
      PROVE  TypeOK'
  <2>1. log' \in Seq(Events)
    BY <1>t, <1>28, LogTypes, SMTT(30) DEF TypeOK, StopEnds, Emit
  <2>2. stopper' \in Stoppers
    BY <1>t, <1>28, SMTT(30) DEF TypeOK, StopEnds, StopGoto
  <2>3. done' \in BOOLEAN /\ hubOpen' \in BOOLEAN
    BY <1>t, <1>28, Zenon DEF TypeOK, StopEnds
  <2>4. UNCHANGED <<startVars, ctx, workers, proc>>
    BY <1>28, Zenon DEF StopEnds
  <2>5. UNCHANGED <<markVars, running, runningDone, esp, fatal, stopping, brokenOnce>>
    BY <1>28, Zenon DEF StopEnds
  <2> HIDE DEF StartPC, ProcPC, StopPC, Stoppers, Kinds
  <2> QED
    BY <1>t, <2>1, <2>2, <2>3, <2>4, <2>5, SMTT(30) DEF TypeOK
<1>29. ASSUME NEW p \in Procs, FailChecks(p)
      PROVE  TypeOK'
  <2>1. proc' \in [Procs -> ProcPC]
    BY <1>t, <1>29, SMTT(30) DEF TypeOK, FailChecks, Move
  <2> QED
    BY <1>t, <1>29, <2>1, SMTT(30) DEF TypeOK, FailChecks
<1>30. ASSUME NEW p \in Procs, FailEmits(p)
      PROVE  TypeOK'
  <2>1. log' \in Seq(Events)
    BY <1>t, <1>30, LogTypes, SMTT(30) DEF TypeOK, FailEmits, Emit
  <2>2. stopper' \in Stoppers
    BY <1>t, <1>30, SMTT(30) DEF TypeOK, FailEmits, Stop
  <2>3. proc' \in [Procs -> ProcPC]
    BY <1>t, <1>30, SMTT(30) DEF TypeOK, FailEmits, Stop, Move
  <2> QED
    BY <1>t, <1>30, <2>1, <2>2, <2>3, SMTT(30) DEF TypeOK, FailEmits, Stop
<1> QED
  BY <1>1, <1>2, <1>3, <1>4, <1>5, <1>5a, <1>6, <1>7, <1>8, <1>9, <1>10, <1>11, <1>12, <1>13, <1>14,
         <1>15, <1>16, <1>17, <1>18, <1>19, <1>20, <1>21, <1>22, <1>23, <1>24, <1>25, <1>26,
         <1>27, <1>28, <1>29, <1>30, Zenon DEF Next, StartStep, ProcStep, WatcherStep, StopStep

-----------------------------------------------------------------------------
(* The theorems. *)

LEMMA InitIInv == Init => IInv
<1> SUFFICES ASSUME Init
             PROVE  IInv
  BY Zenon
<1>1. proc = [p \in Procs |-> IF p = User THEN "wait" ELSE "none"] /\ log = <<>>
  BY Zenon DEF Init
<1>2. TypeOK
  <2>1. /\ start \in [Calls -> StartPC] /\ ctx \in [Calls -> {"none", "live", "over"}]
        /\ workers \in [Calls -> {"none", "up", "closing", "down"}]
    BY Zenon DEF Init, StartPC
  <2>2. proc \in [Procs -> ProcPC]
    BY <1>1, Zenon DEF ProcPC
  <2>3. stopper \in Stoppers /\ log \in Seq(Events)
    BY <1>1 DEF Init, StopPC, Stoppers
  <2> QED
    BY <2>1, <2>2, <2>3, Zenon DEF Init, TypeOK
<1>3. StartInv /\ RunInv /\ LiveInv
  BY NoCallZero, Zenon DEF Init, StartInv, Active, RunInv, LiveInv
<1>4. StopInv
  BY Zenon DEF Init, StopInv, Ended, EspPassed, WorkersPassed, CancelPassed, MarkPassed
<1>5. ProcInv
  BY <1>1, ProcFacts, Zenon DEF ProcInv
<1>7. RaceInv
  BY Zenon DEF Init, RaceInv
<1>6. LogInv
  BY <1>1 DEF Init, LogInv, EventsInOrder
<1> QED
  BY <1>2, <1>3, <1>4, <1>5, <1>6, <1>7, Zenon DEF IInv

LEMMA IInvStep == IInv /\ [Next]_vars => IInv'
<1>1. IInv /\ Next => IInv'
  BY TypeStepInv, StartStepInv, RunStepInv, LiveStepInv, StopStepInv, ProcStepInv, RaceStepInv,
     LogStepInv, Zenon DEF IInv
<1>2. IInv /\ UNCHANGED vars => IInv'
  <2> SUFFICES ASSUME IInv, UNCHANGED vars
               PROVE  IInv'
    BY Zenon
  <2> USE DEF vars, startVars, actorVars, endVars, markVars
  <2>1. TypeOK'
    BY DEF IInv, TypeOK
  <2>2. StartInv' /\ RunInv' /\ LiveInv'
    BY Zenon DEF IInv, StartInv, Active, RunInv, LiveInv
  <2>3. StopInv'
    BY DEF IInv, StopInv
  <2>5. ProcInv' /\ RaceInv'
    BY Zenon DEF IInv, ProcInv, RaceInv
  <2>4. LogInv'
    BY SMTT(30) DEF IInv, LogInv, EventsInOrder
  <2> QED
    BY <2>1, <2>2, <2>3, <2>4, <2>5, Zenon DEF IInv
<1> QED
  BY <1>1, <1>2, Zenon

LEMMA Invariance == Spec => []IInv
BY InitIInv, IInvStep, PTL DEF Spec

\* Whatever the order of Start, Stop and failures, the control State is used by
\* one of a handshake, the Running actor and the close sequence of stop; stop
\* closes only after watchRunning has closed runningDone.
THEOREM StateOwner == Spec => []OneStateOwner
<1>1. IInv => OneStateOwner
  <2> SUFFICES ASSUME IInv
               PROVE  OneStateOwner
    BY Zenon
  <2>1. \A c, d \in Calls :
          start[c] \in {"handshake", "failing"} /\ start[d] \in {"handshake", "failing"} => c = d
    BY Zenon DEF IInv, StartInv, Active
  <2>2. (\E c \in Calls : start[c] \in {"handshake", "failing"})
          => running # "armed" /\ stopper.pc # "close"
    BY Zenon DEF IInv, RunInv, StopInv, Exited
  <2>3. stopper.pc = "close" => running \notin {"armed", "unarmed"}
    BY Zenon DEF IInv, RunInv, StopInv, Exited
  <2> QED
    BY <2>1, <2>2, <2>3, Zenon DEF OneStateOwner, IInv
<1> QED
  BY <1>1, Invariance, PTL

\* Stop returns only when nothing that any Start has brought up is left: no live
\* context, no transport worker that was not told to close, no pipeline, and a
\* tunnel that is handed out has ended; pktOut is never closed under a sender.
\* Only a pipeline that outlives stop's wait of five seconds is excepted.
THEOREM NothingLeft == Spec => []StopLeavesNothing
<1>1. IInv => StopLeavesNothing
  BY Zenon DEF IInv, StopInv, StopLeavesNothing, Ended, EspPassed, WorkersPassed, CancelPassed, MarkPassed
<1> QED
  BY <1>1, Invariance, PTL

\* The events of the session and of the handshakes of its failed calls of Start
\* reach the hub once each and in their order, although handshakes, a failing
\* watcher and stop emit without a common lock; the one Broken that may follow
\* Stopping comes of a fail that had looked before stop took the lock.
THEOREM EventOrder == Spec => []EventsInOrder
<1>1. IInv => EventsInOrder
  BY Zenon DEF IInv, LogInv
<1> QED
  BY <1>1, Invariance, PTL
=============================================================================
