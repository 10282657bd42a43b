------------------------- MODULE ProxyManager_proofs -------------------------
(***************************************************************************)
(* Proofs about ProxyManager, for any number of heartbeat tasks, attempts  *)
(* and processes: no proxy process is left behind, and the watch over the  *)
(* proxy never ends once it has begun.                                     *)
(***************************************************************************)
EXTENDS ProxyManager, TLAPS

USE PingAttempts, ProcBounds

\* What a task finds at the top of its loop keeps the types.
LEMMA LoopTypes ==
  ASSUME TypeOK, LoopStart
  PROVE  /\ AliveProxy' \in {"yes", "no"}
         /\ proxy_process' \in 0..MaxProcs
         /\ proc' \in [Procs -> ProcStates]
         /\ failures' \in 0..MaxFailures
         /\ LoopPc \in TaskStates
         /\ \A c : LoopVia(c) \in {"none", "current", "closed"}
BY DEF TypeOK, LoopStart, start_http_proxy, start, LoopPc, LoopVia, TaskStates,
       Procs, ProcStates, Running

\* What the close of the shared channel makes of the other tasks.
LEMMA ClosedTypes ==
  ASSUME TypeOK, NEW u \in Tasks
  PROVE  /\ ClosedPc(u) \in TaskStates
         /\ ClosedVia(u) \in {"none", "current", "replaced", "closed"}
BY DEF TypeOK, ClosedPc, ClosedVia, InFlight, TaskStates

\* Every step of a process or a heartbeat task keeps the types.
LEMMA TypeStep == TypeOK /\ [Next]_vars => TypeOK'
<1> SUFFICES ASSUME TypeOK, [Next]_vars PROVE TypeOK'
  OBVIOUS
<1>1. ASSUME NEW g \in Procs, ProcessStep(g) \/ ProcessEnds(g)
      PROVE  TypeOK'
  BY <1>1 DEF TypeOK, ProcessStep, ProcessEnds, ProcStates, Running, task
<1>2. ASSUME NEW t \in Tasks, Subscribed(t)
      PROVE  TypeOK'
  BY <1>2 DEF TypeOK, Subscribed, TaskStates, start
<1>3. ASSUME NEW t \in Tasks, Begin(t)
      PROVE  TypeOK'
  <2>1. LoopStart
    BY <1>3 DEF Begin, LoopStart
  <2> QED
    BY <1>3, <2>1, LoopTypes DEF TypeOK, Begin, TaskStates
<1>4. ASSUME NEW t \in Tasks, Connect(t)
      PROVE  TypeOK'
  BY <1>4, LoopTypes DEF TypeOK, Connect, FirstAttempt
<1>5. ASSUME NEW t \in Tasks, Reconnect(t)
      PROVE  TypeOK'
  BY <1>5, LoopTypes, ClosedTypes DEF TypeOK, Reconnect, FirstAttempt
<1>6. ASSUME NEW t \in Tasks, WakeUp(t)
      PROVE  TypeOK'
  BY <1>6, LoopTypes DEF TypeOK, WakeUp, FirstAttempt
<1>7. ASSUME NEW t \in Tasks, PingAnswered(t) \/ Retry(t)
      PROVE  TypeOK'
  BY <1>7 DEF TypeOK, PingAnswered, Retry, TaskStates, start
<1>8. ASSUME NEW t \in Tasks, AttemptFails(t)
      PROVE  TypeOK'
  BY <1>8 DEF TypeOK, AttemptFails, MoreAttempts, TaskStates, start
<1>9. ASSUME NEW t \in Tasks, GiveUp(t)
      PROVE  TypeOK'
  <2>1. Terminated \in [Procs -> ProcStates]
    BY DEF TypeOK, Terminated, ProcStates
  <2>2. "sleeping" \in TaskStates
    BY DEF TaskStates
  <2> QED
    BY <1>9, <2>1, <2>2, ClosedTypes DEF TypeOK, GiveUp
<1>10. CASE UNCHANGED vars
  BY <1>10 DEF TypeOK, vars, start, task
<1> QED
  BY <1>1, <1>2, <1>3, <1>4, <1>5, <1>6, <1>7, <1>8, <1>9, <1>10
     DEF Next, HeartbeatStep

\* The type invariant of the proxy manager.
THEOREM ManagerTypes == Spec => []TypeOK
<1>1. Init => TypeOK
  BY DEF Init, TypeOK, Procs, ProcStates, Running, TaskStates
<1> QED
  BY <1>1, TypeStep, PTL DEF Spec

-----------------------------------------------------------------------------
\* A process is started only while none runs.
LEMMA StartAlone ==
  ASSUME TypeOK, NoStrayProxy, LoopStart
  PROVE  NoStrayProxy'
<1>1. CASE AliveProxy = "yes"
  BY <1>1 DEF LoopStart, start, NoStrayProxy
<1>2. CASE AliveProxy = "no"
  <2>1. start_http_proxy /\ \A g \in Procs : proc[g] \notin Running
    BY <1>2 DEF LoopStart, NoStrayProxy
  <2> QED
    BY <2>1 DEF start_http_proxy, NoStrayProxy, TypeOK, Procs, Running
<1> QED
  BY <1>1, <1>2 DEF TypeOK

\* However many heartbeat tasks share it, start_http_proxy never runs a second
\* proxy beside one that was not told to stop.
THEOREM OneProxyAtATime == Spec => []NoStrayProxy
<1>1. Init => NoStrayProxy
  BY DEF Init, NoStrayProxy, Running
<1>2. ASSUME TypeOK, NoStrayProxy, [Next]_vars
      PROVE  NoStrayProxy'
  <2>1. ASSUME NEW g \in Procs, ProcessStep(g) \/ ProcessEnds(g)
        PROVE  NoStrayProxy'
    BY <1>2, <2>1 DEF TypeOK, NoStrayProxy, ProcessStep, ProcessEnds, Running
  <2>2. ASSUME NEW t \in Tasks, Begin(t)
        PROVE  NoStrayProxy'
    <3>1. LoopStart
      BY <2>2 DEF Begin, LoopStart
    <3> QED
      BY <1>2, <3>1, StartAlone
  <2>3. ASSUME NEW t \in Tasks, Connect(t) \/ Reconnect(t) \/ WakeUp(t)
        PROVE  NoStrayProxy'
    BY <1>2, <2>3, StartAlone DEF Connect, Reconnect, WakeUp
  <2>4. ASSUME NEW t \in Tasks,
               Subscribed(t) \/ PingAnswered(t) \/ AttemptFails(t) \/ Retry(t)
        PROVE  NoStrayProxy'
    BY <1>2, <2>4 DEF NoStrayProxy, Subscribed, PingAnswered, AttemptFails, Retry, start
  <2>5. ASSUME NEW t \in Tasks, GiveUp(t)
        PROVE  NoStrayProxy'
    BY <1>2, <2>5 DEF NoStrayProxy, GiveUp, Terminated, Running
  <2>6. CASE UNCHANGED vars
    BY <1>2, <2>6 DEF NoStrayProxy, vars, start
  <2> QED
    BY <1>2, <2>1, <2>2, <2>3, <2>4, <2>5, <2>6 DEF Next, HeartbeatStep
<1> QED
  BY <1>1, <1>2, ManagerTypes, PTL DEF Spec

-----------------------------------------------------------------------------
\* The task that closes the shared channel cancels others and not itself, so a
\* watch that has begun never ends.
THEOREM WatchNeverEnds == Spec => []WatchGoesOn
<1>1. Init => WatchGoesOn
  BY DEF Init, WatchGoesOn
<1>2. ASSUME TypeOK, WatchGoesOn, [Next]_vars
      PROVE  WatchGoesOn'
  <2>1. ASSUME NEW t \in Tasks, HeartbeatStep(t) \/ Subscribed(t)
        PROVE  Watching(t)'
    <3>1. LoopPc \notin {"none", "cancelled"}
      BY DEF LoopPc
    <3>2. CASE Begin(t) \/ Connect(t) \/ Reconnect(t) \/ WakeUp(t)
      BY <1>2, <3>1, <3>2 DEF Begin, Connect, Reconnect, WakeUp, Watching, TypeOK
    <3>3. CASE PingAnswered(t) \/ AttemptFails(t) \/ Retry(t) \/ GiveUp(t) \/ Subscribed(t)
      BY <1>2, <3>3 DEF PingAnswered, AttemptFails, Retry, GiveUp, Subscribed,
           Watching, TypeOK
    <3> QED
      BY <2>1, <3>2, <3>3 DEF HeartbeatStep
  <2>2. ASSUME NEW g \in Procs, ProcessStep(g) \/ ProcessEnds(g)
        PROVE  WatchGoesOn'
    BY <1>2, <2>2 DEF WatchGoesOn, Watching, ProcessStep, ProcessEnds, task
  <2>3. CASE UNCHANGED vars
    BY <1>2, <2>3 DEF WatchGoesOn, Watching, vars, task
  <2> QED
    BY <1>2, <2>1, <2>2, <2>3 DEF Next, WatchGoesOn
<1> QED
  BY <1>1, <1>2, ManagerTypes, PTL DEF Spec
=============================================================================
