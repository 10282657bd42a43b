---------------------------- MODULE ProxyManager ----------------------------
(***************************************************************************)
(* ProxyManager of the head node (proxy_manager.py): it starts the proxy   *)
(* process and watches it with send_heartbeat.                             *)
(*                                                                         *)
(* The head starts a send_heartbeat task for every subscription of the     *)
(* proxy and none of them ever returns, so several run on the one event    *)
(* loop and share AliveProxy, proxy_process, channel and stub.  They       *)
(* interleave at Ping calls and sleeps; Channel.close has no grace period  *)
(* and does not suspend.  It cancels the calls in flight on that channel   *)
(* (CancelledError is no Exception: it ends the task that waits for one),  *)
(* and a later attempt on it raises.  Ping is called with no timeout.      *)
(*                                                                         *)
(* A channel that is replaced in self.channel has no other reference, so   *)
(* its destructor closes it, without cancelling: a Ping in flight goes on, *)
(* the next attempt raises.  A channel is told apart only as the one in    *)
(* self.channel ("current"), one replaced under a Ping, or a closed one.   *)
(***************************************************************************)
EXTENDS Integers, FiniteSets

CONSTANTS
  Tasks,          \* send_heartbeat tasks, one per subscription
  NumAttempts,    \* attempts of try_send_with_retries
  MaxProcs,       \* bound: proxy processes started
  MaxFailures     \* bound: starts that fail

ASSUME PingAttempts == NumAttempts \in Nat \ {0}
ASSUME ProcBounds == MaxProcs \in Nat \ {0} /\ MaxFailures \in Nat

Procs == 1..MaxProcs
Running == {"starting", "up", "hung"}        \* neither signalled nor gone
ProcStates == {"none", "stopping", "stuck", "gone"} \union Running
TaskStates == {"none", "new", "booting", "restarting", "pinging", "backoff",
               "sleeping", "cancelled"}

VARIABLES
  AliveProxy,
  proxy_process,   \* the process started last, 0 if none
  proc,            \* the state of every process started
  failures,        \* counted for the bound
  channel,         \* self.channel: "none", "open", "closed"
  pc,
  via,             \* the channel a task's Ping goes through
  attempt

start == <<AliveProxy, proxy_process, proc, failures>>
task  == <<pc, via, attempt>>
vars  == <<start, channel, task>>

TypeOK ==
  /\ AliveProxy \in {"yes", "no"}
  /\ proxy_process \in 0..MaxProcs
  /\ proc \in [Procs -> ProcStates]
  /\ failures \in 0..MaxFailures
  /\ channel \in {"none", "open", "closed"}
  /\ pc \in [Tasks -> TaskStates]
  /\ via \in [Tasks -> {"none", "current", "replaced", "closed"}]
  /\ attempt \in [Tasks -> 1..NumAttempts]

\* __init__ has called start_http_proxy, with success or without.
Init ==
  /\ \/ /\ AliveProxy = "yes" /\ proxy_process = 1
        /\ proc = [g \in Procs |-> IF g = 1 THEN "starting" ELSE "none"]
     \/ /\ AliveProxy = "no" /\ proxy_process = 0
        /\ proc = [g \in Procs |-> "none"]
  /\ failures = 0
  /\ channel = "none"
  /\ pc = [t \in Tasks |-> "none"]
  /\ via = [t \in Tasks |-> "none"]
  /\ attempt = [t \in Tasks |-> 1]

-----------------------------------------------------------------------------
(* The proxy process.                                                      *)

\* It comes up, or stops answering and ignores signals.
ProcessStep(g) ==
  /\ \/ proc[g] = "starting" /\ proc' = [proc EXCEPT ![g] = "up"]
     \/ proc[g] = "up" /\ proc' = [proc EXCEPT ![g] = "hung"]
  /\ UNCHANGED <<AliveProxy, proxy_process, failures, channel, task>>

\* It ends by itself, because its port is still taken, or because it was told
\* to (the signal handler of the proxy's main).
ProcessEnds(g) ==
  /\ proc[g] \notin {"none", "gone"}
  /\ proc' = [proc EXCEPT ![g] = "gone"]
  /\ UNCHANGED <<AliveProxy, proxy_process, failures, channel, task>>

\* It subscribes, or its stream broke and it subscribes again: one more task.
Subscribed(t) ==
  /\ pc[t] = "none"
  /\ proxy_process \in Procs /\ proc[proxy_process] = "up"
  /\ pc' = [pc EXCEPT ![t] = "new"]
  /\ UNCHANGED <<start, channel, via, attempt>>

\* The process starts, Popen raises, or it has ended when poll is called.
start_http_proxy ==
  \/ /\ proxy_process < MaxProcs
     /\ proxy_process' = proxy_process + 1
     /\ proc' = [proc EXCEPT ![proxy_process + 1] = "starting"]
     /\ AliveProxy' = "yes"
     /\ UNCHANGED failures
  \/ /\ failures < MaxFailures
     /\ failures' = failures + 1
     /\ AliveProxy' = "no"
     /\ UNCHANGED <<proxy_process, proc>>
  \/ /\ failures < MaxFailures /\ proxy_process < MaxProcs
     /\ failures' = failures + 1
     /\ proxy_process' = proxy_process + 1
     /\ proc' = [proc EXCEPT ![proxy_process + 1] = "gone"]
     /\ AliveProxy' = "no"

-----------------------------------------------------------------------------
(* send_heartbeat.                                                         *)

\* Close of self.channel by another task: a call in flight on it is cancelled,
\* and a task between two attempts is left with a closed channel.
InFlight(u) == pc[u] = "pinging" /\ via[u] = "current"

ClosedPc(u) == IF InFlight(u) THEN "cancelled" ELSE pc[u]
ClosedVia(u) ==
  IF InFlight(u) THEN "none" ELSE IF via[u] = "current" THEN "closed" ELSE via[u]

\* The top of the loop: the first attempt of a Ping through self.channel, of
\* state c, or the start of a new process.
LoopPc == IF AliveProxy = "yes" THEN "pinging" ELSE "restarting"
LoopVia(c) ==
  IF AliveProxy = "no" THEN "none" ELSE IF c = "closed" THEN "closed" ELSE "current"
LoopStart ==
  \/ AliveProxy = "yes" /\ UNCHANGED start
  \/ AliveProxy = "no" /\ start_http_proxy

FirstAttempt(t) == attempt' = [attempt EXCEPT ![t] = 1]

\* A task begins while the proxy counts as dead: start it, sleep.
Begin(t) ==
  /\ pc[t] = "new" /\ AliveProxy = "no"
  /\ start_http_proxy
  /\ pc' = [pc EXCEPT ![t] = "booting"]
  /\ UNCHANGED <<channel, via, attempt>>

\* A task makes its channel, replaces what was there, and enters the loop.
Connect(t) ==
  /\ pc[t] = "booting" \/ (pc[t] = "new" /\ AliveProxy = "yes")
  /\ channel' = "open"
  /\ pc' = [pc EXCEPT ![t] = LoopPc]
  /\ via' = [u \in Tasks |->
       IF u = t THEN LoopVia("open")
       ELSE IF InFlight(u) THEN "replaced"
       ELSE IF via[u] = "current" THEN "closed" ELSE via[u]]
  /\ LoopStart /\ FirstAttempt(t)

\* After the restart and the sleep: close, reconnect, and go on.
Reconnect(t) ==
  /\ pc[t] = "restarting"
  /\ channel' = "open"
  /\ pc' = [u \in Tasks |-> IF u = t THEN LoopPc ELSE ClosedPc(u)]
  /\ via' = [u \in Tasks |-> IF u = t THEN LoopVia("open") ELSE ClosedVia(u)]
  /\ LoopStart /\ FirstAttempt(t)

WakeUp(t) ==
  /\ pc[t] = "sleeping"
  /\ pc' = [pc EXCEPT ![t] = LoopPc]
  /\ via' = [via EXCEPT ![t] = LoopVia(channel)]
  /\ LoopStart /\ FirstAttempt(t)
  /\ UNCHANGED channel

\* The process that listens answers; sleep until the next heartbeat.
PingAnswered(t) ==
  /\ pc[t] = "pinging" /\ via[t] # "closed"
  /\ \E g \in Procs : proc[g] \in {"up", "stopping"}
  /\ pc' = [pc EXCEPT ![t] = "sleeping"]
  /\ via' = [via EXCEPT ![t] = "none"]
  /\ UNCHANGED <<start, channel, attempt>>

\* An attempt fails: the channel is closed, or nobody listens.  A process that
\* hangs lets it wait.
Failing(t) ==
  /\ pc[t] = "pinging"
  /\ via[t] = "closed" \/ \A g \in Procs : proc[g] \notin {"up", "hung", "stuck"}

\* Slip: one attempt too many.
MoreAttempts_off(t) == attempt[t] <= NumAttempts
MoreAttempts(t) == attempt[t] < NumAttempts

AttemptFails(t) ==
  /\ Failing(t) /\ MoreAttempts(t)
  /\ pc' = [pc EXCEPT ![t] = "backoff"]
  /\ via' = [via EXCEPT ![t] = IF @ = "replaced" THEN "closed" ELSE @]
  /\ attempt' = [attempt EXCEPT ![t] = @ + 1]
  /\ UNCHANGED <<start, channel>>

Retry(t) ==
  /\ pc[t] = "backoff"
  /\ pc' = [pc EXCEPT ![t] = "pinging"]
  /\ UNCHANGED <<start, channel, via, attempt>>

\* poll and terminate, on whatever process was started last.
Terminated ==
  [g \in Procs |->
     IF g # proxy_process \/ proc[g] \notin Running THEN proc[g]
     ELSE IF proc[g] = "hung" THEN "stuck" ELSE "stopping"]

\* Slips: the process is left alone; the proxy still counts as alive; the task
\* leaves its loop.
GiveUp_unterminated(t) ==
  /\ Failing(t) /\ ~MoreAttempts(t)
  /\ AliveProxy' = "no"
  /\ channel' = "closed"
  /\ pc' = [u \in Tasks |-> IF u = t THEN "sleeping" ELSE ClosedPc(u)]
  /\ via' = [u \in Tasks |-> IF u = t THEN "none" ELSE ClosedVia(u)]
  /\ UNCHANGED <<proxy_process, proc, failures, attempt>>

GiveUp_unmarked(t) ==
  /\ Failing(t) /\ ~MoreAttempts(t)
  /\ proc' = Terminated
  /\ channel' = "closed"
  /\ pc' = [u \in Tasks |-> IF u = t THEN "sleeping" ELSE ClosedPc(u)]
  /\ via' = [u \in Tasks |-> IF u = t THEN "none" ELSE ClosedVia(u)]
  /\ UNCHANGED <<AliveProxy, proxy_process, failures, attempt>>

GiveUp_returns(t) ==
  /\ Failing(t) /\ ~MoreAttempts(t)
  /\ AliveProxy' = "no"
  /\ proc' = Terminated
  /\ channel' = "closed"
  /\ pc' = [u \in Tasks |-> IF u = t THEN "cancelled" ELSE ClosedPc(u)]
  /\ via' = [u \in Tasks |-> IF u = t THEN "none" ELSE ClosedVia(u)]
  /\ UNCHANGED <<proxy_process, failures, attempt>>

\* The last attempt fails: the proxy counts as dead, self.channel is closed,
\* the process terminated; sleep, and go on.
GiveUp(t) ==
  /\ Failing(t) /\ ~MoreAttempts(t)
  /\ AliveProxy' = "no"
  /\ proc' = Terminated
  /\ channel' = "closed"
  /\ pc' = [u \in Tasks |-> IF u = t THEN "sleeping" ELSE ClosedPc(u)]
  /\ via' = [u \in Tasks |-> IF u = t THEN "none" ELSE ClosedVia(u)]
  /\ UNCHANGED <<proxy_process, failures, attempt>>

-----------------------------------------------------------------------------
HeartbeatStep(t) ==
  \/ Begin(t) \/ Connect(t) \/ Reconnect(t) \/ WakeUp(t)
  \/ PingAnswered(t) \/ AttemptFails(t) \/ Retry(t) \/ GiveUp(t)

Next ==
  \/ \E g \in Procs : ProcessStep(g)
  \/ \E g \in Procs : ProcessEnds(g)
  \/ \E t \in Tasks : Subscribed(t)
  \/ \E t \in Tasks : HeartbeatStep(t)

Spec == Init /\ [][Next]_vars

\* The event loop goes on with every task that can, and a process that was told
\* to stop ends unless it hangs.  A process owes nothing else.
FairSpec ==
  /\ Spec
  /\ \A t \in Tasks : WF_vars(HeartbeatStep(t))
  /\ \A g \in Procs : WF_vars(proc[g] = "stopping" /\ ProcessEnds(g))

-----------------------------------------------------------------------------
(* Properties.                                                             *)

\* No proxy is left behind: a process that runs and was not told to stop is
\* the one in proxy_process, and it counts as alive.  So start_http_proxy never
\* runs a second one beside it, however many tasks there are.
NoStrayProxy ==
  \A g \in Procs : proc[g] \in Running => g = proxy_process /\ AliveProxy = "yes"

\* The watch goes on: tasks end one another by closing the channel they share,
\* but once there was one, one is left.
Watching(t) == pc[t] \notin {"none", "cancelled"}

WatchGoesOn ==
  (\E t \in Tasks : pc[t] # "none") => \E t \in Tasks : Watching(t)

\* A proxy that has ended is replaced, if any task watches and no process that
\* hangs keeps the port.
CrashIsNoticed ==
  \A g \in Procs :
    (proxy_process = g /\ proc[g] = "gone" /\ \E t \in Tasks : Watching(t))
      ~> \/ proxy_process > g \/ proxy_process = MaxProcs
         \/ \E h \in Procs : proc[h] = "stuck"
=============================================================================
