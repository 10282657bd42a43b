------------------------------ MODULE Scheduler ------------------------------
(***************************************************************************)
(* The scheduler process of one worker node (scheduler.py): it starts      *)
(* replica processes for the head node, answers the head once a replica    *)
(* has registered, pings replicas, reports their health, and gives its     *)
(* node up when the head cannot be reached.                                *)
(*                                                                         *)
(* One asyncio event loop: CreateReplica and RegisterReplica handlers, the *)
(* heartbeat loop and the health loop interleave at RPCs and sleeps only   *)
(* (replica_lock is never held over either).  Replica processes load their *)
(* model, register, and may die at any time.  The attempts of one retried  *)
(* RPC are one step with the outcome of the last; ports, addresses and     *)
(* command lines are functions of the replica number and are left out, and *)
(* so is the order in which a round goes through the registry.             *)
(*                                                                         *)
(* A SIGTERM the scheduler sends to itself has two outcomes.  It installs  *)
(* no handler: as an ordinary process it ends.  As the first process of    *)
(* its container (Dockerfile.scheduler starts it with CMD, the VM manager  *)
(* runs the image without an init) the kernel drops the signal, os.kill    *)
(* returns, and the code goes on with the next line.                       *)
(***************************************************************************)
EXTENDS Integers, FiniteSets

CONSTANTS
  Calls,      \* CreateReplica calls of the head node
  MaxNum      \* bound: replica numbers handed out

ASSUME MaxNumAssumption == MaxNum \in Nat \ {0}

Nums == 1..MaxNum
NoNum == 0

\* What Replica objects the registry holds: their number and their status.
Entry == [num : Nums, status : {"idle", "DEAD"}]

VARIABLES
  sched,        \* the scheduler process: "registering", "up", "down"
  replica_num,  \* last number handed out
  registry,     \* replica_registry
  futures,      \* replica_futures: numbers that have a future
  call,         \* state of each CreateReplica call
  num,          \* the number a call took
  proc,         \* the replica processes, by number
  heartbeat,    \* start_heartbeat_loop: "sleeping", "pinging", "crashed"
  todo,         \* the part of its snapshot that is still to be pinged
  health        \* _send_health_updates: "sleeping", "reporting", "returned"

table == <<replica_num, registry, futures>>
calls == <<call, num>>
loops == <<heartbeat, todo, health>>
vars  == <<sched, table, calls, proc, loops>>

CallStates == {"idle", "awaiting", "created", "refused", "cancelled"}
ProcStates == {"none", "starting", "running", "gone"}

TypeOK ==
  /\ sched \in {"registering", "up", "down"}
  /\ replica_num \in 0..MaxNum
  /\ registry \subseteq Entry
  /\ futures \subseteq Nums
  /\ call \in [Calls -> CallStates]
  /\ num \in [Calls -> Nums \union {NoNum}]
  /\ proc \in [Nums -> ProcStates]
  /\ heartbeat \in {"sleeping", "pinging", "crashed"}
  /\ todo \subseteq Entry
  /\ health \in {"sleeping", "reporting", "returned"}

Init ==
  /\ sched = "registering"
  /\ replica_num = 0 /\ registry = {} /\ futures = {}
  /\ call = [c \in Calls |-> "idle"]
  /\ num = [c \in Calls |-> NoNum]
  /\ proc = [k \in Nums |-> "none"]
  /\ heartbeat = "sleeping" /\ todo = {}
  /\ health = "sleeping"

AfterSigterm == {"up", "down"}

Registered(k) == \E e \in registry : e.num = k
Live(E) == {e \in E : e.status # "DEAD"}

-----------------------------------------------------------------------------
(* Start: main registers the node and only then serves.                    *)

RegisterNodeAcked ==
  /\ sched = "registering"
  /\ sched' = "up"
  /\ UNCHANGED <<table, calls, proc, loops>>

\* All attempts fail: the process sends itself SIGTERM.  If that does not end
\* it, _register_node returns and main serves, unregistered.
RegisterNodeFails ==
  /\ sched = "registering"
  /\ sched' \in AfterSigterm
  /\ UNCHANGED <<table, calls, proc, loops>>

-----------------------------------------------------------------------------
(* Replica creation.                                                       *)

\* Slips: the number is read before it is incremented; it is computed from
\* what is registered.
NextNum_before == replica_num
NextNum_registered == Cardinality(registry) + 1

NextNum == replica_num + 1

\* The process is started and its future made before the handler suspends.
CreateReplica(c) ==
  LET k == NextNum
  IN  /\ sched = "up" /\ call[c] = "idle" /\ k <= MaxNum
      /\ replica_num' = k
      /\ proc' = [proc EXCEPT ![k] = "starting"]
      /\ futures' = futures \union {k}
      /\ call' = [call EXCEPT ![c] = "awaiting"]
      /\ num' = [num EXCEPT ![c] = k]
      /\ UNCHANGED <<sched, registry, loops>>

\* StartReplicaCpp raises: created = False, and the number stays used.
CreateReplicaRaises(c) ==
  LET k == NextNum
  IN  /\ sched = "up" /\ call[c] = "idle" /\ k <= MaxNum
      /\ replica_num' = k
      /\ futures' = futures \ {k}
      /\ call' = [call EXCEPT ![c] = "refused"]
      /\ num' = [num EXCEPT ![c] = k]
      /\ UNCHANGED <<sched, registry, proc, loops>>

\* The head's connection breaks: gRPC cancels the handler and with it the
\* future it awaits, which stays in FutureManager.
CallCancelled(c) ==
  /\ sched = "up" /\ call[c] = "awaiting"
  /\ call' = [call EXCEPT ![c] = "cancelled"]
  /\ UNCHANGED <<sched, table, num, proc, loops>>

\* Slips: the future is completed and not popped; that of the last number is
\* completed.
set_result_kept(k) ==
  /\ UNCHANGED futures
  /\ call' = [c \in Calls |->
                IF num[c] = k /\ call[c] = "awaiting" THEN "created" ELSE call[c]]

set_result_latest(k) ==
  /\ futures' = futures \ {replica_num}
  /\ call' = [c \in Calls |->
                IF num[c] = replica_num /\ replica_num \in futures /\ call[c] = "awaiting"
                  THEN "created" ELSE call[c]]

\* FutureManager.set_result: pop, and complete what is not done.
set_result(k) ==
  /\ futures' = futures \ {k}
  /\ call' = [c \in Calls |->
                IF num[c] = k /\ k \in futures /\ call[c] = "awaiting"
                  THEN "created" ELSE call[c]]

\* Slip: the acknowledgement comes before the future is completed, and the
\* completion is forgotten.
RegisterReplica_silent(k) ==
  /\ sched = "up" /\ proc[k] = "starting"
  /\ registry' = registry \union {[num |-> k, status |-> "idle"]}
  /\ proc' = [proc EXCEPT ![k] = "running"]
  /\ UNCHANGED <<sched, replica_num, futures, call, num, loops>>

\* A replica has loaded its model and registers; a number that is already in
\* the registry is acknowledged and nothing else.
RegisterReplica(k) ==
  /\ sched = "up" /\ proc[k] = "starting"
  /\ IF Registered(k)
       THEN UNCHANGED <<registry, futures, call>>
       ELSE /\ registry' = registry \union {[num |-> k, status |-> "idle"]}
            /\ set_result(k)
  /\ proc' = [proc EXCEPT ![k] = "running"]
  /\ UNCHANGED <<sched, replica_num, num, loops>>

\* The replica finds no scheduler to register with: exit(1).
RegisterReplicaFails(k) ==
  /\ sched = "down" /\ proc[k] = "starting"
  /\ proc' = [proc EXCEPT ![k] = "gone"]
  /\ UNCHANGED <<sched, table, calls, loops>>

ProcessDies(k) ==
  /\ proc[k] \in {"starting", "running"}
  /\ proc' = [proc EXCEPT ![k] = "gone"]
  /\ UNCHANGED <<sched, table, calls, loops>>

-----------------------------------------------------------------------------
(* The heartbeat loop.                                                     *)

\* Slip: replicas after the first are left out of the round.
HeartbeatRound_first ==
  /\ sched = "up" /\ heartbeat = "sleeping"
  /\ registry # {}
  /\ todo' = {CHOOSE e \in registry : TRUE}
  /\ heartbeat' = "pinging"
  /\ UNCHANGED <<sched, table, calls, proc, health>>

\* A round begins: snapshot of the registry, without what is marked dead.
HeartbeatRound ==
  /\ sched = "up" /\ heartbeat = "sleeping"
  /\ registry # {}
  /\ todo' = Live(registry)
  /\ heartbeat' = "pinging"
  /\ UNCHANGED <<sched, table, calls, proc, health>>

PingAnswered(e) ==
  /\ sched = "up" /\ heartbeat = "pinging"
  /\ proc[e.num] = "running"
  /\ todo' = todo \ {e}
  /\ UNCHANGED <<sched, table, calls, proc, heartbeat, health>>

\* No answer in any attempt, from a process that is gone or too slow.  The
\* arguments of the restart name replica_info.deployment_name, which Replica
\* does not have: AttributeError leaves the loop, and its task is over.
PingFails(e) ==
  /\ sched = "up" /\ heartbeat = "pinging"
  /\ heartbeat' = "crashed"
  /\ todo' = {}
  /\ UNCHANGED <<sched, table, calls, proc, health>>

RoundOver ==
  /\ sched = "up" /\ heartbeat = "pinging" /\ todo = {}
  /\ heartbeat' = "sleeping"
  /\ UNCHANGED <<sched, table, calls, proc, todo, health>>

-----------------------------------------------------------------------------
(* The health loop.                                                        *)

SendHealthUpdate ==
  /\ sched = "up" /\ health = "sleeping"
  /\ health' = "reporting"
  /\ UNCHANGED <<sched, table, calls, proc, heartbeat, todo>>

\* The head has acknowledged: cleanup_replicas, then sleep.
cleanup_replicas ==
  /\ sched = "up" /\ health = "reporting"
  /\ registry' = Live(registry)
  /\ health' = "sleeping"
  /\ UNCHANGED <<sched, replica_num, futures, calls, proc, heartbeat, todo>>

\* Slip: only the scheduler is signalled.
send_kill_signal_self ==
  /\ sched = "up" /\ health = "reporting"
  /\ sched' \in AfterSigterm
  /\ health' = "returned"
  /\ UNCHANGED <<table, calls, proc, heartbeat, todo>>

\* Every attempt to report has failed: SIGTERM to all registered replicas and
\* then to the process itself.  Whether or not that ends the scheduler, the
\* health loop is over; nothing is taken out of the registry.
send_kill_signal ==
  /\ sched = "up" /\ health = "reporting"
  /\ proc' = [k \in Nums |-> IF Registered(k) THEN "gone" ELSE proc[k]]
  /\ sched' \in AfterSigterm
  /\ health' = "returned"
  /\ UNCHANGED <<table, calls, heartbeat, todo>>

-----------------------------------------------------------------------------
Loops ==
  \/ HeartbeatRound \/ RoundOver
  \/ \E e \in todo : PingAnswered(e)
  \/ \E e \in todo : PingFails(e)
  \/ SendHealthUpdate \/ cleanup_replicas \/ send_kill_signal

Next ==
  \/ RegisterNodeAcked \/ RegisterNodeFails
  \/ \E c \in Calls : CreateReplica(c)
  \/ \E c \in Calls : CreateReplicaRaises(c)
  \/ \E c \in Calls : CallCancelled(c)
  \/ \E k \in Nums : RegisterReplica(k)
  \/ \E k \in Nums : RegisterReplicaFails(k)
  \/ \E k \in Nums : ProcessDies(k)
  \/ Loops

Spec == Init /\ [][Next]_vars

\* The event loop goes on with every coroutine that can; every RPC ends, with
\* an answer or without; a process that loads its model gets done with it.
\* The head owes no calls.
Fairness ==
  /\ WF_vars(RegisterNodeAcked \/ RegisterNodeFails)
  /\ \A k \in Nums : WF_vars(RegisterReplica(k)) /\ WF_vars(RegisterReplicaFails(k))
  /\ WF_vars(HeartbeatRound) /\ WF_vars(RoundOver)
  /\ WF_vars(\E e \in todo : PingAnswered(e) \/ PingFails(e))
  /\ WF_vars(SendHealthUpdate) /\ WF_vars(cleanup_replicas \/ send_kill_signal)

FairSpec == Spec /\ Fairness

-----------------------------------------------------------------------------
(* Safety.                                                                 *)

\* A call is told created = True only about the process it started itself, and
\* only once that process is in the registry; no two calls share a process.
\* Registrations come in any order, after cancelled calls too.
AnswersAreOwn ==
  /\ \A c \in Calls : call[c] = "created" =>
       Registered(num[c]) /\ proc[num[c]] \in {"running", "gone"}
  /\ \A c, d \in Calls : (c # d /\ num[c] = num[d]) => num[c] = NoNum

\* No registration is missed: a call that still waits has its future and its
\* process has not registered yet.  It rests on the future being made before
\* the handler that started the process first suspends.
NoMissedRegistration ==
  \A c \in Calls : call[c] = "awaiting" =>
    num[c] \in futures /\ ~Registered(num[c]) /\ proc[num[c]] # "running"

\* FutureManager does not leak: what is left in it belongs to a process that
\* has not registered and to a call that waits or was cancelled.
FuturesAreOwned ==
  \A k \in futures : ~Registered(k) /\
    \E c \in Calls : num[c] = k /\ call[c] \in {"awaiting", "cancelled"}

\* Why: a number is used up by the call that takes it, nothing is known of
\* numbers not yet handed out, only processes that have announced themselves
\* are registered, and no line of the code marks an entry DEAD.
NumbersFresh ==
  /\ \A c \in Calls : /\ num[c] <= replica_num
                      /\ num[c] = NoNum <=> call[c] = "idle"
  /\ \A k \in Nums : k > replica_num =>
       proc[k] = "none" /\ k \notin futures /\ ~Registered(k)
  /\ \A e \in registry : e.status = "idle" /\ proc[e.num] \in {"running", "gone"}

SchedulerInv ==
  TypeOK /\ NumbersFresh /\ AnswersAreOwn /\ NoMissedRegistration /\ FuturesAreOwned

-----------------------------------------------------------------------------
(* Liveness.                                                               *)

\* A call waits for ever only if its process died before registering or the
\* scheduler went down.
EveryCallAnswered ==
  \A c \in Calls :
    call[c] = "awaiting" ~>
      \/ call[c] # "awaiting"
      \/ proc[num[c]] = "gone"
      \/ sched = "down"

\* A scheduler that has ended leaves no replica behind: the registered ones
\* are signalled, the others find nobody to register with.  A scheduler that
\* its own SIGTERM did not end is another matter: a replica that was loading
\* registers with it and runs on.
NothingOutlivesIt ==
  sched = "down" ~> \A k \in Nums : proc[k] \in {"none", "gone"}

\* Every registered replica gets into a round, however late it registers, and
\* every round gets to it, unless a ping fails or the scheduler goes down.
InRound(k) == \E e \in todo : e.num = k
Over == heartbeat = "crashed" \/ sched = "down"

EveryReplicaPinged ==
  \A k \in Nums :
    /\ Registered(k) ~> (InRound(k) \/ Over)
    /\ InRound(k) ~> (~InRound(k) \/ Over)

-----------------------------------------------------------------------------
(* What comments say, and the code does not do.                            *)

\* start_heartbeat_loop: replicas that do not respond to pings are marked dead.
DeadIsMarked ==
  \A k \in Nums :
    (Registered(k) /\ proc[k] = "gone") ~>
      \/ sched = "down"
      \/ ~Registered(k)
      \/ \E e \in registry : e.num = k /\ e.status = "DEAD"
=============================================================================
