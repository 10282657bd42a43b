# Model-Serving-System: TLA+ models and proofs

This directory holds TLA+ models of the serving system in this repository, TLC
configurations that check them on small instances, and TLAPS proofs of the
properties that matter most, for every value of the constants.
`PROJECT.json` is the index: components, runs, the source lines of every
definition, the hazards, the findings and the theorems.

## 1. The system

A head node provisions workers, asks them for replicas and publishes a routing
table; a C++ proxy on the head node serves HTTP and streams tokens from the
replicas; on every worker node a scheduler starts and watches replica processes,
each a C++ gRPC server with an embedded vLLM engine. An earlier data plane in
Python (FastAPI proxy, Python replica) speaks the same protocols and is kept
beside the C++ one.

```
        HTTP                     SendRequest (stream)
client ------> proxy -----------------------------------> replica
                ^ |                                        | ^
   Ping,        | | SubscribeToRoutingUpdates              | | Ping, SIGTERM,
   start/stop   | v (stream of snapshots)  RegisterReplica v | Popen
              head  <--- RegisterNode, SendHealthStatus --- scheduler
                     ----------- CreateReplica ---------->
```

| Component | State it keeps | Operations |
|---|---|---|
| Head controller (`headNode/head_controller.py`) | replica queue, pending list, latest snapshot, change event | RegisterNode, SendHealthStatus, SubscribeToRoutingUpdates, replica_creation, create_replica |
| Deployment manager, autoscale manager, node cache, health manager (`lib/`) | replica list of a deployment, replica map, the autoscaler's map, nodes | add and remove replicas, take a snapshot |
| Proxy manager (`lib/proxy_manager.py`) | proxy process, alive flag, channel and stub | start_http_proxy, send_heartbeat |
| HTTP proxy (`headNode/http_proxy.cpp`) | routing table of deployment handles, gauges and counters | sessions, apply_routing_update, subscription loop |
| Deployment handle (`lib/deployment_handle.{h,cpp}`) | per replica: active_requests, health, time of the last failure | pick_next_replica, send_request, mark, release |
| Scheduler (`components/scheduler.py`, `lib/future_manager.py`, `lib/replica.py`) | replica number, registry, futures | RegisterNode, CreateReplica, RegisterReplica, heartbeat loop, health loop, kill signal |
| VM manager (`lib/cloud_vm/aws_vm_manager.py`) | cache of the instances it created | create_vm, delete_vm, the start-up script |
| Python proxy and handle (`headNode/http_proxy.py`, `lib/deployment_handle.py`) | routing table under an asyncio lock, outstanding requests per replica | stream_generator, apply_routing_update, pick_next_replica, the streaming attempt |
| Python replica (`components/add_replica_vllm.py`) | engine, position in the text of each call | init_model, register_replica, SendRequest |
| Replica (`components/replica_server.cc`, `components/add_replica.py`) | engine, one thread-safe queue per request | load, register, SendRequest, generate_stream |

What is hard about it:

* The head, the proxy manager and the scheduler each run many coroutines on one
  event loop. State read before an `await` is used after it.
* The proxy runs sessions on several threads, and one counter is shared without
  its lock. Handles are replaced under sessions that still use them.
* The replica hands text from a Python event loop to a gRPC thread.
* In the Python proxy generators are abandoned where they stand, with a lock or a
  count in hand, and closed later by another task.
* A VM is created by a chain of EC2 calls each of which may fail, also after it
  was carried out; its scheduler registers before it serves.
* RPCs are retried after lost acknowledgements, streams break, processes die,
  hang and start over, and most calls have no timeout.

What makes each part correct:

* Head: its three stores agree, no registration is lost, the proxy's table is a
  published one, moves forward only, and becomes current.
* Proxy manager: one proxy at a time, and a dead one is replaced.
* Proxy: counters are exact on every path, a request goes to the least loaded
  healthy replica, every session ends. (The first two hold only in part, see
  section 4.)
* Scheduler: every call is answered, with its own replica; nothing outlives a
  node that was given up.
* Replica: the caller gets the text in order and without gaps, knows whether
  it is complete, and is never left waiting.
* Python data plane: counts are exact on every way out, the text reaches the
  client as the engine made it, and nobody waits for the lock without need.
* VM manager: no instance runs on without a word in the log, one failure does not
  stop the others, and an order lists one replica at most.

## 2. Modules

| Module | Models | Kind |
|---|---|---|
| `HeadController` | head controller and its managers, the feed to the proxy, workers as environment | detailed |
| `RoutingFeed` | what the feed promises the data plane | abstract |
| `ProxyManager` | start, watch and restart of the proxy process | detailed |
| `HttpProxy` | proxy sessions and deployment handle | detailed |
| `Scheduler` | one worker's scheduler and its replica processes | detailed |
| `ReplicaServer` | one replica process | detailed |
| `TokenStream` | what a replica promises its caller | abstract |
| `PyReplica` | one process of the Python replica | detailed |
| `PyProxy` | the Python proxy and handle, composed with `PyReplica` | composition |
| `Provisioning` | VM manager, EC2, start of the schedulers, composed with `HeadController` | composition |
| `MCHeadController`, `MCHttpProxy`, `MCReplicaServer` | clock steps, symmetry, characters and marker for TLC | model checking |
| `*_proofs` | theorems | proofs |

Each detailed module keeps the names of the code. Definitions marked *Slip* in
the modules are plausible mistakes in the definition that follows them; no
specification uses them. `PROJECT.json` pairs each with the property that notices
it.

### HeadController

An action is one segment of a coroutine between two real suspensions: a stream
write, `Event.wait`, `Queue.get`, a sleep or an RPC. The locks in the code are
never held over a suspension, so they do not appear.

* `RegisterNode`, `TakeFromQueue`, `SpawnCreateReplica` are the path of a
  registration into a `create_replica` task; `WorkerCreates`, `CallFails`,
  `create_replica_refused` and `create_replica_done` are the attempts of its RPC.
  A reply can be lost after the worker acted on it, and the retry makes one more
  replica.
* `_on_deployment_change` stores a snapshot and sets and clears the event in one
  go. `stream` says where the handler of the subscription is; only a handler in
  `waiting` is resumed by the event. `Subscribe`, `YieldDone`, `ResumeSend`,
  `ResumeSkip` are the handler, `apply_routing_update` and `StreamBreaks` the
  proxy's end. Snapshots are kept in `history` so that properties can speak of
  versions; the code keeps only the last one. Of the time stamps only the
  difference that the handler's test looks at is kept, in `lead`: the stamp of
  the latest snapshot less `last_yielded_timestamp_ns`.
* `SendHealthStatus` is the head's handler. The scheduler at this commit never
  marks a replica DEAD (see finding `scheduler_dead`), so the reports that name
  dead replicas come from the interface and not from `scheduler.py`.
* Only deployment 2 is modelled: it is the only one `create_replica` asks for. The
  replica list is a multiset; its order only breaks ties in the proxy. Resource
  amounts are left out because every call books 0.
* `since` is auxiliary: it remembers the version at which `Event.wait` began.

### ProxyManager

The head starts one `send_heartbeat` task per subscription and no task returns,
so several share `AliveProxy`, `proxy_process`, `channel` and `stub`. `Begin`,
`Connect`, `WakeUp` and `Reconnect` go through the top of the loop;
`PingAnswered`, `AttemptFails`, `Retry` and `GiveUp` are the outcomes of a Ping.
Closing the channel cancels the calls in flight on it. In Python that is a
`CancelledError`, which `except Exception` does not catch, so it ends the other
task; a later attempt on a closed channel raises at once. `Connect` replaces
`self.channel` without closing it. That was the last reference to the channel
object, and the destructor of a `grpc.aio` channel closes it, without cancelling
the calls in flight: a Ping on its way is still answered, the next attempt of the
same heartbeat raises.

With two tasks a *responsive* proxy can be terminated: a task that wakes within
the two seconds between another task's restart and its reconnect pings through
the closed channel, fails every attempt and terminates the new process. No
document rules this out, so it is described here and not stated as a property.

### HttpProxy

Sessions are coroutines on `Threads` threads. `active_requests` is a plain
`int`, incremented under the mutex of the handle and decremented by
`~ReplicaReleaser` without it; both are a load (`PickLoad`, `ReleaseLoad`) and a
store (`PickStore`, `ReleaseStore`) that other threads may run between. A pick
holds the mutex from load to store, a release does not. `overlapped` is auxiliary:
the counters for which a store came between another session's load and store.
Every routing update makes a
new handle (`gen`), with counters at 0 and all replicas healthy; a session keeps
the handle it looked up. The 15-second cool-down is the state `cooling`, ended
by `CoolingEnds` at any time. Tokens are counted, not named.

### Scheduler

CreateReplica and RegisterReplica handlers, the heartbeat loop and the health
loop interleave at RPCs and sleeps. `CreateReplica` runs from the number to the
await of its future; `RegisterReplica` completes that future through
`set_result`. The attempts of one retried RPC are one step with the last
outcome, because nothing in the scheduler is read or written between them.
`PingFails` ends the heartbeat task, as the AttributeError in the code does.

The scheduler gives up by sending itself SIGTERM, when it cannot register
(`RegisterNodeFails`) and at the end of `send_kill_signal`. The image starts it as
the first process of its container and it installs no handler, so the kernel
drops the signal; run by hand it ends. Both outcomes are in the model
(`AfterSigterm`).

### ReplicaServer

The gRPC thread (`GetItem`, `GetSleeps`, `GetEnd`, `Write`, `WriteFails`) and the
coroutine (`Generate`, `EngineOutput`, `EngineEnds`, `EngineRaises`, `Finally`)
share a queue. The predicate of `cv.wait` is tested and the thread put to sleep
under the queue's mutex, so `GetSleeps` is one step; `put` and `close` notify. The
engine reports its whole text each time; a chunk is the slice of the text from
`sent_position` on. The coroutine puts errors into the queue as text that begins
with a marker, and `Write` sets `is_error` by searching the chunk for the marker
(`IsError`). So generated text that holds the marker is flagged in the middle of
a stream that goes on, and a marker cut in two by the chunks is not found. A
caller therefore cannot take a flag for the end: `Verdict` waits for the status of
the call, and one flagged on the way counts as broken although its text may be
whole. `LoadModel` may leave the process without an engine, and `main` goes on all
the same.

### PyReplica and PyProxy

The Python replica runs `init_model`, starts its server, registers, and serves
`SendRequest` as an async generator: `EngineReports` is the code from an engine
report to the next suspension, `YieldReturns` the code after the yield, where
`sent_position` moves. Unlike in the C++ replica a missing engine is inside the
`try` and becomes an error reply (`Raises`). Registration is attempt by attempt;
an attempt may have reached the scheduler although it failed, so the table may
list any replica that serves or has served (`Started`).

The proxy is one event loop. `waiters` is the queue of its `asyncio.Lock`; `owner`
is set only where the lock is held over a suspension, which is the answer to a
request for an unknown deployment. `Dispatch`, `Attempt` and `Takes` follow
`stream_generator` through lookup, pick, the streaming attempt and its client.
`Leaves` is a client that disconnects at any point; `aclose` is the later close of
the generator, which runs `async with` and `finally` and skips the counters of
`except Exception`. Each update makes a new handle, as in `HttpProxy`; counts are
changed in one segment of the loop, so there is nothing to race.

The code differs from what one may expect in two places that the model keeps:
`send_request` catches the exception of its attempt, so a request that broke in
the middle is counted as a success (`ChannelClosed`); and the replica counts a
request once per engine report. No document promises otherwise.

### Provisioning

`_create_vm_in_thread` creates `NumVms` VMs in turn. `phase` is the EC2 call
`create_vm` or `delete_vm` is in, and each action is such a call with what the
code does with its outcome: success; a ClientError or WaiterError in `create_vm`,
after which it deletes the instance; a ClientError in `delete_vm`, which gives up;
or anything else, which `_create_vm_in_thread_catches` (the WaiterError of
`delete_vm` too). Each failure writes to the log, and `log` keeps which kinds of
error were written about a VM. Instances can be left behind, by a failed deletion
or by an exception after the request went out; `LeaksAreReported` says that the
log then has more than the error of `create_vm`, which is all it has when there is
nothing left. An instance that EC2 ends by itself later is not modelled: the
manager has no step that would notice. On an instance the
user data script starts a scheduler (or not), which registers through
`try_send_with_retries_sync` and only then serves. After its last failed attempt
it sends itself SIGTERM; as first process of its container it has no default
action for it and serves unregistered, so both outcomes are in the model. Of the
head the part that registrations lead to takes part, with the definitions of
`HeadController`; a worker that does not serve yet gives no answers, and the call
to it fails and is retried.

## 3. What the runs check

Passing runs (`tlc -config X.cfg M`). Deadlock checking is off in all of them
because the environment is bounded: when its calls, restarts and breaks are used
up, every model comes to rest.

| Run | Instance | Shows |
|---|---|---|
| `head_fresh` | 1 node, 2 attempts, 2 registrations, 1 restart of its scheduler, 2 reports, 1 break, clock moves by -1 or 1 | `StoresAgree`, `NoResurrection`, `NoRequestLost`, `AddFindsItsNode`; a connected proxy with nothing in flight is stale only after a missed pulse (`StaleOnlyAfterMissedPulse`), becomes current otherwise (`ConvergesUnlessMissed`); every registration is served (`QueueServed`); the feed implements `RoutingFeed` (`FeedSpec`) |
| `proxy_watch` | 2 heartbeat tasks, 2 attempts, 4 processes, 1 failed start | `NoStrayProxy`, `WatchGoesOn`, `CrashIsNoticed` |
| `dispatch` | 2 sessions, 2 replicas, 2 threads, 2 updates | `ExactUnlessOverlapped`, `GaugeIsExact`, `CountedOnce`, `EverySessionEnds` |
| `scheduler` | 3 calls, 3 numbers | `AnswersAreOwn`, `NoMissedRegistration`, `FuturesAreOwned`, `EveryCallAnswered`, `NothingOutlivesIt`, `EveryReplicaPinged` |
| `replica_stream` | 1 request, text of up to 4 characters of 2 kinds, a marker of 2, up to 2 per report | `Consecutive`, `NoLostWakeup`, refinement of `TokenStream` (`StreamSpec`), `CallsReturn` |
| `py_plane` | 1 replica, 2 requests, 2 reports each, 2 updates | `CountsAreExact`, the data plane from engine to client implements `TokenStream` (`StreamSpec`), `EverybodyIsServed` |
| `provisioning` | 2 VMs, 2 attempts to register, 2 to create, 2 registrations | `LeaksAreReported`, `ListedPerVm`, `EveryVmTried` |

Why the bounds are enough for what is asked:

* Head: two registrations give two tasks whose replies interleave with each
  other, with a report and with a break and a reconnect. Nodes do not share
  any state but the queue and the table, so a second replica of one node
  meets the same code as a replica of a second one. `MaxNum` 2 lets a retry take
  a second number, and lets a scheduler that starts over reuse the first. The
  clock moves on or goes back between two snapshots, and in the second case the
  handler skips one. Two reports are what a repeated one needs (1,394,058
  states). Without liveness and breaks two nodes were checked too (2,505,457
  states).
* Proxy manager: the hard cases need two tasks (one closes the channel of the
  other); four processes are needed for one that is terminated while it starts
  and a later one whose start fails (14,176 states). Three tasks were checked too
  (313,636 states) with the same result.
* Proxy: two sessions and two replicas make picks that depend on each other;
  two updates leave one session on an old handle while another uses the new one;
  two threads are what a release needs to meet another update (186,002 states).
* Scheduler: three calls give a cancelled one, a refused one and one that waits,
  at the same time and with registrations in any order (74,346 states).
* Replica: four characters in reports of one or two make queues of up to four
  chunks, with markers that are whole in a chunk, cut in two, or repeated; requests
  share nothing but the engine, so one is enough (42,082 states).
* Python data plane: two requests make one that holds the lock, or waits behind
  an update, while the other streams, breaks or is abandoned; two updates make a
  release on a replaced handle; two reports make a text that is partly sent. Which
  of several replicas is least loaded is left to the proof (436,260 states).
* Provisioning: two VMs are enough for one that fails before, beside or after
  one that works, and for orders of two workers, or two of one, in one queue; with
  two attempts a registration is acknowledged late or never, and a CreateReplica
  whose reply was lost is made again (372,516 states).

### Fairness

* Event loops (head, scheduler, replica, heartbeat tasks): weak fairness of each
  coroutine's step. asyncio's ready queue is FIFO.
* Proxy subscription: `subscribe_to_head_node` reconnects in an endless loop and
  reads whatever is there.
* Sessions: weak fairness once the request was read. Threads are not blocked for
  ever, the RPC to a replica has a deadline of 120 s, and a client that stops
  reading is assumed to be disconnected in the end. A session still reading its
  request has no time limit and gets no fairness.
* Scheduler: every retried RPC ends; a replica that is loading gets done with it
  or dies.
* Replica: the engine ends or raises at the latest after `max_tokens`.
* Python data plane: the event loops run what can run, the engine reports until it
  is finished, and the connection to a process that has ended breaks. Clients owe
  nothing, because nothing in the proxy limits the time they may leave what they
  are sent untaken. What `EverybodyIsServed` needs of them is a premise of the
  property: that no client sits for ever on an answer yielded inside
  `routing_lock`. A request whose own client leaves a chunk may stay at it.
* Provisioning: EC2 calls return (its client has time limits, its waiters give
  up) and the loop of the head runs; instances, scripts and workers owe nothing.
* A proxy told to stop ends through its signal handler unless it hangs.
* Everything else in the environment (the head's calls, workers, clients,
  crashes) owes nothing.

## 4. Where the code and its documents disagree

Each of these is a run in which TLC finds the stated property violated.

| Run | Property | What happens |
|---|---|---|
| `head_lost_pulse` | `BecomesCurrent` | A change published while the subscription handler is still in its `yield` signals nobody. The proxy keeps the older table until the next change. The design document says routing information is always current. |
| `head_reused_id` | `RoutingIdsUnique` | A scheduler that starts over numbers replicas from 1; the head lists `<worker>#1` twice. The proto calls the id unique. |
| `dispatch_race` | `ActiveIsExact` | With two threads the unlocked decrement loses an update; the count of that replica stays wrong. |
| `scheduler_dead` | `DeadIsMarked` | The first failed ping raises AttributeError and ends the heartbeat loop; no line sets DEAD. A comment says such replicas are marked dead. |
| `replica_hang` | `EndIsSignalled` | Without an engine `generate_stream` raises before its `try`; the queue is never closed and the gRPC thread waits for ever. |

Further gaps are hazards with a note in `PROJECT.json`: the heartbeat has no
timeout, so a proxy that hangs is never restarted, though the design document says
that an unresponsive one is; counters start from 0 with every routing update, so
the next request can go to a replica with more requests in flight than another,
though the design document speaks of the least loaded one; `send_kill_signal` does
not signal replicas that are loading and does not end a scheduler that is the
first process of its container, so such a replica registers with it and runs on,
though a comment says that all replicas and the scheduler are killed; `is_error` is
not looked at by the C++ proxy; a
CreateReplica call whose process dies before it registers is never answered; a
death report that overtakes the reply of its CreateReplica call does not keep the
replica from being listed; `pending_replicas` has no consumer. A VM
that is terminated after its scheduler registered stays in `node_map` and in the
routing table.

## 5. What is proved

The proofs are in `*_proofs.tla` and hold for every value of the constants.

| Theorem | States | Assumes |
|---|---|---|
| `TypeCorrect` | type invariant of the head | |
| `FeedInvariant`, `FeedRefinement` | the head, its stream and the proxy implement `RoutingFeed` | nothing about the clock |
| `Freshness` | `StaleOnlyAfterMissedPulse` | nothing about the clock |
| `ManagerTypes`, `OneProxyAtATime`, `WatchNeverEnds` | types, `NoStrayProxy`, `WatchGoesOn` | |
| `ProxyTypes` | types, and sessions in flight know handle and replica | any number of threads |
| `CountsExactUnlessOverlapped` | `ExactUnlessOverlapped` | any number of threads |
| `GaugeExact`, `EachCountedOnce` | `GaugeIsExact`, `CountedOnce` | any number of threads |
| `SchedulerInvariant`, `OwnAnswers`, `NoneMissed`, `NoFutureLeaks` | the safety properties of the scheduler | |
| `SchedulerTypes` | type invariant of the scheduler | |
| `OrdersKept`, `NodesFound`, `StoresInAgreement` | `NoRequestLost`, `AddFindsItsNode`, `StoresAgree` | |
| `GoneStaysGone` | `NoResurrection` | the property itself speaks of the time before a scheduler restarts |
| `ReplicaTypes`, `NoWakeupLost` | types, `NoLostWakeup` | |
| `StreamInvariant`, `NothingLostBetween` | `StreamInv`, from which `Consecutive` | texts of any length |
| `ReplicaImplementsStream` | `StreamSpec`: a replica process implements `TokenStream` | any text and marker |
| `PyTypes` | types of the Python data plane | finitely many requests |
| `PyCounting` | `CountsAreExact` | finitely many requests |
| `TextInvariant`, `PyPlaneImplementsStream` | `StreamSpec`: Python proxy and replicas together implement `TokenStream` | finitely many requests |
| `ClusterRefinesHead` | `Provisioning` implements `HeadController`: its safety theorems hold in the cluster | |
| `ClusterTypes`, `InstancesAccounted` | types, `LeaksAreReported` | |
| `OneListedPerTry` | `ListedPerVm` | schedulers do not restart, as in `ClusterSpec` |

Arguments:

* **Feed.** That the proxy never goes back is not inductive: one has to know
  that versions grow from the proxy's table through the wire to `sent`, and that
  a handler that was woken has a version to send that is above `sent`. That is
  `FeedInv`. It does not need the clock: an older *stamp* can only make the handler
  skip a newer table, never send an older one.
* **Freshness.** `FreshInv` adds that the last snapshot is the current list, that the
  newest version on the wire is `sent`, and that a handler that waits began to wait
  at the last version. If that is the version it sent, the proxy has it. If it is
  not, a pulse went by while the handler was writing (`MissedPulse`; or, when the
  clock was set back, the stamp made it skip), which finding `head_lost_pulse` is about.
* **Proxy manager.** `NoStrayProxy` says that the only process that may run is the
  last one started, and only while `AliveProxy`; a process is started only when
  the proxy counts as dead. `WatchGoesOn` is inductive: the task that closes the
  channel is not cancelled by it.
* **Counting.** Two picks on one counter exclude each other by the mutex
  (`PicksApart`). So for a counter on which no release met another update, what a
  session loaded is still there when it stores (`LoadedIsCurrent`), and the
  counter equals the number of holders after the store. The lemmas are
  about the cardinality of a set that gains or loses one session. That a request
  counts once does not depend on threads: its outcome is written only by its own
  session, which gets to `closing` with an outcome and from there only to `done`.
* **Scheduler.** `SchedulerInv` adds `NumbersFresh`: nothing is known of numbers
  that were not handed out. Without it a new call could inherit a future or a
  registration.
* **Orders and stores.** `OrdersInv` ties every registration to exactly one place:
  the queue, the hand of the creation loop, or a task, whose node is in
  `node_map`. For the stores one has to know that a number a worker is about to
  report is in none of them yet (`FreshNums`), or a reply could add a replica
  beside its own entry; `StoresInv` says so for every task with an answer.
* **No resurrection.** `NoResurrection` is about three published tables and not
  inductive: nothing in it says that the current list may not take up an old
  replica. `PastInv` adds that every number in a published table was handed out
  before and is carried by no reply on its way (`PastNums`), and that what was
  taken out once is not listed. A reply adds its own number only, and by
  `FreshNums` that number is in no store; so nothing that was published is added
  again. A restarted scheduler counts from one again, which is finding
  `head_reused_id`; hence the condition `restarts = 0`.
* **Wake-ups.** A consumer sleeps only if it saw the queue empty and open under the
  mutex, and what changes that notifies. `WithinText` (what was sent, queued and
  reported are positions in one text) keeps the types.
* **Chunks of a replica.** `StreamInv` has three parts. `InOrder`: the chunk in the
  handler's hands and those in the queue, `Pending`, begin each where the one
  before ended, from what the caller has to `sent_position`. `InStep`: how far
  handler, coroutine and caller can be apart, so that a closed queue means a
  coroutine that is over. `ErrorLast`: from the moment the engine raised, an error
  chunk is pending or the caller has seen it. `Consecutive` follows; the third
  part is what the refinement needs besides: a handler that finds the queue
  closed and empty has written the whole text, unless an error was flagged, and
  these are `Complete` and `Break` of `TokenStream`.
* **Python counts.** `HoldersKnown`: a request has a handle while it streams and no
  longer, and the handle is in the table or was, so a new one starts with no
  holders. Then each count and the set it counts gain or lose one in the same step.
* **Text of the Python plane.** `TextInv` follows a text through four places: the
  engine, the generator at its `yield`, the replies of the call and the client.
  `Replies` says that the slices on the wire adjoin, cover the text from what the
  client has been offered, and that nothing follows an end or an error; an end
  means that the engine had finished. So a client that reads the end has the
  whole text. `EndedWhenOver` makes the verdict of the refinement change once,
  whichever of a break, a hang-up or a late `aclose` comes first.
* **Instances.** `PhaseInv` says what each phase knows: no instance before
  `run_instances`, a terminated one while `delete_vm` waits, and an error written
  exactly from the moment `create_vm` turned to `delete_vm`. So whichever way the
  loop leaves a VM, it is cached and nothing was written, or it is not and what
  was written tells a failed deletion from a finished one (`LeavingAccounts`).
* **One replica per try.** `ListedPerVm` bounds a set that grows long after the try
  it comes from. `OnePerTry` counts what a worker may still get: its listed
  replicas, its places in the queue and in the hand of the creation loop, and its
  open tasks are together at most `tries`. A try adds one place, each later step
  moves one on or drops it; a lost acknowledgement is paid for by the next try,
  and a lost reply leaves a replica in the worker's registry that is not listed.
  `Backed` says that what is listed is in that registry; that it is listed once is
  `StoresAgree`, carried over from the head.

Every invariant, every action property and every refinement that a passing run
checks is stated by a theorem. Two definitions of the models are written so that
they can be reasoned about: `Consecutive` compares neighbours in `Pending`, and
`StopsWaiting` cuts one place out of the queue of the lock, instead of filtering
with `SelectSeq`, whose properties need an induction over sequences.

Only model-checked: the liveness properties `ConvergesUnlessMissed`, `QueueServed`,
`CrashIsNoticed`, `EverySessionEnds`, `EveryCallAnswered`, `NothingOutlivesIt`,
`EveryReplicaPinged`, `CallsReturn`, `EverybodyIsServed` and `EveryVmTried`
(fairness and ENABLED are beyond the prover), and the counterexamples of section 4,
which are runs and not theorems.

## 6. What is not modelled

* The GCP manager `vm_manager.py` (nothing calls it), VM profiles, `infra/` scripts.
* Configuration, logging, metrics export: no control decisions depend on them.
* `headstore_client.py` and `deployment_scheduler.py`: clients of a store that no
  longer exists, without a caller.
* Code without a caller: `RecordMetrics`, `remove_deployment`,
  `move_replica_state`, `remove_node`, `submit_task`, `send_with_delay`, the Python
  proxy's `close`, the other methods of `FutureManager`. `ping_workers` runs and changes no state.
* Bytes on the wire, latencies and histograms.

## 7. Plan

1. Done: the components of both data planes and of the control plane, the
   provisioning of workers, the abstract specifications and the theorems above.
2. Done: proofs of every safety property and refinement of the passing runs.
3. The composition of scheduler and replica: a replica registered without an
   engine, and what the C++ proxy makes of `is_error`.
