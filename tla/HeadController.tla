--------------------------- MODULE HeadController ---------------------------
(***************************************************************************)
(* The head node of the control plane: HeadController with its             *)
(* DeploymentManager, AutoScaleManager, NodeInfo and HealthManager.        *)
(*                                                                         *)
(* All of it runs on one asyncio event loop.  None of its locks is held    *)
(* over a suspension, so an action is one segment of a coroutine between   *)
(* two real suspension points: a stream write, Event.wait, Queue.get,      *)
(* sleep, or an RPC.  Workers, their answers and the stream to the proxy   *)
(* are the environment: they answer late, in any order, twice or never.    *)
(*                                                                         *)
(* Data kept abstract: a replica is <<worker, number>> (its id and its     *)
(* address are both computed from these two); the list dep.replicas is the *)
(* multiset of its elements (the order only breaks ties in the proxy); the *)
(* one deployment modelled is number 2, the only one the head provisions   *)
(* (the other two handles stay empty); resource amounts are left out, as   *)
(* create_replica always books 0 cpus and 0 gpus.                          *)
(***************************************************************************)
EXTENDS Integers, Sequences

CONSTANTS
  Nodes,             \* worker ids
  NumAttempts,       \* attempts of try_send_with_retries
  ClockSteps,        \* by how much time.time_ns() moves between two snapshots
  MaxNum,            \* bound: replica numbers a scheduler process hands out
  MaxRegistrations,  \* bound: RegisterNode calls that reach the head
  MaxRestarts,       \* bound: scheduler processes that start over
  MaxReports,        \* bound: health reports naming a dead replica
  MaxBreaks          \* bound: broken subscription streams

ASSUME AttemptsAssumption == NumAttempts \in Nat \ {0}
ASSUME ClockAssumption == ClockSteps \subseteq Int
ASSUME BoundsAssumption ==
  {MaxNum, MaxRegistrations, MaxRestarts, MaxReports, MaxBreaks} \subseteq Nat

Replicas == Nodes \X (1..MaxNum)
Table == [Replicas -> Nat]                 \* multiset of listed replicas
NoReplica == 0

\* A create_replica task: an RPC attempt in flight, its reply with the number
\* of the new replica on the way, or over.
Task ==
  [node : Nodes, attempt : 1..NumAttempts, st : {"calling", "done"}, num : {NoReplica}]
    \union [node : Nodes, attempt : 1..NumAttempts, st : {"created"}, num : 1..MaxNum]
NewCall(n, i) == [node |-> n, attempt |-> i, st |-> "calling", num |-> NoReplica]
Done(task) == [node |-> task.node, attempt |-> 1, st |-> "done", num |-> NoReplica]
StreamStates == {"none", "yielding", "waiting", "woken"}

VARIABLES
  replicas,          \* deployments[2].replicas
  replica_map,       \* DeploymentManager.replica_map
  scale_map,         \* AutoScaleManager.replica_map
  node_map,          \* NodeInfo.node_map
  replica_queue,     \* HeadController.replica_queue
  in_hand,           \* what replica_creation took and holds over its sleep
  tasks,             \* create_replica tasks, in the order they were spawned
  pending_replicas,  \* HeadController.pending_replicas, as its length
  history,           \* all values given to _latest_routing_snapshot so far
  lead,              \* time stamp of the latest snapshot, less that of the one
                     \* yielded last (last_yielded_timestamp_ns)
  stream,            \* where the SubscribeToRoutingUpdates handler is
  sent,              \* the snapshot it yielded last, as an index of history
  since,             \* auxiliary: the latest snapshot when Event.wait began
  channel,           \* snapshots on their way to the proxy
  view,              \* the snapshot the proxy applied last, 0 if none
  replica_num,       \* workers: last number handed out
  registry,          \* workers: registered replicas, as reported
  registrations, restarts, reports, breaks     \* counted for the bounds

store  == <<replicas, replica_map, scale_map>>
work   == <<replica_queue, in_hand, tasks, pending_replicas>>
feed   == <<history, lead, stream, sent, since>>
proxy  == <<channel, view>>
worker == <<replica_num, registry>>
counts == <<registrations, restarts, reports, breaks>>
vars   == <<store, node_map, work, feed, proxy, worker, counts>>

TypeOK ==
  /\ replicas \in Table
  /\ replica_map \subseteq Replicas
  /\ scale_map \subseteq Replicas
  /\ node_map \subseteq Nodes
  /\ replica_queue \in Seq(Nodes)
  /\ in_hand \in Seq(Nodes)
  /\ tasks \in Seq(Task)
  /\ pending_replicas \in Nat
  /\ history \in Seq(Table)
  /\ lead \in Int
  /\ stream \in StreamStates
  /\ sent \in Nat
  /\ since \in Nat
  /\ channel \in Seq(Nat)
  /\ view \in Nat
  /\ replica_num \in [Nodes -> 0..MaxNum]
  /\ registry \in [Nodes -> SUBSET (1..MaxNum)]
  /\ registrations \in Nat /\ restarts \in Nat
  /\ reports \in Nat /\ breaks \in Nat

NoReplicas == [r \in Replicas |-> 0]

\* __init__ and create_deployments: a deployment with no replica, no snapshot.
Init ==
  /\ replicas = NoReplicas /\ replica_map = {} /\ scale_map = {}
  /\ node_map = {}
  /\ replica_queue = <<>> /\ in_hand = <<>> /\ tasks = <<>>
  /\ pending_replicas = 0
  /\ history = <<>> /\ lead = 0
  /\ stream = "none" /\ sent = 0 /\ since = 0
  /\ channel = <<>> /\ view = 0
  /\ replica_num = [n \in Nodes |-> 0]
  /\ registry = [n \in Nodes |-> {}]
  /\ registrations = 0 /\ restarts = 0 /\ reports = 0 /\ breaks = 0

-----------------------------------------------------------------------------
(* AutoScaleManager and NodeInfo keep what they are told.                  *)

autoscale_add(r) == scale_map' = scale_map \union {r}
autoscale_remove(R) == scale_map' = scale_map \ R
add_node(n) == node_map' = node_map \union {n}

-----------------------------------------------------------------------------
(* DeploymentManager.                                                      *)

\* Slip: the autoscaler is not told.
add_replica_unscaled(r) ==
  /\ replicas' = [replicas EXCEPT ![r] = @ + 1]
  /\ replica_map' = replica_map \union {r}
  /\ UNCHANGED scale_map

add_replica_to_deployment(r) ==
  /\ replicas' = [replicas EXCEPT ![r] = @ + 1]
  /\ replica_map' = replica_map \union {r}
  /\ autoscale_add(r)

\* Slip: the list entry is removed without a look at replica_map.
remove_unchecked(D) ==
  /\ replicas' = [r \in Replicas |-> IF r \in D THEN replicas[r] - 1 ELSE replicas[r]]
  /\ replica_map' = replica_map \ D
  /\ scale_map' = scale_map \ D

\* Every replica of D in turn: replica_map.pop, and only for what was there
\* list.remove and AutoScaleManager.remove_replica.
remove_replicas_from_deployment(D) ==
  LET gone == {r \in D \cap replica_map : replicas[r] > 0}
  IN  /\ replicas' = [r \in Replicas |->
                        IF r \in gone THEN replicas[r] - 1 ELSE replicas[r]]
      /\ replica_map' = replica_map \ D
      /\ autoscale_remove(gone)

\* Slip: snapshots share the live list instead of copying it.
get_aliased_routing_table ==
  history' = Append([i \in DOMAIN history |-> replicas'], replicas')

\* A copy of the table the action leaves behind, stored as
\* _latest_routing_snapshot.
get_current_routing_table == history' = Append(history, replicas')

-----------------------------------------------------------------------------
(* Publishing and the subscription stream.                                 *)

\* The new snapshot is stamped with time.time_ns().
StampSnapshot ==
  \E d \in ClockSteps : lead' = IF stream = "none" THEN 0 ELSE lead + d

\* Slip: the snapshot is stored and nobody is signalled.
on_change_no_signal ==
  /\ get_current_routing_table
  /\ StampSnapshot
  /\ UNCHANGED <<stream, since, sent>>

\* The event is set and cleared in one go: it resumes a handler that waits,
\* and does nothing to one that is still writing.
_on_deployment_change ==
  /\ get_current_routing_table
  /\ StampSnapshot
  /\ stream' = IF stream = "waiting" THEN "woken" ELSE stream
  /\ since' = IF stream = "waiting" THEN 0 ELSE since
  /\ UNCHANGED sent

\* The proxy (re)connects: the handler stores a fresh snapshot and yields it.
Subscribe ==
  /\ stream = "none"
  /\ UNCHANGED replicas
  /\ get_current_routing_table
  /\ stream' = "yielding"
  /\ sent' = Len(history') /\ lead' = 0
  /\ UNCHANGED since
  /\ channel' = Append(channel, sent')
  /\ UNCHANGED <<replica_map, scale_map, node_map, work, view, worker, counts>>

\* The stream write is over; the handler calls Event.wait.
YieldDone ==
  /\ stream = "yielding"
  /\ stream' = "waiting"
  /\ since' = Len(history)
  /\ UNCHANGED <<store, node_map, work, history, lead, sent, proxy, worker,
                 counts>>

\* Back from Event.wait: the latest snapshot goes out if its time stamp is
\* above that of the snapshot yielded last.
IsNewer == lead > 0

ResumeSend ==
  /\ stream = "woken"
  /\ IsNewer
  /\ stream' = "yielding"
  /\ sent' = Len(history) /\ lead' = 0
  /\ UNCHANGED since
  /\ channel' = Append(channel, sent')
  /\ UNCHANGED <<store, node_map, work, history, view, worker, counts>>

ResumeSkip ==
  /\ stream = "woken"
  /\ ~IsNewer
  /\ stream' = "waiting"
  /\ since' = Len(history)
  /\ UNCHANGED <<store, node_map, work, history, lead, sent, proxy, worker,
                 counts>>

\* subscribe_to_head_node in the proxy reads one update and applies it.
apply_routing_update ==
  /\ channel # <<>>
  /\ view' = Head(channel)
  /\ channel' = Tail(channel)
  /\ UNCHANGED <<store, node_map, work, feed, worker, counts>>

\* The stream breaks: the handler is cancelled or its write fails, what was
\* on the wire is lost, the proxy keeps its table and reconnects later.
StreamBreaks ==
  /\ stream # "none" /\ breaks < MaxBreaks
  /\ breaks' = breaks + 1
  /\ stream' = "none" /\ sent' = 0 /\ since' = 0 /\ lead' = 0
  /\ channel' = <<>>
  /\ UNCHANGED <<store, node_map, work, history, view, worker,
                 registrations, restarts, reports>>

-----------------------------------------------------------------------------
(* Workers: registration, provisioning and health.                         *)

\* Slip: the node is queued for a replica and not added to the cache.
RegisterNode_uncached(n) ==
  /\ registrations < MaxRegistrations
  /\ registrations' = registrations + 1
  /\ replica_queue' = Append(replica_queue, n)
  /\ UNCHANGED <<store, node_map, in_hand, tasks, pending_replicas, feed, proxy,
                 worker, restarts, reports, breaks>>

\* One RegisterNode call that reaches the head: a first attempt, or the
\* repetition of one whose acknowledgement timed out at the worker.
RegisterNode(n) ==
  /\ registrations < MaxRegistrations
  /\ registrations' = registrations + 1
  /\ add_node(n)
  /\ replica_queue' = Append(replica_queue, n)
  /\ UNCHANGED <<store, in_hand, tasks, pending_replicas, feed, proxy, worker,
                 restarts, reports, breaks>>

\* The scheduler process of n is replaced: numbering and registry start over.
WorkerRestarts(n) ==
  /\ n \in node_map /\ restarts < MaxRestarts
  /\ restarts' = restarts + 1
  /\ replica_num' = [replica_num EXCEPT ![n] = 0]
  /\ registry' = [registry EXCEPT ![n] = {}]
  /\ UNCHANGED <<store, node_map, work, feed, proxy, registrations, reports,
                 breaks>>

\* Slips: the loop empties the queue for one item; it leaves the last one.
TakeAll ==
  /\ in_hand = <<>> /\ replica_queue # <<>>
  /\ in_hand' = <<Head(replica_queue)>>
  /\ replica_queue' = <<>>
  /\ UNCHANGED <<store, node_map, tasks, pending_replicas, feed, proxy, worker,
                 counts>>

TakeUnlessLast ==
  /\ in_hand = <<>> /\ Len(replica_queue) > 1
  /\ in_hand' = <<Head(replica_queue)>>
  /\ replica_queue' = Tail(replica_queue)
  /\ UNCHANGED <<store, node_map, tasks, pending_replicas, feed, proxy, worker,
                 counts>>

\* replica_creation: take the next address, sleep, spawn create_replica.
TakeFromQueue ==
  /\ in_hand = <<>> /\ replica_queue # <<>>
  /\ in_hand' = <<Head(replica_queue)>>
  /\ replica_queue' = Tail(replica_queue)
  /\ UNCHANGED <<store, node_map, tasks, pending_replicas, feed, proxy, worker,
                 counts>>

SpawnCreateReplica ==
  /\ in_hand # <<>>
  /\ in_hand' = <<>>
  /\ tasks' = Append(tasks, NewCall(Head(in_hand), 1))
  /\ UNCHANGED <<store, node_map, replica_queue, pending_replicas, feed, proxy,
                 worker, counts>>

\* The worker has served a CreateReplica call: every call takes a new number.
\* The replica runs and is registered there; the reply is on its way.
WorkerCreates(t) ==
  LET n == tasks[t].node
      k == replica_num[n] + 1
  IN  /\ tasks[t].st = "calling" /\ k <= MaxNum
      /\ replica_num' = [replica_num EXCEPT ![n] = k]
      /\ registry' = [registry EXCEPT ![n] = @ \union {k}]
      /\ tasks' = [tasks EXCEPT ![t] = [@ EXCEPT !.st = "created", !.num = k]]
      /\ UNCHANGED <<store, node_map, replica_queue, in_hand, pending_replicas,
                     feed, proxy, counts>>

\* Slip: the retry is a second task, and the late reply of the first still counts.
CallFails_keeps(t) ==
  /\ tasks[t].st = "created" /\ tasks[t].attempt < NumAttempts
  /\ tasks' = Append(tasks, NewCall(tasks[t].node, tasks[t].attempt + 1))
  /\ UNCHANGED <<store, node_map, replica_queue, in_hand, pending_replicas, feed,
                 proxy, worker, counts>>

\* An attempt raises, before or after the worker created a replica for it.
\* The last failure makes create_replica put its request aside.
CallFails(t) ==
  LET last == tasks[t].attempt = NumAttempts
  IN  /\ tasks[t].st \in {"calling", "created"}
      /\ tasks' = [tasks EXCEPT ![t] =
           IF last THEN Done(@) ELSE NewCall(@.node, @.attempt + 1)]
      /\ pending_replicas' = pending_replicas + (IF last THEN 1 ELSE 0)
      /\ UNCHANGED <<store, node_map, replica_queue, in_hand, feed, proxy,
                     worker, counts>>

\* created = False comes back: the worker took a number and could not start
\* the process.  create_replica returns and leaves it at that.
create_replica_refused(t) ==
  LET n == tasks[t].node
      k == replica_num[n] + 1
  IN  /\ tasks[t].st = "calling" /\ k <= MaxNum
      /\ replica_num' = [replica_num EXCEPT ![n] = k]
      /\ tasks' = [tasks EXCEPT ![t] = Done(@)]
      /\ UNCHANGED <<store, node_map, replica_queue, in_hand, pending_replicas,
                     registry, feed, proxy, counts>>

\* Slip: the reply can be applied again.
create_replica_repeats(t) ==
  /\ tasks[t].st = "created"
  /\ add_replica_to_deployment(<<tasks[t].node, tasks[t].num>>)
  /\ _on_deployment_change
  /\ UNCHANGED <<node_map, work, proxy, worker, counts>>

\* created = True comes back.
create_replica_done(t) ==
  /\ tasks[t].st = "created"
  /\ add_replica_to_deployment(<<tasks[t].node, tasks[t].num>>)
  /\ tasks' = [tasks EXCEPT ![t] = Done(@)]
  /\ _on_deployment_change
  /\ UNCHANGED <<node_map, replica_queue, in_hand, pending_replicas, proxy, worker,
                 counts>>

\* Slip: the routing table is not published after a removal.
SendHealthStatus_silent(n, dead, acked) ==
  /\ dead # {} /\ dead \subseteq registry[n]
  /\ reports < MaxReports
  /\ reports' = reports + 1
  /\ remove_replicas_from_deployment({n} \X dead)
  /\ registry' = [registry EXCEPT ![n] = IF acked THEN @ \ dead ELSE @]
  /\ UNCHANGED <<node_map, work, feed, proxy, replica_num, registrations, restarts,
                 breaks>>

\* A report of worker n that names the replicas of dead as DEAD.  The worker
\* drops them once the acknowledgement arrives, and repeats them otherwise.
SendHealthStatus(n, dead, acked) ==
  /\ dead # {} /\ dead \subseteq registry[n]
  /\ reports < MaxReports
  /\ reports' = reports + 1
  /\ remove_replicas_from_deployment({n} \X dead)
  /\ _on_deployment_change
  /\ registry' = [registry EXCEPT ![n] = IF acked THEN @ \ dead ELSE @]
  /\ UNCHANGED <<node_map, work, proxy, replica_num, registrations, restarts,
                 breaks>>

-----------------------------------------------------------------------------
HeadStep ==
  \/ TakeFromQueue
  \/ SpawnCreateReplica
  \/ \E t \in DOMAIN tasks : create_replica_done(t)
  \/ YieldDone
  \/ ResumeSend
  \/ ResumeSkip

WorkerStep ==
  \/ \E n \in Nodes : RegisterNode(n)
  \/ \E n \in Nodes : WorkerRestarts(n)
  \/ \E t \in DOMAIN tasks : WorkerCreates(t)
  \/ \E t \in DOMAIN tasks : create_replica_refused(t)
  \/ \E t \in DOMAIN tasks : CallFails(t)
  \/ \E n \in Nodes : \E dead \in SUBSET registry[n], acked \in BOOLEAN :
       SendHealthStatus(n, dead, acked)

ProxyStep == Subscribe \/ apply_routing_update \/ StreamBreaks

Next == HeadStep \/ WorkerStep \/ ProxyStep

Spec == Init /\ [][Next]_vars

\* The event loop runs every coroutine that can go on (its ready queue is
\* FIFO), the proxy reads its stream and reconnects for ever; workers owe
\* nothing.
Fairness ==
  /\ WF_vars(TakeFromQueue) /\ WF_vars(SpawnCreateReplica)
  /\ WF_vars(\E t \in DOMAIN tasks : create_replica_done(t))
  /\ WF_vars(YieldDone) /\ WF_vars(ResumeSend) /\ WF_vars(ResumeSkip)
  /\ WF_vars(Subscribe) /\ WF_vars(apply_routing_update)

FairSpec == Spec /\ Fairness

-----------------------------------------------------------------------------
(* Safety.                                                                 *)

\* The three places that hold a replica agree after every handler.  While no
\* scheduler has started over, the deployment lists exactly the replicas of
\* replica_map, once each; replica_map and the autoscaler's map never differ.
StoresAgree ==
  /\ scale_map = replica_map
  /\ \A r \in replica_map : replicas[r] > 0
  /\ restarts = 0 =>
       \A r \in Replicas : replicas[r] = (IF r \in replica_map THEN 1 ELSE 0)

\* update_resources indexes node_map without a check, after the replica is
\* already listed: no reply may arrive for a node that is not in it.
AddFindsItsNode ==
  \A t \in DOMAIN tasks : tasks[t].st = "created" => tasks[t].node \in node_map

\* Every accepted registration is queued, in the hands of the creation loop,
\* or has its own task: none is dropped and none is spawned twice.
NoRequestLost ==
  registrations = Len(replica_queue) + Len(in_hand) + Len(tasks)

\* A replica that was listed and taken out of the published tables never comes
\* back while no scheduler has started over: a report that is repeated, because
\* its acknowledgement was lost, and the retries of a call leave it out.  It does
\* not speak of a replica whose death report overtakes its CreateReplica reply:
\* nothing was listed when the report came, and the reply lists it.
NoResurrection ==
  restarts = 0 =>
    \A r \in Replicas : \A i, j, k \in DOMAIN history :
      (i < j /\ j < k /\ history[i][r] > 0 /\ history[j][r] = 0)
        => history[k][r] = 0

ViewIsCurrent == view # 0 /\ history[view] = replicas

\* The handler began to wait when there was a snapshot it had not sent: a pulse
\* went by while it was writing or, if the clock was set back, its stamp made
\* the handler skip it.
MissedPulse == stream = "waiting" /\ since > sent

\* A subscribed proxy with nothing in flight has the current table, unless a
\* change was published while its handler was still writing the one before.
\* It rests on set-then-clear, on storing before signalling and on the
\* newer-than check.
StaleOnlyAfterMissedPulse ==
  (stream = "waiting" /\ channel = <<>> /\ ~MissedPulse) => ViewIsCurrent

\* The feed keeps the promise of RoutingFeed under any clock.
Feed == INSTANCE RoutingFeed WITH
  published <- history,
  seen <- view

FeedSpec == Feed!Spec

\* Why: on a live stream, versions only grow from the proxy's table through
\* the wire to what was sent last, and a handler is woken only by a snapshot
\* that it has not sent.  (The inductive invariant behind FeedSpec.)
FeedInv ==
  /\ stream = "none" => channel = <<>>
  /\ stream # "none" => sent \in 1..Len(history)
  /\ stream = "woken" => sent < Len(history)
  /\ view <= Len(history)
  /\ \A i \in DOMAIN channel : view < channel[i] /\ channel[i] <= sent
  /\ stream # "none" => view <= sent
  /\ \A i, j \in DOMAIN channel : i < j => channel[i] < channel[j]

\* Why, for freshness: the last snapshot holds the current list, the last one
\* on the wire is the one sent last, and no snapshot was taken since a handler
\* that waits began to.
FreshInv ==
  /\ Len(history) > 0 => history[Len(history)] = replicas
  /\ stream # "none" =>
       (IF channel = <<>> THEN view ELSE channel[Len(channel)]) = sent
  /\ stream = "waiting" => since = Len(history)

-----------------------------------------------------------------------------
(* Liveness.                                                               *)

\* Once the changes stop, the proxy ends up with the current table or with a
\* pulse it missed: no snapshot stays undelivered for another reason.
ConvergesUnlessMissed == <>[](MissedPulse \/ ViewIsCurrent)

\* The creation loop gets to every registration.
QueueServed == <>[](replica_queue = <<>> /\ in_hand = <<>>)

-----------------------------------------------------------------------------
(* What the documents and comments say, and the code does not do.          *)

\* The design document: updates are delivered whenever a routing update is
\* seen and the data plane's routing information is always current.  At least,
\* it should become current once the changes stop.
BecomesCurrent == <>[]ViewIsCurrent

\* headnode-service.proto: replica_id is the unique ID for this instance.
RoutingIdsUnique == \A r \in Replicas : replicas[r] <= 1
=============================================================================
