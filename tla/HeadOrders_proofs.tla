-------------------------- MODULE HeadOrders_proofs --------------------------
(***************************************************************************)
(* More proofs about the head node: orders for replicas are neither lost   *)
(* nor doubled, the stores that hold a replica agree, and no replica comes *)
(* back after it was taken out of the published tables.                    *)
(***************************************************************************)
EXTENDS HeadController_proofs

-----------------------------------------------------------------------------
(* Orders.                                                                 *)

orders == <<registrations, node_map, replica_queue, in_hand, tasks>>

\* A create_replica task goes on, for the worker it was spawned for.
TaskGoesOn(t) ==
  /\ \E x \in Task : x.node = tasks[t].node /\ tasks' = [tasks EXCEPT ![t] = x]
  /\ UNCHANGED <<registrations, node_map, replica_queue, in_hand>>

\* How a step of the head treats orders: a registration, the two segments of the
\* creation loop, one task that goes on, or nothing.
LEMMA OrderSteps ==
  ASSUME TypeOK, [Next]_vars
  PROVE  \/ \E n \in Nodes : RegisterNode(n)
         \/ TakeFromQueue
         \/ SpawnCreateReplica
         \/ \E t \in DOMAIN tasks : TaskGoesOn(t)
         \/ UNCHANGED orders
<1>0. tasks \in Seq(Task) /\ \A t \in DOMAIN tasks : tasks[t] \in Task
  BY SeqElement DEF TypeOK
<1>1. CASE YieldDone \/ ResumeSend \/ ResumeSkip \/ ProxyStep
  BY <1>1 DEF YieldDone, ResumeSend, ResumeSkip, ProxyStep, Subscribe,
              apply_routing_update, StreamBreaks, orders, work, counts
<1>2. ASSUME NEW t \in DOMAIN tasks, WorkerCreates(t) PROVE TaskGoesOn(t)
  <2> DEFINE k == replica_num[tasks[t].node] + 1
             x == [tasks[t] EXCEPT !.st = "created", !.num = k]
  <2>1. tasks[t] \in Task /\ tasks[t].node \in Nodes
    BY <1>0 DEF Task
  <2>2. k \in 1..MaxNum
    <3>1. replica_num[tasks[t].node] \in 0..MaxNum /\ MaxNum \in Nat
      BY <2>1, BoundsAssumption DEF TypeOK
    <3>2. k <= MaxNum
      BY <1>2 DEF WorkerCreates
    <3> QED BY <3>1, <3>2
  <2>3. x \in Task /\ x.node = tasks[t].node
    BY <1>2, <2>1, <2>2 DEF Task, WorkerCreates
  <2>4. tasks' = [tasks EXCEPT ![t] = x]
    BY <1>2 DEF WorkerCreates
  <2> QED BY <1>2, <2>3, <2>4 DEF TaskGoesOn, WorkerCreates, counts
<1>3. ASSUME NEW t \in DOMAIN tasks, tasks' = [tasks EXCEPT ![t] = Done(tasks[t])],
             UNCHANGED <<registrations, node_map, replica_queue, in_hand>>
      PROVE  TaskGoesOn(t)
  <2>1. Done(tasks[t]) \in Task
    BY <1>0, DoneType
  <2>2. Done(tasks[t]).node = tasks[t].node
    BY DEF Done
  <2> QED BY <1>3, <2>1, <2>2 DEF TaskGoesOn
<1>4. ASSUME NEW t \in DOMAIN tasks, CallFails(t) PROVE TaskGoesOn(t)
  <2>1. CASE tasks[t].attempt = NumAttempts
    BY <1>3, <1>4, <2>1 DEF CallFails, counts
  <2>2. CASE tasks[t].attempt # NumAttempts
    <3> DEFINE x == NewCall(tasks[t].node, tasks[t].attempt + 1)
    <3>1. tasks' = [tasks EXCEPT ![t] = x]
      BY <1>4, <2>2 DEF CallFails
    <3>2. tasks[t].node \in Nodes /\ tasks[t].attempt + 1 \in 1..NumAttempts
      BY <1>0, <2>2, AttemptsAssumption DEF Task
    <3>3. x \in Task /\ x.node = tasks[t].node
      BY <3>2, NewTaskTypes DEF NewCall
    <3> QED BY <1>4, <3>1, <3>3 DEF TaskGoesOn, CallFails, counts
  <2> QED BY <2>1, <2>2
<1>5. ASSUME NEW t \in DOMAIN tasks, create_replica_refused(t) PROVE TaskGoesOn(t)
  BY <1>3, <1>5 DEF create_replica_refused, counts
<1>6. ASSUME NEW t \in DOMAIN tasks, create_replica_done(t) PROVE TaskGoesOn(t)
  BY <1>3, <1>6 DEF create_replica_done, counts
<1>7. ASSUME NEW n \in Nodes, WorkerRestarts(n) PROVE UNCHANGED orders
  BY <1>7 DEF WorkerRestarts, orders, work
<1>8. ASSUME NEW n \in Nodes, NEW dead \in SUBSET registry[n], NEW acked \in BOOLEAN,
             SendHealthStatus(n, dead, acked)
      PROVE  UNCHANGED orders
  BY <1>8 DEF SendHealthStatus, orders, work
<1>9. CASE UNCHANGED vars
  BY <1>9 DEF vars, orders, work, counts
<1> QED
  BY <1>1, <1>2, <1>4, <1>5, <1>6, <1>7, <1>8, <1>9 DEF Next, HeadStep, WorkerStep

\* Every order is in one place, for a worker that is known.
OrdersInv ==
  /\ NoRequestLost
  /\ Len(in_hand) <= 1
  /\ \A i \in DOMAIN replica_queue : replica_queue[i] \in node_map
  /\ \A i \in DOMAIN in_hand : in_hand[i] \in node_map
  /\ \A t \in DOMAIN tasks : tasks[t].node \in node_map

\* Each kind of step keeps that.
LEMMA OrdersNext == TypeOK /\ OrdersInv /\ [Next]_vars => OrdersInv'
<1> SUFFICES ASSUME TypeOK, OrdersInv, [Next]_vars PROVE OrdersInv'
  OBVIOUS
<1>0. /\ replica_queue \in Seq(Nodes) /\ in_hand \in Seq(Nodes) /\ tasks \in Seq(Task)
      /\ registrations \in Nat
  BY DEF TypeOK
<1> USE DEF OrdersInv, NoRequestLost
<1>1. ASSUME NEW n \in Nodes, RegisterNode(n) PROVE OrdersInv'
  <2>1. /\ registrations' = registrations + 1
        /\ node_map' = node_map \union {n}
        /\ replica_queue' = Append(replica_queue, n)
        /\ UNCHANGED <<in_hand, tasks>>
    BY <1>1 DEF RegisterNode, add_node
  <2>2. /\ Len(replica_queue') = Len(replica_queue) + 1
        /\ \A i \in DOMAIN replica_queue' : replica_queue'[i] \in node_map'
    BY <1>0, <2>1
  <2> QED BY <1>0, <2>1, <2>2
<1>2. CASE TakeFromQueue
  <2>1. /\ in_hand = <<>> /\ replica_queue # <<>>
        /\ in_hand' = <<Head(replica_queue)>> /\ replica_queue' = Tail(replica_queue)
        /\ UNCHANGED <<registrations, node_map, tasks>>
    BY <1>2 DEF TakeFromQueue, counts
  <2>2. /\ Len(replica_queue') = Len(replica_queue) - 1
        /\ Len(in_hand) = 0 /\ Len(in_hand') = 1
    BY <1>0, <2>1
  <2>3. \A i \in DOMAIN replica_queue' : replica_queue'[i] \in node_map
    BY <1>0, <2>1
  <2>4. \A i \in DOMAIN in_hand' : in_hand'[i] \in node_map
    BY <1>0, <2>1
  <2> QED BY <1>0, <2>1, <2>2, <2>3, <2>4
<1>3. CASE SpawnCreateReplica
  <2>1. /\ in_hand # <<>> /\ in_hand' = <<>>
        /\ tasks' = Append(tasks, NewCall(Head(in_hand), 1))
        /\ UNCHANGED <<registrations, node_map, replica_queue>>
    BY <1>3 DEF SpawnCreateReplica, counts
  <2>2. /\ Len(in_hand) = 1 /\ Len(in_hand') = 0
        /\ Len(tasks') = Len(tasks) + 1
        /\ Head(in_hand) \in node_map
    <3>1. Len(in_hand) = 1
      <4>1. Len(in_hand) \in Nat \ {0}
        BY <1>0, <2>1, EmptySeq
      <4>2. Len(in_hand) <= 1
        OBVIOUS
      <4>3. \A m \in Nat \ {0} : m <= 1 => m = 1
        OBVIOUS
      <4> QED BY ONLY <4>1, <4>2, <4>3
    <3>2. Len(tasks') = Len(tasks) + 1
      BY <1>0, <2>1, AppendProperties
    <3>3. Head(in_hand) = in_hand[1] /\ 1 \in DOMAIN in_hand
      BY <1>0, <3>1
    <3> QED BY <2>1, <3>1, <3>2, <3>3
  <2>3. \A t \in DOMAIN tasks' : tasks'[t].node \in node_map
    <3>1. NewCall(Head(in_hand), 1).node \in node_map
      BY <2>2 DEF NewCall
    <3> QED BY <1>0, <2>1, <3>1
  <2> QED BY <1>0, <2>1, <2>2, <2>3
<1>4. ASSUME NEW t \in DOMAIN tasks, TaskGoesOn(t) PROVE OrdersInv'
  <2>1. PICK x \in Task : x.node = tasks[t].node /\ tasks' = [tasks EXCEPT ![t] = x]
    BY <1>4 DEF TaskGoesOn
  <2>2. Len(tasks') = Len(tasks) /\ DOMAIN tasks' = DOMAIN tasks
    BY <1>0, <2>1, ReplaceInSeq
  <2>3. \A u \in DOMAIN tasks : tasks'[u].node = tasks[u].node
    BY <1>0, <2>1
  <2> QED BY <1>4, <2>2, <2>3 DEF TaskGoesOn
<1>5. CASE UNCHANGED orders
  BY <1>5 DEF orders
<1> QED BY <1>1, <1>2, <1>3, <1>4, <1>5, OrderSteps

\* OrdersInv holds in every behaviour of the head.
LEMMA OrdersInvariant == Spec => []OrdersInv
<1>1. Init => OrdersInv
  BY DEF Init, OrdersInv, NoRequestLost
<1> QED BY <1>1, OrdersNext, TypeCorrect, PTL DEF Spec

\* Every accepted registration is in the queue, in the hands of the creation
\* loop, or has its own task, for any number of workers and retries.
THEOREM OrdersKept == Spec => []NoRequestLost
<1>1. OrdersInv => NoRequestLost
  BY DEF OrdersInv
<1> QED BY <1>1, OrdersInvariant, PTL

\* A reply of CreateReplica always finds its worker in the node cache, so
\* update_resources does not raise after the replica was stored.
THEOREM NodesFound == Spec => []AddFindsItsNode
<1>1. OrdersInv => AddFindsItsNode
  BY DEF OrdersInv, AddFindsItsNode
<1> QED BY <1>1, OrdersInvariant, PTL

-----------------------------------------------------------------------------
(* Stores.                                                                 *)

\* The replica a create_replica task has been promised.
Made(t) == <<tasks[t].node, tasks[t].num>>
Created(t) == tasks[t].st = "created"

\* While no scheduler has started over: nothing is listed under a number that was
\* not handed out or whose reply is on its way, and no two replies name the same.
FreshNums ==
  /\ \A n \in Nodes, k \in 1..MaxNum : k > replica_num[n] => replicas[<<n, k>>] = 0
  /\ \A t \in DOMAIN tasks : Created(t) =>
       tasks[t].num <= replica_num[tasks[t].node] /\ replicas[Made(t)] = 0
  /\ \A t, u \in DOMAIN tasks : Created(t) /\ Created(u) /\ Made(t) = Made(u) => t = u

StoresInv == StoresAgree /\ (restarts = 0 => FreshNums)

\* A task that is not waiting for its reply any more leaves the rest as it was.
LEMMA TaskEnds ==
  ASSUME TypeOK, FreshNums, NEW t \in DOMAIN tasks, NEW x,
         x.st # "created", tasks' = [tasks EXCEPT ![t] = x],
         UNCHANGED replicas,
         \A n \in Nodes : replica_num[n] <= replica_num'[n],
         replica_num' \in [Nodes -> 0..MaxNum]
  PROVE  FreshNums'
<1>1. tasks \in Seq(Task) /\ replica_num \in [Nodes -> 0..MaxNum] /\ MaxNum \in Nat
  BY BoundsAssumption DEF TypeOK
<1>2. /\ DOMAIN tasks' = DOMAIN tasks
      /\ \A u \in DOMAIN tasks : Created(u)' =>
           u # t /\ tasks'[u] = tasks[u] /\ Created(u) /\ Made(u)' = Made(u)
  BY <1>1 DEF Created, Made
<1>3. \A u \in DOMAIN tasks : Created(u) => tasks[u].node \in Nodes /\ tasks[u].num \in 1..MaxNum
  <2> SUFFICES ASSUME NEW u \in DOMAIN tasks, Created(u)
               PROVE  tasks[u].node \in Nodes /\ tasks[u].num \in 1..MaxNum
    OBVIOUS
  <2>1. tasks[u] \in Task
    BY <1>1, SeqElement
  <2> QED BY <2>1 DEF Task, Created
<1>4. \A n \in Nodes, k \in 1..MaxNum : k > replica_num'[n] => replicas'[<<n, k>>] = 0
  BY <1>1 DEF FreshNums
<1>5. \A u \in DOMAIN tasks : Created(u)' =>
        tasks'[u].num <= replica_num'[tasks'[u].node] /\ replicas'[Made(u)'] = 0
  BY <1>1, <1>2, <1>3 DEF FreshNums
<1>6. \A u, v \in DOMAIN tasks : Created(u)' /\ Created(v)' /\ Made(u)' = Made(v)' => u = v
  BY <1>2 DEF FreshNums
<1> QED BY <1>2, <1>4, <1>5, <1>6 DEF FreshNums

\* The worker hands out a number that nothing is known of.
LEMMA TaskCreates ==
  ASSUME TypeOK, FreshNums, NEW t \in DOMAIN tasks, WorkerCreates(t)
  PROVE  FreshNums'
<1> DEFINE n == tasks[t].node
           k == replica_num[n] + 1
<1>1. tasks \in Seq(Task) /\ replica_num \in [Nodes -> 0..MaxNum] /\ MaxNum \in Nat
  BY BoundsAssumption DEF TypeOK
<1>2. /\ tasks' = [tasks EXCEPT ![t] = [tasks[t] EXCEPT !.st = "created", !.num = k]]
      /\ replica_num' = [replica_num EXCEPT ![n] = k]
      /\ k <= MaxNum /\ UNCHANGED replicas
  BY DEF WorkerCreates, store
<1>3. \A u \in DOMAIN tasks : tasks[u] \in Task /\ tasks[u].node \in Nodes
  <2>1. \A u \in DOMAIN tasks : tasks[u] \in Task
    BY <1>1, SeqElement
  <2> QED BY <2>1 DEF Task
<1>4. n \in Nodes /\ k \in 1..MaxNum /\ k > replica_num[n] /\ replicas[<<n, k>>] = 0
  <2>1. n \in Nodes /\ k \in 1..MaxNum /\ k > replica_num[n]
    BY <1>1, <1>2, <1>3
  <2> QED BY <2>1 DEF FreshNums
<1>5. /\ DOMAIN tasks' = DOMAIN tasks
      /\ tasks'[t].node = n /\ tasks'[t].num = k /\ Made(t)' = <<n, k>>
      /\ \A u \in DOMAIN tasks \ {t} : tasks'[u] = tasks[u] /\ Made(u)' = Made(u)
      /\ \A u \in DOMAIN tasks \ {t} : Created(u)' <=> Created(u)
  <2>1. tasks'[t] = [tasks[t] EXCEPT !.st = "created", !.num = k]
    BY <1>1, <1>2
  <2>2. tasks'[t].node = n /\ tasks'[t].num = k
    BY <1>3, <2>1 DEF Task
  <2> QED BY <1>1, <1>2, <2>2 DEF Created, Made
<1>6. \A m \in Nodes, j \in 1..MaxNum : j > replica_num'[m] => replicas'[<<m, j>>] = 0
  <2> SUFFICES ASSUME NEW m \in Nodes, NEW j \in 1..MaxNum, j > replica_num'[m]
               PROVE  j > replica_num[m]
    BY <1>2 DEF FreshNums
  <2> QED BY <1>1, <1>2, <1>4
<1>7. \A u \in DOMAIN tasks : Created(u)' =>
        tasks'[u].num <= replica_num'[tasks'[u].node] /\ replicas'[Made(u)'] = 0
  <2>1. ASSUME NEW u \in DOMAIN tasks \ {t}, Created(u)'
        PROVE  tasks'[u].num <= replica_num'[tasks'[u].node] /\ replicas'[Made(u)'] = 0
    <3>1. tasks[u].num <= replica_num[tasks[u].node] /\ replicas[Made(u)] = 0
      BY <1>5, <2>1 DEF FreshNums
    <3>2. tasks[u].num \in 1..MaxNum
      BY <1>3, <1>5, <2>1 DEF Created, Task
    <3>3. replica_num[tasks[u].node] <= replica_num'[tasks[u].node]
      BY <1>1, <1>2, <1>3, <1>4
    <3>4. replica_num[tasks[u].node] \in Nat /\ replica_num'[tasks[u].node] \in Nat
      BY <1>1, <1>2, <1>3, <1>4
    <3>5. tasks[u].num <= replica_num'[tasks[u].node]
      BY <3>1, <3>2, <3>3, <3>4
    <3> QED BY <1>2, <1>5, <3>1, <3>5
  <2>2. tasks'[t].num <= replica_num'[tasks'[t].node] /\ replicas'[Made(t)'] = 0
    BY <1>1, <1>2, <1>4, <1>5
  <2> QED BY <2>1, <2>2
<1>8. ASSUME NEW u \in DOMAIN tasks \ {t}, Created(u)' PROVE Made(u)' # Made(t)'
  <2>1. tasks[u].num <= replica_num[tasks[u].node]
    BY <1>5, <1>8 DEF FreshNums
  <2>2. tasks[u].num \in 1..MaxNum
    BY <1>3, <1>5, <1>8 DEF Created, Task
  <2> QED BY <1>1, <1>4, <1>5, <2>1, <2>2 DEF Made
<1>9. \A u, v \in DOMAIN tasks : Created(u)' /\ Created(v)' /\ Made(u)' = Made(v)' => u = v
  BY <1>5, <1>8 DEF FreshNums
<1> QED BY <1>5, <1>6, <1>7, <1>9 DEF FreshNums

\* A reply is stored: the replica was in no store, and is in each of them now.
LEMMA TaskStored ==
  ASSUME TypeOK, StoresInv, NEW t \in DOMAIN tasks, create_replica_done(t)
  PROVE  StoresInv'
<1> DEFINE r == Made(t)
<1>1. /\ tasks \in Seq(Task) /\ \A u \in DOMAIN tasks : tasks[u] \in Task
      /\ replicas \in Table
  BY SeqElement DEF TypeOK
<1>2. tasks[t].node \in Nodes /\ tasks[t].num \in 1..MaxNum /\ r \in Replicas
  BY <1>1 DEF create_replica_done, Task, Replicas, Made
<1>3. /\ replicas' = [replicas EXCEPT ![r] = @ + 1]
      /\ replica_map' = replica_map \union {r}
      /\ scale_map' = scale_map \union {r}
      /\ tasks' = [tasks EXCEPT ![t] = Done(tasks[t])]
      /\ UNCHANGED <<replica_num, restarts>> /\ Created(t)
  BY DEF create_replica_done, add_replica_to_deployment, autoscale_add, Made, Created,
         worker, counts
<1>4. \A q \in Replicas : replicas[q] \in Nat
  BY <1>1 DEF Table
<1>5. /\ replicas'[r] = replicas[r] + 1
      /\ \A q \in Replicas \ {r} : replicas'[q] = replicas[q]
  BY <1>1, <1>2, <1>3 DEF Table
<1>6. scale_map' = replica_map' /\ \A q \in replica_map' : replicas'[q] > 0
  <2>1. replica_map \subseteq Replicas
    BY DEF TypeOK
  <2> QED BY <1>2, <1>3, <1>4, <1>5, <2>1 DEF StoresInv, StoresAgree
<1>7. ASSUME restarts = 0
      PROVE  \A q \in Replicas : replicas'[q] = (IF q \in replica_map' THEN 1 ELSE 0)
  <2>1. replicas[r] = 0
    BY <1>3, <1>7 DEF StoresInv, FreshNums
  <2> QED BY <1>2, <1>3, <1>5, <1>7, <2>1 DEF StoresInv, StoresAgree
<1>8. ASSUME restarts = 0 PROVE FreshNums'
  <2>1. /\ DOMAIN tasks' = DOMAIN tasks
        /\ \A u \in DOMAIN tasks : Created(u)' =>
             u # t /\ tasks'[u] = tasks[u] /\ Created(u) /\ Made(u)' = Made(u)
    BY <1>1, <1>3 DEF Created, Made, Done
  <2>2. \A u \in DOMAIN tasks \ {t} : Created(u) => Made(u) \in Replicas /\ Made(u) # r
    <3>1. \A u \in DOMAIN tasks : Created(u) => Made(u) \in Replicas
      BY <1>1 DEF Created, Made, Task, Replicas
    <3> QED BY <1>3, <1>8, <3>1 DEF StoresInv, FreshNums
  <2>3. \A n \in Nodes, k \in 1..MaxNum : k > replica_num'[n] => replicas'[<<n, k>>] = 0
    <3> SUFFICES ASSUME NEW n \in Nodes, NEW k \in 1..MaxNum, k > replica_num[n]
                 PROVE  replicas'[<<n, k>>] = 0
      BY <1>3
    <3>1. replicas[<<n, k>>] = 0
      BY <1>8 DEF StoresInv, FreshNums
    <3>2. <<n, k>> # r
      <4>1. tasks[t].num <= replica_num[tasks[t].node]
        BY <1>3, <1>8 DEF StoresInv, FreshNums
      <4>2. replica_num[n] \in Nat /\ k \in Nat
        BY DEF TypeOK
      <4> QED BY <4>1, <4>2 DEF Made
    <3> QED BY <1>5, <3>1, <3>2 DEF Replicas
  <2>4. \A u \in DOMAIN tasks : Created(u)' =>
          tasks'[u].num <= replica_num'[tasks'[u].node] /\ replicas'[Made(u)'] = 0
    BY <1>3, <1>5, <1>8, <2>1, <2>2 DEF StoresInv, FreshNums
  <2>5. \A u, v \in DOMAIN tasks : Created(u)' /\ Created(v)' /\ Made(u)' = Made(v)' => u = v
    BY <1>8, <2>1 DEF StoresInv, FreshNums
  <2> QED BY <2>1, <2>3, <2>4, <2>5 DEF FreshNums
<1> QED BY <1>3, <1>6, <1>7, <1>8 DEF StoresInv, StoresAgree

\* A report takes its replicas out of each store, or was too early to find them.
LEMMA ReportStored ==
  ASSUME TypeOK, StoresInv, NEW D, remove_replicas_from_deployment(D),
         UNCHANGED <<tasks, replica_num, restarts>>
  PROVE  StoresInv'
<1> DEFINE gone == {r \in D \cap replica_map : replicas[r] > 0}
<1>1. /\ \A r \in Replicas : replicas[r] \in Nat
      /\ replica_map \subseteq Replicas
      /\ tasks \in Seq(Task) /\ \A u \in DOMAIN tasks : tasks[u] \in Task
  BY SeqElement DEF TypeOK, Table
<1>2. /\ \A r \in Replicas : replicas'[r] = IF r \in gone THEN replicas[r] - 1 ELSE replicas[r]
      /\ replica_map' = replica_map \ D /\ scale_map' = scale_map \ gone
  BY DEF remove_replicas_from_deployment, autoscale_remove
<1>3. scale_map = replica_map /\ \A r \in replica_map : replicas[r] > 0
  BY DEF StoresInv, StoresAgree
<1>4. scale_map' = replica_map' /\ \A r \in replica_map' : replicas'[r] > 0
  BY <1>1, <1>2, <1>3
<1>5. ASSUME restarts = 0
      PROVE  \A r \in Replicas : replicas'[r] = (IF r \in replica_map' THEN 1 ELSE 0)
  <2>1. \A r \in Replicas : replicas[r] = (IF r \in replica_map THEN 1 ELSE 0)
    BY <1>5 DEF StoresInv, StoresAgree
  <2> QED BY <1>1, <1>2, <1>3, <2>1
<1>6. ASSUME restarts = 0 PROVE FreshNums'
  <2>1. \A r \in Replicas : replicas[r] = 0 => replicas'[r] = 0
    BY <1>2
  <2>2. \A u \in DOMAIN tasks : Created(u) => Made(u) \in Replicas
    BY <1>1 DEF Created, Made, Task, Replicas
  <2>3. \A n \in Nodes, k \in 1..MaxNum : <<n, k>> \in Replicas
    BY DEF Replicas
  <2> QED BY <1>6, <2>1, <2>2, <2>3 DEF StoresInv, FreshNums, Created, Made
<1> QED BY <1>4, <1>5, <1>6 DEF StoresInv, StoresAgree

\* Every step of the head keeps the stores in agreement.
LEMMA StoresNext == TypeOK /\ TypeOK' /\ StoresInv /\ [Next]_vars => StoresInv'
<1> SUFFICES ASSUME TypeOK, TypeOK', StoresInv, [Next]_vars PROVE StoresInv'
  OBVIOUS
<1>0. /\ tasks \in Seq(Task) /\ in_hand \in Seq(Nodes)
      /\ replica_num' \in [Nodes -> 0..MaxNum]
      /\ replica_num \in [Nodes -> 0..MaxNum]
      /\ \A n \in Nodes : replica_num[n] \in Nat
  <2>1. replica_num \in [Nodes -> 0..MaxNum] /\ replica_num' \in [Nodes -> 0..MaxNum]
    BY DEF TypeOK
  <2>2. \A n \in Nodes : replica_num[n] \in Nat
    BY <2>1
  <2> QED BY <2>1, <2>2 DEF TypeOK
<1>1. CASE UNCHANGED <<store, tasks, replica_num, restarts>>
  BY <1>1 DEF StoresInv, StoresAgree, FreshNums, Created, Made, store
<1>2. CASE SpawnCreateReplica
  <2>1. /\ tasks' = Append(tasks, NewCall(Head(in_hand), 1))
        /\ UNCHANGED <<store, replica_num, restarts>>
    BY <1>2 DEF SpawnCreateReplica, worker, counts
  <2>2. NewCall(Head(in_hand), 1).st = "calling"
    BY DEF NewCall
  <2>3. \A u \in DOMAIN tasks' : Created(u)' =>
          u \in DOMAIN tasks /\ tasks'[u] = tasks[u] /\ Created(u) /\ Made(u)' = Made(u)
    BY <1>0, <2>1, <2>2 DEF Created, Made
  <2>4. restarts = 0 => FreshNums'
    BY <2>1, <2>3 DEF StoresInv, FreshNums, store
  <2> QED BY <2>1, <2>4 DEF StoresInv, StoresAgree, store
<1>3. ASSUME NEW n \in Nodes, WorkerRestarts(n) PROVE StoresInv'
  <2>1. restarts' = restarts + 1 /\ UNCHANGED store /\ restarts \in Nat
    BY <1>3 DEF WorkerRestarts, TypeOK
  <2>2. restarts' # 0
    BY <2>1
  <2> QED BY <2>1, <2>2 DEF StoresInv, StoresAgree, store
<1>4. ASSUME NEW t \in DOMAIN tasks, WorkerCreates(t) PROVE StoresInv'
  BY <1>4, TaskCreates DEF StoresInv, StoresAgree, WorkerCreates, store, counts
<1>5. ASSUME NEW t \in DOMAIN tasks, create_replica_refused(t) PROVE StoresInv'
  <2>1. /\ tasks' = [tasks EXCEPT ![t] = Done(tasks[t])]
        /\ replica_num' = [replica_num EXCEPT ![tasks[t].node] = replica_num[tasks[t].node] + 1]
        /\ UNCHANGED <<store, restarts>>
    BY <1>5 DEF create_replica_refused, counts
  <2>2. Done(tasks[t]).st # "created"
    BY DEF Done
  <2>3. \A n \in Nodes : replica_num[n] <= replica_num'[n]
    BY <1>0, <2>1
  <2>4. restarts = 0 => FreshNums'
    BY <1>0, <2>1, <2>2, <2>3, TaskEnds DEF StoresInv, store
  <2> QED BY <2>1, <2>4 DEF StoresInv, StoresAgree, store
<1>6. ASSUME NEW t \in DOMAIN tasks, CallFails(t) PROVE StoresInv'
  <2>1. PICK x : x.st # "created" /\ tasks' = [tasks EXCEPT ![t] = x]
    <3>1. Done(tasks[t]).st # "created" /\ NewCall(tasks[t].node, tasks[t].attempt + 1).st # "created"
      BY DEF Done, NewCall
    <3>2. \/ tasks' = [tasks EXCEPT ![t] = Done(tasks[t])]
          \/ tasks' = [tasks EXCEPT ![t] = NewCall(tasks[t].node, tasks[t].attempt + 1)]
      BY <1>6 DEF CallFails
    <3> QED BY <3>1, <3>2
  <2>2. UNCHANGED <<store, replica_num, restarts>>
    BY <1>6 DEF CallFails, worker, counts
  <2>a. \A n \in Nodes : replica_num[n] <= replica_num'[n]
    BY <1>0, <2>2
  <2>3. restarts = 0 => FreshNums'
    BY <1>0, <2>1, <2>2, <2>a, TaskEnds DEF StoresInv, store
  <2> QED BY <2>2, <2>3 DEF StoresInv, StoresAgree, store
<1>7. ASSUME NEW t \in DOMAIN tasks, create_replica_done(t) PROVE StoresInv'
  BY <1>7, TaskStored
<1>8. ASSUME NEW n \in Nodes, NEW dead \in SUBSET registry[n], NEW acked \in BOOLEAN,
             SendHealthStatus(n, dead, acked)
      PROVE  StoresInv'
  BY <1>8, ReportStored DEF SendHealthStatus, work
<1>9. CASE YieldDone \/ ResumeSend \/ ResumeSkip \/ ProxyStep \/ TakeFromQueue
  BY <1>1, <1>9 DEF YieldDone, ResumeSend, ResumeSkip, ProxyStep, Subscribe, TakeFromQueue,
                    apply_routing_update, StreamBreaks, store, work, worker, counts
<1>10. ASSUME NEW n \in Nodes, RegisterNode(n) PROVE StoresInv'
  BY <1>1, <1>10 DEF RegisterNode, worker
<1>11. CASE UNCHANGED vars
  BY <1>1, <1>11 DEF vars, work, worker, counts
<1> QED
  BY <1>2, <1>3, <1>4, <1>5, <1>6, <1>7, <1>8, <1>9, <1>10, <1>11
  DEF Next, HeadStep, WorkerStep

\* StoresInv holds in every behaviour of the head.
LEMMA StoresInvariant == Spec => []StoresInv
<1>1. Init => StoresInv
  BY DEF Init, StoresInv, StoresAgree, FreshNums, NoReplicas, Replicas
<1> QED BY <1>1, StoresNext, TypeCorrect, PTL DEF Spec

\* The deployment's list, replica_map and the autoscaler's map agree after every
\* handler; while no scheduler has started over the list has no duplicates.
THEOREM StoresInAgreement == Spec => []StoresAgree
<1>1. StoresInv => StoresAgree
  BY DEF StoresInv
<1> QED BY <1>1, StoresInvariant, PTL

-----------------------------------------------------------------------------
(* The published past.                                                     *)

\* While no scheduler has started over: numbers only grow, a reply on its way is
\* an old one or has a number not handed out before, and only such a reply lists
\* a replica that was not listed.
NumbersGrow == \A n \in Nodes : replica_num[n] <= replica_num'[n]

RepliesOldOrNew ==
  \A t \in DOMAIN tasks' : Created(t)' =>
    \/ t \in DOMAIN tasks /\ Created(t) /\ Made(t)' = Made(t)
    \/ replica_num[tasks'[t].node] < tasks'[t].num

ListedByReply ==
  \A r \in Replicas : replicas[r] = 0 =>
    \/ replicas'[r] = 0
    \/ \E t \in DOMAIN tasks : Created(t) /\ Made(t) = r

ListingStep == NumbersGrow /\ RepliesOldOrNew /\ ListedByReply

\* A task that is set to something other than a reply brings no new reply.
LEMMA NoNewReply ==
  ASSUME TypeOK, NEW t \in DOMAIN tasks, NEW x,
         x.st # "created", tasks' = [tasks EXCEPT ![t] = x]
  PROVE  RepliesOldOrNew
<1>1. tasks \in Seq(Task)
  BY DEF TypeOK
<1>2. \A u \in DOMAIN tasks' : Created(u)' =>
        u \in DOMAIN tasks /\ tasks'[u] = tasks[u]
  BY <1>1 DEF Created
<1> QED BY <1>2 DEF RepliesOldOrNew, Created, Made

\* Every step of the head before the first restart is of that kind.
LEMMA ListingSteps ==
  ASSUME TypeOK, TypeOK', [Next]_vars, restarts' = 0
  PROVE  restarts = 0 /\ ListingStep
<1>0. /\ tasks \in Seq(Task) /\ in_hand \in Seq(Nodes)
      /\ replica_num \in [Nodes -> 0..MaxNum] /\ replica_num' \in [Nodes -> 0..MaxNum]
      /\ MaxNum \in Nat
      /\ \A u \in DOMAIN tasks : tasks[u] \in Task /\ tasks[u].node \in Nodes
  <2>1. \A u \in DOMAIN tasks : tasks[u] \in Task
    BY SeqElement DEF TypeOK
  <2>2. \A u \in DOMAIN tasks : tasks[u].node \in Nodes
    BY <2>1 DEF Task
  <2> QED BY <2>1, <2>2, BoundsAssumption DEF TypeOK
<1>1. CASE UNCHANGED <<replicas, tasks, replica_num, restarts>>
  <2>1. NumbersGrow
    BY <1>0, <1>1 DEF NumbersGrow
  <2>2. RepliesOldOrNew /\ ListedByReply
    BY <1>1 DEF RepliesOldOrNew, ListedByReply, Created, Made
  <2> QED BY <1>1, <2>1, <2>2 DEF ListingStep
<1>2. CASE SpawnCreateReplica
  <2>1. /\ tasks' = Append(tasks, NewCall(Head(in_hand), 1))
        /\ UNCHANGED <<replicas, replica_num, restarts>>
    BY <1>2 DEF SpawnCreateReplica, store, worker, counts
  <2>2. NewCall(Head(in_hand), 1).st = "calling"
    BY DEF NewCall
  <2>3. \A u \in DOMAIN tasks' : Created(u)' => u \in DOMAIN tasks /\ tasks'[u] = tasks[u]
    BY <1>0, <2>1, <2>2 DEF Created
  <2>4. NumbersGrow
    BY <1>0, <2>1 DEF NumbersGrow
  <2> QED BY <2>1, <2>3, <2>4 DEF ListingStep, RepliesOldOrNew, ListedByReply, Created, Made
<1>3. ASSUME NEW n \in Nodes PROVE ~WorkerRestarts(n)
  <2>1. restarts \in Nat /\ restarts + 1 # 0
    BY DEF TypeOK
  <2> QED BY <2>1 DEF WorkerRestarts
<1>4. ASSUME NEW t \in DOMAIN tasks, WorkerCreates(t) PROVE restarts = 0 /\ ListingStep
  <2> DEFINE n == tasks[t].node
             k == replica_num[n] + 1
  <2>1. /\ tasks' = [tasks EXCEPT ![t] = [tasks[t] EXCEPT !.st = "created", !.num = k]]
        /\ replica_num' = [replica_num EXCEPT ![n] = k]
        /\ UNCHANGED <<replicas, restarts>>
    BY <1>4 DEF WorkerCreates, store, counts
  <2>2. n \in Nodes /\ replica_num[n] \in Nat /\ replica_num[n] < k
    BY <1>0
  <2>3. tasks'[t].node = n /\ tasks'[t].num = k
    <3>1. tasks'[t] = [tasks[t] EXCEPT !.st = "created", !.num = k]
      BY <1>0, <2>1
    <3> QED BY <1>0, <3>1 DEF Task
  <2>4. DOMAIN tasks' = DOMAIN tasks /\ \A u \in DOMAIN tasks \ {t} : tasks'[u] = tasks[u]
    BY <1>0, <2>1
  <2>5. RepliesOldOrNew
    BY <2>2, <2>3, <2>4 DEF RepliesOldOrNew, Created, Made
  <2>6. NumbersGrow
    BY <1>0, <2>1, <2>2 DEF NumbersGrow
  <2> QED BY <2>1, <2>5, <2>6 DEF ListingStep, ListedByReply
<1>5. ASSUME NEW t \in DOMAIN tasks, create_replica_refused(t)
      PROVE  restarts = 0 /\ ListingStep
  <2>1. /\ tasks' = [tasks EXCEPT ![t] = Done(tasks[t])]
        /\ replica_num' = [replica_num EXCEPT ![tasks[t].node] = replica_num[tasks[t].node] + 1]
        /\ UNCHANGED <<replicas, restarts>>
    BY <1>5 DEF create_replica_refused, store, counts
  <2>2. Done(tasks[t]).st # "created"
    BY DEF Done
  <2>3. NumbersGrow
    BY <1>0, <2>1 DEF NumbersGrow
  <2> QED BY <2>1, <2>2, <2>3, NoNewReply DEF ListingStep, ListedByReply
<1>6. ASSUME NEW t \in DOMAIN tasks, CallFails(t) PROVE restarts = 0 /\ ListingStep
  <2>1. PICK x : x.st # "created" /\ tasks' = [tasks EXCEPT ![t] = x]
    <3>1. Done(tasks[t]).st # "created" /\ NewCall(tasks[t].node, tasks[t].attempt + 1).st # "created"
      BY DEF Done, NewCall
    <3>2. \/ tasks' = [tasks EXCEPT ![t] = Done(tasks[t])]
          \/ tasks' = [tasks EXCEPT ![t] = NewCall(tasks[t].node, tasks[t].attempt + 1)]
      BY <1>6 DEF CallFails
    <3> QED BY <3>1, <3>2
  <2>2. UNCHANGED <<replicas, replica_num, restarts>>
    BY <1>6 DEF CallFails, store, worker, counts
  <2>3. NumbersGrow
    BY <1>0, <2>2 DEF NumbersGrow
  <2> QED BY <2>1, <2>2, <2>3, NoNewReply DEF ListingStep, ListedByReply
<1>7. ASSUME NEW t \in DOMAIN tasks, create_replica_done(t)
      PROVE  restarts = 0 /\ ListingStep
  <2>1. /\ tasks' = [tasks EXCEPT ![t] = Done(tasks[t])] /\ Created(t)
        /\ replicas' = [replicas EXCEPT ![Made(t)] = @ + 1]
        /\ UNCHANGED <<replica_num, restarts>>
    BY <1>7 DEF create_replica_done, add_replica_to_deployment, Made, Created, worker, counts
  <2>2. Done(tasks[t]).st # "created"
    BY DEF Done
  <2>3. NumbersGrow
    BY <1>0, <2>1 DEF NumbersGrow
  <2>4. ListedByReply
    <3>1. replicas \in [Replicas -> Nat]
      BY DEF TypeOK, Table
    <3>2. \A r \in Replicas : r # Made(t) => replicas'[r] = replicas[r]
      BY <2>1, <3>1
    <3> QED BY <2>1, <3>2 DEF ListedByReply
  <2> QED BY <2>1, <2>2, <2>3, <2>4, NoNewReply DEF ListingStep
<1>8. ASSUME NEW n \in Nodes, NEW dead \in SUBSET registry[n], NEW acked \in BOOLEAN,
             SendHealthStatus(n, dead, acked)
      PROVE  restarts = 0 /\ ListingStep
  <2>1. /\ remove_replicas_from_deployment({n} \X dead)
        /\ UNCHANGED <<tasks, replica_num, restarts>>
    BY <1>8 DEF SendHealthStatus, work
  <2>2. \A r \in Replicas : replicas[r] = 0 => replicas'[r] = 0
    BY <2>1 DEF remove_replicas_from_deployment
  <2>3. NumbersGrow
    BY <1>0, <2>1 DEF NumbersGrow
  <2> QED BY <2>1, <2>2, <2>3 DEF ListingStep, RepliesOldOrNew, ListedByReply, Created, Made
<1>9. CASE YieldDone \/ ResumeSend \/ ResumeSkip \/ ProxyStep \/ TakeFromQueue
  BY <1>1, <1>9 DEF YieldDone, ResumeSend, ResumeSkip, ProxyStep, Subscribe, TakeFromQueue,
                    apply_routing_update, StreamBreaks, store, work, worker, counts
<1>10. ASSUME NEW n \in Nodes, RegisterNode(n) PROVE restarts = 0 /\ ListingStep
  BY <1>1, <1>10 DEF RegisterNode, store, worker
<1>11. CASE UNCHANGED vars
  BY <1>1, <1>11 DEF vars, store, work, worker, counts
<1> QED
  BY <1>2, <1>3, <1>4, <1>5, <1>6, <1>7, <1>8, <1>9, <1>10, <1>11
  DEF Next, HeadStep, WorkerStep

\* What was ever published is of a number that was handed out and that no reply
\* on its way carries; and what was published and then taken out is not listed.
PastNums ==
  /\ \A i \in DOMAIN history : \A n \in Nodes, k \in 1..MaxNum :
       k > replica_num[n] => history[i][<<n, k>>] = 0
  /\ \A i \in DOMAIN history : \A t \in DOMAIN tasks :
       Created(t) => history[i][Made(t)] = 0

TakenOut(r) ==
  \E i, j \in DOMAIN history : i < j /\ history[i][r] > 0 /\ history[j][r] = 0

PastInv ==
  /\ NoResurrection
  /\ restarts = 0 => PastNums /\ \A r \in Replicas : TakenOut(r) => replicas[r] = 0

\* A snapshot is added at the end, or none.
LEMMA HistoryGrows ==
  ASSUME TypeOK, TypeOK', [Next]_vars
  PROVE  \/ UNCHANGED <<replicas, history>>
         \/ /\ history' \in Seq(Table)
            /\ Len(history') = Len(history) + 1
            /\ \A i \in DOMAIN history : history'[i] = history[i]
            /\ history'[Len(history')] = replicas'
<1>1. replicas' \in Table
  BY DEF TypeOK
<1>2. CASE Publishes \/ Subscribe
  <2>1. get_current_routing_table
    BY <1>2 DEF Publishes, _on_deployment_change, Subscribe
  <2> QED BY <1>1, <2>1, PublishAppends
<1>3. CASE Quiet \/ YieldDone \/ ResumeSend \/ ResumeSkip \/ apply_routing_update \/ StreamBreaks
  BY <1>3 DEF Quiet, YieldDone, ResumeSend, ResumeSkip, apply_routing_update, StreamBreaks,
              store, feed
<1> QED BY <1>2, <1>3, FeedSteps

\* A replica that was taken out stays out over a step of that kind.
LEMMA StaysOut ==
  ASSUME ListedByReply, PastNums, NEW r \in Replicas, TakenOut(r), replicas[r] = 0
  PROVE  replicas'[r] = 0
<1>1. PICK i \in DOMAIN history : history[i][r] > 0
  BY DEF TakenOut
<1>2. ASSUME NEW t \in DOMAIN tasks, Created(t), Made(t) = r PROVE FALSE
  <2>1. history[i][r] = 0
    BY <1>2 DEF PastNums
  <2> QED BY <1>1, <2>1
<1> QED BY <1>2 DEF ListedByReply

\* An old snapshot stays apart from the numbers that are still to be listed.
LEMMA PastNumsKept ==
  ASSUME TypeOK, TypeOK', PastNums, ListingStep, NEW i \in DOMAIN history
  PROVE  /\ \A n \in Nodes, k \in 1..MaxNum : k > replica_num'[n] => history[i][<<n, k>>] = 0
         /\ \A t \in DOMAIN tasks' : Created(t)' => history[i][Made(t)'] = 0
<1>0. /\ replica_num \in [Nodes -> 0..MaxNum] /\ replica_num' \in [Nodes -> 0..MaxNum]
      /\ MaxNum \in Nat
  BY BoundsAssumption DEF TypeOK
<1>1. ASSUME NEW n \in Nodes, NEW k \in 1..MaxNum, k > replica_num'[n]
      PROVE  history[i][<<n, k>>] = 0
  <2>1. k > replica_num[n]
    BY <1>0, <1>1 DEF ListingStep, NumbersGrow
  <2> QED BY <2>1 DEF PastNums
<1>2. ASSUME NEW t \in DOMAIN tasks', Created(t)' PROVE history[i][Made(t)'] = 0
  <2>1. CASE t \in DOMAIN tasks /\ Created(t) /\ Made(t)' = Made(t)
    BY <2>1 DEF PastNums
  <2>2. CASE replica_num[tasks'[t].node] < tasks'[t].num
    <3>1. tasks'[t] \in Task
      BY SeqElement DEF TypeOK
    <3>2. tasks'[t].node \in Nodes /\ tasks'[t].num \in 1..MaxNum
      BY <1>2, <3>1 DEF Task, Created
    <3>3. history[i][<<tasks'[t].node, tasks'[t].num>>] = 0
      BY <1>0, <2>2, <3>2 DEF PastNums
    <3> QED BY <3>3 DEF Made
  <2> QED BY <1>2, <2>1, <2>2 DEF ListingStep, RepliesOldOrNew
<1> QED BY <1>1, <1>2

\* Every step of the head keeps what is known of the past.
LEMMA PastNext ==
  TypeOK /\ TypeOK' /\ StoresInv' /\ PastInv /\ [Next]_vars => PastInv'
<1> SUFFICES ASSUME TypeOK, TypeOK', StoresInv', PastInv, [Next]_vars, restarts' = 0
             PROVE  PastInv'
  BY DEF PastInv, NoResurrection
<1>1. restarts = 0 /\ ListingStep
  BY ListingSteps
<1>2. PastNums /\ NoResurrection /\ \A r \in Replicas : TakenOut(r) => replicas[r] = 0
  BY <1>1 DEF PastInv
<1>3. \A r \in Replicas : TakenOut(r) => replicas'[r] = 0
  BY <1>1, <1>2, StaysOut DEF ListingStep
<1>4. \A i \in DOMAIN history :
        /\ \A n \in Nodes, k \in 1..MaxNum : k > replica_num'[n] => history[i][<<n, k>>] = 0
        /\ \A t \in DOMAIN tasks' : Created(t)' => history[i][Made(t)'] = 0
  BY <1>1, <1>2, PastNumsKept
<1>5. CASE UNCHANGED <<replicas, history>>
  <2>1. PastNums'
    BY <1>4, <1>5 DEF PastNums
  <2>2. NoResurrection'
    BY <1>1, <1>2, <1>5 DEF NoResurrection
  <2>3. \A r \in Replicas : TakenOut(r)' => replicas'[r] = 0
    BY <1>3, <1>5 DEF TakenOut
  <2> QED BY <2>1, <2>2, <2>3 DEF PastInv
<1>6. CASE /\ history' \in Seq(Table)
           /\ Len(history') = Len(history) + 1
           /\ \A i \in DOMAIN history : history'[i] = history[i]
           /\ history'[Len(history')] = replicas'
  <2> DEFINE L == Len(history)
  <2>1. /\ L \in Nat /\ DOMAIN history = 1..L /\ DOMAIN history' = 1..(L + 1)
        /\ history'[L + 1] = replicas'
    BY <1>6 DEF TypeOK
  <2>2. FreshNums'
    BY DEF StoresInv
  <2>3. PastNums'
    <3>1. \A i \in DOMAIN history' :
            \/ i \in DOMAIN history /\ history'[i] = history[i]
            \/ history'[i] = replicas'
      BY <1>6, <2>1
    <3>2. \A i \in DOMAIN history' : \A n \in Nodes, k \in 1..MaxNum :
            k > replica_num'[n] => history'[i][<<n, k>>] = 0
      BY <1>4, <2>2, <3>1 DEF FreshNums
    <3>3. \A i \in DOMAIN history' : \A t \in DOMAIN tasks' :
            Created(t)' => history'[i][Made(t)'] = 0
      BY <1>4, <2>2, <3>1 DEF FreshNums
    <3> QED BY <3>2, <3>3 DEF PastNums
  <2>4. ASSUME NEW r \in Replicas, NEW i \in 1..(L + 1), NEW j \in 1..(L + 1),
               i < j, history'[i][r] > 0, history'[j][r] = 0
        PROVE  /\ replicas'[r] = 0
               /\ \A k \in 1..(L + 1) : j < k => history'[k][r] = 0
    <3>1. CASE j = L + 1
      BY <2>1, <2>4, <3>1
    <3>2. CASE j # L + 1
      <4>1. i \in DOMAIN history /\ j \in DOMAIN history
        BY <2>1, <2>4, <3>2
      <4>2. history[i][r] > 0 /\ history[j][r] = 0
        BY <1>6, <2>4, <4>1
      <4>3. TakenOut(r) /\ replicas'[r] = 0
        BY <1>3, <2>4, <4>1, <4>2 DEF TakenOut
      <4>4. ASSUME NEW k \in 1..(L + 1), j < k PROVE history'[k][r] = 0
        <5>1. CASE k = L + 1
          BY <2>1, <4>3, <5>1
        <5>2. CASE k # L + 1
          <6>1. k \in DOMAIN history /\ history'[k] = history[k]
            BY <1>6, <2>1, <5>2
          <6> QED BY <1>1, <1>2, <2>4, <4>1, <4>2, <4>4, <6>1 DEF NoResurrection
        <5> QED BY <5>1, <5>2
      <4> QED BY <4>3, <4>4
    <3> QED BY <3>1, <3>2
  <2>5. NoResurrection'
    BY <2>1, <2>4 DEF NoResurrection
  <2>6. \A r \in Replicas : TakenOut(r)' => replicas'[r] = 0
    BY <2>1, <2>4 DEF TakenOut
  <2> QED BY <2>3, <2>5, <2>6 DEF PastInv
<1> QED BY <1>5, <1>6, HistoryGrows

\* A replica that was taken out of the published tables is in none that follows,
\* as long as no scheduler has started over: for any number of workers, replicas,
\* retried calls and repeated reports.
THEOREM GoneStaysGone == Spec => []NoResurrection
<1>1. Init => PastInv
  BY DEF Init, PastInv, NoResurrection, PastNums, TakenOut
<1>2. PastInv => NoResurrection
  BY DEF PastInv
<1> QED BY <1>1, <1>2, PastNext, StoresInvariant, TypeCorrect, PTL DEF Spec
=============================================================================
