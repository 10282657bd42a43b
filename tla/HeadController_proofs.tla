----------------------- MODULE HeadController_proofs -----------------------
(***************************************************************************)
(* Proofs about the head node, for any set of workers, any bounds and any  *)
(* number of attempts.                                                     *)
(***************************************************************************)
EXTENDS HeadController, SequenceTheorems, TLAPS

USE DEF autoscale_add, autoscale_remove, add_node

-----------------------------------------------------------------------------
(* Sequences.                                                              *)

\* Replacing an element keeps a sequence over S one (create_replica tasks are
\* updated in place).
LEMMA ReplaceInSeq ==
  ASSUME NEW S, NEW s \in Seq(S), NEW i \in DOMAIN s, NEW x \in S
  PROVE  /\ [s EXCEPT ![i] = x] \in Seq(S)
         /\ Len([s EXCEPT ![i] = x]) = Len(s)
         /\ DOMAIN [s EXCEPT ![i] = x] = DOMAIN s
  OBVIOUS

\* An element of a sequence over S is in S.
LEMMA SeqElement ==
  ASSUME NEW S, NEW s \in Seq(S), NEW i \in DOMAIN s
  PROVE  s[i] \in S
  OBVIOUS

\* What the creation loop and the proxy take from a queue, and what they leave.
LEMMA SeqHead ==
  ASSUME NEW S, NEW s \in Seq(S), s # <<>>
  PROVE  Head(s) \in S /\ Tail(s) \in Seq(S)
  OBVIOUS

-----------------------------------------------------------------------------
(* Type correctness.                                                       *)

\* What a publication does to the feed variables keeps their types.
LEMMA PublishTypes ==
  ASSUME TypeOK, replicas' \in Table, get_current_routing_table
  PROVE  history' \in Seq(Table) /\ Len(history') = Len(history) + 1
  BY DEF TypeOK, get_current_routing_table

\* The stamps differ by an integer, whichever way the clock moves.
LEMMA StampType ==
  ASSUME TypeOK, StampSnapshot
  PROVE  lead' \in Int
  BY ClockAssumption DEF TypeOK, StampSnapshot

\* add_replica_to_deployment keeps the types of the three stores.
LEMMA AddTypes ==
  ASSUME TypeOK, NEW r \in Replicas, add_replica_to_deployment(r)
  PROVE  /\ replicas' \in Table
         /\ replica_map' \subseteq Replicas /\ scale_map' \subseteq Replicas
  BY DEF TypeOK, Table, add_replica_to_deployment

\* remove_replicas_from_deployment does so too: no count falls below 0.
LEMMA RemoveTypes ==
  ASSUME TypeOK, NEW D, remove_replicas_from_deployment(D)
  PROVE  /\ replicas' \in Table
         /\ replica_map' \subseteq Replicas /\ scale_map' \subseteq Replicas
  BY DEF TypeOK, Table, remove_replicas_from_deployment

\* A create_replica task that begins, or gives up at once.
LEMMA NewTaskTypes ==
  ASSUME NEW n \in Nodes, NEW i \in 1..NumAttempts
  PROVE  NewCall(n, i) \in Task /\ Done(NewCall(n, i)) \in Task
  BY AttemptsAssumption, BoundsAssumption DEF NewCall, Done, Task, NoReplica

\* A create_replica task that is over.
LEMMA DoneType ==
  ASSUME NEW task \in Task
  PROVE  Done(task) \in Task
  BY AttemptsAssumption, BoundsAssumption DEF Done, Task, NoReplica

\* A head that has just started.
LEMMA TypeInit == Init => TypeOK
<1> SUFFICES ASSUME Init PROVE TypeOK
  OBVIOUS
<1>1. replicas \in Table
  BY DEF Init, Table, NoReplicas
<1>2. replica_num \in [Nodes -> 0..MaxNum] /\ registry \in [Nodes -> SUBSET (1..MaxNum)]
  BY BoundsAssumption DEF Init
<1> QED
  BY <1>1, <1>2 DEF Init, TypeOK, StreamStates

\* Every step keeps the types: a list entry is only taken away where there is
\* one, and a reply carries a number the worker handed out.
LEMMA TypeNext == TypeOK /\ [Next]_vars => TypeOK'
<1> SUFFICES ASSUME TypeOK, [Next]_vars PROVE TypeOK'
  OBVIOUS
<1> USE BoundsAssumption
<1>0. /\ tasks \in Seq(Task) /\ in_hand \in Seq(Nodes)
      /\ Len(history) \in Nat
      /\ replica_num \in [Nodes -> 0..MaxNum]
      /\ \A t \in DOMAIN tasks : tasks[t] \in Task
  <2>1. history \in Seq(Table) /\ tasks \in Seq(Task)
    BY DEF TypeOK
  <2> QED
    BY <2>1, LenProperties, SeqElement DEF TypeOK
<1>1. CASE TakeFromQueue
  BY <1>1 DEF TypeOK, TakeFromQueue, store, feed, proxy, worker, counts
<1>2. CASE SpawnCreateReplica
  <2>1. NewCall(Head(in_hand), 1) \in Task
    <3>1. Head(in_hand) \in Nodes
      BY <1>0, <1>2, SeqHead DEF SpawnCreateReplica
    <3>2. 1 \in 1..NumAttempts
      BY AttemptsAssumption
    <3> QED
      BY <3>1, <3>2, NewTaskTypes
  <2> QED
    BY <1>2, <2>1 DEF TypeOK, SpawnCreateReplica, store, feed, proxy, worker, counts
<1>3. ASSUME NEW t \in DOMAIN tasks, create_replica_done(t) PROVE TypeOK'
  <2>1. tasks[t] \in Task /\ tasks[t].st = "created"
    BY <1>0, <1>3 DEF create_replica_done
  <2>2. <<tasks[t].node, tasks[t].num>> \in Replicas
    BY <2>1 DEF Task, Replicas
  <2>3. /\ replicas' \in Table
        /\ replica_map' \subseteq Replicas /\ scale_map' \subseteq Replicas
    BY <1>3, <2>2, AddTypes DEF create_replica_done
  <2>4. history' \in Seq(Table) /\ lead' \in Int
    BY <1>3, <2>3, PublishTypes, StampType DEF create_replica_done, _on_deployment_change
  <2>5. tasks' \in Seq(Task)
    <3>1. tasks' = [tasks EXCEPT ![t] = Done(tasks[t])]
      BY <1>3 DEF create_replica_done
    <3> QED
      BY <1>0, <2>1, <3>1, DoneType, ReplaceInSeq
  <2> QED
    BY <1>3, <2>3, <2>4, <2>5
    DEF TypeOK, create_replica_done, _on_deployment_change, proxy, worker, counts,
        StreamStates
<1>4. CASE YieldDone
  BY <1>0, <1>4 DEF TypeOK, YieldDone, store, work, proxy, worker, counts, StreamStates
<1>5. CASE ResumeSend
  BY <1>0, <1>5 DEF TypeOK, ResumeSend, store, work, worker, counts, StreamStates
<1>6. CASE ResumeSkip
  BY <1>0, <1>6 DEF TypeOK, ResumeSkip, store, work, proxy, worker, counts, StreamStates
<1>7. ASSUME NEW n \in Nodes, RegisterNode(n) PROVE TypeOK'
  BY <1>7 DEF TypeOK, RegisterNode, store, feed, proxy, worker
<1>8. ASSUME NEW n \in Nodes, WorkerRestarts(n) PROVE TypeOK'
  BY <1>8 DEF TypeOK, WorkerRestarts, store, work, feed, proxy
<1>9. ASSUME NEW t \in DOMAIN tasks, WorkerCreates(t) PROVE TypeOK'
  <2> DEFINE n == tasks[t].node
             k == replica_num[n] + 1
             created == [tasks[t] EXCEPT !.st = "created", !.num = k]
  <2>1. tasks[t] \in Task /\ n \in Nodes
    BY <1>0 DEF Task
  <2>2. k \in 1..MaxNum
    <3>1. k <= MaxNum
      BY <1>9 DEF WorkerCreates
    <3>2. replica_num[n] \in 0..MaxNum
      BY <1>0, <2>1
    <3> QED
      BY <3>1, <3>2
  <2>3. created \in Task
    BY <1>9, <2>1, <2>2 DEF Task, WorkerCreates
  <2>4. tasks' = [tasks EXCEPT ![t] = created]
    BY <1>9 DEF WorkerCreates
  <2>5. tasks' \in Seq(Task)
    BY <1>0, <2>3, <2>4, ReplaceInSeq
  <2>6. /\ replica_num' = [replica_num EXCEPT ![n] = k]
        /\ registry' = [registry EXCEPT ![n] = @ \union {k}]
    BY <1>9 DEF WorkerCreates
  <2>7. /\ replica_num' \in [Nodes -> 0..MaxNum]
        /\ registry' \in [Nodes -> SUBSET (1..MaxNum)]
    <3>1. registry[n] \union {k} \in SUBSET (1..MaxNum)
      BY <2>1, <2>2 DEF TypeOK
    <3>2. registry' = [registry EXCEPT ![n] = registry[n] \union {k}]
      BY <2>6
    <3> HIDE DEF k
    <3>3. registry' \in [Nodes -> SUBSET (1..MaxNum)]
      BY <2>1, <3>1, <3>2 DEF TypeOK
    <3>4. replica_num' \in [Nodes -> 0..MaxNum]
      BY <2>1, <2>2, <2>6 DEF TypeOK
    <3> QED BY <3>3, <3>4
  <2> QED
    BY <1>9, <2>5, <2>7 DEF TypeOK, WorkerCreates, store, feed, proxy, counts
<1>10. ASSUME NEW t \in DOMAIN tasks, create_replica_refused(t) PROVE TypeOK'
  <2>1. tasks[t] \in Task /\ tasks[t].node \in Nodes
    BY <1>0 DEF Task
  <2>2. tasks' \in Seq(Task)
    <3>1. tasks' = [tasks EXCEPT ![t] = Done(tasks[t])]
      BY <1>10 DEF create_replica_refused
    <3> QED
      BY <1>0, <2>1, <3>1, DoneType, ReplaceInSeq
  <2>3. replica_num' \in [Nodes -> 0..MaxNum]
    <3>1. /\ replica_num' = [replica_num EXCEPT ![tasks[t].node] = replica_num[tasks[t].node] + 1]
          /\ replica_num[tasks[t].node] + 1 <= MaxNum
      BY <1>10 DEF create_replica_refused
    <3> QED
      BY <1>0, <2>1, <3>1
  <2> QED
    BY <1>10, <2>2, <2>3
    DEF TypeOK, create_replica_refused, store, feed, proxy, counts
<1>11. ASSUME NEW t \in DOMAIN tasks, CallFails(t) PROVE TypeOK'
  <2>1. tasks[t] \in Task /\ tasks[t].node \in Nodes /\ tasks[t].attempt \in 1..NumAttempts
    BY <1>0 DEF Task
  <2>a. pending_replicas' \in Nat
    <3>1. pending_replicas' \in {pending_replicas, pending_replicas + 1}
      <4>1. pending_replicas \in Nat
        BY DEF TypeOK
      <4> QED
        BY <1>11, <4>1 DEF CallFails
    <3> QED
      BY <3>1 DEF TypeOK
  <2>2. CASE tasks[t].attempt = NumAttempts
    <3>1. tasks' = [tasks EXCEPT ![t] = Done(tasks[t])]
      BY <1>11, <2>2 DEF CallFails
    <3>2. tasks' \in Seq(Task)
      BY <1>0, <2>1, <3>1, DoneType, ReplaceInSeq
    <3> QED
      BY <1>11, <2>a, <3>2 DEF TypeOK, CallFails, store, feed, proxy, worker, counts
  <2>3. CASE tasks[t].attempt # NumAttempts
    <3>1. tasks' = [tasks EXCEPT ![t] = NewCall(tasks[t].node, tasks[t].attempt + 1)]
      BY <1>11, <2>3 DEF CallFails
    <3>2. NewCall(tasks[t].node, tasks[t].attempt + 1) \in Task
      BY <2>1, <2>3, NewTaskTypes, AttemptsAssumption
    <3>3. tasks' \in Seq(Task)
      BY <1>0, <3>1, <3>2, ReplaceInSeq
    <3> QED
      BY <1>11, <2>a, <3>3 DEF TypeOK, CallFails, store, feed, proxy, worker, counts
  <2> QED
    BY <2>2, <2>3
<1>12. ASSUME NEW n \in Nodes, NEW dead \in SUBSET registry[n], NEW acked \in BOOLEAN,
              SendHealthStatus(n, dead, acked)
       PROVE  TypeOK'
  <2>1. /\ replicas' \in Table
        /\ replica_map' \subseteq Replicas /\ scale_map' \subseteq Replicas
    BY <1>12, RemoveTypes DEF SendHealthStatus
  <2>2. history' \in Seq(Table) /\ lead' \in Int
    BY <1>12, <2>1, PublishTypes, StampType DEF SendHealthStatus, _on_deployment_change
  <2>3. registry' \in [Nodes -> SUBSET (1..MaxNum)]
    BY <1>12 DEF SendHealthStatus, TypeOK
  <2> QED
    <3>1. stream' \in StreamStates /\ since' \in Nat /\ sent' \in Nat
      BY <1>12 DEF TypeOK, SendHealthStatus, _on_deployment_change, StreamStates
    <3>2. /\ reports' = reports + 1
          /\ UNCHANGED <<node_map, work, proxy, replica_num, registrations, restarts, breaks>>
      BY <1>12 DEF SendHealthStatus
    <3>3. reports' \in Nat
      BY <3>2 DEF TypeOK
    <3> QED
      BY <2>1, <2>2, <2>3, <3>1, <3>2, <3>3 DEF TypeOK, work, proxy
<1>13. CASE Subscribe
  <2>1. /\ history' \in Seq(Table)
        /\ Len(history') = Len(history) + 1
    BY <1>13, PublishTypes DEF Subscribe, TypeOK
  <2> QED
    BY <1>13, <2>1 DEF TypeOK, Subscribe, work, worker, counts, StreamStates
<1>14. CASE apply_routing_update
  <2>1. view' \in Nat /\ channel' \in Seq(Nat)
    BY <1>14 DEF TypeOK, apply_routing_update
  <2> QED
    BY <1>14, <2>1 DEF TypeOK, apply_routing_update, store, work, feed, worker, counts
<1>15. CASE StreamBreaks
  BY <1>15 DEF TypeOK, StreamBreaks, store, work, worker, StreamStates
<1>16. CASE UNCHANGED vars
  BY <1>16 DEF TypeOK, vars, store, work, feed, proxy, worker, counts
<1> QED
  BY <1>1, <1>2, <1>3, <1>4, <1>5, <1>6, <1>7, <1>8, <1>9, <1>10, <1>11, <1>12,
     <1>13, <1>14, <1>15, <1>16
  DEF Next, HeadStep, WorkerStep, ProxyStep

\* The state of the head node is well typed in every behaviour: no multiset
\* count goes below zero and no replica number leaves its range.
THEOREM TypeCorrect == Spec => []TypeOK
<1> QED
  BY TypeInit, TypeNext, PTL DEF Spec

-----------------------------------------------------------------------------
(* The routing feed.                                                       *)

\* The steps of the head as the feed sees them: most leave it and the list of
\* replicas alone, two change the list and publish it, the rest are its own.
Quiet == UNCHANGED <<replicas, history, stream, sent, since, channel, view>>

Publishes ==
  /\ replicas' \in Table
  /\ _on_deployment_change
  /\ UNCHANGED <<channel, view>>

\* Every step of the head is one of these.
LEMMA FeedSteps ==
  TypeOK /\ TypeOK' /\ [Next]_vars =>
    \/ Quiet
    \/ Publishes
    \/ Subscribe \/ YieldDone \/ ResumeSend \/ ResumeSkip
    \/ apply_routing_update \/ StreamBreaks
<1> SUFFICES ASSUME TypeOK, TypeOK', [Next]_vars
             PROVE  \/ Quiet
                    \/ Publishes
                    \/ Subscribe \/ YieldDone \/ ResumeSend \/ ResumeSkip
                    \/ apply_routing_update \/ StreamBreaks
  OBVIOUS
<1>1. CASE TakeFromQueue
  BY <1>1 DEF TakeFromQueue, Quiet, store, feed, proxy
<1>2. CASE SpawnCreateReplica
  BY <1>2 DEF SpawnCreateReplica, Quiet, store, feed, proxy
<1>3. ASSUME NEW t \in DOMAIN tasks, create_replica_done(t) PROVE Publishes
  BY <1>3 DEF create_replica_done, Publishes, TypeOK, proxy
<1>4. ASSUME NEW n \in Nodes, RegisterNode(n) PROVE Quiet
  BY <1>4 DEF RegisterNode, Quiet, store, feed, proxy
<1>5. ASSUME NEW n \in Nodes, WorkerRestarts(n) PROVE Quiet
  BY <1>5 DEF WorkerRestarts, Quiet, store, feed, proxy
<1>6. ASSUME NEW t \in DOMAIN tasks, WorkerCreates(t) PROVE Quiet
  BY <1>6 DEF WorkerCreates, Quiet, store, feed, proxy
<1>7. ASSUME NEW t \in DOMAIN tasks, create_replica_refused(t) PROVE Quiet
  BY <1>7 DEF create_replica_refused, Quiet, store, feed, proxy
<1>8. ASSUME NEW t \in DOMAIN tasks, CallFails(t) PROVE Quiet
  BY <1>8 DEF CallFails, Quiet, store, feed, proxy
<1>9. ASSUME NEW n \in Nodes, NEW dead \in SUBSET registry[n], NEW acked \in BOOLEAN,
             SendHealthStatus(n, dead, acked)
      PROVE  Publishes
  BY <1>9 DEF SendHealthStatus, Publishes, TypeOK, proxy
<1>10. CASE UNCHANGED vars
  BY <1>10 DEF vars, Quiet, store, feed, proxy
<1> QED
  BY <1>1, <1>2, <1>3, <1>4, <1>5, <1>6, <1>7, <1>8, <1>9, <1>10
  DEF Next, HeadStep, WorkerStep, ProxyStep

\* A publication appends: older snapshots stay as they were.
LEMMA PublishAppends ==
  ASSUME TypeOK, replicas' \in Table, get_current_routing_table
  PROVE  /\ history' \in Seq(Table)
         /\ Len(history') = Len(history) + 1
         /\ \A i \in DOMAIN history : history'[i] = history[i]
         /\ history'[Len(history')] = replicas'
<1>1. history' = Append(history, replicas') /\ history \in Seq(Table)
  BY DEF get_current_routing_table, TypeOK
<1> QED
  BY <1>1, AppendProperties

\* Before the first subscription there is nothing on the wire.
LEMMA FeedInit == Init => FeedInv
  BY DEF Init, FeedInv

\* Versions stay in order on the stream, whatever the clock does.
LEMMA FeedNext == TypeOK /\ TypeOK' /\ FeedInv /\ [Next]_vars => FeedInv'
<1> SUFFICES ASSUME TypeOK, TypeOK', FeedInv, [Next]_vars PROVE FeedInv'
  OBVIOUS
<1>0. /\ Len(history) \in Nat /\ sent \in Nat /\ view \in Nat
      /\ channel \in Seq(Nat) /\ \A i \in DOMAIN channel : channel[i] \in Nat
      /\ Len(channel) \in Nat
  <2>1. history \in Seq(Table) /\ channel \in Seq(Nat)
    BY DEF TypeOK
  <2> QED
    BY <2>1, LenProperties, SeqElement DEF TypeOK
<1>1. CASE Quiet
  BY <1>1 DEF Quiet, FeedInv
<1>2. CASE Publishes
  <2>1. Len(history') = Len(history) + 1
    BY <1>2, PublishAppends DEF Publishes, _on_deployment_change
  <2> QED
    BY <1>0, <1>2, <2>1 DEF Publishes, _on_deployment_change, FeedInv
<1>3. ASSUME NEW new \in Nat, new = Len(history'), sent < new \/ stream = "none",
             stream' = "yielding", sent' = new, channel' = Append(channel, new),
             view' = view, Len(history') >= Len(history), view < new,
             new \in 1..Len(history')
      PROVE  FeedInv'
  <2>1. /\ Len(channel') = Len(channel) + 1
        /\ \A i \in DOMAIN channel : channel'[i] = channel[i]
        /\ channel'[Len(channel) + 1] = new
        /\ DOMAIN channel' = 1..(Len(channel) + 1)
        /\ DOMAIN channel = 1..Len(channel)
    BY <1>0, <1>3, AppendProperties
  <2>2. \A i \in DOMAIN channel : view < channel[i] /\ channel[i] < new
    BY <1>0, <1>3 DEF FeedInv
  <2>3. \A i \in DOMAIN channel' : view < channel'[i] /\ channel'[i] <= new
    BY <1>0, <1>3, <2>1, <2>2
  <2>4. \A i, j \in DOMAIN channel' : i < j => channel'[i] < channel'[j]
    BY <1>0, <2>1, <2>2 DEF FeedInv
  <2> QED
    BY <1>0, <1>3, <2>3, <2>4 DEF FeedInv
<1>4. CASE Subscribe
  <2>1. Len(history') = Len(history) + 1
    BY <1>4, PublishAppends DEF Subscribe, TypeOK
  <2>2. view < Len(history')
    BY <1>0, <2>1 DEF FeedInv
  <2> QED
    BY <1>0, <1>3, <1>4, <2>1, <2>2 DEF Subscribe
<1>5. CASE YieldDone
  BY <1>5 DEF YieldDone, FeedInv, proxy
<1>6. CASE ResumeSend
  <2>1. sent < Len(history) /\ view < Len(history) /\ Len(history) \in 1..Len(history)
    BY <1>0, <1>6 DEF ResumeSend, FeedInv
  <2> QED
    BY <1>0, <1>3, <1>6, <2>1 DEF ResumeSend
<1>7. CASE ResumeSkip
  BY <1>7 DEF ResumeSkip, FeedInv, proxy
<1>8. CASE apply_routing_update
  <2>1. /\ channel' = Tail(channel) /\ channel # <<>> /\ view' = channel[1]
        /\ UNCHANGED <<history, stream, sent>>
    BY <1>8 DEF apply_routing_update, feed
  <2>2. /\ DOMAIN channel' = 1..(Len(channel) - 1)
        /\ \A i \in 1..(Len(channel) - 1) : channel'[i] = channel[i + 1]
        /\ 1 \in DOMAIN channel
        /\ DOMAIN channel = 1..Len(channel)
    BY <1>0, <2>1, HeadTailProperties, EmptySeq
  <2>a. \A i \in DOMAIN channel' : i \in Nat /\ i + 1 \in DOMAIN channel /\ 1 < i + 1
    BY <1>0, <2>2
  <2>b. \A i, j \in DOMAIN channel : i < j => channel[i] < channel[j]
    BY DEF FeedInv
  <2>3. \A i \in DOMAIN channel' : view' < channel'[i] /\ channel'[i] <= sent
    <3> TAKE i \in DOMAIN channel'
    <3>1. channel[1] < channel[i + 1]
      BY <2>2, <2>a, <2>b
    <3>2. channel[i + 1] <= sent
      BY <2>a DEF FeedInv
    <3> QED
      BY <2>1, <2>2, <3>1, <3>2
  <2>4. \A i, j \in DOMAIN channel' : i < j => channel'[i] < channel'[j]
    <3> TAKE i, j \in DOMAIN channel'
    <3>1. i < j => i + 1 < j + 1
      BY <2>a
    <3> QED
      BY <2>2, <2>a, <2>b, <3>1
  <2>5. view' <= sent /\ stream # "none"
    BY <2>1, <2>2 DEF FeedInv
  <2> QED
    BY <1>0, <2>1, <2>3, <2>4, <2>5 DEF FeedInv
<1>9. CASE StreamBreaks
  BY <1>0, <1>9 DEF StreamBreaks, FeedInv
<1> QED
  BY <1>1, <1>2, <1>4, <1>5, <1>6, <1>7, <1>8, <1>9, FeedSteps

\* FeedInv holds in every behaviour, whatever the wall clock does.
THEOREM FeedInvariant == Spec => []FeedInv
<1>1. Init => TypeOK /\ FeedInv
  BY TypeInit, FeedInit
<1>2. TypeOK /\ FeedInv /\ [Next]_vars => (TypeOK /\ FeedInv)'
  BY TypeNext, FeedNext
<1> QED
  BY <1>1, <1>2, PTL DEF Spec

\* The head, its event loop and its stream implement the promise of
\* RoutingFeed: the proxy only ever uses a published table, and never goes back
\* to an older one.  No assumption on the clock, the workers or the stream.
THEOREM FeedRefinement == Spec => FeedSpec
<1>1. Init => Feed!Init
  BY DEF Init, Feed!Init
<1>2. ASSUME TypeOK, TypeOK', FeedInv, FeedInv', [Next]_vars
      PROVE  [Feed!Next]_<<history, view>>
  <2>0. /\ history \in Seq(Table) /\ Len(history) \in Nat
        /\ DOMAIN history = 1..Len(history) /\ view \in Nat
    <3>1. history \in Seq(Table)
      BY <1>2 DEF TypeOK
    <3> QED
      BY <1>2, <3>1, LenProperties DEF TypeOK
  <2>2. ASSUME get_current_routing_table, replicas' \in Table, UNCHANGED view
        PROVE  Feed!Publish
    <3>1. /\ history' \in Seq(Table)
          /\ Len(history') = Len(history) + 1
          /\ \A i \in DOMAIN history : history'[i] = history[i]
      BY <1>2, <2>2, PublishAppends
    <3> QED
      BY <2>0, <2>2, <3>1 DEF Feed!Publish
  <2>3. CASE Publishes
    BY <2>2, <2>3 DEF Publishes, _on_deployment_change, Feed!Next
  <2>4. CASE Subscribe
    BY <1>2, <2>2, <2>4 DEF Subscribe, Feed!Next, TypeOK
  <2>5. CASE apply_routing_update
    <3>1. /\ view' = channel[1] /\ channel # <<>> /\ UNCHANGED history
          /\ channel \in Seq(Nat)
      BY <1>2, <2>5 DEF apply_routing_update, feed, TypeOK
    <3>2. 1 \in DOMAIN channel /\ channel[1] \in Nat
      BY <3>1, EmptySeq
    <3>3. view < channel[1] /\ channel[1] <= Len(history)
      BY <1>2, <2>0, <3>1, <3>2 DEF FeedInv
    <3>4. view' \in (view + 1)..Len(history)
      BY <2>0, <3>1, <3>2, <3>3
    <3> QED
      BY <3>1, <3>4 DEF Feed!Next, Feed!Advance
  <2>6. CASE UNCHANGED <<history, view>>
    BY <2>6
  <2>7. Quiet \/ YieldDone \/ ResumeSend \/ ResumeSkip \/ StreamBreaks
          => UNCHANGED <<history, view>>
    BY DEF Quiet, YieldDone, ResumeSend, ResumeSkip, StreamBreaks, proxy
  <2> QED
    BY <1>2, <2>3, <2>4, <2>5, <2>6, <2>7, FeedSteps
<1> QED
  BY <1>1, <1>2, TypeCorrect, FeedInvariant, PTL DEF Spec, FeedSpec, Feed!Spec

-----------------------------------------------------------------------------
(* Freshness.                                                              *)

\* Before the first snapshot there is nothing to be stale.
LEMMA FreshInit == Init => FreshInv
  BY DEF Init, FreshInv

\* The last snapshot stays current and the last one sent stays last on the
\* wire.
LEMMA FreshNext ==
  ASSUME TypeOK, TypeOK', FeedInv, FreshInv, [Next]_vars
  PROVE  FreshInv'
<1>0. /\ history \in Seq(Table) /\ Len(history) \in Nat
      /\ DOMAIN history = 1..Len(history)
      /\ channel \in Seq(Nat) /\ Len(channel) \in Nat /\ sent \in Nat
  <2>1. history \in Seq(Table) /\ channel \in Seq(Nat)
    BY DEF TypeOK
  <2> QED
    BY <2>1, LenProperties DEF TypeOK
<1>1. CASE Quiet
  BY <1>1 DEF Quiet, FreshInv
<1>2. CASE Publishes
  <2>1. /\ get_current_routing_table /\ replicas' \in Table
        /\ UNCHANGED <<channel, view, sent>>
        /\ stream' = IF stream = "waiting" THEN "woken" ELSE stream
    BY <1>2 DEF Publishes, _on_deployment_change
  <2>2. stream' # "waiting" /\ (stream' # "none" => stream # "none")
    BY <2>1
  <2> QED
    BY <2>1, <2>2, PublishAppends DEF FreshInv
<1>3. ASSUME channel' = Append(channel, sent'), sent' \in Nat, stream' = "yielding"
      PROVE  (IF channel' = <<>> THEN view' ELSE channel'[Len(channel')]) = sent'
  BY <1>0, <1>3, AppendProperties
<1>4. CASE Subscribe
  <2>1. replicas' \in Table /\ get_current_routing_table /\ sent' \in Nat
        /\ channel' = Append(channel, sent') /\ stream' = "yielding"
    BY <1>4 DEF Subscribe, TypeOK
  <2> QED
    BY <1>3, <2>1, PublishAppends DEF FreshInv
<1>5. CASE YieldDone
  BY <1>5 DEF YieldDone, FreshInv, store, proxy
<1>6. CASE ResumeSend
  <2>1. /\ UNCHANGED <<replicas, history>> /\ sent' \in Nat
        /\ channel' = Append(channel, sent') /\ stream' = "yielding"
    BY <1>6 DEF ResumeSend, TypeOK, store
  <2> QED
    BY <1>3, <2>1 DEF FreshInv
<1>7. CASE ResumeSkip
  BY <1>7 DEF ResumeSkip, FreshInv, store, proxy
<1>8. CASE apply_routing_update
  <2>1. /\ channel' = Tail(channel) /\ channel # <<>> /\ view' = channel[1]
        /\ UNCHANGED <<replicas, history, stream, sent, since>>
    BY <1>8 DEF apply_routing_update, feed, store
  <2>2. stream # "none" /\ channel[Len(channel)] = sent
    BY <2>1 DEF FeedInv, FreshInv
  <2>3. (IF channel' = <<>> THEN view' ELSE channel'[Len(channel')]) = sent
    <3>1. /\ Len(channel') = Len(channel) - 1
          /\ \A i \in 1..(Len(channel) - 1) : channel'[i] = channel[i + 1]
          /\ channel' \in Seq(Nat)
      BY <1>0, <2>1, HeadTailProperties
    <3>2. CASE channel' = <<>>
      <4>1. Len(channel') = 0
        BY <3>2
      <4>2. Len(channel) = 1
        BY <1>0, <3>1, <4>1
      <4> QED
        BY <2>1, <2>2, <3>2, <4>2
    <3>3. CASE channel' # <<>>
      BY <1>0, <2>2, <3>1, <3>3, EmptySeq
    <3> QED
      BY <3>2, <3>3
  <2> QED
    BY <2>1, <2>3 DEF FreshInv
<1>9. CASE StreamBreaks
  BY <1>9 DEF StreamBreaks, FreshInv, store
<1> QED
  BY <1>1, <1>2, <1>4, <1>5, <1>6, <1>7, <1>8, <1>9, FeedSteps

\* Under any clock, a subscribed proxy with nothing in flight has the current
\* table unless its handler went to wait on a snapshot it had not sent: a pulse
\* lost while it was writing, or a stamp that was not newer.
THEOREM Freshness == Spec => []StaleOnlyAfterMissedPulse
<1>1. Init => TypeOK /\ FeedInv /\ FreshInv
  BY TypeInit, FeedInit, FreshInit
<1>2. TypeOK /\ FeedInv /\ FreshInv /\ [Next]_vars => (TypeOK /\ FeedInv /\ FreshInv)'
  BY TypeNext, FeedNext, FreshNext
<1>3. TypeOK /\ FeedInv /\ FreshInv => StaleOnlyAfterMissedPulse
  <2> SUFFICES ASSUME TypeOK, FeedInv, FreshInv, stream = "waiting", channel = <<>>,
                      ~MissedPulse
               PROVE  ViewIsCurrent
    BY DEF StaleOnlyAfterMissedPulse
  <2>1. Len(history) \in Nat /\ sent \in Nat /\ since \in Nat
    <3>1. history \in Seq(Table)
      BY DEF TypeOK
    <3> QED
      BY <3>1, LenProperties DEF TypeOK
  <2>2. sent \in 1..Len(history) /\ view = sent /\ since = Len(history) /\ since <= sent
    BY <2>1 DEF FeedInv, FreshInv, MissedPulse
  <2> QED
    BY <2>1, <2>2 DEF ViewIsCurrent, FreshInv
<1> QED
  BY <1>1, <1>2, <1>3, PTL DEF Spec
=============================================================================
