--------------------------- MODULE Scheduler_proofs ---------------------------
(***************************************************************************)
(* Proofs about Scheduler: for any set of calls and any number of replica  *)
(* numbers, every answer is about the caller's own process, no             *)
(* registration is missed and no future leaks.  SchedulerInv is inductive. *)
(***************************************************************************)
EXTENDS Scheduler, TLAPS

\* A scheduler that has just started has handed out nothing.
LEMMA InitInv == Init => SchedulerInv
<1> SUFFICES ASSUME Init PROVE SchedulerInv
  OBVIOUS
<1>0. \A k : ~Registered(k)
  BY DEF Init, Registered
<1>1. TypeOK
  BY MaxNumAssumption DEF Init, TypeOK, Nums, NoNum, CallStates, ProcStates, Entry
<1>2. NumbersFresh
  BY <1>0, MaxNumAssumption DEF Init, NumbersFresh, NoNum, Nums
<1>3. AnswersAreOwn /\ NoMissedRegistration /\ FuturesAreOwned
  BY <1>0 DEF Init, AnswersAreOwn, NoMissedRegistration, FuturesAreOwned, NoNum
<1> QED
  BY <1>1, <1>2, <1>3 DEF SchedulerInv

\* Steps that leave calls, processes, registry and futures alone.
LEMMA Quiet ==
  ASSUME SchedulerInv, TypeOK', UNCHANGED <<table, calls, proc>>
  PROVE  SchedulerInv'
<1>1. \A k : Registered(k)' <=> Registered(k)
  BY DEF Registered, table
<1> QED
  BY <1>1 DEF SchedulerInv, table, calls, NumbersFresh, AnswersAreOwn,
       NoMissedRegistration, FuturesAreOwned

\* Steps that only end processes.
LEMMA Ending ==
  ASSUME SchedulerInv, TypeOK', UNCHANGED <<table, calls>>,
         \A k \in Nums : proc'[k] = proc[k]
                           \/ (proc[k] # "none" /\ proc'[k] = "gone")
  PROVE  SchedulerInv'
<1> USE DEF SchedulerInv, table, calls
<1>1. \A k : Registered(k)' <=> Registered(k)
  BY DEF Registered
<1>2. \A e \in registry : e.num \in Nums
  BY DEF TypeOK, Entry
<1>3. \A c \in Calls : num[c] # NoNum => num[c] \in Nums
  BY DEF TypeOK
<1>4. NumbersFresh'
  BY <1>1, <1>2 DEF NumbersFresh
<1>5. AnswersAreOwn'
  <2>1. \A c \in Calls : call[c] = "created" => num[c] \in Nums
    BY <1>3 DEF NumbersFresh
  <2> QED
    BY <1>1, <2>1 DEF AnswersAreOwn
<1>6. NoMissedRegistration'
  <2>1. \A c \in Calls : call[c] = "awaiting" => num[c] \in Nums
    BY <1>3 DEF NumbersFresh
  <2> QED
    BY <1>1, <2>1 DEF NoMissedRegistration
<1>7. FuturesAreOwned'
  BY <1>1 DEF FuturesAreOwned
<1> QED
  BY <1>4, <1>5, <1>6, <1>7

\* Every handler and loop of the scheduler keeps the types.
LEMMA TypeStep ==
  ASSUME TypeOK, [Next]_vars
  PROVE  TypeOK'
<1> USE MaxNumAssumption DEF TypeOK
<1>0. \A k \in Nums : [num |-> k, status |-> "idle"] \in Entry
  BY DEF Entry
<1>1. CASE RegisterNodeAcked \/ RegisterNodeFails
  BY <1>1 DEF RegisterNodeAcked, RegisterNodeFails, AfterSigterm, table, calls, loops
<1>2. ASSUME NEW c \in Calls, CreateReplica(c)
      PROVE  TypeOK'
  BY <1>2 DEF CreateReplica, NextNum, Nums, CallStates, ProcStates, loops
<1>3. ASSUME NEW c \in Calls, CreateReplicaRaises(c)
      PROVE  TypeOK'
  BY <1>3 DEF CreateReplicaRaises, NextNum, Nums, CallStates, loops
<1>4. ASSUME NEW c \in Calls, CallCancelled(c)
      PROVE  TypeOK'
  BY <1>4 DEF CallCancelled, CallStates, table, loops
<1>5. ASSUME NEW k \in Nums, RegisterReplica(k)
      PROVE  TypeOK'
  <2>1. registry' \subseteq Entry
    BY <1>0, <1>5 DEF RegisterReplica
  <2>2. futures' \subseteq Nums /\ call' \in [Calls -> CallStates]
    BY <1>5 DEF RegisterReplica, set_result, CallStates
  <2> QED
    BY <1>5, <2>1, <2>2 DEF RegisterReplica, ProcStates, loops
<1>6. ASSUME NEW k \in Nums, RegisterReplicaFails(k) \/ ProcessDies(k)
      PROVE  TypeOK'
  BY <1>6 DEF RegisterReplicaFails, ProcessDies, ProcStates, table, calls, loops
<1>7. CASE Loops
  <2>1. CASE HeartbeatRound \/ RoundOver
    BY <2>1 DEF HeartbeatRound, RoundOver, Live, table, calls
  <2>2. ASSUME NEW e \in todo, PingAnswered(e) \/ PingFails(e)
        PROVE  TypeOK'
    BY <2>2 DEF PingAnswered, PingFails, table, calls
  <2>3. CASE SendHealthUpdate \/ cleanup_replicas
    BY <2>3 DEF SendHealthUpdate, cleanup_replicas, Live, table, calls
  <2>4. CASE send_kill_signal
    BY <2>4 DEF send_kill_signal, AfterSigterm, ProcStates, table, calls
  <2> QED
    BY <1>7, <2>1, <2>2, <2>3, <2>4 DEF Loops
<1>8. CASE UNCHANGED vars
  BY <1>8 DEF vars, table, calls, loops
<1> QED
  BY <1>1, <1>2, <1>3, <1>4, <1>5, <1>6, <1>7, <1>8 DEF Next

\* A call that takes a number: no other call, process, future or registry entry
\* has it.
LEMMA Creating ==
  ASSUME SchedulerInv, TypeOK', NEW c \in Calls,
         CreateReplica(c) \/ CreateReplicaRaises(c)
  PROVE  SchedulerInv'
<1> DEFINE k == replica_num + 1
<1> USE DEF SchedulerInv
<1>0. k \in Nums /\ k # NoNum /\ k > replica_num
  BY MaxNumAssumption DEF CreateReplica, CreateReplicaRaises, NextNum, Nums, NoNum, TypeOK
<1>1. /\ call[c] = "idle" /\ replica_num' = k /\ registry' = registry
      /\ num' = [num EXCEPT ![c] = k]
      /\ \/ /\ proc' = [proc EXCEPT ![k] = "starting"]
            /\ futures' = futures \union {k}
            /\ call' = [call EXCEPT ![c] = "awaiting"]
         \/ /\ proc' = proc
            /\ futures' = futures \ {k}
            /\ call' = [call EXCEPT ![c] = "refused"]
  BY DEF CreateReplica, CreateReplicaRaises, NextNum
<1>2. \A j : Registered(j)' <=> Registered(j)
  BY <1>1 DEF Registered
<1>3. k \notin futures /\ ~Registered(k) /\ proc[k] = "none"
  BY <1>0 DEF NumbersFresh
<1>4. \A d \in Calls : num[d] # k
  BY <1>0 DEF NumbersFresh, TypeOK, Nums, NoNum
<1>5. \A d \in Calls : d # c => num'[d] = num[d] /\ call'[d] = call[d]
  BY <1>1 DEF TypeOK
<1>6. num'[c] = k /\ call'[c] \in {"awaiting", "refused"}
  BY <1>1 DEF TypeOK
<1>7. \A j \in Nums : j # k => /\ proc'[j] = proc[j]
                               /\ j \in futures' <=> j \in futures
  BY <1>1 DEF TypeOK
<1>8. /\ call'[c] = "awaiting" => k \in futures' /\ proc'[k] = "starting"
      /\ k \in futures' => call'[c] = "awaiting"
  BY <1>1, <1>0, <1>3 DEF TypeOK
<1>9. NumbersFresh'
  <2>1. \A d \in Calls : num'[d] <= replica_num' /\ (num'[d] = NoNum <=> call'[d] = "idle")
    BY <1>0, <1>1, <1>5, <1>6 DEF NumbersFresh, TypeOK, Nums, NoNum
  <2>2. \A j \in Nums : j > replica_num' =>
          proc'[j] = "none" /\ j \notin futures' /\ ~Registered(j)'
    BY <1>0, <1>1, <1>2, <1>7 DEF NumbersFresh, TypeOK, Nums
  <2>3. \A e \in registry : e.num \in Nums /\ e.num # k
    BY <1>3 DEF TypeOK, Entry, Registered
  <2>4. \A e \in registry' : e.status = "idle" /\ proc'[e.num] \in {"running", "gone"}
    BY <1>1, <1>7, <2>3 DEF NumbersFresh
  <2> QED
    BY <2>1, <2>2, <2>4 DEF NumbersFresh
<1>10. AnswersAreOwn'
  <2>1. \A d \in Calls : call[d] = "created" => num[d] \in Nums
    BY DEF NumbersFresh, TypeOK
  <2> QED
    BY <1>2, <1>4, <1>5, <1>6, <1>7, <2>1 DEF AnswersAreOwn
<1>11. NoMissedRegistration'
  <2>1. \A d \in Calls : call[d] = "awaiting" => num[d] \in Nums
    BY DEF NumbersFresh, TypeOK
  <2> QED
    BY <1>2, <1>3, <1>4, <1>5, <1>6, <1>7, <1>8, <2>1 DEF NoMissedRegistration
<1>12. FuturesAreOwned'
  <2> SUFFICES ASSUME NEW j \in futures'
               PROVE  /\ ~Registered(j)'
                      /\ \E d \in Calls : num'[d] = j /\ call'[d] \in {"awaiting", "cancelled"}
    BY DEF FuturesAreOwned
  <2>1. CASE j = k
    BY <2>1, <1>2, <1>3, <1>6, <1>8
  <2>2. CASE j # k
    <3>1. j \in futures
      BY <2>2, <1>7 DEF TypeOK
    <3>2. PICK d \in Calls : num[d] = j /\ call[d] \in {"awaiting", "cancelled"}
      BY <3>1 DEF FuturesAreOwned
    <3>3. d # c
      BY <3>2, <1>1
    <3> QED
      BY <3>1, <3>2, <3>3, <1>2, <1>5 DEF FuturesAreOwned
  <2> QED
    BY <2>1, <2>2
<1> QED
  BY <1>9, <1>10, <1>11, <1>12

\* A cancelled call leaves its future behind, and still owns it.
LEMMA Cancelling ==
  ASSUME SchedulerInv, TypeOK', NEW c \in Calls, CallCancelled(c)
  PROVE  SchedulerInv'
<1> USE DEF SchedulerInv
<1>1. /\ call[c] = "awaiting" /\ call' = [call EXCEPT ![c] = "cancelled"]
      /\ UNCHANGED <<replica_num, registry, futures, num, proc>>
  BY DEF CallCancelled, table
<1>2. \A k : Registered(k)' <=> Registered(k)
  BY <1>1 DEF Registered
<1>3. call'[c] = "cancelled" /\ \A d \in Calls : d # c => call'[d] = call[d]
  BY <1>1 DEF TypeOK
<1>4. NumbersFresh'
  BY <1>1, <1>2, <1>3 DEF NumbersFresh
<1>5. AnswersAreOwn' /\ NoMissedRegistration'
  BY <1>1, <1>2, <1>3 DEF AnswersAreOwn, NoMissedRegistration
<1>6. FuturesAreOwned'
  BY <1>1, <1>2, <1>3 DEF FuturesAreOwned
<1> QED
  BY <1>4, <1>5, <1>6

\* A registration: the process was not registered before, and the call that
\* waits for it, if any, is the one that is answered.
LEMMA Registering ==
  ASSUME SchedulerInv, TypeOK', NEW k \in Nums, RegisterReplica(k)
  PROVE  SchedulerInv'
<1> DEFINE new == [num |-> k, status |-> "idle"]
<1> USE DEF SchedulerInv
<1>1. ~Registered(k) /\ k <= replica_num
  BY DEF RegisterReplica, Registered, NumbersFresh, TypeOK, Nums
<1>2. /\ registry' = registry \union {new}
      /\ futures' = futures \ {k}
      /\ call' = [c \in Calls |-> IF num[c] = k /\ k \in futures /\ call[c] = "awaiting"
                                   THEN "created" ELSE call[c]]
      /\ proc' = [proc EXCEPT ![k] = "running"]
      /\ replica_num' = replica_num /\ num' = num
  BY <1>1 DEF RegisterReplica, set_result
<1>3. \A j : Registered(j)' <=> (Registered(j) \/ j = k)
  <2>1. new.num = k
    OBVIOUS
  <2>2. \A j : Registered(j)' <=> \E e \in registry \union {new} : e.num = j
    BY <1>2 DEF Registered
  <2> HIDE DEF new
  <2> QED
    BY <2>1, <2>2 DEF Registered
<1>4. proc'[k] = "running" /\ \A j \in Nums : j # k => proc'[j] = proc[j]
  BY <1>2 DEF TypeOK
<1>5. /\ \A c \in Calls : num[c] # k => call'[c] = call[c]
      /\ \A c \in Calls : call[c] # "awaiting" => call'[c] = call[c]
      /\ \A c \in Calls : (num[c] = k /\ call[c] = "awaiting") => call'[c] = "created"
  BY <1>2 DEF NoMissedRegistration
<1>6. NumbersFresh'
  <2>1. \A c \in Calls : num[c] = NoNum <=> call'[c] = "idle"
    BY <1>5 DEF NumbersFresh
  <2>2. \A j \in Nums : j > replica_num =>
          proc'[j] = "none" /\ j \notin futures' /\ ~Registered(j)'
    BY <1>1, <1>2, <1>3, <1>4 DEF NumbersFresh, TypeOK, Nums
  <2>3. \A e \in registry' : e.status = "idle" /\ proc'[e.num] \in {"running", "gone"}
    BY <1>2, <1>4 DEF NumbersFresh, TypeOK, Entry
  <2> QED
    BY <1>2, <2>1, <2>2, <2>3 DEF NumbersFresh
<1>7. \A c \in Calls : call[c] \in {"awaiting", "created"} => num[c] \in Nums
  BY DEF NumbersFresh, TypeOK
<1>8. AnswersAreOwn'
  BY <1>2, <1>3, <1>4, <1>5, <1>7 DEF AnswersAreOwn
<1>9. NoMissedRegistration'
  BY <1>2, <1>3, <1>4, <1>5, <1>7 DEF NoMissedRegistration
<1>10. FuturesAreOwned'
  BY <1>2, <1>3, <1>5 DEF FuturesAreOwned
<1> QED
  BY <1>6, <1>8, <1>9, <1>10

\* The inductive step: every handler and loop keeps the invariant.
LEMMA NextInv == SchedulerInv /\ [Next]_vars => SchedulerInv'
<1> SUFFICES ASSUME SchedulerInv, [Next]_vars PROVE SchedulerInv'
  OBVIOUS
<1>0. TypeOK'
  BY TypeStep DEF SchedulerInv
<1>1. CASE RegisterNodeAcked \/ RegisterNodeFails
  BY <1>0, <1>1, Quiet DEF RegisterNodeAcked, RegisterNodeFails
<1>2. ASSUME NEW c \in Calls, CreateReplica(c) \/ CreateReplicaRaises(c)
      PROVE  SchedulerInv'
  BY <1>0, <1>2, Creating
<1>3. ASSUME NEW c \in Calls, CallCancelled(c)
      PROVE  SchedulerInv'
  BY <1>0, <1>3, Cancelling
<1>4. ASSUME NEW k \in Nums, RegisterReplica(k)
      PROVE  SchedulerInv'
  BY <1>0, <1>4, Registering
<1>5. ASSUME NEW k \in Nums, RegisterReplicaFails(k) \/ ProcessDies(k)
      PROVE  SchedulerInv'
  <2>1. UNCHANGED <<table, calls>>
    BY <1>5 DEF RegisterReplicaFails, ProcessDies
  <2>2. \A j \in Nums : proc'[j] = proc[j] \/ (proc[j] # "none" /\ proc'[j] = "gone")
    BY <1>5 DEF RegisterReplicaFails, ProcessDies, SchedulerInv, TypeOK
  <2> QED
    BY <1>0, <2>1, <2>2, Ending
<1>6. CASE Loops
  <2>1. CASE HeartbeatRound \/ RoundOver \/ SendHealthUpdate
    BY <1>0, <2>1, Quiet DEF HeartbeatRound, RoundOver, SendHealthUpdate
  <2>2. ASSUME NEW e \in todo, PingAnswered(e) \/ PingFails(e)
        PROVE  SchedulerInv'
    BY <1>0, <2>2, Quiet DEF PingAnswered, PingFails
  <2>3. CASE cleanup_replicas
    <3>1. Live(registry) = registry
      BY DEF Live, SchedulerInv, NumbersFresh
    <3> QED
      BY <1>0, <2>3, <3>1, Quiet DEF cleanup_replicas, table
  <2>4. CASE send_kill_signal
    <3>1. \A j \in Nums : Registered(j) => proc[j] # "none"
      BY DEF Registered, SchedulerInv, NumbersFresh
    <3>2. \A j \in Nums : proc'[j] = proc[j] \/ (proc[j] # "none" /\ proc'[j] = "gone")
      BY <2>4, <3>1 DEF send_kill_signal
    <3> QED
      BY <1>0, <2>4, <3>2, Ending DEF send_kill_signal
  <2> QED
    BY <1>6, <2>1, <2>2, <2>3, <2>4 DEF Loops
<1>7. CASE UNCHANGED vars
  BY <1>0, <1>7, Quiet DEF vars
<1> QED
  BY <1>1, <1>2, <1>3, <1>4, <1>5, <1>6, <1>7 DEF Next

\* SchedulerInv holds in every reachable state, whatever the number of calls
\* and of replica numbers.
THEOREM SchedulerInvariant == Spec => []SchedulerInv
  BY InitInv, NextInv, PTL DEF Spec

\* Numbers stay within Nums, every call and every process in one of its states,
\* and registry and futures hold entries for numbers handed out.
THEOREM SchedulerTypes == Spec => []TypeOK
<1>1. SchedulerInv => TypeOK
  BY DEF SchedulerInv
<1> QED
  BY <1>1, SchedulerInvariant, PTL

\* created = True is said only of the caller's own, registered process.
THEOREM OwnAnswers == Spec => []AnswersAreOwn
<1>1. SchedulerInv => AnswersAreOwn
  BY DEF SchedulerInv
<1> QED
  BY <1>1, SchedulerInvariant, PTL

\* No registration of a replica passes by the call that waits for it.
THEOREM NoneMissed == Spec => []NoMissedRegistration
<1>1. SchedulerInv => NoMissedRegistration
  BY DEF SchedulerInv
<1> QED
  BY <1>1, SchedulerInvariant, PTL

\* FutureManager holds no future that nobody will pop.
THEOREM NoFutureLeaks == Spec => []FuturesAreOwned
<1>1. SchedulerInv => FuturesAreOwned
  BY DEF SchedulerInv
<1> QED
  BY <1>1, SchedulerInvariant, PTL
=============================================================================
