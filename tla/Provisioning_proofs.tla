------------------------- MODULE Provisioning_proofs -------------------------
(***************************************************************************)
(* Proofs about provisioning, for any number of VMs and attempts: what is  *)
(* true of the head alone is true of the head in the cluster, no instance  *)
(* is left silently, and no registration is answered with two listed       *)
(* replicas.                                                               *)
(***************************************************************************)
EXTENDS Provisioning, HeadOrders_proofs, FiniteSetTheorems

-----------------------------------------------------------------------------
(* The head in the cluster.                                                *)

\* Every step of the cluster is a step of HeadController, or leaves it alone.
LEMMA ClusterStepIsHeadStep == [ClusterNext]_cvars => [Next]_vars
<1> SUFFICES ASSUME [ClusterNext]_cvars PROVE [Next]_vars
  OBVIOUS
<1>1. CASE ManagerStep /\ UNCHANGED <<vars, machines>>
  BY <1>1
<1>2. ASSUME NEW n \in Nodes, MachineStep(n) PROVE [Next]_vars
  <2>1. CASE \E s \in {"running", "terminated"} : InstanceStarts(n, s)
    BY <2>1 DEF InstanceStarts
  <2>2. CASE \E b \in {"registering", "down"} : UserData(n, b)
    BY <2>2 DEF UserData
  <2>3. CASE _register_node(n)
    BY <2>3 DEF _register_node, Next, WorkerStep
  <2>4. CASE \E b \in {"registering", "serving", "down"} : try_send_with_retries_sync(n, b)
    BY <2>4 DEF try_send_with_retries_sync, Next, WorkerStep
  <2> QED BY <1>2, <2>1, <2>2, <2>3, <2>4 DEF MachineStep
<1>3. CASE HeadPart
  BY <1>3 DEF HeadPart, Answers, Next, HeadStep, WorkerStep
<1>4. CASE UNCHANGED cvars
  BY <1>4 DEF cvars
<1> QED BY <1>1, <1>2, <1>3, <1>4 DEF ClusterNext

\* The cluster implements the head: its invariants, and the feed it offers the
\* proxy, hold whatever EC2 and the schedulers do.
THEOREM ClusterRefinesHead == ClusterSpec => Spec
<1>1. ClusterInit => Init
  BY DEF ClusterInit
<1>2. [ClusterNext]_cvars => [Next]_vars
  BY ClusterStepIsHeadStep
<1> QED BY <1>1, <1>2, PTL DEF ClusterSpec, Spec

-----------------------------------------------------------------------------
(* Type correctness.                                                       *)

\* A step of the VM manager keeps its types.
LEMMA ManagerTypes ==
  ASSUME ClusterTypeOK, ManagerStep
  PROVE  /\ vm' \in 1..(NumVms + 1) /\ phase' \in Phases
         /\ instance' \in [Nodes -> {"none", "pending", "running", "terminated"}]
         /\ vm_cache' \subseteq Nodes /\ log' \in [Nodes -> SUBSET Errors]
<1> USE VmsAssumption DEF ClusterTypeOK, Phases, Errors, At, NextVm, Becomes, Logs
<1>1. CASE \E found \in BOOLEAN : FindResources(found)
  BY <1>1 DEF FindResources
<1>2. CASE run_instances
  BY <1>2 DEF run_instances
<1>3. CASE run_instances_refused
  BY <1>3 DEF run_instances_refused
<1>4. CASE instance_running
  BY <1>4 DEF instance_running
<1>5. CASE describe_instances
  BY <1>5 DEF describe_instances
<1>6. CASE create_vm_fails
  BY <1>6 DEF create_vm_fails
<1>7. CASE delete_vm
  BY <1>7 DEF delete_vm
<1>8. CASE delete_vm_refused
  BY <1>8 DEF delete_vm_refused
<1>9. CASE \E content \in BOOLEAN : delete_vm_done(content)
  <2>1. vm' \in 1..(NumVms + 1) /\ phase' \in Phases /\ instance' = instance
    BY <1>9 DEF delete_vm_done
  <2>2. CASE delete_vm_done(TRUE)
    BY <2>1, <2>2 DEF delete_vm_done
  <2>3. CASE delete_vm_done(FALSE)
    <3>1. vm_cache' = vm_cache /\ (Logs("delete") \/ Logs("raised"))
      BY <2>3 DEF delete_vm_done
    <3>2. log' \in [Nodes -> SUBSET Errors]
      BY <3>1
    <3> QED BY <2>1, <3>1, <3>2
  <2> QED BY <1>9, <2>2, <2>3
<1>10. CASE _create_vm_in_thread_catches
  <2>1. vm' \in 1..(NumVms + 1) /\ phase' \in Phases /\ vm_cache' \subseteq Nodes
    BY <1>10 DEF _create_vm_in_thread_catches
  <2>2. instance' \in [Nodes -> {"none", "pending", "running", "terminated"}]
    BY <1>10 DEF _create_vm_in_thread_catches
  <2>3. log' \in [Nodes -> SUBSET Errors]
    BY <1>10 DEF _create_vm_in_thread_catches
  <2> QED BY <2>1, <2>2, <2>3
<1> QED BY <1>1, <1>2, <1>3, <1>4, <1>5, <1>6, <1>7, <1>8, <1>9, <1>10 DEF ManagerStep

\* A scheduler that fails to register still counts its attempts.
MachineInv == \A n \in Nodes : boot[n] \in {"off", "registering"} => tries[n] < RegisterAttempts

\* A step of a machine keeps its types and the count below its limit.
LEMMA MachineTypes ==
  ASSUME ClusterTypeOK, MachineInv, NEW n \in Nodes, MachineStep(n)
  PROVE  /\ UNCHANGED manager
         /\ instance' \in [Nodes -> {"none", "pending", "running", "terminated"}]
         /\ boot' \in [Nodes -> {"off", "registering", "serving", "down"}]
         /\ tries' \in [Nodes -> 0..RegisterAttempts]
         /\ MachineInv'
<1> USE RegisterAssumption DEF ClusterTypeOK, MachineInv, Registering
<1>1. CASE \E s \in {"running", "terminated"} : InstanceStarts(n, s)
  BY <1>1 DEF InstanceStarts, machines
<1>2. CASE \E b \in {"registering", "down"} : UserData(n, b)
  BY <1>2 DEF UserData
<1>3. CASE _register_node(n)
  BY <1>3 DEF _register_node
<1>4. CASE \E b \in {"registering", "serving", "down"} : try_send_with_retries_sync(n, b)
  BY <1>4 DEF try_send_with_retries_sync
<1> QED BY <1>1, <1>2, <1>3, <1>4 DEF MachineStep

\* The types hold at the start, with no attempt made.
LEMMA ClusterTypeInit == ClusterInit => ClusterTypeOK /\ MachineInv
  BY TypeInit, VmsAssumption, RegisterAssumption
     DEF ClusterInit, ClusterTypeOK, MachineInv, Phases

\* And every step of the cluster keeps them.
LEMMA ClusterTypeNext ==
  ClusterTypeOK /\ MachineInv /\ [ClusterNext]_cvars => ClusterTypeOK' /\ MachineInv'
<1> SUFFICES ASSUME ClusterTypeOK, MachineInv, [ClusterNext]_cvars
             PROVE  ClusterTypeOK' /\ MachineInv'
  OBVIOUS
<1>0. TypeOK'
  BY ClusterStepIsHeadStep, TypeNext DEF ClusterTypeOK
<1>1. CASE ManagerStep /\ UNCHANGED <<vars, machines>>
  BY <1>0, <1>1, ManagerTypes DEF ClusterTypeOK, MachineInv, machines
<1>2. ASSUME NEW n \in Nodes, MachineStep(n) PROVE ClusterTypeOK' /\ MachineInv'
  BY <1>0, <1>2, MachineTypes DEF ClusterTypeOK, manager
<1>3. CASE UNCHANGED <<manager, instance, machines>>
  BY <1>0, <1>3 DEF ClusterTypeOK, MachineInv, manager, machines
<1>4. CASE UNCHANGED cvars
  BY <1>3, <1>4 DEF cvars
<1> QED BY <1>1, <1>2, <1>3, <1>4 DEF ClusterNext

\* The cluster is type correct; in particular the loop never runs past its
\* list, and no scheduler tries to register more often than it should.
THEOREM ClusterTypes == ClusterSpec => [](ClusterTypeOK /\ MachineInv)
  BY ClusterTypeInit, ClusterTypeNext, PTL DEF ClusterSpec

-----------------------------------------------------------------------------
(* No instance is left silently.                                           *)

\* The account of the VMs that are behind, and what the phase says of the VM the
\* loop is at.
Accounts == PhaseInv /\ LeaksAreReported

\* What is known of a VM the loop is about to leave.
Settled(c, l, i) ==
  /\ c <=> l = {}
  /\ i \in {"pending", "running"} /\ ~c => l \intersect {"delete", "raised"} # {}

\* Leaving a VM that is settled keeps the account.
LEMMA LeavingAccounts ==
  ASSUME ClusterTypeOK, Accounts, NextVm, vm <= NumVms,
         NEW l \in SUBSET Errors,
         NEW i \in {"none", "pending", "running", "terminated"},
         log' = [log EXCEPT ![vm] = l],
         instance' = [instance EXCEPT ![vm] = i],
         vm_cache' \in {vm_cache, vm_cache \union {vm}},
         Settled(vm \in vm_cache', l, i)
  PROVE  Accounts'
<1>1. /\ vm \in Nat /\ vm \in Nodes /\ vm' = vm + 1 /\ phase' = "lookup"
      /\ log \in [Nodes -> SUBSET Errors]
      /\ instance \in [Nodes -> {"none", "pending", "running", "terminated"}]
  BY VmsAssumption DEF ClusterTypeOK, NextVm
<1>2. \A n \in Nodes : n # vm => log'[n] = log[n] /\ instance'[n] = instance[n]
  BY <1>1
<1>3. log'[vm] = l /\ instance'[vm] = i
  BY <1>1
<1>4. LeaksAreReported'
  <2> SUFFICES ASSUME NEW n \in 1..(vm' - 1)
               PROVE  Settled(n \in vm_cache', log'[n], instance'[n])
    BY DEF LeaksAreReported, Settled
  <2>1. CASE n = vm
    BY <1>3, <2>1
  <2>2. CASE n # vm
    <3>1. n \in 1..(vm - 1) /\ n \in Nodes
      BY <1>1, <2>2, VmsAssumption DEF ClusterTypeOK
    <3>2. n \in vm_cache' <=> n \in vm_cache
      BY <2>2
    <3>3. Settled(n \in vm_cache, log[n], instance[n])
      BY <3>1 DEF Accounts, LeaksAreReported, Settled
    <3> QED BY <1>2, <2>2, <3>1, <3>2, <3>3
  <2> QED BY <2>1, <2>2
<1>5. PhaseInv'
  <2>1. vm' <= NumVms => vm' \in Nodes /\ instance'[vm'] = "none" /\ log'[vm'] = {}
    BY <1>1, <1>2, VmsAssumption DEF Accounts, PhaseInv
  <2>2. vm_cache' \subseteq 1..(vm' - 1)
    <3>1. vm_cache \subseteq 1..(vm - 1) /\ 1..(vm - 1) \subseteq 1..vm /\ vm \in 1..vm
      BY <1>1, VmsAssumption DEF Accounts, PhaseInv
    <3>2. vm_cache' \subseteq 1..vm
      BY <3>1
    <3> QED BY <1>1, <3>2
  <2>3. \A n \in Nodes : n > vm' => instance'[n] = "none" /\ log'[n] = {}
    BY <1>1, <1>2, VmsAssumption DEF Accounts, PhaseInv
  <2> QED BY <1>1, <2>1, <2>2, <2>3 DEF PhaseInv
<1> QED BY <1>4, <1>5 DEF Accounts

\* A step of the VM manager keeps the account.
LEMMA ManagerAccounts ==
  ASSUME ClusterTypeOK, Accounts, ManagerStep
  PROVE  Accounts'
<1>0. /\ vm \in Nat /\ phase \in Phases /\ vm_cache \subseteq 1..(vm - 1)
      /\ log \in [Nodes -> SUBSET Errors]
      /\ instance \in [Nodes -> {"none", "pending", "running", "terminated"}]
      /\ vm <= NumVms => vm \in Nodes /\ vm \notin vm_cache
  BY VmsAssumption DEF ClusterTypeOK, Accounts, PhaseInv
<1>h. vm <= NumVms => /\ log[vm] \in SUBSET Errors
                      /\ instance[vm] \in {"none", "pending", "running", "terminated"}
                      /\ log = [log EXCEPT ![vm] = log[vm]]
                      /\ instance = [instance EXCEPT ![vm] = instance[vm]]
  BY <1>0
<1> USE DEF At, Becomes, Logs, Settled, Errors
\* The steps within one VM.
<1>a. ASSUME vm <= NumVms, UNCHANGED <<vm, vm_cache>>,
             NEW l \in SUBSET Errors,
             NEW i \in {"none", "pending", "running", "terminated"},
             log' = [log EXCEPT ![vm] = l],
             instance' = [instance EXCEPT ![vm] = i],
             phase' \in {"lookup", "request"} => i = "none",
             phase' = "await_end" => i = "terminated",
             phase' \in {"terminate", "await_end"} <=> l # {}
      PROVE  Accounts'
  <2>1. \A n \in Nodes : n # vm => log'[n] = log[n] /\ instance'[n] = instance[n]
    BY <1>0, <1>a
  <2>2. log'[vm] = l /\ instance'[vm] = i
    BY <1>0, <1>a
  <2>3. LeaksAreReported'
    BY <1>0, <1>a, <2>1, VmsAssumption DEF Accounts, LeaksAreReported
  <2>4. \A n \in Nodes : n > vm => instance'[n] = "none" /\ log'[n] = {}
    BY <1>0, <2>1, VmsAssumption DEF Accounts, PhaseInv
  <2>5. PhaseInv'
    <3>1. vm' = vm /\ vm_cache' = vm_cache /\ ~(vm > NumVms)
      BY <1>0, <1>a, VmsAssumption
    <3>2. /\ phase' \in {"lookup", "request"} => instance'[vm] = "none"
          /\ phase' = "await_end" => instance'[vm] = "terminated"
          /\ phase' \in {"terminate", "await_end"} <=> log'[vm] # {}
      BY <1>a, <2>2
    <3> QED BY <1>0, <2>4, <3>1, <3>2 DEF PhaseInv
  <2> QED BY <2>3, <2>5 DEF Accounts
<1>1. CASE \E found \in BOOLEAN : FindResources(found)
  <2>1. CASE FindResources(TRUE)
    BY <1>0, <1>h, <1>a, <2>1 DEF FindResources, Accounts, PhaseInv
  <2>2. CASE FindResources(FALSE)
    BY <1>0, <1>h, <2>2, LeavingAccounts DEF FindResources, Accounts, PhaseInv
  <2> QED BY <1>1, <2>1, <2>2
<1>2. CASE run_instances
  BY <1>0, <1>h, <1>a, <1>2 DEF run_instances, Accounts, PhaseInv
<1>3. CASE run_instances_refused
  BY <1>0, <1>h, <1>3, LeavingAccounts DEF run_instances_refused, Accounts, PhaseInv
<1>4. CASE instance_running
  BY <1>0, <1>h, <1>a, <1>4 DEF instance_running, Accounts, PhaseInv
<1>5. CASE describe_instances
  BY <1>0, <1>h, <1>5, LeavingAccounts DEF describe_instances, Accounts, PhaseInv
<1>6. CASE create_vm_fails
  BY <1>0, <1>h, <1>a, <1>6 DEF create_vm_fails, Accounts, PhaseInv
<1>7. CASE delete_vm
  BY <1>0, <1>h, <1>a, <1>7 DEF delete_vm, Accounts, PhaseInv
<1>8. CASE delete_vm_refused
  BY <1>0, <1>h, <1>8, LeavingAccounts DEF delete_vm_refused, Accounts, PhaseInv
<1>9. CASE \E content \in BOOLEAN : delete_vm_done(content)
  <2>1. /\ vm <= NumVms /\ NextVm /\ phase = "await_end" /\ vm_cache' = vm_cache
        /\ instance' = instance /\ instance[vm] = "terminated" /\ log[vm] # {}
    BY <1>0, <1>9 DEF delete_vm_done, Accounts, PhaseInv
  <2>2. PICK l \in SUBSET Errors : l # {} /\ log' = [log EXCEPT ![vm] = l]
    BY <1>0, <1>h, <1>9, <2>1 DEF delete_vm_done
  <2> QED BY <1>0, <1>h, <2>1, <2>2, LeavingAccounts
<1>10. CASE _create_vm_in_thread_catches
  BY <1>0, <1>h, <1>10, LeavingAccounts DEF _create_vm_in_thread_catches, Accounts, PhaseInv
<1> QED BY <1>1, <1>2, <1>3, <1>4, <1>5, <1>6, <1>7, <1>8, <1>9, <1>10 DEF ManagerStep

\* EC2 only moves instances that are pending, which the account allows.
LEMMA InstanceAccounts ==
  ASSUME ClusterTypeOK, Accounts, NEW n \in Nodes,
         NEW s \in {"running", "terminated"}, InstanceStarts(n, s)
  PROVE  Accounts'
  BY VmsAssumption
     DEF ClusterTypeOK, Accounts, PhaseInv, LeaksAreReported, InstanceStarts, manager

\* Every step of the cluster keeps the account.
LEMMA AccountsNext ==
  ClusterTypeOK /\ Accounts /\ [ClusterNext]_cvars => Accounts'
<1> SUFFICES ASSUME ClusterTypeOK, Accounts, [ClusterNext]_cvars
             PROVE  Accounts'
  OBVIOUS
<1>1. CASE ManagerStep
  BY <1>1, ManagerAccounts
<1>2. CASE UNCHANGED <<manager, instance>>
  BY <1>2 DEF Accounts, PhaseInv, LeaksAreReported, manager
<1>3. ASSUME NEW n \in Nodes, MachineStep(n) PROVE Accounts'
  <2>1. CASE \E s \in {"running", "terminated"} : InstanceStarts(n, s)
    BY <2>1, InstanceAccounts
  <2>2. CASE UNCHANGED <<manager, instance>>
    BY <1>2, <2>2
  <2> QED BY <1>3, <2>1, <2>2
          DEF MachineStep, UserData, _register_node, try_send_with_retries_sync
<1>4. CASE UNCHANGED cvars
  BY <1>2, <1>4 DEF cvars
<1> QED BY <1>1, <1>2, <1>3, <1>4 DEF ClusterNext

\* For any number of VMs and any failures of EC2: a VM the loop has left is in
\* _vm_cache or has an error in the log, and an instance left alive outside the
\* cache has an error of delete_vm, or an exception the loop printed.
THEOREM InstancesAccounted == ClusterSpec => []LeaksAreReported
<1>1. ClusterInit => Accounts
  BY VmsAssumption DEF ClusterInit, Accounts, PhaseInv, LeaksAreReported
<1>2. Accounts => LeaksAreReported
  BY DEF Accounts
<1> QED BY <1>1, <1>2, AccountsNext, ClusterTypes, PTL DEF ClusterSpec

-----------------------------------------------------------------------------
(* Counting the places of a sequence.                                      *)

\* The places at which x stands in a queue, and how many there are.
Places(s, x) == {i \in DOMAIN s : s[i] = x}
Count(s, x) == Cardinality(Places(s, x))

\* They are finitely many.
LEMMA PlacesFinite ==
  ASSUME NEW S, NEW s \in Seq(S), NEW x
  PROVE  IsFiniteSet(Places(s, x)) /\ Count(s, x) \in Nat
<1>1. Places(s, x) \in SUBSET (1..Len(s)) /\ Len(s) \in Nat
  BY DEF Places
<1>2. IsFiniteSet(1..Len(s))
  BY <1>1, FS_Interval
<1>3. IsFiniteSet(Places(s, x))
  BY <1>1, <1>2, FS_Subset
<1> QED BY <1>3, FS_CardinalityType DEF Count

\* The empty queue has none, the queue of one element one or none.
LEMMA CountSmall ==
  ASSUME NEW x, NEW y
  PROVE  Count(<<>>, x) = 0 /\ Count(<<y>>, x) = IF x = y THEN 1 ELSE 0
<1>1. Places(<<>>, x) = {}
  BY DEF Places
<1>2. Places(<<y>>, x) = IF x = y THEN {1} ELSE {}
  BY DEF Places
<1> QED BY <1>1, <1>2, FS_EmptySet, FS_Singleton DEF Count

\* A new element adds one place of its own.
LEMMA CountAppend ==
  ASSUME NEW S, NEW s \in Seq(S), NEW y \in S, NEW x
  PROVE  Count(Append(s, y), x) = Count(s, x) + IF x = y THEN 1 ELSE 0
<1>1. Places(Append(s, y), x) = Places(s, x) \union IF x = y THEN {Len(s) + 1} ELSE {}
  BY DEF Places
<1>2. Len(s) + 1 \notin Places(s, x)
  BY DEF Places
<1>3. IsFiniteSet(Places(s, x)) /\ Count(s, x) \in Nat
  BY PlacesFinite
<1>4. CASE x = y
  BY <1>1, <1>2, <1>3, <1>4, FS_AddElement DEF Count
<1>5. CASE x # y
  BY <1>1, <1>3, <1>5 DEF Count
<1> QED BY <1>4, <1>5

\* Taking the head takes its place away; the others move by one.
LEMMA CountTail ==
  ASSUME NEW S, NEW s \in Seq(S), s # <<>>, NEW x
  PROVE  Count(Tail(s), x) + (IF x = Head(s) THEN 1 ELSE 0) <= Count(s, x)
<1> DEFINE P == Places(s, x) \ {1}
           T == Places(Tail(s), x)
           f == [i \in T |-> i + 1]
<1>1. /\ Len(s) \in Nat \ {0} /\ DOMAIN s = 1..Len(s) /\ Head(s) = s[1]
      /\ Tail(s) \in Seq(S) /\ DOMAIN Tail(s) = 1..(Len(s) - 1)
      /\ \A i \in DOMAIN Tail(s) : Tail(s)[i] = s[i + 1]
  BY EmptySeq
<1>2. \A i \in T : i \in Nat /\ i + 1 \in P
  BY <1>1 DEF Places
<1>3. f \in Injection(T, P)
  <2>1. f \in [T -> P]
    BY <1>2
  <2>2. \A i, j \in T : f[i] = f[j] => i = j
    BY <1>2
  <2> QED BY <2>1, <2>2 DEF Injection, IsInjective
<1>4. IsFiniteSet(Places(s, x)) /\ Count(s, x) \in Nat
  BY PlacesFinite
<1>5. IsFiniteSet(P) /\ Cardinality(P) = Count(s, x) - IF x = Head(s) THEN 1 ELSE 0
  <2>1. 1 \in Places(s, x) <=> x = Head(s)
    BY <1>1 DEF Places
  <2> QED BY <1>4, <2>1, FS_RemoveElement DEF Count
<1>6. Count(Tail(s), x) <= Cardinality(P)
  BY <1>3, <1>5, FS_Injection DEF Count
<1>7. Count(Tail(s), x) \in Nat
  BY <1>1, PlacesFinite
<1> QED BY <1>4, <1>5, <1>6, <1>7

-----------------------------------------------------------------------------
(* One listed replica for a registration.                                  *)

\* The tasks for worker n that can still list a replica.
Open(n) == {t \in DOMAIN tasks : tasks[t].node = n /\ tasks[t].st # "done"}

\* What is listed for n, and what may still be: each has an attempt to register
\* of its own behind it.
Owed(n) == Count(replica_queue, n) + Count(in_hand, n) + Cardinality(Open(n))
OnePerTry == \A n \in Nodes : Cardinality(Listed(n)) + Owed(n) <= tries[n]

\* A number that is listed, or promised in a reply, is in the worker's registry.
Backed ==
  /\ \A n \in Nodes : Listed(n) \subseteq registry[n]
  /\ \A t \in DOMAIN tasks : Created(t) => tasks[t].num \in registry[tasks[t].node]

ListedInv == OnePerTry /\ Backed /\ restarts = 0

\* What is counted is finite.
LEMMA CountedFinite ==
  ASSUME TypeOK, NEW n \in Nodes
  PROVE  /\ IsFiniteSet(Listed(n)) /\ Cardinality(Listed(n)) \in Nat
         /\ IsFiniteSet(Open(n)) /\ Cardinality(Open(n)) \in Nat
         /\ Count(replica_queue, n) \in Nat /\ Count(in_hand, n) \in Nat
<1>1. /\ tasks \in Seq(Task) /\ replica_queue \in Seq(Nodes) /\ in_hand \in Seq(Nodes)
      /\ MaxNum \in Nat
  BY BoundsAssumption DEF TypeOK
<1>2. Listed(n) \in SUBSET (1..MaxNum)
  BY DEF Listed
<1>3. Open(n) \in SUBSET (1..Len(tasks)) /\ Len(tasks) \in Nat
  BY <1>1 DEF Open
<1>4. IsFiniteSet(Listed(n)) /\ IsFiniteSet(Open(n))
  <2>1. IsFiniteSet(1..MaxNum) /\ IsFiniteSet(1..Len(tasks))
    BY <1>1, <1>3, FS_Interval
  <2> QED BY <1>2, <1>3, <2>1, FS_Subset
<1> QED BY <1>1, <1>4, FS_CardinalityType, PlacesFinite

\* A registration is one more attempt and one more order.
LEMMA RegistrationCounted ==
  ASSUME ClusterTypeOK, ListedInv, NEW n \in Nodes, RegisterNode(n),
         tries' = [tries EXCEPT ![n] = @ + 1]
  PROVE  ListedInv'
<1>1. /\ replica_queue' = Append(replica_queue, n)
      /\ UNCHANGED <<replicas, in_hand, tasks, registry, restarts>>
  BY DEF RegisterNode, store, worker
<1>2. \A m \in Nodes : Listed(m)' = Listed(m) /\ Open(m)' = Open(m)
  BY <1>1 DEF Listed, Open
<1>3. ASSUME NEW m \in Nodes PROVE (Cardinality(Listed(m)) + Owed(m) <= tries[m])'
  <2>1. Count(replica_queue', m) = Count(replica_queue, m) + IF m = n THEN 1 ELSE 0
    BY <1>1, CountAppend DEF ClusterTypeOK, TypeOK
  <2>2. tries'[m] = tries[m] + (IF m = n THEN 1 ELSE 0) /\ tries[m] \in Nat
    BY RegisterAssumption DEF ClusterTypeOK
  <2>3. Cardinality(Listed(m)) + Owed(m) <= tries[m]
    BY DEF ListedInv, OnePerTry
  <2>4. Owed(m)' = Owed(m) + (IF m = n THEN 1 ELSE 0) /\ Owed(m) \in Nat
    <3> DEFINE one == IF m = n THEN 1 ELSE 0
    <3>1. /\ Count(replica_queue, m) \in Nat /\ Count(in_hand, m) \in Nat
          /\ Cardinality(Open(m)) \in Nat /\ one \in Nat
      BY CountedFinite DEF ClusterTypeOK
    <3>2. Owed(m)' = (Count(replica_queue, m) + one) + Count(in_hand, m) + Cardinality(Open(m))
      BY <1>1, <1>2, <2>1 DEF Owed
    <3> HIDE DEF one
    <3>3. Owed(m)' = Owed(m) + one /\ Owed(m) \in Nat
      BY <3>1, <3>2 DEF Owed
    <3> QED BY <3>3 DEF one
  <2>5. Cardinality(Listed(m)) \in Nat
    BY CountedFinite DEF ClusterTypeOK
  <2> QED BY <1>2, <2>2, <2>3, <2>4, <2>5
<1>4. OnePerTry'
  BY <1>3 DEF OnePerTry
<1> QED BY <1>1, <1>2, <1>4 DEF ListedInv, Backed, Created

\* The creation loop moves an order on.
LEMMA TakingCounted ==
  ASSUME ClusterTypeOK, ListedInv, TakeFromQueue, UNCHANGED tries
  PROVE  ListedInv'
<1>0. replica_queue \in Seq(Nodes)
  BY DEF ClusterTypeOK, TypeOK
<1>1. /\ in_hand = <<>> /\ replica_queue # <<>>
      /\ in_hand' = <<Head(replica_queue)>> /\ replica_queue' = Tail(replica_queue)
      /\ UNCHANGED <<replicas, tasks, registry, restarts>>
  BY DEF TakeFromQueue, store, worker, counts
<1>2. \A m \in Nodes : Listed(m)' = Listed(m) /\ Open(m)' = Open(m)
  BY <1>1 DEF Listed, Open
<1>3. ASSUME NEW m \in Nodes PROVE Owed(m)' <= Owed(m) /\ Owed(m)' \in Nat /\ Owed(m) \in Nat
  <2>1. /\ Count(replica_queue', m) + (IF m = Head(replica_queue) THEN 1 ELSE 0)
             <= Count(replica_queue, m)
        /\ Count(replica_queue', m) \in Nat
    <3>1. replica_queue' \in Seq(Nodes)
      BY <1>0, <1>1, SeqHead
    <3> QED BY <1>0, <1>1, <3>1, CountTail, PlacesFinite
  <2>2. Count(in_hand, m) = 0 /\ Count(in_hand', m) = IF m = Head(replica_queue) THEN 1 ELSE 0
    BY <1>1, CountSmall
  <2> QED BY <1>2, <2>1, <2>2, CountedFinite DEF Owed, ClusterTypeOK
<1>4. OnePerTry'
  <2> SUFFICES ASSUME NEW m \in Nodes
               PROVE  (Cardinality(Listed(m)) + Owed(m) <= tries[m])'
    BY DEF OnePerTry
  <2>1. Cardinality(Listed(m)) + Owed(m) <= tries[m] /\ tries[m] \in Nat
    BY RegisterAssumption DEF ListedInv, OnePerTry, ClusterTypeOK
  <2> QED BY <1>2, <1>3, <2>1, CountedFinite DEF ClusterTypeOK
<1> QED BY <1>1, <1>2, <1>4 DEF ListedInv, Backed, Created

\* It spawns the task of the order it holds.
LEMMA SpawningCounted ==
  ASSUME ClusterTypeOK, ListedInv, SpawnCreateReplica, UNCHANGED tries
  PROVE  ListedInv'
<1>0. in_hand \in Seq(Nodes) /\ tasks \in Seq(Task)
  BY DEF ClusterTypeOK, TypeOK
<1> DEFINE n == Head(in_hand)
           new == NewCall(n, 1)
<1>1. /\ in_hand # <<>> /\ in_hand' = <<>> /\ tasks' = Append(tasks, new)
      /\ UNCHANGED <<replicas, replica_queue, registry, restarts>>
  BY DEF SpawnCreateReplica, store, worker, counts
<1>2. \A m \in Nodes : Listed(m)' = Listed(m)
  BY <1>1 DEF Listed
<1>3. new.node = n /\ new.st = "calling"
  BY DEF NewCall
<1>4. ASSUME NEW m \in Nodes
      PROVE  Cardinality(Open(m)') = Cardinality(Open(m)) + IF m = n THEN 1 ELSE 0
  <2>0. /\ Len(tasks) \in Nat /\ DOMAIN tasks = 1..Len(tasks)
        /\ DOMAIN tasks' = 1..(Len(tasks) + 1) /\ tasks'[Len(tasks) + 1] = new
        /\ \A t \in 1..Len(tasks) : tasks'[t] = tasks[t]
    BY <1>0, <1>1
  <2>1. Open(m)' = Open(m) \union IF m = n THEN {Len(tasks) + 1} ELSE {}
    <3> HIDE DEF n, new
    <3> QED BY <1>3, <2>0 DEF Open
  <2>2. Len(tasks) + 1 \notin Open(m)
    BY <2>0 DEF Open
  <2>a. IsFiniteSet(Open(m)) /\ Cardinality(Open(m)) \in Nat
    BY CountedFinite DEF ClusterTypeOK
  <2>3. CASE m = n
    <3>1. PICK S : S = Open(m)
      OBVIOUS
    <3>2. PICK x : x = Len(tasks) + 1
      OBVIOUS
    <3>3. IsFiniteSet(S) /\ x \notin S
      BY <2>2, <2>a, <3>1, <3>2
    <3>4. Cardinality(S \union {x}) = Cardinality(S) + 1
      BY <3>3, FS_AddElement
    <3>5. Open(m)' = S \union {x}
      BY <2>1, <2>3, <3>1, <3>2
    <3> QED BY <2>3, <3>1, <3>4, <3>5
  <2>4. CASE m # n
    <3>1. Open(m)' = Open(m)
      BY <2>1, <2>4
    <3> QED BY <2>4, <2>a, <3>1
  <2> QED BY <2>3, <2>4
<1>5. ASSUME NEW m \in Nodes
      PROVE  Count(in_hand', m) = 0 /\ (IF m = n THEN 1 ELSE 0) <= Count(in_hand, m)
  <2>1. Count(in_hand', m) = 0
    BY <1>1, CountSmall
  <2>2. IsFiniteSet(Places(in_hand, m)) /\ Count(in_hand, m) \in Nat
    BY <1>0, PlacesFinite
  <2>3. m = n => 1 \in Places(in_hand, m)
    BY <1>0, <1>1, EmptySeq DEF Places
  <2>4. m = n => Count(in_hand, m) # 0
    BY <2>2, <2>3, FS_EmptySet DEF Count
  <2> QED BY <2>1, <2>2, <2>4
<1>6. OnePerTry'
  <2> SUFFICES ASSUME NEW m \in Nodes
               PROVE  (Cardinality(Listed(m)) + Owed(m) <= tries[m])'
    BY DEF OnePerTry
  <2>1. Cardinality(Listed(m)) + Owed(m) <= tries[m] /\ tries[m] \in Nat
    BY RegisterAssumption DEF ListedInv, OnePerTry, ClusterTypeOK
  <2>2. Owed(m)' <= Owed(m) /\ Owed(m)' \in Nat /\ Owed(m) \in Nat
    <3> DEFINE one == IF m = n THEN 1 ELSE 0
    <3>1. /\ Count(replica_queue, m) \in Nat /\ Count(in_hand, m) \in Nat
          /\ Cardinality(Open(m)) \in Nat
      BY CountedFinite DEF ClusterTypeOK
    <3>2. Owed(m)' = Count(replica_queue, m) + 0 + (Cardinality(Open(m)) + one)
      BY <1>1, <1>4, <1>5 DEF Owed
    <3>3. one \in Nat /\ one <= Count(in_hand, m)
      BY <1>5
    <3> HIDE DEF one
    <3> QED BY <3>1, <3>2, <3>3 DEF Owed
  <2> QED BY <1>2, <2>1, <2>2, CountedFinite DEF ClusterTypeOK
<1>7. Backed'
  <2>1. \A t \in DOMAIN tasks' : Created(t)' => t \in DOMAIN tasks /\ tasks'[t] = tasks[t]
    BY <1>0, <1>1, <1>3 DEF Created
  <2> QED BY <1>1, <1>2, <2>1 DEF ListedInv, Backed, Created
<1> QED BY <1>1, <1>6, <1>7 DEF ListedInv

\* A task that goes on without its reply being stored lists nothing and opens
\* nothing; a reply that it waits for is of a number in the registry.
LEMMA TaskCounted ==
  ASSUME ClusterTypeOK, ListedInv, NEW t \in DOMAIN tasks, NEW x,
         x.node = tasks[t].node, tasks[t].st # "done",
         tasks' = [tasks EXCEPT ![t] = x],
         \A m \in Nodes : registry[m] \subseteq registry'[m],
         x.st = "created" => x.num \in registry'[x.node],
         UNCHANGED <<tries, replicas, replica_queue, in_hand, restarts>>
  PROVE  ListedInv'
<1>0. /\ tasks \in Seq(Task)
      /\ \A u \in DOMAIN tasks : tasks[u].node \in Nodes
  <2>1. \A u \in DOMAIN tasks : tasks[u] \in Task
    BY SeqElement DEF ClusterTypeOK, TypeOK
  <2> QED BY <2>1 DEF ClusterTypeOK, TypeOK, Task
<1>1. \A m \in Nodes : Listed(m)' = Listed(m)
  BY DEF Listed
<1>2. /\ DOMAIN tasks' = DOMAIN tasks /\ tasks'[t] = x
      /\ \A u \in DOMAIN tasks \ {t} : tasks'[u] = tasks[u]
  BY <1>0
<1>3. ASSUME NEW m \in Nodes
      PROVE  Cardinality(Open(m)') <= Cardinality(Open(m)) /\ Cardinality(Open(m)') \in Nat
  <2>1. Open(m)' \in SUBSET Open(m)
    BY <1>2 DEF Open
  <2>2. IsFiniteSet(Open(m))
    BY CountedFinite DEF ClusterTypeOK
  <2> QED BY <2>1, <2>2, FS_Subset, FS_CardinalityType
<1>4. OnePerTry'
  <2> SUFFICES ASSUME NEW m \in Nodes
               PROVE  (Cardinality(Listed(m)) + Owed(m) <= tries[m])'
    BY DEF OnePerTry
  <2>1. Cardinality(Listed(m)) + Owed(m) <= tries[m] /\ tries[m] \in Nat
    BY RegisterAssumption DEF ListedInv, OnePerTry, ClusterTypeOK
  <2>2. Owed(m)' <= Owed(m) /\ Owed(m)' \in Nat /\ Owed(m) \in Nat
    BY <1>3, CountedFinite DEF Owed, ClusterTypeOK
  <2> QED BY <1>1, <2>1, <2>2, CountedFinite DEF ClusterTypeOK
<1>5. Backed'
  <2>1. \A m \in Nodes : Listed(m)' \subseteq registry'[m]
    BY <1>1 DEF ListedInv, Backed
  <2>2. ASSUME NEW u \in DOMAIN tasks', Created(u)'
        PROVE  tasks'[u].num \in registry'[tasks'[u].node]
    <3>1. CASE u = t
      BY <1>2, <2>2, <3>1 DEF Created
    <3>2. CASE u # t
      BY <1>0, <1>2, <2>2, <3>2 DEF ListedInv, Backed, Created
    <3> QED BY <3>1, <3>2
  <2> QED BY <2>1, <2>2 DEF Backed
<1> QED BY <1>4, <1>5 DEF ListedInv

\* A reply that is stored lists one replica, and its task is over.
LEMMA StoringCounted ==
  ASSUME ClusterTypeOK, ListedInv, NEW t \in DOMAIN tasks, create_replica_done(t),
         NEW n, n = tasks[t].node, NEW k, k = tasks[t].num, UNCHANGED tries
  PROVE  ListedInv'
<1>0. /\ tasks \in Seq(Task) /\ replicas \in [Replicas -> Nat]
      /\ n \in Nodes /\ k \in 1..MaxNum
  <2>1. tasks[t] \in Task
    BY SeqElement DEF ClusterTypeOK, TypeOK
  <2> QED BY <2>1 DEF ClusterTypeOK, TypeOK, Table, Task, create_replica_done
<1>1. /\ tasks' = [tasks EXCEPT ![t] = Done(tasks[t])] /\ Created(t)
      /\ replicas' = [replicas EXCEPT ![<<n, k>>] = @ + 1]
      /\ UNCHANGED <<replica_queue, in_hand, registry, restarts>>
  BY DEF create_replica_done, add_replica_to_deployment, Created, worker, counts
<1>2. Done(tasks[t]).st = "done" /\ Done(tasks[t]).node = n
  BY DEF Done
<1>3. /\ DOMAIN tasks' = DOMAIN tasks /\ tasks'[t] = Done(tasks[t])
      /\ \A u \in DOMAIN tasks \ {t} : tasks'[u] = tasks[u]
  BY <1>0, <1>1
<1>4. /\ \A m \in Nodes \ {n} : Listed(m)' = Listed(m)
      /\ Listed(n)' = Listed(n) \union {k}
  <2>1. \A m \in Nodes, j \in 1..MaxNum : <<m, j>> \in Replicas
    BY DEF Replicas
  <2>2. \A m \in Nodes, j \in 1..MaxNum :
          replicas'[<<m, j>>] = IF m = n /\ j = k THEN replicas[<<m, j>>] + 1
                                                  ELSE replicas[<<m, j>>]
    BY <1>0, <1>1, <2>1
  <2>3. replicas'[<<n, k>>] > 0
    BY <1>0, <2>1, <2>2
  <2>4. \A m \in Nodes \ {n} : Listed(m)' = Listed(m)
    BY <2>2 DEF Listed
  <2>5. Listed(n)' = Listed(n) \union {k}
    BY <1>0, <2>2, <2>3 DEF Listed
  <2> QED BY <2>4, <2>5
<1>5. /\ \A m \in Nodes \ {n} : Open(m)' = Open(m)
      /\ Open(n)' = Open(n) \ {t} /\ t \in Open(n)
  BY <1>1, <1>2, <1>3 DEF Open, Created
<1>6. ASSUME NEW m \in Nodes PROVE (Cardinality(Listed(m)) + Owed(m) <= tries[m])'
  <2>1. Cardinality(Listed(m)) + Owed(m) <= tries[m] /\ tries[m] \in Nat
    BY RegisterAssumption DEF ListedInv, OnePerTry, ClusterTypeOK
  <2>2. CASE m # n
    BY <1>1, <1>4, <1>5, <2>1, <2>2 DEF Owed
  <2>3. CASE m = n
    <3>1. /\ Cardinality(Listed(n)') <= Cardinality(Listed(n)) + 1
          /\ Cardinality(Listed(n)') \in Nat
      <4>1. IsFiniteSet(Listed(n)) /\ Cardinality(Listed(n)) \in Nat
        BY <1>0, CountedFinite DEF ClusterTypeOK
      <4>2. Cardinality(Listed(n)') =
              IF k \in Listed(n) THEN Cardinality(Listed(n)) ELSE Cardinality(Listed(n)) + 1
        <5>1. PICK S : S = Listed(n)
          OBVIOUS
        <5>2. Cardinality(S \union {k}) = IF k \in S THEN Cardinality(S) ELSE Cardinality(S) + 1
          BY <4>1, <5>1, FS_AddElement
        <5> QED BY <1>4, <5>1, <5>2
      <4> QED BY <4>1, <4>2
    <3>2. Cardinality(Open(n)') = Cardinality(Open(n)) - 1
      <4>1. IsFiniteSet(Open(n))
        BY <1>0, CountedFinite DEF ClusterTypeOK
      <4> QED BY <1>5, <4>1, FS_RemoveElement
    <3>3. /\ Cardinality(Listed(n)) \in Nat /\ Cardinality(Open(n)) \in Nat
          /\ Count(replica_queue, n) \in Nat /\ Count(in_hand, n) \in Nat
      BY <1>0, CountedFinite DEF ClusterTypeOK
    <3>4. Count(replica_queue, n)' = Count(replica_queue, n) /\ Count(in_hand, n)' = Count(in_hand, n)
      BY <1>1
    <3>5. tries' = tries
      BY <1>1
    <3> QED BY <2>1, <2>3, <3>1, <3>2, <3>3, <3>4, <3>5 DEF Owed
  <2> QED BY <2>2, <2>3
<1>7. OnePerTry'
  BY <1>6 DEF OnePerTry
<1>8. Backed'
  <2>1. k \in registry[n]
    BY <1>1 DEF ListedInv, Backed
  <2>2. \A m \in Nodes : Listed(m)' \subseteq registry'[m]
    BY <1>1, <1>4, <2>1 DEF ListedInv, Backed
  <2>3. \A u \in DOMAIN tasks' : Created(u)' => u \in DOMAIN tasks /\ tasks'[u] = tasks[u]
    BY <1>2, <1>3 DEF Created
  <2> QED BY <1>1, <2>2, <2>3 DEF ListedInv, Backed, Created
<1> QED BY <1>1, <1>7, <1>8 DEF ListedInv

\* Every step of the cluster keeps the count.
LEMMA ListedNext ==
  ClusterTypeOK /\ ClusterTypeOK' /\ ListedInv /\ [ClusterNext]_cvars => ListedInv'
<1> SUFFICES ASSUME ClusterTypeOK, ClusterTypeOK', ListedInv, [ClusterNext]_cvars
             PROVE  ListedInv'
  OBVIOUS
<1>1. ASSUME UNCHANGED vars, tries' \in [Nodes -> Nat], \A m \in Nodes : tries[m] <= tries'[m]
      PROVE  ListedInv'
  <2>1. UNCHANGED <<replicas, replica_queue, in_hand, tasks, registry, restarts>>
    BY <1>1 DEF vars, store, work, worker, counts
  <2>2. \A m \in Nodes : Listed(m)' = Listed(m) /\ Open(m)' = Open(m)
    BY <2>1 DEF Listed, Open
  <2>3. ASSUME NEW m \in Nodes PROVE (Cardinality(Listed(m)) + Owed(m) <= tries[m])'
    <3>1. Cardinality(Listed(m)) + Owed(m) <= tries[m] /\ tries[m] \in Nat
      BY RegisterAssumption DEF ListedInv, OnePerTry, ClusterTypeOK
    <3>2. Owed(m)' = Owed(m) /\ Owed(m) \in Nat /\ tries'[m] \in Nat
      BY <1>1, <2>1, <2>2, CountedFinite DEF Owed, ClusterTypeOK
    <3> QED BY <1>1, <2>2, <3>1, <3>2, CountedFinite DEF ClusterTypeOK
  <2>4. OnePerTry'
    BY <2>3 DEF OnePerTry
  <2> QED BY <2>1, <2>2, <2>4 DEF ListedInv, Backed, Created
<1>2. tries \in [Nodes -> Nat] /\ tries' \in [Nodes -> Nat]
  BY RegisterAssumption DEF ClusterTypeOK
<1>3. CASE UNCHANGED <<vars, tries>>
  <2>1. \A m \in Nodes : tries[m] <= tries'[m]
    BY <1>2, <1>3
  <2> QED BY <1>1, <1>2, <1>3, <2>1
<1>4. ASSUME NEW n \in Nodes, MachineStep(n) PROVE ListedInv'
  <2>1. CASE \E s \in {"running", "terminated"} : InstanceStarts(n, s)
    BY <1>3, <2>1 DEF InstanceStarts, machines
  <2>2. CASE \E b \in {"registering", "down"} : UserData(n, b)
    BY <1>3, <2>2 DEF UserData
  <2>3. CASE _register_node(n)
    BY <2>3, RegistrationCounted DEF _register_node
  <2>4. CASE \E b \in {"registering", "serving", "down"} : try_send_with_retries_sync(n, b)
    <3>1. tries' = [tries EXCEPT ![n] = @ + 1] /\ (RegisterNode(n) \/ UNCHANGED vars)
      BY <2>4 DEF try_send_with_retries_sync
    <3>2. \A m \in Nodes : tries[m] <= tries'[m]
      BY <1>2, <3>1
    <3> QED BY <1>1, <1>2, <3>1, <3>2, RegistrationCounted
  <2> QED BY <1>4, <2>1, <2>2, <2>3, <2>4 DEF MachineStep
<1>5. CASE HeadPart /\ UNCHANGED <<manager, instance, machines>>
  <2>0. UNCHANGED tries /\ TypeOK
    BY <1>5 DEF machines, ClusterTypeOK
  <2>1. CASE TakeFromQueue
    BY <2>0, <2>1, TakingCounted
  <2>2. CASE SpawnCreateReplica
    BY <2>0, <2>2, SpawningCounted
  <2>3. ASSUME NEW t \in DOMAIN tasks PROVE tasks[t] \in Task
    BY SeqElement DEF ClusterTypeOK, TypeOK
  <2>4. ASSUME NEW t \in DOMAIN tasks, WorkerCreates(t) PROVE ListedInv'
    <3> DEFINE n == tasks[t].node
               k == replica_num[n] + 1
               x == [tasks[t] EXCEPT !.st = "created", !.num = k]
    <3>1. /\ tasks' = [tasks EXCEPT ![t] = x] /\ tasks[t].st = "calling"
          /\ registry' = [registry EXCEPT ![n] = @ \union {k}]
          /\ UNCHANGED <<replicas, replica_queue, in_hand, restarts>>
      BY <2>4 DEF WorkerCreates, store, counts
    <3>2. n \in Nodes /\ x.node = n /\ x.num = k
      BY <2>3 DEF Task
    <3>3. registry \in [Nodes -> SUBSET (1..MaxNum)]
      BY <2>0 DEF TypeOK
    <3>4. k \in registry'[n] /\ \A m \in Nodes : registry[m] \subseteq registry'[m]
      BY <3>1, <3>2, <3>3
    <3> HIDE DEF x
    <3> QED BY <2>0, <3>1, <3>2, <3>4, TaskCounted
  <2>5. ASSUME NEW t \in DOMAIN tasks, create_replica_refused(t) PROVE ListedInv'
    <3>1. /\ tasks' = [tasks EXCEPT ![t] = Done(tasks[t])] /\ tasks[t].st = "calling"
          /\ UNCHANGED <<replicas, replica_queue, in_hand, registry, restarts>>
      BY <2>5 DEF create_replica_refused, store, counts
    <3>2. Done(tasks[t]).node = tasks[t].node /\ Done(tasks[t]).st = "done"
      BY DEF Done
    <3> QED BY <2>0, <3>1, <3>2, TaskCounted
  <2>6. ASSUME NEW t \in DOMAIN tasks, CallFails(t) PROVE ListedInv'
    <3>1. PICK x : /\ x.node = tasks[t].node /\ x.st # "created"
                   /\ tasks' = [tasks EXCEPT ![t] = x]
      <4>1. /\ Done(tasks[t]).node = tasks[t].node /\ Done(tasks[t]).st # "created"
            /\ NewCall(tasks[t].node, tasks[t].attempt + 1).node = tasks[t].node
            /\ NewCall(tasks[t].node, tasks[t].attempt + 1).st # "created"
        BY DEF Done, NewCall
      <4>2. \/ tasks' = [tasks EXCEPT ![t] = Done(tasks[t])]
            \/ tasks' = [tasks EXCEPT ![t] = NewCall(tasks[t].node, tasks[t].attempt + 1)]
        BY <2>6 DEF CallFails
      <4> QED BY <4>1, <4>2
    <3>2. /\ tasks[t].st # "done"
          /\ UNCHANGED <<replicas, replica_queue, in_hand, registry, restarts>>
      BY <2>6 DEF CallFails, store, worker, counts
    <3> QED BY <2>0, <3>1, <3>2, TaskCounted
  <2>7. ASSUME NEW t \in DOMAIN tasks, create_replica_done(t) PROVE ListedInv'
    BY <2>0, <2>7, StoringCounted
  <2> QED BY <1>5, <2>1, <2>2, <2>4, <2>5, <2>6, <2>7 DEF HeadPart, Answers
<1>6. CASE UNCHANGED cvars
  BY <1>3, <1>6 DEF cvars, machines
<1> QED BY <1>3, <1>4, <1>5, <1>6 DEF ClusterNext, machines

\* A cluster that has just started owes nothing.
LEMMA ListedInit == ClusterInit => ListedInv
<1> SUFFICES ASSUME ClusterInit PROVE ListedInv
  OBVIOUS
<1>1. /\ replicas = NoReplicas /\ replica_queue = <<>> /\ in_hand = <<>> /\ tasks = <<>>
      /\ restarts = 0 /\ tries = [n \in Nodes |-> 0] /\ registry = [n \in Nodes |-> {}]
  BY DEF ClusterInit, Init
<1>2. \A n \in Nodes : Listed(n) = {} /\ Open(n) = {}
  <2>1. \A n \in Nodes, k \in 1..MaxNum : replicas[<<n, k>>] = 0
    BY <1>1 DEF NoReplicas, Replicas
  <2>2. DOMAIN tasks = {}
    BY <1>1
  <2>3. \A n \in Nodes : Listed(n) = {}
    <3>1. ~(0 > 0)
      OBVIOUS
    <3> QED BY <2>1, <3>1 DEF Listed
  <2>4. \A n \in Nodes : Open(n) = {}
    BY <2>2 DEF Open
  <2> QED BY <2>3, <2>4
<1>3. \A n \in Nodes : Count(replica_queue, n) = 0 /\ Count(in_hand, n) = 0
  BY <1>1, CountSmall
<1>4. OnePerTry
  <2>1. \A n \in Nodes : Cardinality(Listed(n)) = 0 /\ Cardinality(Open(n)) = 0
    BY <1>2, FS_EmptySet
  <2>2. \A n \in Nodes : Owed(n) = 0 + 0 + 0 /\ tries[n] = 0
    BY <1>1, <1>3, <2>1 DEF Owed
  <2>3. ASSUME NEW n \in Nodes PROVE Cardinality(Listed(n)) + Owed(n) = 0
    <3>1. 0 + (0 + 0 + 0) = 0
      OBVIOUS
    <3>2. Cardinality(Listed(n)) = 0 /\ Owed(n) = 0 + 0 + 0
      BY <2>1, <2>2
    <3> QED BY ONLY <3>1, <3>2
  <2>4. 0 <= 0
    OBVIOUS
  <2> QED BY <2>2, <2>3, <2>4 DEF OnePerTry
<1> QED BY <1>1, <1>2, <1>4 DEF ListedInv, Backed

\* However often RegisterNode and CreateReplica are retried and whatever gets
\* lost: a VM has no more entries in the routing table than it made attempts to
\* register, each of them once, and each is a replica that its worker knows.
THEOREM OneListedPerTry == ClusterSpec => []ListedPerVm
<1>1. ListedInv /\ StoresAgree /\ ClusterTypeOK => ListedPerVm
  <2> SUFFICES ASSUME ListedInv, StoresAgree, ClusterTypeOK, NEW n \in Nodes
               PROVE  /\ Cardinality(Listed(n)) <= tries[n]
                      /\ \A k \in Listed(n) : replicas[<<n, k>>] = 1 /\ k \in registry[n]
    BY DEF ListedPerVm
  <2>1. Cardinality(Listed(n)) + Owed(n) <= tries[n] /\ tries[n] \in Nat
    BY RegisterAssumption DEF ListedInv, OnePerTry, ClusterTypeOK
  <2>2. Owed(n) \in Nat /\ Cardinality(Listed(n)) \in Nat
    BY CountedFinite DEF Owed, ClusterTypeOK
  <2>3. ASSUME NEW k \in Listed(n) PROVE replicas[<<n, k>>] = 1
    <3>1. <<n, k>> \in Replicas /\ replicas[<<n, k>>] > 0
      BY DEF Listed, Replicas
    <3> QED BY <3>1 DEF ListedInv, StoresAgree
  <2> QED BY <2>1, <2>2, <2>3 DEF ListedInv, Backed
<1>2. ClusterSpec => []StoresAgree
  BY ClusterRefinesHead, StoresInAgreement, PTL
<1>3. ClusterSpec => []ListedInv
  BY ListedInit, ListedNext, ClusterTypes, PTL DEF ClusterSpec
<1> QED BY <1>1, <1>2, <1>3, ClusterTypes, PTL
=============================================================================
