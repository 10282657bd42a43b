----------------------------- MODULE Provisioning -----------------------------
(***************************************************************************)
(* How workers come to the head: _create_vm_in_thread creates one EC2      *)
(* instance after the other through AWSVMManager, an instance boots, its   *)
(* scheduler registers with the head before it serves, and the head orders *)
(* a replica from it.  Composes HeadController with the VM manager and     *)
(* with the start of the schedulers.                                       *)
(*                                                                         *)
(* create_vm runs in a thread and only its calls to EC2 take time, so an   *)
(* action is one such call with what the code does with its outcome.  A    *)
(* call succeeds; or fails with a ClientError or WaiterError, which        *)
(* create_vm handles, and delete_vm a ClientError; or fails in another way *)
(* (no connection, credentials, an answer of another shape): the exception *)
(* then ends create_vm, and delete_vm too, and is caught in the loop.      *)
(* Each of these leaves a line in the log, which is all an operator has to *)
(* tell what became of a VM.                                               *)
(*                                                                         *)
(* Of the head, what registrations lead to takes part; the subscription,   *)
(* health reports and restarts meet no state of this module.               *)
(***************************************************************************)
EXTENDS HeadController, FiniteSets

CONSTANTS
  NumVms,            \* range(4) in _create_vm_in_thread
  RegisterAttempts   \* attempts of try_send_with_retries_sync

ASSUME VmsAssumption == NumVms \in Nat /\ Nodes = 1..NumVms
ASSUME RegisterAssumption == RegisterAttempts \in Nat \ {0}

VARIABLES
  vm,          \* the VM the loop is at
  phase,       \* the call create_vm is in
  instance,    \* EC2: the instance of each VM
  vm_cache,    \* AWSVMManager._vm_cache, as the VMs it has an entry for
  log,         \* the errors written about each VM
  boot,        \* what runs on the instance
  tries        \* attempts to register made there

manager == <<vm, phase, vm_cache, log>>
machines == <<boot, tries>>
cvars == <<vars, manager, instance, machines>>

Phases == {"lookup", "request", "await_running", "describe", "terminate", "await_end"}

\* create_vm gave up; delete_vm gave up; the loop caught an exception.
Errors == {"create", "delete", "raised"}

ClusterTypeOK ==
  /\ TypeOK
  /\ vm \in 1..(NumVms + 1)
  /\ phase \in Phases
  /\ instance \in [Nodes -> {"none", "pending", "running", "terminated"}]
  /\ vm_cache \subseteq Nodes
  /\ log \in [Nodes -> SUBSET Errors]
  /\ boot \in [Nodes -> {"off", "registering", "serving", "down"}]
  /\ tries \in [Nodes -> 0..RegisterAttempts]

ClusterInit ==
  /\ Init
  /\ vm = 1 /\ phase = "lookup"
  /\ instance = [n \in Nodes |-> "none"]
  /\ vm_cache = {} /\ log = [n \in Nodes |-> {}]
  /\ boot = [n \in Nodes |-> "off"]
  /\ tries = [n \in Nodes |-> 0]

-----------------------------------------------------------------------------
(* AWSVMManager.                                                           *)

At(p) == vm <= NumVms /\ phase = p
Becomes(s) == instance' = [instance EXCEPT ![vm] = s]
Logs(e) == log' = [log EXCEPT ![vm] = @ \union {e}]

\* create_vm is over, with an address, None or an exception: the loop sleeps
\* and goes on to the next VM.
NextVm == vm' = vm + 1 /\ phase' = "lookup"

\* Slip: one round too many.
FindResources_beyond(found) ==
  /\ vm <= NumVms + 1 /\ phase = "lookup"
  /\ IF found THEN phase' = "request" /\ UNCHANGED vm ELSE NextVm
  /\ UNCHANGED <<vm_cache, log, instance>>

\* The profile ("small" for every model it does not know), then security group
\* and image; the VM is given up when one of the two is not found.
FindResources(found) ==
  /\ At("lookup")
  /\ IF found THEN phase' = "request" /\ UNCHANGED <<vm, log>>
              ELSE NextVm /\ Logs("create")
  /\ UNCHANGED <<vm_cache, instance>>

run_instances ==
  /\ At("request")
  /\ Becomes("pending")
  /\ phase' = "await_running"
  /\ UNCHANGED <<vm, vm_cache, log>>

\* A ClientError before there is an instance_id: nothing to delete.
run_instances_refused ==
  /\ At("request")
  /\ Logs("create")
  /\ NextVm
  /\ UNCHANGED <<vm_cache, instance>>

instance_running ==
  /\ At("await_running") /\ instance[vm] = "running"
  /\ phase' = "describe"
  /\ UNCHANGED <<vm, vm_cache, log, instance>>

describe_instances ==
  /\ At("describe")
  /\ vm_cache' = vm_cache \union {vm}
  /\ NextVm
  /\ UNCHANGED <<log, instance>>

\* Slip: the handler logs and returns, and leaves the instance.
create_vm_just_returns ==
  /\ At("await_running") \/ At("describe")
  /\ Logs("create")
  /\ NextVm
  /\ UNCHANGED <<vm_cache, instance>>

\* A ClientError or WaiterError once there is an instance_id: the handler of
\* create_vm logs it and calls delete_vm.
create_vm_fails ==
  /\ At("await_running") \/ At("describe")
  /\ Logs("create")
  /\ phase' = "terminate"
  /\ UNCHANGED <<vm, vm_cache, instance>>

delete_vm ==
  /\ At("terminate")
  /\ Becomes("terminated")
  /\ phase' = "await_end"
  /\ UNCHANGED <<vm, vm_cache, log>>

\* terminate_instances answers with a ClientError: delete_vm logs it and returns
\* False, which create_vm does not look at.
delete_vm_refused ==
  /\ At("terminate")
  /\ Logs("delete")
  /\ NextVm
  /\ UNCHANGED <<vm_cache, instance>>

\* instance_terminated: an entry in the cache goes only when the waiter is
\* content.  Its ClientError is logged by delete_vm; its WaiterError is not one
\* and leaves delete_vm and create_vm for the loop.  Either way both are over.
delete_vm_done(content) ==
  /\ At("await_end")
  /\ IF content THEN vm_cache' = vm_cache \ {vm} /\ UNCHANGED log
                ELSE UNCHANGED vm_cache /\ (Logs("delete") \/ Logs("raised"))
  /\ NextVm
  /\ UNCHANGED instance

\* Slip: the loop does not catch the exception and ends.
loop_ends ==
  /\ vm <= NumVms
  /\ Logs("raised")
  /\ phase' = "ended"
  /\ UNCHANGED <<vm, vm_cache, instance>>

\* Any other exception, from any call, which the loop catches and prints; a
\* request or a termination may have been carried out all the same.
_create_vm_in_thread_catches ==
  /\ vm <= NumVms
  /\ \/ UNCHANGED instance
     \/ phase = "request" /\ Becomes("pending")
     \/ phase = "terminate" /\ Becomes("terminated")
  /\ Logs("raised")
  /\ NextVm
  /\ UNCHANGED vm_cache

ManagerStep ==
  \/ \E found \in BOOLEAN : FindResources(found)
  \/ run_instances
  \/ run_instances_refused
  \/ instance_running
  \/ describe_instances
  \/ create_vm_fails
  \/ delete_vm
  \/ delete_vm_refused
  \/ \E content \in BOOLEAN : delete_vm_done(content)
  \/ _create_vm_in_thread_catches

-----------------------------------------------------------------------------
(* EC2 and the start of a scheduler.                                       *)

\* EC2 starts the instance, or ends it before it runs.
InstanceStarts(n, s) ==
  /\ instance[n] = "pending"
  /\ instance' = [instance EXCEPT ![n] = s]
  /\ UNCHANGED <<vars, manager, machines>>

\* The user data script: docker, the image, the container; under `set -e` a
\* failing command ends it.
UserData(n, b) ==
  /\ instance[n] = "running" /\ boot[n] = "off"
  /\ boot' = [boot EXCEPT ![n] = b]
  /\ UNCHANGED <<vars, manager, instance, tries>>

Registering(n) == instance[n] = "running" /\ boot[n] = "registering"
Serving(n) == instance[n] = "running" /\ boot[n] = "serving"

\* The acknowledgement arrives and the scheduler goes on to serve.
_register_node(n) ==
  /\ Registering(n)
  /\ RegisterNode(n)
  /\ tries' = [tries EXCEPT ![n] = @ + 1]
  /\ boot' = [boot EXCEPT ![n] = "serving"]
  /\ UNCHANGED <<manager, instance>>

\* An attempt fails, before or after it reached the head.  After the last one
\* the scheduler sends itself SIGTERM, which ends it, unless it is the first
\* process of its container: then it serves, registered or not.
try_send_with_retries_sync(n, b) ==
  /\ Registering(n)
  /\ RegisterNode(n) \/ UNCHANGED vars
  /\ tries' = [tries EXCEPT ![n] = @ + 1]
  /\ b \in IF tries'[n] = RegisterAttempts THEN {"serving", "down"} ELSE {"registering"}
  /\ boot' = [boot EXCEPT ![n] = b]
  /\ UNCHANGED <<manager, instance>>

MachineStep(n) ==
  \/ \E s \in {"running", "terminated"} : InstanceStarts(n, s)
  \/ \E b \in {"registering", "down"} : UserData(n, b)
  \/ _register_node(n)
  \/ \E b \in {"registering", "serving", "down"} : try_send_with_retries_sync(n, b)

-----------------------------------------------------------------------------
(* The head, and the schedulers that serve.                                *)

Answers(t) == Serving(tasks[t].node) /\ (WorkerCreates(t) \/ create_replica_refused(t))

HeadPart ==
  \/ TakeFromQueue
  \/ SpawnCreateReplica
  \/ \E t \in DOMAIN tasks : Answers(t)
  \/ \E t \in DOMAIN tasks : CallFails(t)
  \/ \E t \in DOMAIN tasks : create_replica_done(t)

ClusterNext ==
  \/ ManagerStep /\ UNCHANGED <<vars, machines>>
  \/ \E n \in Nodes : MachineStep(n)
  \/ HeadPart /\ UNCHANGED <<manager, instance, machines>>

ClusterSpec == ClusterInit /\ [][ClusterNext]_cvars

\* EC2 calls return (its client has time limits, its waiters give up after a
\* number of attempts); the event loop of the head runs what can run.
ClusterFairness ==
  /\ WF_cvars(ManagerStep /\ UNCHANGED <<vars, machines>>)
  /\ WF_cvars(TakeFromQueue /\ UNCHANGED <<manager, instance, machines>>)
  /\ WF_cvars(SpawnCreateReplica /\ UNCHANGED <<manager, instance, machines>>)

FairClusterSpec == ClusterSpec /\ ClusterFairness

-----------------------------------------------------------------------------
(* Safety.                                                                 *)

\* Instances can be left behind: create_vm gives up after one attempt to delete.
\* They are not left silently, and the log does not mislead.  A VM the loop has
\* left is in the cache exactly when no error was written about it; and one that
\* is not in the cache but alive has more than the error of create_vm, which is
\* all that is written when there was no instance or it was deleted: delete_vm
\* failed too, or an exception got through to the loop.
LeaksAreReported ==
  \A n \in 1..(vm - 1) :
    /\ n \in vm_cache <=> log[n] = {}
    /\ instance[n] \in {"pending", "running"} /\ n \notin vm_cache =>
         log[n] \intersect {"delete", "raised"} # {}

\* Why: while create_vm is at a VM, its phase says what is known of the instance.
PhaseInv ==
  /\ vm <= NumVms =>
       /\ phase \in {"lookup", "request"} => instance[vm] = "none"
       /\ phase \in {"terminate", "await_end"} <=> log[vm] # {}
       /\ phase = "await_end" => instance[vm] = "terminated"
  /\ vm > NumVms => phase = "lookup"
  /\ vm_cache \subseteq 1..(vm - 1)
  /\ \A n \in Nodes : n > vm => instance[n] = "none" /\ log[n] = {}

\* From one registration comes one listed replica at most, over the lost
\* acknowledgements of RegisterNode and the lost replies of CreateReplica: a VM
\* never has more entries in the routing table than attempts to register.
Listed(n) == {k \in 1..MaxNum : replicas[<<n, k>>] > 0}
ListedPerVm ==
  \A n \in Nodes :
    /\ Cardinality(Listed(n)) <= tries[n]
    /\ \A k \in Listed(n) : replicas[<<n, k>>] = 1 /\ k \in registry[n]

-----------------------------------------------------------------------------
(* Liveness.                                                               *)

\* Whatever fails at one VM, the loop gets to the end of its list, and a worker
\* that has registered is sent an order for a replica.
EveryVmTried ==
  /\ <>(vm > NumVms)
  /\ \A n \in Nodes : n \in node_map ~> \E t \in DOMAIN tasks : tasks[t].node = n
=============================================================================
