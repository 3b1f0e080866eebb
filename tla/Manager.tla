------------------------------ MODULE Manager --------------------------------
(***************************************************************************)
(* cmd/manager/main.go and the leader election it begins with, operator-   *)
(* sdk's leader for life: a ConfigMap that the pod of the leader owns.     *)
(* The cluster around it restarts containers, replaces pods and collects   *)
(* what belonged to a pod that is gone (deploy/operator.yaml: one replica, *)
(* rolled out with a surge of one).                                        *)
(***************************************************************************)
EXTENDS Naturals, FiniteSets

CONSTANTS Pods,       \* the pods the Deployment may have, one after another
          None,
          Evictable,  \* the pods whose node may evict them
          MaxFaults   \* bound: failed calls, lost replies and crashes

ASSUME ManagerAssumption ==
  None \notin Pods /\ Evictable \subseteq Pods /\ MaxFaults \in Nat

VARIABLES pod,      \* each pod's object at the API server
          pc,       \* where its process is in main(), "down" when there is none
          service,  \* each process: CreateMetricsService returned a Service
          lock,     \* the pod that owns the lock, or None
          metrics,  \* which metrics objects there are
          faults

vars == <<pod, pc, service, lock, metrics, faults>>

Leading == {"manager", "metrics", "service", "monitors", "running"}
Steps == {"down", "start", "owner", "get", "create"} \cup Leading

Goto(p, step) == pc' = [pc EXCEPT ![p] = step]
Fault == faults < MaxFaults /\ faults' = faults + 1
(* os.Exit(1) *)
Exit(p) == Fault /\ Goto(p, "down") /\ UNCHANGED <<pod, service, lock, metrics>>
Proceed(p, step) == Goto(p, step) /\ UNCHANGED <<pod, service, lock, metrics, faults>>

------------------------------------------------------------------------------
(* main() *)

(* GetWatchNamespace, GetConfig. *)
Configure(p) ==
  /\ pc[p] = "start"
  /\ Proceed(p, "owner") \/ Exit(p)

(* Become: myOwnerRef reads the pod. *)
ReadOwner(p) ==
  /\ pc[p] = "owner"
  /\ Proceed(p, "get") \/ Exit(p)

(* Mutant: any lock that is there is taken for one's own. *)
MutReadLock(p) ==
  /\ pc[p] = "get"
  /\ Proceed(p, IF lock # None THEN "manager" ELSE "create") \/ Exit(p)

(* Mutant: a lock of one's own is not recognised after a restart. *)
MutForgetful(p) ==
  /\ pc[p] = "get"
  /\ Proceed(p, "create") \/ Exit(p)

(* Become: a lock with this pod's name is from before a restart. *)
ReadLock(p) ==
  /\ pc[p] = "get"
  /\ Proceed(p, IF lock = p THEN "manager" ELSE "create") \/ Exit(p)

(* Become: one attempt to create the lock.  While there is one, the call   *)
(* changes nothing and is made again: a step that cannot be taken yet.     *)
CreateLock(p) ==
  /\ pc[p] = "create"
  /\ \/ /\ lock = None /\ lock' = p
        /\ \/ Goto(p, "manager") /\ UNCHANGED faults
           \/ Goto(p, "down") /\ Fault  \* the reply is lost
        /\ UNCHANGED <<pod, service, metrics>>
     \/ Exit(p)

(* manager.New, AddToScheme, AddToManager. *)
NewManager(p) ==
  /\ pc[p] = "manager"
  /\ Proceed(p, "metrics") \/ Exit(p)

(* serveCRMetrics, whose error is logged. *)
ServeMetrics(p) == pc[p] = "metrics" /\ Proceed(p, "service")

(* CreateMetricsService: created or updated, or an error that is logged;   *)
(* the call may also fail after it took effect.                            *)
CreateService(p) ==
  /\ pc[p] = "service"
  /\ Goto(p, "monitors")
  /\ \E ok, done \in BOOLEAN :
       /\ ok => done
       /\ service' = [service EXCEPT ![p] = ok]
       /\ metrics' = IF done THEN metrics \cup {"Service"} ELSE metrics
  /\ UNCHANGED <<pod, lock, faults>>

(* Mutant: main() exits when there is no monitor.                          *)
MutCreateMonitor(p) ==
  /\ pc[p] = "monitors"
  /\ \/ /\ service[p] /\ Goto(p, "running")
        /\ metrics' = metrics \cup {"ServiceMonitor"}
     \/ Goto(p, "down") /\ UNCHANGED metrics
  /\ UNCHANGED <<pod, service, lock, faults>>

(* CreateServiceMonitors, for a Service there is: its error is logged too, *)
(* even when it is that the monitor exists.  Then mgr.Start.               *)
CreateMonitor(p) ==
  /\ pc[p] = "monitors"
  /\ Goto(p, "running")
  /\ \/ service[p] /\ metrics' = metrics \cup {"ServiceMonitor"}
     \/ UNCHANGED metrics
  /\ UNCHANGED <<pod, service, lock, faults>>

Main(p) == \/ Configure(p) \/ ReadOwner(p) \/ ReadLock(p) \/ CreateLock(p)
           \/ NewManager(p) \/ ServeMetrics(p) \/ CreateService(p) \/ CreateMonitor(p)

------------------------------------------------------------------------------
(* The cluster. *)

Alive == {p \in Pods : pod[p] = "active"}

(* The Deployment: one pod, or two while one replaces the other. *)
CreatePod(p) ==
  /\ pod[p] = "none" /\ Cardinality(Alive) < 2
  /\ pod' = [pod EXCEPT ![p] = "active"]
  /\ UNCHANGED <<pc, service, lock, metrics, faults>>

(* A rollout or a drain, and somebody may tidy up after an eviction;       *)
(* bound: some pod is left to take over.                                   *)
DeletePod(p) ==
  /\ pod[p] \in {"active", "failed"}
  /\ \E q \in Pods \ {p} : pod[q] \in {"none", "active"}
  /\ pod' = [pod EXCEPT ![p] = "deleting"]
  /\ UNCHANGED <<pc, service, lock, metrics, faults>>

(* An evicted pod is stopped and has failed; its object stays.             *)
EvictPod(p) ==
  /\ p \in Evictable /\ pod[p] = "active"
  /\ \E q \in Pods \ {p} : pod[q] \in {"none", "active"}
  /\ pod' = [pod EXCEPT ![p] = "failed"]
  /\ Goto(p, "down")
  /\ UNCHANGED <<service, lock, metrics, faults>>

(* The kubelet restarts the container of a pod that is to stay, stops that *)
(* of a pod that is being deleted, and then lets its object go.            *)
StartContainer(p) == pod[p] = "active" /\ pc[p] = "down" /\ Proceed(p, "start")
StopContainer(p) == pod[p] = "deleting" /\ pc[p] # "down" /\ Proceed(p, "down")

(* Mutant: the object goes before the process. *)
MutRemovePod(p) ==
  /\ pod[p] = "deleting"
  /\ pod' = [pod EXCEPT ![p] = "gone"]
  /\ UNCHANGED <<pc, service, lock, metrics, faults>>

RemovePod(p) ==
  /\ pod[p] = "deleting" /\ pc[p] = "down"
  /\ pod' = [pod EXCEPT ![p] = "gone"]
  /\ UNCHANGED <<pc, service, lock, metrics, faults>>

Crash(p) == pc[p] # "down" /\ Exit(p)

(* The garbage collector: the lock goes with the pod it belongs to.        *)
CollectLock ==
  /\ lock # None /\ pod[lock] = "gone"
  /\ lock' = None
  /\ UNCHANGED <<pod, pc, service, metrics, faults>>

------------------------------------------------------------------------------
Init ==
  /\ pod = [p \in Pods |-> "none"] /\ pc = [p \in Pods |-> "down"]
  /\ service = [p \in Pods |-> FALSE]
  /\ lock = None /\ metrics = {} /\ faults = 0

Cluster(p) == CreatePod(p) \/ DeletePod(p) \/ EvictPod(p) \/ StartContainer(p)
                \/ StopContainer(p) \/ RemovePod(p) \/ Crash(p)
Next == CollectLock \/ \E p \in Pods : Main(p) \/ Cluster(p)
Spec == Init /\ [][Next]_vars

(* Calls are answered, and the cluster's controllers and kubelets do their *)
(* work; nothing makes anybody roll out, drain, evict or crash.            *)
Fairness ==
  /\ WF_vars(CollectLock)
  /\ WF_vars(Alive = {} /\ \E p \in Pods : CreatePod(p))
  /\ \A p \in Pods : /\ WF_vars(Main(p)) /\ WF_vars(StartContainer(p))
                     /\ WF_vars(StopContainer(p)) /\ WF_vars(RemovePod(p))
LiveSpec == Spec /\ Fairness

------------------------------------------------------------------------------
(* Every process runs in a pod that has an object. *)
ManagerTypeOK ==
  /\ pod \in [Pods -> {"none", "active", "deleting", "failed", "gone"}]
  /\ pc \in [Pods -> Steps]
  /\ service \in [Pods -> BOOLEAN]
  /\ lock \in Pods \cup {None}
  /\ metrics \subseteq {"Service", "ServiceMonitor"}
  /\ faults \in 0..MaxFaults
  /\ \A p \in Pods : pc[p] # "down" => pod[p] \in {"active", "deleting"}

(* Never two operators at work: main() gets past Become (main.go 83-88) in *)
(* one pod at a time, whoever crashes, restarts or loses a reply, also     *)
(* while a rollout has two pods.  It is what Controller and Sync, models   *)
(* of one process, take for granted.                                       *)
OneOperator == \A p, q \in Pods : pc[p] \in Leading /\ pc[q] \in Leading => p = q

(* What makes it so: who is past Become owns the lock. *)
LeaderOwnsLock == \A p \in Pods : pc[p] \in Leading => lock = p

(* When rollouts, evictions, deletions and faults end, some pod's manager  *)
(* runs for good: a restarted leader finds its own lock, a lost one's lock *)
(* is collected, and no failure of the metrics is in the way, not even one *)
(* that comes again after every restart (main.go 115-141).  That is, once  *)
(* somebody has deleted the pods that were evicted: a failed pod's object  *)
(* keeps the lock from the garbage collector, and who replaces it waits.   *)
OperatorComesBack ==
  <>[](\A p \in Pods : pod[p] # "failed") => <>[](\E p \in Pods : pc[p] = "running")
==============================================================================
