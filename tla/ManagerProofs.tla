--------------------------- MODULE ManagerProofs -----------------------------
(* For any set of pods and any number of faults: at most one operator.      *)
EXTENDS Manager, TLAPS

LEMMA FaultTyped ==
  ASSUME ManagerTypeOK, Fault
  PROVE  faults' \in 0..MaxFaults
<1>1. faults \in 0..MaxFaults /\ faults < MaxFaults /\ faults' = faults + 1
  BY DEF ManagerTypeOK, Fault
<1> QED
  BY <1>1, ManagerAssumption

(* A process can be anywhere in main() while its pod has an object.        *)
LEMMA GotoTyped ==
  ASSUME ManagerTypeOK, NEW p \in Pods, NEW step \in Steps, Goto(p, step),
         step = "down" \/ pod[p] \in {"active", "deleting"}, UNCHANGED pod
  PROVE  /\ pc' \in [Pods -> Steps]
         /\ \A q \in Pods : pc'[q] # "down" => pod'[q] \in {"active", "deleting"}
<1>1. pc \in [Pods -> Steps] /\ pc' = [pc EXCEPT ![p] = step]
  BY DEF ManagerTypeOK, Goto
<1>2. pc' \in [Pods -> Steps]
  BY <1>1
<1>3. ASSUME NEW q \in Pods, pc'[q] # "down"
      PROVE  pod'[q] \in {"active", "deleting"}
  <2>1. CASE q = p
    BY <1>1, <1>3, <2>1
  <2>2. CASE q # p
    BY <1>1, <1>3, <2>2 DEF ManagerTypeOK
  <2> QED
    BY <2>1, <2>2
<1> QED
  BY <1>2, <1>3

LEMMA ProceedTyped ==
  ASSUME ManagerTypeOK, NEW p \in Pods, NEW step \in Steps, Proceed(p, step),
         step = "down" \/ pod[p] \in {"active", "deleting"}
  PROVE  ManagerTypeOK'
BY GotoTyped DEF Proceed, ManagerTypeOK

LEMMA ExitTyped ==
  ASSUME ManagerTypeOK, NEW p \in Pods, Exit(p)
  PROVE  ManagerTypeOK'
<1>1. "down" \in Steps
  BY DEF Steps
<1> QED
  BY <1>1, GotoTyped, FaultTyped DEF Exit, ManagerTypeOK

LEMMA InitTypeOK == Init => ManagerTypeOK
BY ManagerAssumption DEF Init, ManagerTypeOK, Steps

(* A step of main() keeps the types: the process is there before it, and   *)
(* may be gone after it.                                                   *)
LEMMA MainKeepsTypes ==
  ASSUME ManagerTypeOK, NEW p \in Pods, Main(p)
  PROVE  ManagerTypeOK'
<1>1. {"down", "start", "owner", "get", "create"} \cup Leading = Steps
  BY DEF Steps
<1>2. {"manager", "metrics", "service", "monitors", "running"} \subseteq Steps
  BY DEF Steps, Leading
<1>3. pc[p] # "down"
  BY DEF Main, Configure, ReadOwner, ReadLock, CreateLock, NewManager, ServeMetrics,
         CreateService, CreateMonitor
<1>4. pod[p] \in {"active", "deleting"}
  BY <1>3 DEF ManagerTypeOK
<1>5. CASE Configure(p)
  BY <1>1, <1>4, <1>5, ProceedTyped, ExitTyped DEF Configure
<1>6. CASE ReadOwner(p)
  BY <1>1, <1>4, <1>6, ProceedTyped, ExitTyped DEF ReadOwner
<1>7. CASE ReadLock(p)
  BY <1>1, <1>2, <1>4, <1>7, ProceedTyped, ExitTyped DEF ReadLock
<1>8. CASE CreateLock(p)
  <2>1. CASE Exit(p)
    BY <2>1, ExitTyped
  <2>2. CASE lock' = p /\ Goto(p, "manager") /\ UNCHANGED <<pod, service, metrics, faults>>
    BY <1>2, <1>4, <2>2, GotoTyped DEF ManagerTypeOK
  <2>3. CASE lock' = p /\ Goto(p, "down") /\ Fault /\ UNCHANGED <<pod, service, metrics>>
    BY <1>1, <2>3, GotoTyped, FaultTyped DEF ManagerTypeOK
  <2> QED
    BY <1>8, <2>1, <2>2, <2>3 DEF CreateLock
<1>9. CASE NewManager(p)
  BY <1>2, <1>4, <1>9, ProceedTyped, ExitTyped DEF NewManager
<1>10. CASE ServeMetrics(p)
  BY <1>2, <1>4, <1>10, ProceedTyped DEF ServeMetrics
<1>11. CASE CreateService(p)
  <2>1. Goto(p, "monitors") /\ UNCHANGED <<pod, lock, faults>>
    BY <1>11 DEF CreateService
  <2>2. service' \in [Pods -> BOOLEAN]
    BY <1>11 DEF CreateService, ManagerTypeOK
  <2>3. metrics' \subseteq {"Service", "ServiceMonitor"}
    BY <1>11 DEF CreateService, ManagerTypeOK
  <2> QED
    BY <1>2, <1>4, <2>1, <2>2, <2>3, GotoTyped DEF ManagerTypeOK
<1>12. CASE CreateMonitor(p)
  <2>1. Goto(p, "running") /\ UNCHANGED <<pod, service, lock, faults>>
    BY <1>12 DEF CreateMonitor
  <2>2. metrics' \subseteq {"Service", "ServiceMonitor"}
    BY <1>12 DEF CreateMonitor, ManagerTypeOK
  <2> QED
    BY <1>2, <1>4, <2>1, <2>2, GotoTyped DEF ManagerTypeOK
<1> QED
  BY <1>5, <1>6, <1>7, <1>8, <1>9, <1>10, <1>11, <1>12 DEF Main

(* A step of the cluster keeps them: an object that goes away has no       *)
(* process left, and none is started without one.                          *)
LEMMA ClusterKeepsTypes ==
  ASSUME ManagerTypeOK, NEW p \in Pods, Cluster(p)
  PROVE  ManagerTypeOK'
<1>1. {"down", "start"} \subseteq Steps
  BY DEF Steps
<1>2. CASE CreatePod(p)
  BY <1>2 DEF CreatePod, ManagerTypeOK
<1>3. CASE DeletePod(p)
  BY <1>3 DEF DeletePod, ManagerTypeOK
<1>4. CASE EvictPod(p)
  <2>1. pod' = [pod EXCEPT ![p] = "failed"] /\ pc' = [pc EXCEPT ![p] = "down"]
    BY <1>4 DEF EvictPod, Goto
  <2>2. pc' \in [Pods -> Steps]
    BY <1>1, <2>1 DEF ManagerTypeOK
  <2> QED
    BY <1>4, <2>1, <2>2 DEF EvictPod, ManagerTypeOK
<1>5. CASE StartContainer(p)
  BY <1>1, <1>5, ProceedTyped DEF StartContainer
<1>6. CASE StopContainer(p)
  BY <1>1, <1>6, ProceedTyped DEF StopContainer
<1>7. CASE RemovePod(p)
  BY <1>7 DEF RemovePod, ManagerTypeOK
<1>8. CASE Crash(p)
  BY <1>8, ExitTyped DEF Crash
<1> QED
  BY <1>2, <1>3, <1>4, <1>5, <1>6, <1>7, <1>8 DEF Cluster

(* The types of Manager's variables, and that no process runs in a pod     *)
(* whose object is gone (main.go 46-150 in the cluster it runs in).        *)
THEOREM ManagerTypes == Spec => []ManagerTypeOK
<1>1. ManagerTypeOK /\ [Next]_vars => ManagerTypeOK'
  <2> SUFFICES ASSUME ManagerTypeOK, [Next]_vars PROVE ManagerTypeOK'
    OBVIOUS
  <2>1. CASE UNCHANGED vars
    BY <2>1 DEF vars, ManagerTypeOK
  <2>2. CASE CollectLock
    BY <2>2 DEF CollectLock, ManagerTypeOK
  <2>3. CASE \E p \in Pods : Main(p)
    BY <2>3, MainKeepsTypes
  <2>4. CASE \E p \in Pods : Cluster(p)
    BY <2>4, ClusterKeepsTypes
  <2> QED
    BY <2>1, <2>2, <2>3, <2>4 DEF Next
<1> QED
  BY InitTypeOK, <1>1, PTL DEF Spec

------------------------------------------------------------------------------
(* What one process does to the ownership of the lock: it gets past Become *)
(* with a lock that is its own, and takes one only when there is none.     *)
LEMMA MainKeepsOwnership ==
  ASSUME ManagerTypeOK, LeaderOwnsLock, NEW p \in Pods, Main(p)
  PROVE  LeaderOwnsLock'
<1>1. \A q \in Pods \ {p} : pc'[q] = pc[q]
  BY DEF Main, Configure, ReadOwner, ReadLock, CreateLock, NewManager, ServeMetrics,
         CreateService, CreateMonitor, Exit, Proceed, Goto, ManagerTypeOK
<1>2. CASE UNCHANGED lock
  <2>1. pc'[p] \in Leading => pc[p] \in Leading \/ lock = p
    BY <1>2 DEF Main, Configure, ReadOwner, ReadLock, CreateLock, NewManager, ServeMetrics,
                CreateService, CreateMonitor, Exit, Proceed, Goto, ManagerTypeOK, Leading
  <2> QED
    BY <1>1, <1>2, <2>1 DEF LeaderOwnsLock
<1>3. CASE lock = None /\ lock' = p
  <2>1. \A q \in Pods : pc[q] \notin Leading
    BY <1>3, ManagerAssumption DEF LeaderOwnsLock
  <2> QED
    BY <1>1, <1>3, <2>1 DEF LeaderOwnsLock
<1> QED
  BY <1>2, <1>3 DEF Main, Configure, ReadOwner, ReadLock, CreateLock, NewManager,
                    ServeMetrics, CreateService, CreateMonitor, Exit, Proceed

(* The cluster takes no lock, and starts a process before its Become.      *)
LEMMA ClusterKeepsOwnership ==
  ASSUME ManagerTypeOK, LeaderOwnsLock, NEW p \in Pods, Cluster(p)
  PROVE  LeaderOwnsLock'
<1>1. lock' = lock
  BY DEF Cluster, CreatePod, DeletePod, EvictPod, StartContainer, StopContainer,
         RemovePod, Crash, Exit, Proceed
<1>2. \A q \in Pods : pc'[q] \in Leading => pc[q] \in Leading
  BY DEF Cluster, CreatePod, DeletePod, EvictPod, StartContainer, StopContainer,
         RemovePod, Crash, Exit, Proceed, Goto, ManagerTypeOK, Leading
<1> QED
  BY <1>1, <1>2 DEF LeaderOwnsLock

(* The lock is collected when its owner has no object, so no process: that *)
(* is where ownership needs the types.                                     *)
LEMMA CollectKeepsOwnership ==
  ASSUME ManagerTypeOK, LeaderOwnsLock, CollectLock
  PROVE  LeaderOwnsLock'
<1> SUFFICES ASSUME NEW p \in Pods, pc'[p] \in Leading PROVE FALSE
  BY DEF LeaderOwnsLock
<1>1. pc[p] \in Leading /\ pc[p] # "down"
  BY DEF CollectLock, Leading
<1>2. lock = p
  BY <1>1 DEF LeaderOwnsLock
<1>3. pod[p] \in {"active", "deleting"}
  BY <1>1 DEF ManagerTypeOK
<1> QED
  BY <1>2, <1>3 DEF CollectLock

(* Who is past Become (main.go 83-88) owns the lock.                       *)
THEOREM LeadersOwn == Spec => []LeaderOwnsLock
<1>1. Init => LeaderOwnsLock
  BY DEF Init, LeaderOwnsLock, Leading
<1>2. ManagerTypeOK /\ LeaderOwnsLock /\ [Next]_vars => LeaderOwnsLock'
  <2> SUFFICES ASSUME ManagerTypeOK, LeaderOwnsLock, [Next]_vars PROVE LeaderOwnsLock'
    OBVIOUS
  <2>1. CASE UNCHANGED vars
    BY <2>1 DEF vars, LeaderOwnsLock
  <2>2. CASE CollectLock
    BY <2>2, CollectKeepsOwnership
  <2>3. CASE \E p \in Pods : Main(p)
    BY <2>3, MainKeepsOwnership
  <2>4. CASE \E p \in Pods : Cluster(p)
    BY <2>4, ClusterKeepsOwnership
  <2> QED
    BY <2>1, <2>2, <2>3, <2>4 DEF Next
<1> QED
  BY ManagerTypes, <1>1, <1>2, PTL DEF Spec

(* One lock has one owner: never two managers at work, for any number of   *)
(* pods, rollouts, restarts and faults (main.go 82-88).                    *)
THEOREM NeverTwoOperators == Spec => []OneOperator
<1>1. LeaderOwnsLock => OneOperator
  BY DEF LeaderOwnsLock, OneOperator
<1> QED
  BY LeadersOwn, <1>1, PTL
==============================================================================
