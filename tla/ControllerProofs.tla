--------------------------- MODULE ControllerProofs --------------------------
(***************************************************************************)
(* Proofs about Controller: types, and that no wake-up is lost.            *)
(***************************************************************************)
EXTENDS Controller, TLAPS

(* A pass needs a Sync, and only what was read can become one. *)
WhereItIs ==
  /\ worker = "new" => instance # None
  /\ worker = "pass" => sync # None
  /\ ticker # "none" => sync # None

(* What the cache has shown leads to a Sync.  The Config at the server     *)
(* cannot say this of itself: it may be gone and come back as it was.      *)
SeenIsPending ==
  cached # None /\ sync = None =>
    queued \/ delayed \/ worker \in {"read", "new"}

IInv == TypeOK /\ WhereItIs /\ SeenIsPending

LEMMA WithDefaultsComplete ==
  ASSUME NEW c \in Config
  PROVE  WithDefaults(c) \in Complete
  BY ControllerAssumption DEF WithDefaults, Config, Complete

LEMMA CompleteIsConfig ==
  /\ None \notin Complete
  /\ \A c \in Complete : c.content \in Contents
  BY ControllerAssumption DEF Complete, Config

LEMMA FaultTyped ==
  ASSUME TypeOK, Fault
  PROVE  /\ changes' \in 0..MaxChanges
         /\ drifts' \in 0..MaxDrifts
         /\ faults' \in 0..MaxFaults
<1>1. faults \in 0..MaxFaults /\ faults < MaxFaults /\ faults' = faults + 1
  BY DEF TypeOK, Fault
<1>2. faults' \in 0..MaxFaults
  BY <1>1, ControllerAssumption
<1> QED
  BY <1>2 DEF TypeOK, Fault

LEMMA InitIInv == Init => IInv
<1> SUFFICES ASSUME Init PROVE IInv
  OBVIOUS
<1>1. 0 \in 0..MaxChanges /\ 0 \in 0..MaxDrifts /\ 0 \in 0..MaxFaults
  BY ControllerAssumption
<1>2. TypeOK
  BY <1>1 DEF Init, TypeOK
<1>3. WhereItIs /\ SeenIsPending
  BY DEF Init, WhereItIs, SeenIsPending
<1> QED
  BY <1>2, <1>3 DEF IInv

LEMMA StepIInv == IInv /\ [Next]_vars => IInv'
<1> SUFFICES ASSUME IInv, [Next]_vars PROVE IInv'
  OBVIOUS
<1> USE ControllerAssumption
<1>1. CASE BeginReconcile
  BY <1>1 DEF BeginReconcile, bounds, IInv, TypeOK, WhereItIs, SeenIsPending
<1>2. CASE ReadConfig
  <2>1. CASE Fault /\ Ends(TRUE)
    BY <1>2, <2>1, FaultTyped DEF ReadConfig, Ends, IInv, TypeOK, WhereItIs, SeenIsPending
  <2>2. CASE cached = None /\ Ends(FALSE) /\ UNCHANGED bounds
    BY <1>2, <2>2 DEF ReadConfig, Ends, bounds, IInv, TypeOK, WhereItIs, SeenIsPending
  <2>3. CASE /\ cached # None
             /\ instance' = WithDefaults(cached)
             /\ worker' = IF sync = None THEN "new" ELSE "pass"
             /\ UNCHANGED <<requests, bounds>>
    <3>1. instance' \in Complete
      BY <2>3, WithDefaultsComplete DEF IInv, TypeOK
    <3> QED
      BY <1>2, <2>3, <3>1, CompleteIsConfig
      DEF ReadConfig, requests, bounds, IInv, TypeOK, WhereItIs, SeenIsPending
  <2> QED
    BY <1>2, <2>1, <2>2, <2>3 DEF ReadConfig
<1>3. CASE NewSync
  <2>1. CASE Fault /\ Ends(TRUE) /\ UNCHANGED <<sync, ticker>>
    BY <1>3, <2>1, FaultTyped DEF NewSync, Ends, IInv, TypeOK, WhereItIs, SeenIsPending
  <2>2. CASE sync' = instance /\ ticker' = "starting" /\ Ends(FALSE) /\ UNCHANGED bounds
    BY <1>3, <2>2 DEF NewSync, Ends, bounds, IInv, TypeOK, WhereItIs, SeenIsPending
  <2> QED
    BY <1>3, <2>1, <2>2 DEF NewSync
<1>4. CASE WorkerPass
  <2>1. CASE Fault /\ Ends(TRUE) /\ UNCHANGED cluster
    BY <1>4, <2>1, FaultTyped DEF WorkerPass, Ends, IInv, TypeOK, WhereItIs, SeenIsPending
  <2>2. CASE cluster' = sync.content /\ Ends(FALSE) /\ UNCHANGED bounds
    BY <1>4, <2>2, CompleteIsConfig
    DEF WorkerPass, Ends, bounds, IInv, TypeOK, WhereItIs, SeenIsPending
  <2> QED
    BY <1>4, <2>1, <2>2 DEF WorkerPass
<1>5. CASE StartTicker
  BY <1>5
  DEF StartTicker, NewProcess, requests, bounds, IInv, TypeOK, WhereItIs, SeenIsPending
<1>6. CASE TickerPass
  <2>1. CASE Fault /\ UNCHANGED cluster
    BY <1>6, <2>1, FaultTyped DEF TickerPass, requests, IInv, TypeOK, WhereItIs, SeenIsPending
  <2>2. CASE cluster' = sync.content /\ UNCHANGED bounds
    BY <1>6, <2>2, CompleteIsConfig
    DEF TickerPass, requests, bounds, IInv, TypeOK, WhereItIs, SeenIsPending
  <2> QED
    BY <1>6, <2>1, <2>2 DEF TickerPass
<1>7. CASE Wake
  BY <1>7 DEF Wake, requests, bounds, IInv, TypeOK, WhereItIs, SeenIsPending
<1>8. CASE Tick
  BY <1>8 DEF Tick, requests, bounds, IInv, TypeOK, WhereItIs, SeenIsPending
<1>9. CASE Deliver
  BY <1>9 DEF Deliver, bounds, IInv, TypeOK, WhereItIs, SeenIsPending
<1>10. CASE Nudge
  BY <1>10 DEF Nudge, bounds, IInv, TypeOK, WhereItIs, SeenIsPending
<1>11. CASE Requeue
  BY <1>11 DEF Requeue, bounds, IInv, TypeOK, WhereItIs, SeenIsPending
<1>12. CASE CreateConfig
  BY <1>12
  DEF CreateConfig, process, requests, bounds, IInv, TypeOK, WhereItIs, SeenIsPending
<1>13. CASE ChangeConfig
  BY <1>13 DEF ChangeConfig, process, requests, IInv, TypeOK, WhereItIs, SeenIsPending
<1>14. CASE Drift
  BY <1>14 DEF Drift, process, requests, IInv, TypeOK, WhereItIs, SeenIsPending
<1>15. CASE Crash
  BY <1>15, FaultTyped DEF Crash, NewProcess, IInv, TypeOK, WhereItIs, SeenIsPending
<1>16. CASE UNCHANGED vars
  BY <1>16
  DEF vars, process, requests, bounds, IInv, TypeOK, WhereItIs, SeenIsPending
<1> QED
  BY <1>1, <1>2, <1>3, <1>4, <1>5, <1>6, <1>7, <1>8, <1>9, <1>10, <1>11, <1>12,
     <1>13, <1>14, <1>15, <1>16 DEF Next, Reconcile, SyncPeriodic

LEMMA Inductive == Spec => []IInv
  BY InitIInv, StepIInv, PTL DEF Spec

(* Every variable keeps its type; above all, whatever SyncPeriodic is      *)
(* given has a period (config_controller.go:92-95).                        *)
THEOREM ControllerTypes == Spec => []TypeOK
<1>1. IInv => TypeOK
  BY DEF IInv
<1> QED
  BY <1>1, Inductive, PTL

(* As long as there is a Config and no Sync, another Reconcile is on its   *)
(* way, for any number of changes, faults and Configs: returning without   *)
(* an error for a missing Config (config_controller.go:83-86) loses none.  *)
THEOREM NoWakeupIsLost == Spec => []NoLostWakeup
<1>1. IInv => NoLostWakeup
  BY DEF IInv, SeenIsPending, NoLostWakeup
<1> QED
  BY <1>1, Inductive, PTL
==============================================================================
