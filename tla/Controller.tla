------------------------------ MODULE Controller -----------------------------
(***************************************************************************)
(* Reconcile() of pkg/controller/config/config_controller.go, New() and    *)
(* SyncPeriodic() of pkg/sync/sync.go: how the operator gets from a Config *)
(* to passes over the cluster.  A pass is one step here (see Sync): what   *)
(* matters is with which content it runs, and whether there is another.    *)
(***************************************************************************)
EXTENDS Naturals

CONSTANTS
  Contents,    \* what a Config may ask for: platform and values
  Periods,     \* the values of spec.syncDuration
  Unset,       \* the period of a Config that names none
  Default,     \* defaultSyncPerion
  Bad,         \* the periods time.NewTicker panics for
  None,        \* no Config, no Sync
  MaxChanges,  \* bound: changes of an existing Config
  MaxDrifts,   \* bound: changes other clients make to the cluster
  MaxFaults    \* bound: failed reads, failed passes and crashes

Config == [content : Contents, period : Periods]

(* What New may be given: SyncPeriodic dereferences the period. *)
Complete == [content : Contents, period : Periods \ {Unset}]

ASSUME ControllerAssumption ==
  /\ None \notin Contents /\ None \notin Config
  /\ Unset \in Periods /\ Default \in Periods \ (Bad \cup {Unset})
  /\ MaxChanges \in Nat /\ MaxDrifts \in Nat /\ MaxFaults \in Nat

VARIABLES
  config,   \* the Config named "cluster" at the API server, or None
  cached,   \* the same in the informer's cache, from which Reconcile reads
  queued,   \* a request is in the work queue
  delayed,  \* a request waits to be put back, after an error
  worker,   \* where the only worker is in Reconcile
  instance, \* the copy of the Config it has read
  sync,     \* r.sync: the Config its Sync was built from, or None
  ticker,   \* where the goroutine of SyncPeriodic is
  tick,     \* t.C holds a tick
  cluster,  \* the content of the last successful pass, or None
  changes, drifts, faults

requests == <<queued, delayed>>
process  == <<requests, worker, instance, sync, ticker, tick>>
bounds   == <<changes, drifts, faults>>
vars     == <<config, cached, process, cluster, bounds>>

Fault == faults < MaxFaults /\ faults' = faults + 1 /\ UNCHANGED <<changes, drifts>>

(* A process that has just started. *)
NewProcess ==
  /\ cached' = None
  /\ queued' = FALSE /\ delayed' = FALSE
  /\ worker' = "idle" /\ instance' = None /\ sync' = None
  /\ ticker' = "none" /\ tick' = FALSE

------------------------------------------------------------------------------
(* Reconcile *)

(* Any outcome of Reconcile ends it; an error puts the request back later. *)
Ends(failed) ==
  /\ worker' = "idle"
  /\ instance' = None
  /\ delayed' = (delayed \/ failed)
  /\ UNCHANGED queued

BeginReconcile ==
  /\ worker = "idle" /\ queued
  /\ queued' = FALSE
  /\ worker' = "read"
  /\ UNCHANGED <<config, cached, delayed, instance, sync, ticker, tick, cluster, bounds>>

(* Mutant: the default is forgotten. *)
MutWithDefaults(c) == c

(* A Config that names no period gets the default one. *)
WithDefaults(c) == IF c.period = Unset THEN [c EXCEPT !.period = Default] ELSE c

(* Mutant: an error of the read is not returned. *)
MutReadConfig ==
  /\ worker = "read"
  /\ UNCHANGED <<config, cached, sync, ticker, tick, cluster>>
  /\ \/ Fault /\ Ends(FALSE)
     \/ cached = None /\ Ends(FALSE) /\ UNCHANGED bounds
     \/ /\ cached # None
        /\ instance' = WithDefaults(cached)
        /\ worker' = IF sync = None THEN "new" ELSE "pass"
        /\ UNCHANGED <<requests, bounds>>

(* No Config: nothing to do, and no retry. *)
ReadConfig ==
  /\ worker = "read"
  /\ UNCHANGED <<config, cached, sync, ticker, tick, cluster>>
  /\ \/ Fault /\ Ends(TRUE)
     \/ cached = None /\ Ends(FALSE) /\ UNCHANGED bounds
     \/ /\ cached # None
        /\ instance' = WithDefaults(cached)
        /\ worker' = IF sync = None THEN "new" ELSE "pass"
        /\ UNCHANGED <<requests, bounds>>

(* The first time: build the Sync, leave the first pass to SyncPeriodic. *)
NewSync ==
  /\ worker = "new"
  /\ \/ Fault /\ Ends(TRUE) /\ UNCHANGED <<sync, ticker>>
     \/ /\ sync' = instance
        /\ ticker' = "starting"
        /\ Ends(FALSE) /\ UNCHANGED bounds
  /\ UNCHANGED <<config, cached, tick, cluster>>

(* Later: a pass of the Sync there is, whatever the Config now says. *)
WorkerPass ==
  /\ worker = "pass"
  /\ \/ Fault /\ Ends(TRUE) /\ UNCHANGED cluster
     \/ cluster' = sync.content /\ Ends(FALSE) /\ UNCHANGED bounds
  /\ UNCHANGED <<config, cached, sync, ticker, tick>>

------------------------------------------------------------------------------
(* SyncPeriodic *)

(* time.NewTicker takes the process down for a period it does not like. *)
StartTicker ==
  /\ ticker = "starting"
  /\ IF sync.period \in Bad
       THEN NewProcess
       ELSE /\ ticker' = "pass"
            /\ UNCHANGED <<cached, requests, worker, instance, sync, tick>>
  /\ UNCHANGED <<config, cluster, bounds>>

(* An error of the pass is logged. *)
TickerPass ==
  /\ ticker = "pass"
  /\ ticker' = "wait"
  /\ \/ Fault /\ UNCHANGED cluster
     \/ cluster' = sync.content /\ UNCHANGED bounds
  /\ UNCHANGED <<config, cached, requests, worker, instance, sync, tick>>

(* The channel holds one tick; others are dropped. *)
Tick ==
  /\ ticker \in {"pass", "wait"} /\ ~tick
  /\ tick' = TRUE
  /\ UNCHANGED <<config, cached, requests, worker, instance, sync, ticker, cluster, bounds>>

(* Mutant: the loop ends after its first pass. *)
MutWake ==
  /\ ticker = "wait" /\ tick
  /\ tick' = FALSE
  /\ UNCHANGED <<config, cached, requests, worker, instance, sync, ticker, cluster, bounds>>

Wake ==
  /\ ticker = "wait" /\ tick
  /\ tick' = FALSE
  /\ ticker' = "pass"
  /\ UNCHANGED <<config, cached, requests, worker, instance, sync, cluster, bounds>>

------------------------------------------------------------------------------
(* The environment *)

(* The informer brings its cache up to date and enqueues a request. *)
Deliver ==
  /\ cached # config
  /\ cached' = config
  /\ queued' = TRUE
  /\ UNCHANGED <<config, delayed, worker, instance, sync, ticker, tick, cluster, bounds>>

(* Any other Config of the namespace, or a resync, enqueues one too. *)
Nudge ==
  /\ ~queued
  /\ queued' = TRUE
  /\ UNCHANGED <<config, cached, delayed, worker, instance, sync, ticker, tick, cluster, bounds>>

(* The rate limiter puts a request back. *)
Requeue ==
  /\ delayed
  /\ delayed' = FALSE /\ queued' = TRUE
  /\ UNCHANGED <<config, cached, worker, instance, sync, ticker, tick, cluster, bounds>>

CreateConfig ==
  /\ config = None
  /\ config' \in Config
  /\ UNCHANGED <<cached, process, cluster, bounds>>

ChangeConfig ==
  /\ config # None
  /\ changes < MaxChanges /\ changes' = changes + 1
  /\ config' \in (Config \cup {None}) \ {config}
  /\ UNCHANGED <<cached, process, cluster, drifts, faults>>

(* Another client changes what a pass has applied. *)
Drift ==
  /\ drifts < MaxDrifts /\ drifts' = drifts + 1
  /\ cluster # None /\ cluster' = None
  /\ UNCHANGED <<config, cached, process, changes, faults>>

Crash == Fault /\ NewProcess /\ UNCHANGED <<config, cluster>>

Init ==
  /\ config \in Config \cup {None}
  /\ cached = None
  /\ queued = FALSE /\ delayed = FALSE
  /\ worker = "idle" /\ instance = None /\ sync = None
  /\ ticker = "none" /\ tick = FALSE
  /\ cluster = None
  /\ changes = 0 /\ drifts = 0 /\ faults = 0

Reconcile == BeginReconcile \/ ReadConfig \/ NewSync \/ WorkerPass

SyncPeriodic == StartTicker \/ TickerPass \/ Wake

Next ==
  \/ Reconcile
  \/ SyncPeriodic
  \/ Tick \/ Deliver \/ Nudge \/ Requeue
  \/ CreateConfig \/ ChangeConfig \/ Drift \/ Crash

Spec == Init /\ [][Next]_vars

(* Both goroutines run, ticks come, the informer delivers, and the rate    *)
(* limiter's delay ends.                                                   *)
Fairness ==
  /\ WF_vars(Reconcile)
  /\ WF_vars(SyncPeriodic)
  /\ WF_vars(Tick) /\ WF_vars(Deliver) /\ WF_vars(Requeue)

FairSpec == Spec /\ Fairness

------------------------------------------------------------------------------
(* Properties *)

(* Types; New and SyncPeriodic are only ever given a Config with a period. *)
TypeOK ==
  /\ config \in Config \cup {None}
  /\ cached \in Config \cup {None}
  /\ queued \in BOOLEAN /\ delayed \in BOOLEAN
  /\ worker \in {"idle", "read", "new", "pass"}
  /\ instance \in Complete \cup {None}
  /\ sync \in Complete \cup {None}
  /\ ticker \in {"none", "starting", "pass", "wait"}
  /\ tick \in BOOLEAN
  /\ cluster \in Contents \cup {None}
  /\ changes \in 0..MaxChanges /\ drifts \in 0..MaxDrifts /\ faults \in 0..MaxFaults

(* No wake-up is lost: as long as there is a Config and no Sync, something *)
(* is under way that leads to another Reconcile, though Reconcile returns  *)
(* without an error when its cache has no Config yet.                      *)
NoLostWakeup ==
  config # None /\ sync = None =>
    \/ cached # config
    \/ queued \/ delayed
    \/ worker \in {"read", "new"}

(* "Reconcile reads that state of the cluster for a Config object and      *)
(* makes changes based on the state read and what is in the Config.Spec"   *)
(* (config_controller.go:76-77): in the end the cluster is and stays what  *)
(* the Config asks for.                                                    *)
FollowsConfig == <>[](config # None => cluster = config.content)

(* What the code keeps of that promise: it follows a Config that names a   *)
(* usable period and is never changed, from whenever it is created, over   *)
(* crashes, failed passes and the writes of other clients.                 *)
FollowsUnchangedConfig ==
  [](changes = 0 /\ (config # None => config.period \notin Bad)) => FollowsConfig
==============================================================================
