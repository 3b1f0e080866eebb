-------------------------------- MODULE ReadDB -------------------------------
(***************************************************************************)
(* readDB() of pkg/sync/client.go: a goroutine for each embedded asset     *)
(* decodes it, leaves it out if the platform does not want it, fills in    *)
(* the configuration and puts it into s.store under s.storeLock; an        *)
(* errgroup waits for all of them and keeps the first error.  An object is *)
(* the asset it comes from: what translation makes of it is not told apart.*)
(***************************************************************************)
CONSTANTS
  Assets,      \* AssetNames()
  Keys,        \* keyFunc of their objects
  KeyOf,       \* the key of each asset
  Managed,     \* the assets that carry the api.openshift.com/managed label
  Platforms,   \* spellings of platforms, as strings.EqualFold tells them apart
  Fold,        \* the lower-case spelling of each
  PlatformOf,  \* the hive.openshift.io/cluster-platform label, or None
  None         \* no label, no platform, no asset

(* An asset may stand for an object on one platform and another asset for  *)
(* it on another, never both on one.                                       *)
ASSUME AssetAssumption ==
  /\ KeyOf \in [Assets -> Keys]
  /\ Managed \subseteq Assets
  /\ Fold \in [Platforms -> Platforms]
  /\ PlatformOf \in [Assets -> Platforms \cup {None}]
  /\ None \notin Assets /\ None \notin Platforms
  /\ \A a, b \in Managed :
       a # b /\ KeyOf[a] = KeyOf[b] =>
         /\ PlatformOf[a] # None /\ PlatformOf[b] # None
         /\ Fold[PlatformOf[a]] # Fold[PlatformOf[b]]

VARIABLES
  platform,        \* config.Spec.Platform, or None for the empty string
  undecodable,     \* the assets Asset or unmarshal fails for
  untranslatable,  \* those that decode, but translateAsset fails for
  pc,              \* where the goroutine of each asset is
  storeLock,       \* the asset whose goroutine holds it, or None
  store,           \* s.store
  err,             \* the errgroup's error: the asset it is about, or None
  outcome          \* what readDB has returned

vars == <<platform, undecodable, untranslatable, pc, storeLock, store, err, outcome>>
inputs == <<platform, undecodable, untranslatable>>

(* No label key: the object is for all clouds. *)
ValidatePlatform(a) ==
  /\ a \in Managed
  /\ PlatformOf[a] # None =>
       platform # None /\ Fold[platform] = Fold[PlatformOf[a]]

Kept == {a \in Assets : ValidatePlatform(a)}

(* An asset of another platform need not translate. *)
Failing == undecodable \cup (untranslatable \cap Kept)

------------------------------------------------------------------------------
(* The goroutines *)

Go(a) ==
  /\ pc[a] = "off"
  /\ pc' = [pc EXCEPT ![a] = "run"]
  /\ UNCHANGED <<inputs, storeLock, store, err, outcome>>

(* Mutant: translated before the platform is looked at. *)
MutPrepare(a) ==
  /\ pc[a] = "run"
  /\ pc' = [pc EXCEPT ![a] =
       IF a \in undecodable \cup untranslatable THEN "failed"
       ELSE IF a \notin Kept THEN "done" ELSE "lock"]
  /\ UNCHANGED <<inputs, storeLock, store, err, outcome>>

(* Everything before the lock: it touches nothing that is shared. *)
Prepare(a) ==
  /\ pc[a] = "run"
  /\ pc' = [pc EXCEPT ![a] =
       IF a \in Failing THEN "failed"
       ELSE IF a \notin Kept THEN "done" ELSE "lock"]
  /\ UNCHANGED <<inputs, storeLock, store, err, outcome>>

Lock(a) ==
  /\ pc[a] = "lock" /\ storeLock = None
  /\ storeLock' = a
  /\ pc' = [pc EXCEPT ![a] = "insert"]
  /\ UNCHANGED <<inputs, store, err, outcome>>

(* Mutant: the lock is not given back. *)
MutInsert(a) ==
  /\ pc[a] = "insert"
  /\ store' = [store EXCEPT ![KeyOf[a]] = a]
  /\ pc' = [pc EXCEPT ![a] = "done"]
  /\ UNCHANGED <<inputs, storeLock, err, outcome>>

Insert(a) ==
  /\ pc[a] = "insert"
  /\ store' = [store EXCEPT ![KeyOf[a]] = a]
  /\ storeLock' = None
  /\ pc' = [pc EXCEPT ![a] = "done"]
  /\ UNCHANGED <<inputs, err, outcome>>

(* errOnce: only the first error is kept. *)
Report(a) ==
  /\ pc[a] = "failed"
  /\ err' = IF err = None THEN a ELSE err
  /\ pc' = [pc EXCEPT ![a] = "done"]
  /\ UNCHANGED <<inputs, storeLock, store, outcome>>

(* Mutant: the first error cuts the wait short. *)
MutWait ==
  /\ outcome = "running"
  /\ err # None \/ \A a \in Assets : pc[a] = "done"
  /\ outcome' = IF err = None THEN "ready" ELSE "failed"
  /\ UNCHANGED <<inputs, pc, storeLock, store, err>>

(* g.Wait(), for all goroutines even after an error. *)
Wait ==
  /\ outcome = "running"
  /\ \A a \in Assets : pc[a] = "done"
  /\ outcome' = IF err = None THEN "ready" ELSE "failed"
  /\ UNCHANGED <<inputs, pc, storeLock, store, err>>

Goroutine(a) == Prepare(a) \/ Lock(a) \/ Insert(a) \/ Report(a)

Init ==
  /\ platform \in Platforms \cup {None}
  /\ undecodable \in SUBSET Assets /\ untranslatable \in SUBSET Assets
  /\ undecodable \cap untranslatable = {}
  /\ pc = [a \in Assets |-> "off"]
  /\ storeLock = None
  /\ store = [k \in Keys |-> None]
  /\ err = None
  /\ outcome = "running"

Next ==
  \/ \E a \in Assets : Go(a) \/ Goroutine(a)
  \/ Wait
  \/ outcome # "running" /\ UNCHANGED vars

Spec == Init /\ [][Next]_vars

(* The loop goes on, goroutines are scheduled, and a lock that is free     *)
(* again and again is given to whoever waits (sync.Mutex is starvation-    *)
(* free).                                                                  *)
Fairness ==
  /\ \A a \in Assets :
       /\ WF_vars(Go(a) \/ Prepare(a) \/ Insert(a) \/ Report(a))
       /\ SF_vars(Lock(a))
  /\ WF_vars(Wait)

FairSpec == Spec /\ Fairness

------------------------------------------------------------------------------
(* Properties *)

(* Types; and s.storeLock is held by the goroutine that writes s.store, if *)
(* there is one (client.go:137-141).                                       *)
TypeOK ==
  /\ platform \in Platforms \cup {None}
  /\ undecodable \subseteq Assets /\ untranslatable \subseteq Assets
  /\ pc \in [Assets -> {"off", "run", "lock", "insert", "failed", "done"}]
  /\ storeLock \in Assets \cup {None}
  /\ store \in [Keys -> Assets \cup {None}]
  /\ err \in Assets \cup {None}
  /\ outcome \in {"running", "failed", "ready"}
  /\ \A a \in Assets : pc[a] = "insert" <=> storeLock = a

(* s.store is a plain map: two goroutines never write it at once, and when *)
(* readDB has returned none is left that would write it while passes read  *)
(* it without the lock (client.go:78 and 208).                             *)
NoMapRace ==
  /\ \A a, b \in Assets : pc[a] = "insert" /\ pc[b] = "insert" => a = b
  /\ outcome # "running" => \A a \in Assets : pc[a] = "done"

(* readDB returns: no goroutine waits for ever (client.go:146). *)
Returns == <>(outcome # "running")

Published == IF outcome = "ready" THEN store ELSE [k \in Keys |-> None]

AbstractStore == INSTANCE StoreOfAssets
  WITH kept <- Kept, failing <- Failing, published <- Published

(* Whatever the order of the goroutines, the caller sees one step: an      *)
(* error exactly if an asset this platform applies cannot be read, and     *)
(* otherwise the store the assets determine (client.go:107-152).           *)
RefinesStoreOfAssets == AbstractStore!Spec
==============================================================================
