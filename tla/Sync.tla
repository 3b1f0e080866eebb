-------------------------------- MODULE Sync ---------------------------------
(***************************************************************************)
(* Sync() of pkg/sync/sync.go and deleteOrphans() of pkg/sync/client.go:   *)
(* whole passes over the database, run by SyncPeriodic and by Reconcile at *)
(* the same time on one Sync value, whose grs field they share unguarded.  *)
(***************************************************************************)
EXTENDS WriteObject

CONSTANTS
  Kinds,      \* GroupKinds, named as in filter.go; others are model values
  KindOf,     \* the kind of each key
  Rank,       \* the place of each key in sort.Strings
  DefinedBy,  \* the CustomResourceDefinition of each kind, or None
  Backing,    \* the kind whose objects a list of this kind returns
  Doubles,    \* the kinds isDouble() skips
  Listable,   \* the kinds with the "list" verb
  Flaky,      \* the kinds whose group discovery may miss
  Periodic    \* the goroutine of SyncPeriodic

ASSUME SyncAssumption ==
  /\ KindOf \in [Keys -> Kinds]
  /\ Rank \in [Keys -> Nat]
  /\ \A j, k \in Keys : Rank[j] = Rank[k] => j = k
  /\ DefinedBy \in [Kinds -> (DB \ Editable) \cup {None}]
  /\ Backing \in [Kinds -> Kinds]
  /\ \A g \in Kinds : Backing[g] # g => g \in Doubles
  /\ Flaky \subseteq Kinds
  /\ Periodic \in Syncers
  /\ StorageClasses = {k \in Keys : KindOf[k] = "StorageClass"}
  /\ Services = {k \in Keys : KindOf[k] = "Service"}
  /\ \A k \in Keys : NamespaceOf[k] # None =>
       /\ KindOf[NamespaceOf[k]] = "Namespace"
       /\ KindOf[k] \notin {"CustomResourceDefinition", "Namespace"}

VARIABLES
  stage,     \* how far each pass is
  todo,      \* the keys it has still to write
  snapshot,  \* what its discovery returned
  unlisted,  \* the kinds deleteOrphans has still to list
  doomed,    \* the listed objects it has still to delete
  grs,       \* s.grs: the kinds the shared snapshot holds
  served     \* the kinds the API server serves

passVars == <<stage, todo, snapshot, unlisted, doomed>>
vars == <<writeVars, passVars, grs, served>>

(* Mutant: namespaces have no phase of their own. *)
MutPhaseOf(k) ==
  CASE KindOf[k] = "CustomResourceDefinition" -> 1
    [] KindOf[k] = "ServiceAccount"           -> 3
    [] KindOf[k] \in {"Secret", "ConfigMap"}  -> 4
    [] KindOf[k] = "StorageClass"             -> 5
    [] OTHER                                  -> 6

(* Mutant: definitions have no phase of their own. *)
MutPhaseOfDefinitions(k) ==
  CASE KindOf[k] = "Namespace"                -> 2
    [] KindOf[k] = "ServiceAccount"           -> 3
    [] KindOf[k] \in {"Secret", "ConfigMap"}  -> 4
    [] KindOf[k] = "StorageClass"             -> 5
    [] OTHER                                  -> 6

(* The filters, in the order Sync applies them. *)
PhaseOf(k) ==
  CASE KindOf[k] = "CustomResourceDefinition" -> 1
    [] KindOf[k] = "Namespace"                -> 2
    [] KindOf[k] = "ServiceAccount"           -> 3
    [] KindOf[k] \in {"Secret", "ConfigMap"}  -> 4
    [] KindOf[k] = "StorageClass"             -> 5
    [] OTHER                                  -> 6

Before(j, k) ==
  \/ PhaseOf(j) < PhaseOf(k)
  \/ PhaseOf(j) = PhaseOf(k) /\ Rank[j] < Rank[k]

(* What is left to write before, or after, the client is refreshed. *)
Due(w) ==
  CASE stage[w] = "early" -> {k \in todo[w] : PhaseOf(k) <= 5}
    [] stage[w] = "late"  -> todo[w]
    [] OTHER              -> {}

NextKey(w) == CHOOSE k \in Due(w) : \A j \in Due(w) \ {k} : Before(k, j)

EndPass(w) ==
  /\ stage' = [stage EXCEPT ![w] = "rest"]
  /\ todo' = [todo EXCEPT ![w] = {}]
  /\ snapshot' = [snapshot EXCEPT ![w] = {}]
  /\ unlisted' = [unlisted EXCEPT ![w] = {}]
  /\ doomed' = [doomed EXCEPT ![w] = {}]

Fault == faults < MaxFaults /\ faults' = faults + 1

------------------------------------------------------------------------------
(* Applying the resources *)

StartPass(w) ==
  /\ stage[w] = "rest"
  /\ stage' = [stage EXCEPT ![w] = "early"]
  /\ todo' = [todo EXCEPT ![w] = DB]
  /\ UNCHANGED <<writeVars, snapshot, unlisted, doomed, grs, served>>

Apply(w) ==
  /\ Due(w) # {}
  /\ BeginWrite(w, NextKey(w), KindOf[NextKey(w)] \in grs)
  /\ UNCHANGED <<passVars, grs, served>>

(* Mutant: the error of a write is only logged. *)
MutApplied(w) ==
  /\ Return(w)
  /\ todo' = [todo EXCEPT ![w] = @ \ {key[w]}]
  /\ UNCHANGED <<stage, snapshot, unlisted, doomed, grs, served>>

(* The first error ends the pass. *)
Applied(w) ==
  /\ Return(w)
  /\ \/ /\ err[w] = "nil"
        /\ todo' = [todo EXCEPT ![w] = @ \ {key[w]}]
        /\ UNCHANGED <<stage, snapshot, unlisted, doomed>>
     \/ err[w] # "nil" /\ EndPass(w)
  /\ UNCHANGED <<grs, served>>

(* A lookup in s.grs while another pass assigns it: the slice may be torn  *)
(* and lack the kind.                                                      *)
TornLookup(w) ==
  /\ pc[w] = "idle" /\ Due(w) # {}
  /\ \E v \in Syncers \ {w} : stage[v] = "assign"
  /\ Fault /\ EndPass(w)
  /\ UNCHANGED <<serverVars, callVars, grs, served>>

------------------------------------------------------------------------------
(* updateDynamicClient *)

(* Mutant: what has just been defined is taken for served. *)
MutDiscovered(lost) == Kinds \ lost

(* GetAPIGroupResources swallows the failure of single groups. *)
Discovered(lost) == served \ lost

Discover(w) ==
  /\ stage[w] = "early" /\ Due(w) = {}
  /\ \/ /\ \E lost \in SUBSET Flaky :
             /\ snapshot' = [snapshot EXCEPT ![w] = Discovered(lost)]
             /\ IF lost = {} THEN UNCHANGED faults ELSE Fault
        /\ stage' = [stage EXCEPT ![w] = "assign"]
        /\ UNCHANGED <<todo, unlisted, doomed>>
     \/ Fault /\ EndPass(w)
  /\ UNCHANGED <<serverVars, callVars, grs, served>>

(* Mutant: the new resources are not stored. *)
MutAssign(w) ==
  /\ stage[w] = "assign"
  /\ stage' = [stage EXCEPT ![w] = "late"]
  /\ UNCHANGED <<writeVars, todo, snapshot, unlisted, doomed, grs, served>>

Assign(w) ==
  /\ stage[w] = "assign"
  /\ grs' = snapshot[w]
  /\ stage' = [stage EXCEPT ![w] = "late"]
  /\ UNCHANGED <<writeVars, todo, snapshot, unlisted, doomed, served>>

------------------------------------------------------------------------------
(* deleteOrphans *)

(* Mutant: the kinds of isDouble() are not skipped. *)
MutCollectable(g) == g \in Listable /\ g # "Endpoints"

(* Mutant: the test of the "list" verb is inverted. *)
MutCollectableVerb(g) == g \notin Listable \cup Doubles /\ g # "Endpoints"

Collectable(g) == g \in Listable \ Doubles /\ g # "Endpoints"

(* The loop reads s.grs once: as it is, or torn by another pass. *)
StartCollect(w) ==
  /\ stage[w] = "late" /\ Due(w) = {}
  /\ \/ /\ unlisted' = [unlisted EXCEPT ![w] = {g \in grs : Collectable(g)}]
        /\ UNCHANGED faults
     \/ /\ \E v \in Syncers \ {w} : stage[v] = "assign"
        /\ Fault
        /\ \E part \in SUBSET grs :
             unlisted' = [unlisted EXCEPT ![w] = {g \in part : Collectable(g)}]
  /\ stage' = [stage EXCEPT ![w] = "collect"]
  /\ UNCHANGED <<serverVars, callVars, todo, snapshot, doomed, grs, served>>

(* Mutant: the test of the database is inverted. *)
MutOrphans(g) ==
  {k \in Keys : /\ KindOf[k] = Backing[g]
                /\ objects[k] # None
                /\ objects[k].owned
                /\ g = KindOf[k] /\ k \in DB}

(* The objects a list of kind g returns that carry the label and whose     *)
(* identity, as an object of kind g, is not in the database.               *)
Orphans(g) ==
  {k \in Keys : /\ KindOf[k] = Backing[g]
                /\ objects[k] # None
                /\ objects[k].owned
                /\ ~(g = KindOf[k] /\ k \in DB)}

List(w) ==
  /\ stage[w] = "collect" /\ doomed[w] = {}
  /\ \/ /\ \E g \in unlisted[w] :
             /\ unlisted' = [unlisted EXCEPT ![w] = @ \ {g}]
             /\ doomed' = [doomed EXCEPT ![w] = Orphans(g)]
        /\ UNCHANGED <<faults, stage, todo, snapshot>>
     \/ unlisted[w] # {} /\ Fault /\ EndPass(w)
  /\ UNCHANGED <<serverVars, callVars, grs, served>>

(* Any error ends the pass, NotFound included. *)
DeleteOrphan(w) ==
  /\ stage[w] = "collect"
  /\ \E k \in doomed[w] :
       \/ /\ DeleteReply(k) = "OK" /\ Remove(k)
          /\ \/ /\ doomed' = [doomed EXCEPT ![w] = @ \ {k}]
                /\ UNCHANGED <<faults, stage, todo, snapshot, unlisted>>
             \/ Fault /\ EndPass(w)
       \/ /\ DeleteReply(k) = "NotFound" /\ UNCHANGED <<objects, version>>
          /\ UNCHANGED faults /\ EndPass(w)
       \/ Fault /\ EndPass(w) /\ UNCHANGED <<objects, version>>
  /\ UNCHANGED <<edits, disturbed, callVars, grs, served>>

Complete(w) ==
  /\ stage[w] = "collect" /\ unlisted[w] = {} /\ doomed[w] = {}
  /\ EndPass(w)
  /\ UNCHANGED <<writeVars, grs, served>>

------------------------------------------------------------------------------
(* The environment *)

(* The API server starts to serve a kind some time after its definition.   *)
Establish(g) ==
  /\ g \notin served
  /\ DefinedBy[g] # None /\ objects[DefinedBy[g]] # None
  /\ served' = served \cup {g}
  /\ UNCHANGED <<writeVars, passVars, grs>>

(* The process dies; the next one reads the API groups in New(). *)
Restart ==
  /\ \E w \in Syncers : stage[w] # "rest"
  /\ Forget
  /\ \E lost \in SUBSET Flaky :
       /\ grs' = served \ lost
       /\ faults' = faults + (IF lost = {} THEN 1 ELSE 2)
  /\ faults' <= MaxFaults
  /\ stage' = [w \in Syncers |-> "rest"]
  /\ todo' = [w \in Syncers |-> {}]
  /\ snapshot' = [w \in Syncers |-> {}]
  /\ unlisted' = [w \in Syncers |-> {}]
  /\ doomed' = [w \in Syncers |-> {}]
  /\ UNCHANGED <<serverVars, served>>

Others(k) == Outsider(k) /\ UNCHANGED <<callVars, faults, passVars, grs, served>>

SyncInit ==
  /\ ServerInit /\ Idle
  /\ served = {g \in Kinds :
                 DefinedBy[g] # None => objects[DefinedBy[g]] # None}
  /\ \E lost \in SUBSET Flaky :
       /\ grs = served \ lost
       /\ faults = IF lost = {} THEN 0 ELSE 1
  /\ faults <= MaxFaults
  /\ stage = [w \in Syncers |-> "rest"]
  /\ todo = [w \in Syncers |-> {}]
  /\ snapshot = [w \in Syncers |-> {}]
  /\ unlisted = [w \in Syncers |-> {}]
  /\ doomed = [w \in Syncers |-> {}]

(* What the goroutine of a pass does once the pass has begun. *)
PassStep(w) ==
  \/ Apply(w) \/ Applied(w) \/ TornLookup(w)
  \/ (Call(w) \/ CallFails(w)) /\ UNCHANGED <<passVars, grs, served>>
  \/ Discover(w) \/ Assign(w)
  \/ StartCollect(w) \/ List(w) \/ DeleteOrphan(w) \/ Complete(w)

SyncNext ==
  \/ \E w \in Syncers : StartPass(w) \/ PassStep(w)
  \/ Restart
  \/ \E g \in Kinds : Establish(g)
  \/ \E k \in Keys : Others(k)

SyncSpec == SyncInit /\ [][SyncNext]_vars

(* A pass that has begun goes on, SyncPeriodic begins another at every     *)
(* tick, and the API server establishes the kinds it is given.  Nothing    *)
(* makes Reconcile begin a pass.                                           *)
Fairness ==
  /\ \A w \in Syncers : WF_vars(PassStep(w))
  /\ WF_vars(StartPass(Periodic))
  /\ \A g \in Kinds : WF_vars(Establish(g))

FairSpec == SyncSpec /\ Fairness

------------------------------------------------------------------------------
(* Properties *)

PassTypeOK ==
  /\ TypeOK
  /\ stage \in [Syncers -> {"rest", "early", "assign", "late", "collect"}]
  /\ todo \in [Syncers -> SUBSET DB]
  /\ snapshot \in [Syncers -> SUBSET Kinds]
  /\ unlisted \in [Syncers -> SUBSET Kinds]
  /\ doomed \in [Syncers -> SUBSET Keys]
  /\ grs \subseteq served /\ served \subseteq Kinds

(* "namespaces must exist before namespaced objects" (sync.go:144): a pass *)
(* fails for want of a namespace of the database only if another client    *)
(* has touched that namespace.                                             *)
NamespacesLandFirst ==
  \A w \in Syncers :
    err[w] = "NoNamespace" /\ NamespaceOf[key[w]] \in DB
      => NamespaceOf[key[w]] \in disturbed

(* Orphans are collected only once everything that may replace them is in  *)
(* place: while any pass is in deleteOrphans, every object of the database *)
(* is in its desired state, unless another client touched it (or it is a   *)
(* StorageClass, which another pass may just be re-creating).              *)
CollectsLast ==
  \A w \in Syncers : stage[w] = "collect" =>
    \A k \in DB \ (StorageClasses \cup disturbed) : Matched(k)

(* The kinds whose orphans are promised to go: Endpoints carry the labels  *)
(* of their Service, and go with it.                                       *)
Collected == Listable \ (Doubles \cup {"Endpoints"})

(* A pass about to complete has left no orphan of a kind the API server    *)
(* always serves, unless another client made it or discovery was partial.  *)
CompletedPassCollected ==
  \A w \in Syncers :
    stage[w] = "collect" /\ unlisted[w] = {} /\ doomed[w] = {} /\ faults = 0 =>
      \A k \in Keys \ (DB \cup disturbed) :
        KindOf[k] \in Collected /\ DefinedBy[KindOf[k]] = None
          => objects[k] = None \/ ~objects[k].owned

(* "looks for the annotation, if found and object not in current db,       *)
(* remove it" (client.go:24-25): what deleteOrphans removes carries the    *)
(* label.                                                                  *)
CollectorRespectsLabel ==
  [][\A w \in Syncers, k \in Keys :
       DeleteOrphan(w) /\ objects[k] # None /\ objects'[k] = None
         => objects[k].owned]_vars

(* The namespaces that the database relies on and does not hold. *)
ForeignNamespaces == {NamespaceOf[k] : k \in DB} \ (DB \cup {None})
NothingStuck == \A n \in ForeignNamespaces : objects[n] # None

(* Once the other clients and the faults stop, the whole database gets to  *)
(* its desired state and stays there, if the namespaces it relies on and   *)
(* does not hold are there to stay.                                        *)
Converges == <>[]NothingStuck => <>[](\A k \in DB : Matched(k))

(* An object that can never be written, as its namespace is never made,    *)
(* ends every pass where it stands (client.go:214), but it does not keep   *)
(* the definitions and namespaces from their desired state: they come      *)
(* first, whatever their names.                                            *)
FoundationsConverge ==
  <>[](\A k \in DB : KindOf[k] \in {"CustomResourceDefinition", "Namespace"} => Matched(k))

(* Once they stop, every labelled object that is not in the database goes, *)
(* on the same condition.                                                  *)
OrphansCollected ==
  <>[]NothingStuck =>
    <>[](\A k \in Keys \ DB :
           KindOf[k] \in Collected
             => objects[k] = None \/ ~objects[k].owned)
==============================================================================
