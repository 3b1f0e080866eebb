------------------------------- MODULE MCSync --------------------------------
(* Instances of Sync for TLC. *)
EXTENDS Sync, TLC

CONSTANTS crd, ns, cr, orphan, another, absent, stuck, old, new, w1, w2

(* A custom resource in a namespace, the definition of its kind, and an    *)
(* object an earlier version of the operator left behind.                  *)
SomeKinds == {"CustomResourceDefinition", "Namespace", "Widget", "ConfigMap",
              "Project"}
SomeKindOf == (crd :> "CustomResourceDefinition") @@ (ns :> "Namespace")
                @@ (cr :> "Widget") @@ (orphan :> "ConfigMap")
SomeRank == (cr :> 1) @@ (crd :> 2) @@ (ns :> 3) @@ (orphan :> 4)
SomeNamespaceOf == [k \in {crd, ns, cr, orphan} |-> IF k = cr THEN ns ELSE None]
SomeDefinedBy == [g \in SomeKinds |-> IF g = "Widget" THEN crd ELSE None]
SomeBacking == [g \in SomeKinds |-> IF g = "Project" THEN "Namespace" ELSE g]
SomeWant == [k \in {crd, ns, cr} |-> new]

(* A Secret in a namespace that other clients have made, make later or     *)
(* never make, between the foundations and a custom resource.              *)
StuckKeys == {crd, ns, cr, stuck, absent, orphan, another}
StuckKinds == (SomeKinds \ {"Project"}) \cup {"Secret"}
StuckKindOf == (crd :> "CustomResourceDefinition") @@ (cr :> "Widget") @@ (stuck :> "Secret")
                 @@ (ns :> "Namespace") @@ (absent :> "Namespace")
                 @@ (orphan :> "ConfigMap") @@ (another :> "ConfigMap")
StuckRank == (cr :> 1) @@ (crd :> 2) @@ (stuck :> 3) @@ (absent :> 4) @@ (orphan :> 5)
               @@ (ns :> 6) @@ (another :> 7)
StuckNamespaceOf == (stuck :> absent) @@ (cr :> ns) @@ [k \in StuckKeys |-> None]
StuckDefinedBy == [g \in StuckKinds |-> IF g = "Widget" THEN crd ELSE None]
StuckBacking == [g \in StuckKinds |-> g]
StuckWant == [k \in {crd, ns, stuck, cr} |-> new]
(* Two kinds are listed, so that the orders of the lists stay few. *)
StuckListable == {"Namespace", "ConfigMap"}
(* What an earlier version left behind, in one kind: a collector that      *)
(* fails on one of the two leaves the other.                               *)
TwoOrphans == \A k \in {orphan, another} : objects[k] # None /\ objects[k].owned
NotOurs == objects[absent] # None => ~objects[absent].owned
StuckInit == SyncInit /\ TwoOrphans /\ NotOurs
StuckSpec == StuckInit /\ [][SyncNext]_vars /\ Fairness

(* Bound: a foreign write or a fault, not both. *)
OneTrouble == edits + faults <= 1

SyncerSymmetry == Permutations(Syncers)
==============================================================================
