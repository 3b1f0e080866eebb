---------------------------- MODULE MCWriteObject ----------------------------
(* Instances of WriteObject for TLC. *)
EXTENDS WriteObject, TLC

CONSTANTS ns, svc, sc, old, new, lb

(* A Service in a Namespace that other clients may remove. *)
ServiceNamespace == (ns :> None) @@ (svc :> ns)
ServiceWant == (ns :> new) @@ (svc :> new)

(* A StorageClass beside a Service, in no namespace. *)
NoNamespaces == (sc :> None) @@ (svc :> None)
ClassWant == (sc :> new) @@ (svc :> new)

SyncerSymmetry == Permutations(Syncers)
==============================================================================
