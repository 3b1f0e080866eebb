---------------------------- MODULE DesiredState -----------------------------
(***************************************************************************)
(* What the operator promises about the cluster, whatever its goroutines   *)
(* do between two API calls: the effects of write() and deleteOrphans()    *)
(* (pkg/sync/client.go) on the objects, seen from outside.                 *)
(***************************************************************************)
EXTENDS Naturals

CONSTANTS Keys, Specs, Addresses, NoAddress, None, StorageClasses, DB, Want

VARIABLES
  cluster,  \* the object stored under each key, or None
  edits     \* writes by other clients so far

vars == <<cluster, edits>>

Object == [spec : Specs, owned : BOOLEAN, address : Addresses \cup {NoAddress}]

InPlace(k) ==
  /\ cluster[k] # None
  /\ cluster[k].spec = Want[k]
  /\ cluster[k].owned

(* The operator brings an object of its database to the desired state.  An *)
(* object that exists keeps its address; one in place is left alone.       *)
Ensure(k) ==
  /\ ~InPlace(k)
  /\ \E a \in Addresses \cup {NoAddress} :
       /\ cluster[k] # None => a = cluster[k].address
       /\ cluster' = [cluster EXCEPT ![k] =
                        [spec |-> Want[k], owned |-> TRUE, address |-> a]]
  /\ UNCHANGED edits

(* It removes a StorageClass it is about to create again. *)
Recycle(k) ==
  /\ k \in StorageClasses
  /\ cluster[k] # None
  /\ cluster' = [cluster EXCEPT ![k] = None]
  /\ UNCHANGED edits

(* It removes an object that is not in its database. *)
Collect(k) ==
  /\ k \notin DB
  /\ cluster[k] # None
  /\ cluster' = [cluster EXCEPT ![k] = None]
  /\ UNCHANGED edits

(* Any other client changes one object. *)
Outsider(k) ==
  /\ \E v \in Object \cup {None} : cluster' = [cluster EXCEPT ![k] = v]
  /\ edits' = edits + 1

Init == cluster \in [Keys -> Object \cup {None}] /\ edits = 0

Next ==
  \/ \E k \in DB : Ensure(k) \/ Recycle(k)
  \/ \E k \in Keys : Collect(k) \/ Outsider(k)

Spec == Init /\ [][Next]_vars
==============================================================================
