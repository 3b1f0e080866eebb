------------------------------ MODULE ApiServer ------------------------------
(***************************************************************************)
(* The Kubernetes API server and everybody else who talks to it, as the    *)
(* operator sees them.  The server is not part of this repository: it is   *)
(* modelled from the replies pkg/sync/client.go distinguishes.             *)
(*                                                                         *)
(* An object is reduced to what the operator's decisions tell apart: its   *)
(* spec (everything it compares, after clean() and defaults()), the label  *)
(* managed.openshift.io/static-config-operator-owned, the clusterIP the    *)
(* server gives to a Service, and the resourceVersion.                     *)
(***************************************************************************)
EXTENDS Naturals

CONSTANTS
  Keys,            \* object identities: GroupKind/namespace/name
  Specs,           \* contents an object may have
  LoadBalancers,   \* those of a Service of type LoadBalancer
  Mixed,           \* a Service of another type with an externalTrafficPolicy
  Addresses,       \* clusterIPs the server hands out
  NoAddress,       \* the clusterIP of an object that has none
  None,            \* no object, no key, no manifest
  Services,        \* the keys of kind Service
  StorageClasses,  \* the keys whose updates the server forbids
  NamespaceOf,     \* the Namespace key of each key, or None
  Preexisting,     \* the keys that may exist before the operator starts
  Editable,        \* the keys other clients write to
  MaxEdits         \* bound: writes by other clients in one behaviour

ASSUME ServerAssumption ==
  /\ Services \subseteq Keys
  /\ StorageClasses \subseteq Keys
  /\ Services \cap StorageClasses = {}
  /\ LoadBalancers \subseteq Specs
  /\ Mixed \notin Specs
  /\ NamespaceOf \in [Keys -> Keys \cup {None}]
  /\ \A k \in StorageClasses : NamespaceOf[k] = None
  /\ Preexisting \subseteq Keys
  /\ Editable \subseteq Keys
  /\ MaxEdits \in Nat
  /\ NoAddress \notin Addresses

VARIABLES
  objects,    \* the object stored under each key, or None
  version,    \* how many times each key has been written (etcd's revision)
  edits,      \* writes by other clients so far
  disturbed   \* the keys other clients have written to

serverVars == <<objects, version, edits, disturbed>>

(* An object at the server, and a draft a client sends: rv = 0 is a draft  *)
(* without a resourceVersion.                                              *)
Manifest == [spec : Specs, owned : BOOLEAN,
             address : Addresses \cup {NoAddress}, rv : Nat]
Draft == [spec : Specs \cup {Mixed}, owned : BOOLEAN,
          address : Addresses \cup {NoAddress}, rv : Nat]

ASSUME NoneAssumption == None \notin Draft /\ None \notin Keys

(* The clusterIPs the server may store for manifest m: a Service gets one  *)
(* if the client left it open.                                             *)
AddressesFor(k, m) ==
  CASE k \notin Services -> {NoAddress}
    [] k \in Services /\ m.address = NoAddress -> Addresses
    [] OTHER -> {m.address}

NamespaceReady(k) ==
  NamespaceOf[k] # None => objects[NamespaceOf[k]] # None

------------------------------------------------------------------------------
(* Replies.  The operator tells NotFound, AlreadyExists, Conflict and the  *)
(* "updates to parameters are forbidden" text apart; anything else is an   *)
(* error it returns: here Invalid is a changed clusterIP and Unsupported   *)
(* an externalTrafficPolicy on a Service that is not exposed.              *)

CreateReply(k, m) ==
  CASE ~NamespaceReady(k)                       -> "NoNamespace"
    [] NamespaceReady(k) /\ m.spec = Mixed      -> "Unsupported"
    [] NamespaceReady(k) /\ m.spec # Mixed
         /\ m.rv # 0                            -> "BadRequest"
    [] NamespaceReady(k) /\ m.spec # Mixed
         /\ m.rv = 0 /\ objects[k] # None       -> "AlreadyExists"
    [] OTHER                                    -> "OK"

UpdateReply(k, m) ==
  CASE objects[k] = None                        -> "NotFound"
    [] objects[k] # None /\ objects[k].rv # m.rv -> "Conflict"
    [] objects[k] # None /\ objects[k].rv = m.rv
         /\ objects[k].address # m.address      -> "Invalid"
    [] objects[k] # None /\ objects[k].rv = m.rv
         /\ objects[k].address = m.address
         /\ m.spec = Mixed                      -> "Unsupported"
    [] objects[k] # None /\ objects[k].rv = m.rv
         /\ objects[k].address = m.address
         /\ m.spec # Mixed
         /\ k \in StorageClasses
         /\ objects[k].spec # m.spec            -> "Forbidden"
    [] OTHER                                    -> "OK"

DeleteReply(k) == IF objects[k] = None THEN "NotFound" ELSE "OK"

------------------------------------------------------------------------------
(* Effects.  Every write that changes an object gives it a fresh version.  *)

Store(k, m, a) ==
  /\ objects' = [objects EXCEPT ![k] =
                   [spec |-> m.spec, owned |-> m.owned,
                    address |-> a, rv |-> version[k] + 1]]
  /\ version' = [version EXCEPT ![k] = @ + 1]

(* An update that changes nothing keeps the version. *)
Replace(k, m) ==
  IF m = objects[k] THEN UNCHANGED <<objects, version>>
                    ELSE Store(k, m, m.address)

Remove(k) ==
  /\ objects' = [objects EXCEPT ![k] = None]
  /\ version' = [version EXCEPT ![k] = @ + 1]

------------------------------------------------------------------------------
(* Other clients: users, controllers, another version of the operator.     *)

OutsiderWrites(k) ==
  \E s \in Specs, b \in BOOLEAN :
    LET live == objects[k]
        m    == [spec |-> s, owned |-> b, rv |-> 0, address |->
                   IF live = None THEN NoAddress ELSE live.address]
    IN /\ live = None => NamespaceReady(k)
       /\ live # None => live.spec # s \/ live.owned # b
       /\ \E a \in AddressesFor(k, m) : Store(k, m, a)

OutsiderDeletes(k) == objects[k] # None /\ Remove(k)

Outsider(k) ==
  /\ edits < MaxEdits
  /\ k \in Editable
  /\ edits' = edits + 1
  /\ disturbed' = disturbed \cup {k}
  /\ OutsiderWrites(k) \/ OutsiderDeletes(k)

ServerInit ==
  /\ objects \in [Keys -> {None} \cup
                  [spec : Specs, owned : BOOLEAN, rv : {1},
                   address : Addresses \cup {NoAddress}]]
  /\ \A k \in Keys : objects[k] # None =>
       /\ k \in Preexisting
       /\ (objects[k].address = NoAddress) <=> (k \notin Services)
  /\ version = [k \in Keys |-> 1]
  /\ edits = 0
  /\ disturbed = {}

ServerTypeOK ==
  /\ objects \in [Keys -> Manifest \cup {None}]
  /\ version \in [Keys -> Nat]
  /\ edits \in 0..MaxEdits
  /\ disturbed \subseteq Keys
==============================================================================
