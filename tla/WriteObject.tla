----------------------------- MODULE WriteObject -----------------------------
(***************************************************************************)
(* write() of pkg/sync/client.go: one object brought to its desired state, *)
(* one action per API call, run by several goroutines at once (SyncPeriodic*)
(* and Reconcile share one Sync and nothing serialises them).              *)
(***************************************************************************)
EXTENDS ApiServer

CONSTANTS
  Syncers,      \* the goroutines that call write()
  DB,           \* the keys of s.store
  Want,         \* the desired spec of each key of the database
  MaxAttempts,  \* retry.DefaultRetry.Steps: 5 in the code
  MaxFaults     \* bound: failed calls, lost replies and crashes

ASSUME WriteAssumption ==
  /\ DB \subseteq Keys
  /\ Want \in [DB -> Specs]
  /\ \A k \in DB : Want[k] \notin LoadBalancers
  /\ MaxAttempts \in Nat /\ MaxAttempts >= 2
  /\ MaxFaults \in Nat

VARIABLES
  pc,        \* the next API call of each goroutine's write()
  key,       \* the object it writes
  o,         \* its deep copy of the stored object: survives the retries
  attempts,  \* conflicts so far
  err,       \* what write() returns
  faults     \* faults so far

callVars == <<pc, key, o, attempts, err>>
writeVars == <<serverVars, callVars, faults>>

CallSteps == {"get", "create", "update", "delete", "recreate"}

Errors == {"nil", "NoKind", "NoNamespace", "BadRequest", "AlreadyExists", "Conflict",
           "NotFound", "Invalid", "Unsupported", "Fault"}

Idle == /\ pc       = [w \in Syncers |-> "idle"]
        /\ key      = [w \in Syncers |-> None]
        /\ o        = [w \in Syncers |-> None]
        /\ attempts = [w \in Syncers |-> 0]
        /\ err      = [w \in Syncers |-> "nil"]

------------------------------------------------------------------------------
(* Steps inside write() *)

(* The stored object: no label, no resourceVersion, no clusterIP. *)
Stored(k) ==
  [spec |-> Want[k], owned |-> FALSE, address |-> NoAddress, rv |-> 0]

(* Mutant: the clusterIP is not copied. *)
MutHandleSpecial(k, live, m) == m

(* handleSpecialObjects: a Service keeps its clusterIP, and a LoadBalancer *)
(* hands its ports and externalTrafficPolicy to a draft that is not one.   *)
HandleSpecial(k, live, m) ==
  IF k \in Services
    THEN [m EXCEPT !.address = live.address,
                   !.spec = IF live.spec \in LoadBalancers THEN Mixed ELSE @]
    ELSE m

MarkOwned(m) == [m EXCEPT !.owned = TRUE]

(* Mutant: only the specs are compared. *)
MutNeedsUpdate(live, m) == live.spec # m.spec

(* reflect.DeepEqual of the cleaned live object and the draft: clean()     *)
(* strips the live object's resourceVersion, nothing strips the draft's,   *)
(* so a draft that was sent once before always differs.                    *)
NeedsUpdate(live, m) == [live EXCEPT !.rv = 0] # m

Goto(w, s) == pc' = [pc EXCEPT ![w] = s] /\ UNCHANGED <<key, attempts, err>>

Finish(w, e) ==
  /\ pc' = [pc EXCEPT ![w] = "done"]
  /\ err' = [err EXCEPT ![w] = e]
  /\ UNCHANGED <<key, attempts>>

(* Mutant: gives up one attempt early. *)
MutRetryEarly(w) ==
  /\ attempts' = [attempts EXCEPT ![w] = @ + 1]
  /\ UNCHANGED key
  /\ IF attempts[w] + 2 < MaxAttempts
       THEN pc' = [pc EXCEPT ![w] = "get"] /\ UNCHANGED err
       ELSE /\ pc' = [pc EXCEPT ![w] = "done"]
            /\ err' = [err EXCEPT ![w] = "Conflict"]

(* A Conflict goes back to Get, until the attempts are used up. *)
Retry(w) ==
  /\ attempts' = [attempts EXCEPT ![w] = @ + 1]
  /\ UNCHANGED key
  /\ IF attempts[w] + 1 < MaxAttempts
       THEN pc' = [pc EXCEPT ![w] = "get"] /\ UNCHANGED err
       ELSE /\ pc' = [pc EXCEPT ![w] = "done"]
            /\ err' = [err EXCEPT ![w] = "Conflict"]

(* A call that took effect: the goroutine goes on at s, or the reply is    *)
(* lost and write() returns the error of the connection.                   *)
Answered(w, s) ==
  \/ s # "done" /\ Goto(w, s) /\ UNCHANGED faults
  \/ s = "done" /\ Finish(w, "nil") /\ UNCHANGED faults
  \/ faults < MaxFaults /\ faults' = faults + 1 /\ Finish(w, "Fault")

(* served: the discovery snapshot s.grs holds the object's kind. *)
BeginWrite(w, k, served) ==
  /\ pc[w] = "idle"
  /\ key' = [key EXCEPT ![w] = k]
  /\ o' = [o EXCEPT ![w] = Stored(k)]
  /\ pc' = [pc EXCEPT ![w] = IF served THEN "get" ELSE "done"]
  /\ err' = [err EXCEPT ![w] = IF served THEN "nil" ELSE "NoKind"]
  /\ UNCHANGED <<serverVars, attempts, faults>>

Get(w) ==
  LET k     == key[w]
      live  == objects[k]
      draft == MarkOwned(o[w])
  IN /\ pc[w] = "get"
     /\ UNCHANGED <<serverVars, faults>>
     /\ \/ /\ live = None
           /\ o' = [o EXCEPT ![w] = draft]
           /\ Goto(w, "create")
        \/ /\ live # None
           /\ LET merged == HandleSpecial(k, live, draft)
              IN IF NeedsUpdate(live, merged)
                   THEN /\ o' = [o EXCEPT ![w] = [merged EXCEPT !.rv = live.rv]]
                        /\ Goto(w, "update")
                   ELSE /\ o' = [o EXCEPT ![w] = merged]
                        /\ Finish(w, "nil")

(* Mutant: AlreadyExists is not turned into a Conflict. *)
MutCreate(w) ==
  LET reply == CreateReply(key[w], o[w])
  IN /\ pc[w] = "create"
     /\ UNCHANGED <<edits, disturbed, o>>
     /\ \/ /\ reply = "OK"
           /\ \E a \in AddressesFor(key[w], o[w]) : Store(key[w], o[w], a)
           /\ Answered(w, "done")
        \/ /\ reply # "OK"
           /\ Finish(w, reply) /\ UNCHANGED <<objects, version, faults>>

(* AlreadyExists is turned into a Conflict. *)
Create(w) ==
  LET reply == CreateReply(key[w], o[w])
  IN /\ pc[w] = "create"
     /\ UNCHANGED <<edits, disturbed, o>>
     /\ \/ /\ reply = "OK"
           /\ \E a \in AddressesFor(key[w], o[w]) : Store(key[w], o[w], a)
           /\ Answered(w, "done")
        \/ /\ reply = "AlreadyExists"
           /\ Retry(w) /\ UNCHANGED <<objects, version, faults>>
        \/ /\ reply \notin {"OK", "AlreadyExists"}
           /\ Finish(w, reply) /\ UNCHANGED <<objects, version, faults>>

(* Mutant: any refused update leads to delete and create. *)
MutUpdate(w) ==
  LET reply == UpdateReply(key[w], o[w])
  IN /\ pc[w] = "update"
     /\ UNCHANGED <<edits, disturbed, o>>
     /\ \/ reply = "OK" /\ Replace(key[w], o[w]) /\ Answered(w, "done")
        \/ /\ reply # "OK"
           /\ Goto(w, "delete") /\ UNCHANGED <<objects, version, faults>>

(* Mutant: no case of its own for "updates to parameters are forbidden". *)
MutUpdateForbidden(w) ==
  LET reply == UpdateReply(key[w], o[w])
  IN /\ pc[w] = "update"
     /\ UNCHANGED <<edits, disturbed, o>>
     /\ \/ reply = "OK" /\ Replace(key[w], o[w]) /\ Answered(w, "done")
        \/ /\ reply = "Conflict"
           /\ Retry(w) /\ UNCHANGED <<objects, version, faults>>
        \/ /\ reply \notin {"OK", "Conflict"}
           /\ Finish(w, reply) /\ UNCHANGED <<objects, version, faults>>

(* "updates to parameters are forbidden" leads to delete and create. *)
Update(w) ==
  LET reply == UpdateReply(key[w], o[w])
  IN /\ pc[w] = "update"
     /\ UNCHANGED <<edits, disturbed, o>>
     /\ \/ reply = "OK" /\ Replace(key[w], o[w]) /\ Answered(w, "done")
        \/ /\ reply = "Conflict"
           /\ Retry(w) /\ UNCHANGED <<objects, version, faults>>
        \/ /\ reply = "Forbidden"
           /\ Goto(w, "delete") /\ UNCHANGED <<objects, version, faults>>
        \/ /\ reply \in {"NotFound", "Invalid", "Unsupported"}
           /\ Finish(w, reply) /\ UNCHANGED <<objects, version, faults>>

(* Mutant: the resourceVersion stays in the draft that is created next. *)
MutDelete(w) ==
  /\ pc[w] = "delete"
  /\ UNCHANGED <<edits, disturbed, o>>
  /\ \/ /\ DeleteReply(key[w]) = "OK"
        /\ Remove(key[w])
        /\ Answered(w, "recreate")
     \/ /\ DeleteReply(key[w]) = "NotFound"
        /\ Finish(w, "NotFound") /\ UNCHANGED <<objects, version, faults>>

Delete(w) ==
  /\ pc[w] = "delete"
  /\ UNCHANGED <<edits, disturbed>>
  /\ \/ /\ DeleteReply(key[w]) = "OK"
        /\ Remove(key[w])
        /\ o' = [o EXCEPT ![w].rv = 0]
        /\ Answered(w, "recreate")
     \/ /\ DeleteReply(key[w]) = "NotFound"
        /\ Finish(w, "NotFound") /\ UNCHANGED <<objects, version, faults, o>>

(* Here AlreadyExists is returned as it is. *)
Recreate(w) ==
  LET reply == CreateReply(key[w], o[w])
  IN /\ pc[w] = "recreate"
     /\ UNCHANGED <<edits, disturbed, o>>
     /\ \/ /\ reply = "OK"
           /\ \E a \in AddressesFor(key[w], o[w]) : Store(key[w], o[w], a)
           /\ Answered(w, "done")
        \/ /\ reply # "OK"
           /\ Finish(w, reply) /\ UNCHANGED <<objects, version, faults>>

(* A call fails without an effect: write() returns the error. *)
CallFails(w) ==
  /\ pc[w] \in CallSteps
  /\ faults < MaxFaults
  /\ faults' = faults + 1
  /\ Finish(w, "Fault")
  /\ UNCHANGED <<serverVars, o>>

(* write() has returned: its locals are gone. *)
Return(w) ==
  /\ pc[w] = "done"
  /\ pc' = [pc EXCEPT ![w] = "idle"]
  /\ key' = [key EXCEPT ![w] = None]
  /\ o' = [o EXCEPT ![w] = None]
  /\ attempts' = [attempts EXCEPT ![w] = 0]
  /\ err' = [err EXCEPT ![w] = "nil"]
  /\ UNCHANGED <<serverVars, faults>>

(* The process dies between two calls and starts again. *)
Forget ==
  /\ pc'       = [w \in Syncers |-> "idle"]
  /\ key'      = [w \in Syncers |-> None]
  /\ o'        = [w \in Syncers |-> None]
  /\ attempts' = [w \in Syncers |-> 0]
  /\ err'      = [w \in Syncers |-> "nil"]

Crash ==
  /\ \E w \in Syncers : pc[w] # "idle"
  /\ faults < MaxFaults
  /\ faults' = faults + 1
  /\ Forget
  /\ UNCHANGED serverVars

Call(w) == Get(w) \/ Create(w) \/ Update(w) \/ Delete(w) \/ Recreate(w)

Init == ServerInit /\ Idle /\ faults = 0

Next ==
  \/ \E w \in Syncers :
       \/ \E k \in DB, served \in BOOLEAN : BeginWrite(w, k, served)
       \/ Call(w)
       \/ CallFails(w)
       \/ Return(w)
  \/ Crash
  \/ \E k \in Keys : Outsider(k) /\ UNCHANGED <<callVars, faults>>

Spec == Init /\ [][Next]_writeVars

------------------------------------------------------------------------------
(* Properties *)

TypeOK ==
  /\ ServerTypeOK
  /\ pc \in [Syncers -> CallSteps \cup {"idle", "done"}]
  /\ key \in [Syncers -> DB \cup {None}]
  /\ o \in [Syncers -> Draft \cup {None}]
  /\ attempts \in [Syncers -> 0..MaxAttempts]
  /\ err \in [Syncers -> Errors]
  /\ faults \in 0..MaxFaults

(* The object is in its desired state, its label included. *)
Matched(k) ==
  /\ objects[k] # None
  /\ objects[k].spec = Want[k]
  /\ objects[k].owned

(* A write() that returns success has, in that very step, seen or left the *)
(* object in its desired state: neither the shortcut "no update needed"    *)
(* nor a draft reused after a Conflict may report success over an object   *)
(* that differs (needsUpdate and the retry loop of write()).               *)
SuccessMeansMatch ==
  [][\A w \in Syncers :
       pc[w] # "done" /\ pc'[w] = "done" /\ err'[w] = "nil"
         => Matched(key[w])']_writeVars

(* Two passes that write the same object at the same time never make each  *)
(* other fail: with no fault and no other client writing the object,       *)
(* write() returns an error only for an unserved kind, a missing namespace *)
(* or a LoadBalancer that should not be one.  StorageClasses, which are    *)
(* deleted and re-created, are not promised this (the synthetic Conflict   *)
(* and RetryOnConflict of write()).                                        *)
Excusable(w) ==
  \/ err[w] \in {"nil", "NoKind", "NoNamespace", "Unsupported", "Fault"}
  \/ key[w] \in StorageClasses \cup disturbed

ConcurrentWritesCompatible == \A w \in Syncers : Excusable(w)

(* No sequence of conflicts, re-creations and address changes makes        *)
(* write() send a Service with another clusterIP than the stored one: an   *)
(* address copied from an older object is always caught by its             *)
(* resourceVersion first (handleSpecialObjects "ClusterIP is immutable").  *)
AddressNeverRejected == \A w \in Syncers : err[w] # "Invalid"

(* write() gives up on conflicts only when other clients wrote often: each *)
(* of their writes costs it at most two attempts (the write itself and     *)
(* another goroutine's repair), and what was wrong at first one more.      *)
RetriesOutlastEdits ==
  \A w \in Syncers :
    err[w] = "Conflict" /\ key[w] \notin StorageClasses
      => MaxAttempts <= 1 + 2 * edits

(* An object of the database that has ever been written is missing only    *)
(* while a goroutine is about to create it again, unless a call failed or  *)
(* another client touched it: two goroutines that delete and re-create the *)
(* same StorageClass do not lose it between them.                          *)
NothingLost ==
  \A k \in DB \ disturbed :
    objects[k] = None /\ version[k] > 1 /\ faults = 0
      => \E w \in Syncers : key[w] = k /\ pc[w] = "recreate"

(* What the cluster looks like without resourceVersions. *)
Cluster ==
  [k \in Keys |-> IF objects[k] = None THEN None
                  ELSE [spec    |-> objects[k].spec,
                        owned   |-> objects[k].owned,
                        address |-> objects[k].address]]

Abstract == INSTANCE DesiredState WITH cluster <- Cluster

ASSUME ObjectAssumption == None \notin Abstract!Object

(* All goroutines together only ever do what DesiredState allows: they     *)
(* turn an object that differs into the desired one with its address kept, *)
(* remove nothing but StorageClasses, and leave matching objects alone.    *)
RefinesDesiredState == Abstract!Spec
==============================================================================
