-------------------------- MODULE WriteObjectProofs --------------------------
(***************************************************************************)
(* What WriteObject promises for every number of goroutines, objects,      *)
(* attempts, faults and writes by other clients.                           *)
(***************************************************************************)
EXTENDS WriteObject, TLAPS

(* A call in flight has a typed draft, writes a key of the database and    *)
(* has attempts left.                                                      *)
CallOK ==
  \A w \in Syncers :
    /\ pc[w] # "idle" => key[w] \in DB
    /\ pc[w] \in CallSteps => o[w] \in Draft /\ attempts[w] < MaxAttempts
    /\ pc[w] = "idle" => attempts[w] = 0

Typed == TypeOK /\ CallOK

LEMMA StoreTyped ==
  ASSUME ServerAssumption, ServerTypeOK, NEW k \in Keys, NEW m \in Manifest,
         NEW a \in AddressesFor(k, m), Store(k, m, a)
  PROVE  /\ objects' \in [Keys -> Manifest \cup {None}]
         /\ version' \in [Keys -> Nat]
<1>1. a \in Addresses \cup {NoAddress}
  BY DEF AddressesFor, Manifest, Draft
<1>2. [spec |-> m.spec, owned |-> m.owned,
       address |-> a, rv |-> version[k] + 1] \in Manifest
  BY <1>1 DEF Manifest, Draft, ServerTypeOK
<1>. QED
  BY <1>2 DEF Store, ServerTypeOK

LEMMA RemoveTyped ==
  ASSUME ServerTypeOK, NEW k \in Keys, Remove(k)
  PROVE  /\ objects' \in [Keys -> Manifest \cup {None}]
         /\ version' \in [Keys -> Nat]
BY DEF Remove, ServerTypeOK

LEMMA NoneIsNoManifest ==
  ASSUME NoneAssumption
  PROVE  None \notin Manifest
BY DEF NoneAssumption, Manifest, Draft

(* The server accepts no LoadBalancer's leftovers. *)
LEMMA AcceptedDraft ==
  ASSUME NEW k, NEW m \in Draft,
         CreateReply(k, m) = "OK" \/ UpdateReply(k, m) = "OK"
  PROVE  m \in Manifest /\ m.spec # Mixed
<1>1. m.spec # Mixed
  BY DEF CreateReply, UpdateReply
<1>. QED
  BY <1>1 DEF Manifest, Draft

LEMMA OutsiderTyped ==
  ASSUME ServerAssumption, NoneAssumption, ServerTypeOK, NEW k \in Keys, Outsider(k)
  PROVE  ServerTypeOK'
<1>1. /\ edits' \in 0..MaxEdits
      /\ disturbed' \subseteq Keys
  BY DEF Outsider, ServerTypeOK, ServerAssumption
<1>2. CASE OutsiderDeletes(k)
  BY <1>1, <1>2, RemoveTyped DEF OutsiderDeletes, ServerTypeOK
<1>3. CASE OutsiderWrites(k)
  <2>1. PICK s \in Specs, b \in BOOLEAN :
          \E a \in AddressesFor(k, [spec |-> s, owned |-> b, rv |-> 0,
                 address |-> IF objects[k] = None THEN NoAddress
                                                  ELSE objects[k].address]) :
            Store(k, [spec |-> s, owned |-> b, rv |-> 0,
                      address |-> IF objects[k] = None THEN NoAddress
                                                ELSE objects[k].address], a)
    BY <1>3 DEF OutsiderWrites
  <2>2. [spec |-> s, owned |-> b, rv |-> 0,
         address |-> IF objects[k] = None THEN NoAddress
                                          ELSE objects[k].address] \in Manifest
    BY DEF Manifest, Draft, ServerTypeOK
  <2>. QED
    BY <1>1, <2>1, <2>2, StoreTyped DEF ServerTypeOK
<1>. QED
  BY <1>2, <1>3 DEF Outsider

LEMMA InitTyped ==
  ASSUME ServerAssumption, NoneAssumption, WriteAssumption,
         ServerInit, Idle, faults \in 0..MaxFaults
  PROVE  Typed
<1>1. ServerTypeOK
  <2>1. objects \in [Keys -> Manifest \cup {None}]
    BY DEF ServerInit, Manifest, Draft
  <2>. QED
    BY <2>1 DEF ServerInit, ServerTypeOK, ServerAssumption
<1>. QED
  BY <1>1 DEF Typed, TypeOK, CallOK, Idle, WriteAssumption, CallSteps, Errors

LEMMA TypedStep ==
  ASSUME ServerAssumption, NoneAssumption, WriteAssumption,
         Typed, [Next]_writeVars
  PROVE  Typed'
<1>. USE DEF Typed
<1>1. ASSUME NEW w \in Syncers, NEW k \in DB, NEW served \in BOOLEAN,
             BeginWrite(w, k, served)
      PROVE  Typed'
  <2>1. Stored(k) \in Draft
    BY DEF Stored, Manifest, Draft, WriteAssumption
  <2>. QED
    BY <1>1, <2>1 DEF BeginWrite, TypeOK, ServerTypeOK, serverVars, CallOK,
       CallSteps, Errors, WriteAssumption
<1>2. ASSUME NEW w \in Syncers, Get(w)
      PROVE  Typed'
  <2>1. /\ o[w] \in Draft /\ key[w] \in Keys /\ attempts[w] < MaxAttempts
        /\ pc[w] = "get"
    BY <1>2 DEF Get, CallOK, CallSteps, WriteAssumption
  <2>2. MarkOwned(o[w]) \in Draft
    BY <2>1 DEF MarkOwned, Manifest, Draft
  <2>3. ASSUME objects[key[w]] # None
        PROVE  LET merged == HandleSpecial(key[w], objects[key[w]], MarkOwned(o[w]))
               IN  /\ merged \in Draft
                   /\ [merged EXCEPT !.rv = objects[key[w]].rv] \in Draft
    BY <2>1, <2>2, <2>3 DEF HandleSpecial, Manifest, Draft, TypeOK, ServerTypeOK
  <2>4. o' \in [Syncers -> Draft \cup {None}] /\ o'[w] \in Draft
    BY <1>2, <2>1, <2>2, <2>3 DEF Get, TypeOK
  <2>. QED
    BY <1>2, <2>1, <2>4 DEF Get, Goto, Finish, TypeOK, ServerTypeOK, serverVars,
       CallOK, CallSteps, Errors
<1>3. ASSUME NEW w \in Syncers, Create(w) \/ Recreate(w)
      PROVE  Typed'
  <2>1. /\ o[w] \in Draft /\ key[w] \in Keys /\ attempts[w] < MaxAttempts
        /\ pc[w] \in {"create", "recreate"}
    BY <1>3 DEF Create, Recreate, CallOK, CallSteps, WriteAssumption
  <2>2. ServerTypeOK'
    BY <1>3, <2>1, StoreTyped, AcceptedDraft DEF Create, Recreate, TypeOK, ServerTypeOK
  <2>3. CreateReply(key[w], o[w]) \in Errors \cup {"OK"}
    BY DEF CreateReply, Errors
  <2>. QED
    BY <1>3, <2>1, <2>2, <2>3 DEF Create, Recreate, Retry, Answered, Goto, Finish,
       TypeOK, CallOK, CallSteps, Errors, WriteAssumption
<1>4. ASSUME NEW w \in Syncers, Update(w)
      PROVE  Typed'
  <2>1. /\ o[w] \in Draft /\ key[w] \in Keys /\ attempts[w] < MaxAttempts
        /\ pc[w] = "update"
    BY <1>4 DEF Update, CallOK, CallSteps, WriteAssumption
  <2>2. ASSUME Replace(key[w], o[w]), UpdateReply(key[w], o[w]) = "OK"
        PROVE  /\ objects' \in [Keys -> Manifest \cup {None}]
               /\ version' \in [Keys -> Nat]
    <3>1. [spec |-> o[w].spec, owned |-> o[w].owned, address |-> o[w].address,
           rv |-> version[key[w]] + 1] \in Manifest
      BY <2>1, <2>2, AcceptedDraft DEF Manifest, Draft, TypeOK, ServerTypeOK
    <3>. QED
      BY <2>1, <2>2, <3>1 DEF Replace, Store, TypeOK, ServerTypeOK
  <2>3. ServerTypeOK'
    BY <1>4, <2>1, <2>2 DEF Update, TypeOK, ServerTypeOK
  <2>. QED
    BY <1>4, <2>1, <2>3 DEF Update, Retry, Answered, Goto, Finish,
       TypeOK, CallOK, CallSteps, Errors, WriteAssumption
<1>5. ASSUME NEW w \in Syncers, Delete(w)
      PROVE  Typed'
  <2>1. /\ o[w] \in Draft /\ key[w] \in Keys /\ attempts[w] < MaxAttempts
        /\ pc[w] = "delete"
    BY <1>5 DEF Delete, CallOK, CallSteps, WriteAssumption
  <2>2. ServerTypeOK'
    BY <1>5, <2>1, RemoveTyped DEF Delete, TypeOK, ServerTypeOK
  <2>3. [o[w] EXCEPT !.rv = 0] \in Draft
    BY <2>1 DEF Manifest, Draft
  <2>4. o' \in [Syncers -> Draft \cup {None}] /\ o'[w] \in Draft
    BY <1>5, <2>1, <2>3 DEF Delete, TypeOK
  <2>5. \A v \in Syncers : v # w => o'[v] = o[v]
    BY <1>5 DEF Delete, TypeOK
  <2>. QED
    BY <1>5, <2>1, <2>2, <2>4, <2>5 DEF Delete, Answered, Goto, Finish,
       TypeOK, CallOK, CallSteps, Errors, WriteAssumption
<1>6. ASSUME NEW w \in Syncers, CallFails(w) \/ Return(w)
      PROVE  Typed'
  BY <1>6 DEF CallFails, Return, Finish, TypeOK, ServerTypeOK, serverVars, CallOK,
     CallSteps, Errors, WriteAssumption
<1>7. CASE Crash
  BY <1>7 DEF Crash, Forget, TypeOK, ServerTypeOK, serverVars, CallOK,
     CallSteps, Errors, WriteAssumption
<1>8. ASSUME NEW k \in Keys, Outsider(k), UNCHANGED <<callVars, faults>>
      PROVE  Typed'
  BY <1>8, OutsiderTyped DEF callVars, TypeOK, CallOK
<1>9. CASE UNCHANGED writeVars
  BY <1>9 DEF writeVars, serverVars, callVars, TypeOK, ServerTypeOK, CallOK
<1>. QED
  BY <1>1, <1>2, <1>3, <1>4, <1>5, <1>6, <1>7, <1>8, <1>9 DEF Next, Call

------------------------------------------------------------------------------
(* Versions: an object carries the version of its key, and a key that is   *)
(* written gets a higher one.                                              *)

VersionOK ==
  \A k \in Keys :
    /\ version[k] >= 1
    /\ objects[k] # None =>
         /\ objects[k].rv = version[k]
         /\ k \notin Services => objects[k].address = NoAddress

Rewritten(k) ==
  /\ version'[k] = version[k] + 1
  /\ objects'[k] # None =>
       /\ objects'[k].rv = version'[k]
       /\ k \notin Services => objects'[k].address = NoAddress

KeyStep(k) ==
  \/ objects'[k] = objects[k] /\ version'[k] = version[k]
  \/ Rewritten(k)

LEMMA InitVersions ==
  ASSUME ServerInit
  PROVE  VersionOK
<1>. SUFFICES ASSUME NEW k \in Keys
              PROVE  /\ version[k] >= 1
                     /\ objects[k] # None =>
                          /\ objects[k].rv = version[k]
                          /\ k \notin Services => objects[k].address = NoAddress
  BY DEF VersionOK
<1>1. version[k] = 1
  BY DEF ServerInit
<1>2. objects[k] # None =>
        /\ objects[k].rv = 1
        /\ k \notin Services => objects[k].address = NoAddress
  BY DEF ServerInit
<1>. QED
  BY <1>1, <1>2

LEMMA KeySteps ==
  ASSUME ServerAssumption, NoneAssumption, WriteAssumption,
         Typed, VersionOK, [Next]_writeVars
  PROVE  \A k \in Keys : KeyStep(k)
<1>. USE DEF Typed, TypeOK, ServerTypeOK
<1>1. ASSUME NEW k \in Keys, NEW m \in Draft, NEW a, Store(k, m, a),
             k \notin Services => a = NoAddress
      PROVE  \A j \in Keys : KeyStep(j)
  BY <1>1, NoneAssumption DEF Store, KeyStep, Rewritten
<1>2. ASSUME NEW k \in Keys, Remove(k)
      PROVE  \A j \in Keys : KeyStep(j)
  BY <1>2 DEF Remove, KeyStep, Rewritten
<1>3. CASE UNCHANGED <<objects, version>>
  BY <1>3 DEF KeyStep
<1>4. ASSUME NEW w \in Syncers, Create(w) \/ Recreate(w)
      PROVE  \A j \in Keys : KeyStep(j)
  <2>1. o[w] \in Draft /\ key[w] \in Keys
    BY <1>4 DEF Create, Recreate, CallOK, CallSteps, WriteAssumption
  <2>2. \A a \in AddressesFor(key[w], o[w]) :
          key[w] \notin Services => a = NoAddress
    BY DEF AddressesFor
  <2>. QED
    BY <1>1, <1>3, <1>4, <2>1, <2>2 DEF Create, Recreate
<1>5. ASSUME NEW w \in Syncers, Update(w)
      PROVE  \A j \in Keys : KeyStep(j)
  <2>1. o[w] \in Draft /\ key[w] \in Keys
    BY <1>5 DEF Update, CallOK, CallSteps, WriteAssumption
  <2>2. CASE UpdateReply(key[w], o[w]) = "OK"
    <3>1. objects[key[w]] # None /\ objects[key[w]].address = o[w].address
      BY <2>2 DEF UpdateReply
    <3>2. key[w] \notin Services => o[w].address = NoAddress
      BY <2>1, <3>1 DEF VersionOK
    <3>3. Replace(key[w], o[w])
      BY <1>5, <2>2 DEF Update
    <3>. QED
      BY <1>1, <1>3, <2>1, <3>2, <3>3 DEF Replace
  <2>3. CASE UpdateReply(key[w], o[w]) # "OK"
    BY <1>3, <1>5, <2>3 DEF Update
  <2>. QED
    BY <2>2, <2>3
<1>6. ASSUME NEW w \in Syncers, Delete(w)
      PROVE  \A j \in Keys : KeyStep(j)
  <2>1. key[w] \in Keys
    BY <1>6 DEF Delete, CallOK, CallSteps, WriteAssumption
  <2>. QED
    BY <1>2, <1>3, <1>6, <2>1 DEF Delete
<1>7. ASSUME NEW k \in Keys, Outsider(k)
      PROVE  \A j \in Keys : KeyStep(j)
  <2>1. CASE OutsiderWrites(k)
    <3>1. PICK s \in Specs, b \in BOOLEAN :
            LET m == [spec |-> s, owned |-> b, rv |-> 0, address |->
                        IF objects[k] = None THEN NoAddress
                                             ELSE objects[k].address]
            IN \E a \in AddressesFor(k, m) : Store(k, m, a)
      BY <2>1 DEF OutsiderWrites
    <3>. DEFINE m == [spec |-> s, owned |-> b, rv |-> 0, address |->
                        IF objects[k] = None THEN NoAddress
                                             ELSE objects[k].address]
    <3>2. m \in Draft
      BY DEF Manifest, Draft
    <3>3. PICK a \in AddressesFor(k, m) : Store(k, m, a)
      BY <3>1
    <3>. HIDE DEF m
    <3>4. k \notin Services => a = NoAddress
      BY DEF AddressesFor
    <3>. QED
      BY <1>1, <3>2, <3>3, <3>4
  <2>. QED
    BY <1>2, <1>7, <2>1 DEF Outsider, OutsiderDeletes
<1>8. ASSUME NEW w \in Syncers, NEW k \in DB, NEW served \in BOOLEAN,
             BeginWrite(w, k, served)
      PROVE  \A j \in Keys : KeyStep(j)
  BY <1>3, <1>8 DEF BeginWrite, serverVars
<1>9. ASSUME NEW w \in Syncers, Get(w) \/ CallFails(w) \/ Return(w)
      PROVE  \A j \in Keys : KeyStep(j)
  BY <1>3, <1>9 DEF Get, CallFails, Return, serverVars
<1>10. CASE Crash \/ UNCHANGED writeVars
  BY <1>3, <1>10 DEF Crash, writeVars, serverVars
<1>. QED
  BY <1>4, <1>5, <1>6, <1>7, <1>8, <1>9, <1>10 DEF Next, Call

LEMMA VersionStep ==
  ASSUME Typed, Typed', VersionOK, \A k \in Keys : KeyStep(k)
  PROVE  VersionOK'
BY DEF VersionOK, KeyStep, Rewritten, Typed, TypeOK, ServerTypeOK

------------------------------------------------------------------------------
(* Drafts: what a goroutine may rely on between two of its calls.          *)

DraftOK(w) ==
  /\ o[w].spec \in {Want[key[w]], Mixed}
  /\ pc[w] # "get" => o[w].owned
  /\ o[w].rv <= version[key[w]]
  /\ key[w] \notin Services
       => o[w].address = NoAddress /\ o[w].spec = Want[key[w]]
  /\ pc[w] \in {"delete", "recreate"} => key[w] \in StorageClasses
  /\ pc[w] = "recreate" => o[w].rv = 0
  /\ pc[w] = "update" /\ objects[key[w]] # None
       => (objects[key[w]].rv = o[w].rv
             => objects[key[w]].address = o[w].address)

(* Every conflict was caused by a version the goroutine had not seen. *)
AttemptsOK(w) ==
  /\ pc[w] = "get" => attempts[w] < version[key[w]]
  /\ pc[w] = "update" => attempts[w] < o[w].rv
  /\ pc[w] = "create" =>
       /\ attempts[w] < version[key[w]]
       /\ objects[key[w]] # None => attempts[w] + 1 < version[key[w]]

ErrOK(w) ==
  /\ pc[w] # "done" => err[w] = "nil"
  /\ err[w] # "Invalid"
  /\ err[w] = "Conflict" => MaxAttempts < version[key[w]]

LocalOK(w) ==
  /\ pc[w] \in CallSteps => DraftOK(w) /\ AttemptsOK(w)
  /\ ErrOK(w)

Base == Typed /\ VersionOK /\ \A w \in Syncers : LocalOK(w)

(* The steps of others do not disturb a call. *)
LEMMA LocalStable ==
  ASSUME WriteAssumption, Typed, VersionOK, \A k \in Keys : KeyStep(k),
         Typed', VersionOK',
         NEW v \in Syncers, LocalOK(v),
         pc'[v] = pc[v], key'[v] = key[v], o'[v] = o[v],
         attempts'[v] = attempts[v], err'[v] = err[v]
  PROVE  LocalOK(v)'
<1>1. CASE pc[v] \in CallSteps
  <2>1. key[v] \in Keys /\ o[v] \in Draft
    BY <1>1 DEF Typed, CallOK, CallSteps, WriteAssumption
  <2>2. /\ version[key[v]] \in Nat /\ version'[key[v]] \in Nat
        /\ attempts[v] \in Nat /\ o[v].rv \in Nat
    BY <2>1 DEF Typed, TypeOK, ServerTypeOK, WriteAssumption, Manifest, Draft
  <2>3. KeyStep(key[v])
    BY <2>1
  <2>4. DraftOK(v)'
    BY <1>1, <2>1, <2>2, <2>3 DEF LocalOK, DraftOK, KeyStep, Rewritten, VersionOK
  <2>5. AttemptsOK(v)'
    BY <1>1, <2>1, <2>2, <2>3 DEF LocalOK, AttemptsOK, KeyStep, Rewritten
  <2>6. ErrOK(v)'
    BY <1>1 DEF LocalOK, ErrOK, CallSteps
  <2>. QED
    BY <2>4, <2>5, <2>6 DEF LocalOK
<1>2. CASE pc[v] = "done"
  <2>1. key[v] \in Keys
    BY <1>2 DEF Typed, CallOK, WriteAssumption
  <2>2. /\ version[key[v]] \in Nat /\ version'[key[v]] \in Nat
        /\ KeyStep(key[v])
    BY <2>1 DEF Typed, TypeOK, ServerTypeOK
  <2>. QED
    BY <1>2, <2>2 DEF LocalOK, ErrOK, CallSteps, KeyStep, Rewritten, WriteAssumption
<1>3. CASE pc[v] = "idle"
  BY <1>3 DEF LocalOK, ErrOK, CallSteps
<1>. QED
  BY <1>1, <1>2, <1>3 DEF Typed, TypeOK

(* A Conflict is answered by another Get, or by giving up. *)
LEMMA RetryOK ==
  ASSUME WriteAssumption, Typed, NEW w \in Syncers, pc[w] \in CallSteps,
         Retry(w), UNCHANGED <<objects, version, o>>,
         DraftOK(w), ErrOK(w), attempts[w] + 1 < version[key[w]]
  PROVE  LocalOK(w)'
<1>1. /\ key[w] \in Keys /\ attempts[w] \in Nat /\ attempts[w] < MaxAttempts
      /\ version[key[w]] \in Nat /\ MaxAttempts \in Nat
  BY DEF Typed, CallOK, TypeOK, ServerTypeOK, CallSteps, WriteAssumption
<1>2. key'[w] = key[w] /\ attempts'[w] = attempts[w] + 1
  BY DEF Retry, Typed, TypeOK
<1>3. CASE attempts[w] + 1 < MaxAttempts
  <2>1. pc'[w] = "get" /\ err' = err
    BY <1>3 DEF Retry, Typed, TypeOK
  <2>. QED
    BY <1>1, <1>2, <2>1 DEF LocalOK, DraftOK, AttemptsOK, ErrOK, CallSteps
<1>4. CASE ~(attempts[w] + 1 < MaxAttempts)
  <2>1. pc'[w] = "done" /\ err'[w] = "Conflict"
    BY <1>4 DEF Retry, Typed, TypeOK
  <2>. QED
    BY <1>1, <1>2, <1>4, <2>1 DEF LocalOK, ErrOK, CallSteps
<1>. QED
  BY <1>3, <1>4

LEMMA FinishOK ==
  ASSUME Typed, NEW w \in Syncers, NEW e \in Errors \ {"Invalid", "Conflict"},
         Finish(w, e)
  PROVE  LocalOK(w)'
BY DEF Finish, LocalOK, ErrOK, CallSteps, Typed, TypeOK

LEMMA BaseInit ==
  ASSUME ServerAssumption, NoneAssumption, WriteAssumption,
         ServerInit, Idle, faults \in 0..MaxFaults
  PROVE  Base
<1>1. Typed /\ VersionOK
  BY InitTyped, InitVersions
<1>2. \A w \in Syncers : LocalOK(w)
  BY DEF Idle, LocalOK, ErrOK, CallSteps
<1>. QED
  BY <1>1, <1>2 DEF Base

LEMMA BaseStep ==
  ASSUME ServerAssumption, NoneAssumption, WriteAssumption,
         Base, [Next]_writeVars
  PROVE  Base'
<1>1. Typed /\ VersionOK /\ Typed'
  BY TypedStep DEF Base
<1>2. \A k \in Keys : KeyStep(k)
  BY <1>1, KeySteps
<1>3. VersionOK'
  BY <1>1, <1>2, VersionStep
(* Nobody else's locals change in a step of w. *)
<1>4. ASSUME NEW w \in Syncers, LocalOK(w)',
             \A v \in Syncers \ {w} :
               /\ pc'[v] = pc[v] /\ key'[v] = key[v] /\ o'[v] = o[v]
               /\ attempts'[v] = attempts[v] /\ err'[v] = err[v]
      PROVE  \A v \in Syncers : LocalOK(v)'
  BY <1>1, <1>2, <1>3, <1>4, LocalStable DEF Base
<1>5. ASSUME UNCHANGED callVars
      PROVE  \A v \in Syncers : LocalOK(v)'
  BY <1>1, <1>2, <1>3, <1>5, LocalStable DEF Base, callVars
<1>6. ASSUME NEW w \in Syncers, NEW k \in DB, NEW served \in BOOLEAN,
             BeginWrite(w, k, served)
      PROVE  \A v \in Syncers : LocalOK(v)'
  <2>1. k \in Keys /\ attempts[w] = 0
    BY <1>1, <1>6 DEF BeginWrite, Typed, CallOK, WriteAssumption
  <2>2. LocalOK(w)'
    BY <1>1, <1>6, <2>1 DEF BeginWrite, LocalOK, DraftOK, AttemptsOK, ErrOK, Stored,
       CallSteps, Typed, TypeOK, ServerTypeOK, serverVars, VersionOK
  <2>. QED
    BY <1>1, <1>4, <1>6, <2>2 DEF BeginWrite, Typed, TypeOK
<1>7. ASSUME NEW w \in Syncers, CallFails(w) \/ Return(w)
      PROVE  \A v \in Syncers : LocalOK(v)'
  <2>1. LocalOK(w)'
    BY <1>1, <1>7 DEF Base, CallFails, Return, Finish, LocalOK, ErrOK, CallSteps,
       Typed, TypeOK
  <2>. QED
    BY <1>1, <1>4, <1>7, <2>1 DEF CallFails, Return, Finish, Typed, TypeOK
<1>8. ASSUME Crash
      PROVE  \A v \in Syncers : LocalOK(v)'
  BY <1>8 DEF Crash, Forget, LocalOK, ErrOK, CallSteps
<1>9. ASSUME \/ UNCHANGED writeVars
             \/ \E k \in Keys : Outsider(k) /\ UNCHANGED <<callVars, faults>>
      PROVE  \A v \in Syncers : LocalOK(v)'
  BY <1>5, <1>9 DEF writeVars
<1>10. ASSUME NEW w \in Syncers, Get(w)
       PROVE  \A v \in Syncers : LocalOK(v)'
  <2>1. /\ pc[w] = "get" /\ key[w] \in Keys /\ o[w] \in Draft
        /\ DraftOK(w) /\ AttemptsOK(w) /\ ErrOK(w)
    BY <1>1, <1>10 DEF Get, Base, Typed, CallOK, CallSteps, LocalOK, WriteAssumption
  <2>. DEFINE k     == key[w]
              draft == MarkOwned(o[w])
              merged == HandleSpecial(k, objects[k], draft)
  <2>2. /\ version[k] \in Nat /\ attempts[w] \in Nat /\ o[w].rv \in Nat
        /\ key'[w] = k /\ attempts'[w] = attempts[w]
        /\ objects' = objects /\ version' = version
    BY <1>1, <1>10, <2>1 DEF Get, Goto, Finish, Typed, TypeOK, ServerTypeOK,
       serverVars, Manifest, Draft
  <2>3. /\ draft \in Draft /\ draft.owned
        /\ draft.spec = o[w].spec /\ draft.rv = o[w].rv
        /\ draft.address = o[w].address
    BY <2>1 DEF MarkOwned, Manifest, Draft
  <2>4. ASSUME objects[k] = None
        PROVE  LocalOK(w)'
    <3>1. pc'[w] = "create" /\ o'[w] = draft /\ err'[w] = err[w]
      BY <1>1, <1>10, <2>4 DEF Get, Goto, Typed, TypeOK
    <3>. QED
      BY <2>1, <2>2, <2>3, <2>4, <3>1
         DEF LocalOK, DraftOK, AttemptsOK, ErrOK, CallSteps
  <2>5. ASSUME objects[k] # None
        PROVE  LocalOK(w)'
    <3>1. objects[k] \in Manifest
      BY <1>1, <2>1, <2>5 DEF Typed, TypeOK, ServerTypeOK
    <3>2. /\ merged \in Draft /\ merged.owned
          /\ merged.spec \in {o[w].spec, Mixed}
          /\ k \in Services => merged.address = objects[k].address
          /\ k \notin Services =>
               merged.address = o[w].address /\ merged.spec = o[w].spec
      BY <2>3, <3>1 DEF HandleSpecial, Manifest, Draft
    <3>3. CASE NeedsUpdate(objects[k], merged)
      <4>1. /\ pc'[w] = "update" /\ err'[w] = err[w]
            /\ o'[w] = [merged EXCEPT !.rv = objects[k].rv]
        BY <1>1, <1>10, <2>5, <3>3 DEF Get, Goto, Typed, TypeOK
      <4>2. /\ o'[w].owned /\ o'[w].spec \in {o[w].spec, Mixed}
            /\ o'[w].rv = version[k] /\ o'[w].address = merged.address
        BY <1>1, <2>1, <2>5, <3>1, <3>2, <4>1 DEF Manifest, Draft, VersionOK
      <4>4. k \notin Services => o'[w].spec = o[w].spec
        BY <3>2, <4>1 DEF Manifest, Draft
      <4>3. o'[w].address = objects[k].address
        BY <1>1, <2>1, <2>5, <3>2, <4>2 DEF VersionOK, DraftOK
      <4>. QED
        BY <2>1, <2>2, <3>2, <4>1, <4>2, <4>3, <4>4
           DEF LocalOK, DraftOK, AttemptsOK, ErrOK, CallSteps
    <3>4. CASE ~NeedsUpdate(objects[k], merged)
      <4>1. pc'[w] = "done" /\ err'[w] = "nil"
        BY <1>1, <1>10, <2>5, <3>4 DEF Get, Finish, Typed, TypeOK
      <4>. QED
        BY <4>1 DEF LocalOK, ErrOK, CallSteps
    <3>. QED
      BY <3>3, <3>4
  <2>6. \A v \in Syncers \ {w} :
          /\ pc'[v] = pc[v] /\ key'[v] = key[v] /\ o'[v] = o[v]
          /\ attempts'[v] = attempts[v] /\ err'[v] = err[v]
    BY <1>1, <1>10 DEF Get, Goto, Finish, Typed, TypeOK
  <2>. QED
    BY <1>4, <2>4, <2>5, <2>6
<1>11. ASSUME NEW w \in Syncers, Create(w) \/ Recreate(w)
       PROVE  \A v \in Syncers : LocalOK(v)'
  <2>1. /\ pc[w] \in {"create", "recreate"} /\ key[w] \in Keys
        /\ DraftOK(w) /\ AttemptsOK(w) /\ ErrOK(w)
    BY <1>1, <1>11 DEF Create, Recreate, Base, Typed, CallOK, CallSteps, LocalOK,
       WriteAssumption
  <2>2. ASSUME Answered(w, "done")
        PROVE  LocalOK(w)'
    BY <1>1, <2>2, FinishOK DEF Answered, Errors
  <2>3. ASSUME CreateReply(key[w], o[w]) # "OK",
               Finish(w, CreateReply(key[w], o[w]))
        PROVE  LocalOK(w)'
    BY <1>1, <2>3, FinishOK DEF CreateReply, Errors
  <2>4. ASSUME pc[w] = "create", CreateReply(key[w], o[w]) = "AlreadyExists",
               Retry(w), UNCHANGED <<objects, version, o>>
        PROVE  LocalOK(w)'
    <3>1. objects[key[w]] # None
      BY <2>4 DEF CreateReply
    <3>. QED
      BY <1>1, <2>1, <2>4, <3>1, RetryOK DEF AttemptsOK, CallSteps
  <2>5. LocalOK(w)'
    BY <1>11, <2>2, <2>3, <2>4 DEF Create, Recreate
  <2>. QED
    BY <1>1, <1>4, <1>11, <2>5 DEF Create, Recreate, Retry, Answered, Goto, Finish,
       Typed, TypeOK
<1>12. ASSUME NEW w \in Syncers, Update(w)
       PROVE  \A v \in Syncers : LocalOK(v)'
  <2>1. /\ pc[w] = "update" /\ key[w] \in Keys /\ o[w] \in Draft
        /\ DraftOK(w) /\ AttemptsOK(w) /\ ErrOK(w)
    BY <1>1, <1>12 DEF Update, Base, Typed, CallOK, CallSteps, LocalOK, WriteAssumption
  <2>2. UpdateReply(key[w], o[w]) # "Invalid"
    BY <2>1 DEF UpdateReply, DraftOK
  <2>3. ASSUME Answered(w, "done")
        PROVE  LocalOK(w)'
    BY <1>1, <2>3, FinishOK DEF Answered, Errors
  <2>4. ASSUME NEW e \in {"NotFound", "Unsupported"}, Finish(w, e)
        PROVE  LocalOK(w)'
    BY <1>1, <2>4, FinishOK DEF Errors
  <2>5. ASSUME UpdateReply(key[w], o[w]) = "Conflict",
               Retry(w), UNCHANGED <<objects, version, o>>
        PROVE  LocalOK(w)'
    <3>1. objects[key[w]] # None /\ objects[key[w]].rv # o[w].rv
      BY <2>5 DEF UpdateReply
    <3>2. /\ version[key[w]] \in Nat /\ attempts[w] \in Nat /\ o[w].rv \in Nat
      BY <1>1, <2>1 DEF Typed, TypeOK, ServerTypeOK, Manifest, Draft
    <3>3. attempts[w] < o[w].rv /\ o[w].rv < version[key[w]]
      BY <1>1, <2>1, <3>1, <3>2 DEF DraftOK, AttemptsOK, VersionOK
    <3>4. attempts[w] + 1 < version[key[w]]
      BY <3>2, <3>3
    <3>. QED
      BY <1>1, <2>1, <2>5, <3>4, RetryOK DEF CallSteps
  <2>6. ASSUME UpdateReply(key[w], o[w]) = "Forbidden", Goto(w, "delete"),
               UNCHANGED <<objects, version, o>>
        PROVE  LocalOK(w)'
    <3>1. key[w] \in StorageClasses
      BY <2>6 DEF UpdateReply
    <3>. QED
      BY <1>1, <2>1, <2>6, <3>1 DEF Goto, LocalOK, DraftOK, AttemptsOK, ErrOK,
         CallSteps, Typed, TypeOK
  <2>7. LocalOK(w)'
    BY <1>12, <2>2, <2>3, <2>4, <2>5, <2>6 DEF Update
  <2>. QED
    BY <1>1, <1>4, <1>12, <2>7 DEF Update, Retry, Answered, Goto, Finish, Typed, TypeOK
<1>13. ASSUME NEW w \in Syncers, Delete(w)
       PROVE  \A v \in Syncers : LocalOK(v)'
  <2>1. /\ pc[w] = "delete" /\ key[w] \in Keys /\ o[w] \in Draft
        /\ DraftOK(w) /\ ErrOK(w)
    BY <1>1, <1>13 DEF Delete, Base, Typed, CallOK, CallSteps, LocalOK, WriteAssumption
  <2>2. ASSUME NEW e \in {"Fault", "NotFound"}, Finish(w, e)
        PROVE  LocalOK(w)'
    BY <1>1, <2>2, FinishOK DEF Errors
  <2>3. ASSUME Goto(w, "recreate"), o' = [o EXCEPT ![w].rv = 0]
        PROVE  LocalOK(w)'
    <3>1. o'[w] = [o[w] EXCEPT !.rv = 0] /\ pc'[w] = "recreate"
      BY <1>1, <2>3 DEF Goto, Typed, TypeOK
    <3>2. /\ o'[w].spec = o[w].spec /\ o'[w].owned = o[w].owned
          /\ o'[w].address = o[w].address /\ o'[w].rv = 0
      BY <2>1, <3>1 DEF Manifest, Draft
    <3>3. version'[key[w]] \in Nat
      BY <1>1, <2>1 DEF Typed, TypeOK, ServerTypeOK
    <3>4. key'[w] = key[w] /\ err'[w] = err[w]
      BY <2>3 DEF Goto
    <3>. QED
      BY <2>1, <3>1, <3>2, <3>3, <3>4
         DEF LocalOK, DraftOK, AttemptsOK, ErrOK, CallSteps
  <2>4. LocalOK(w)'
    BY <1>13, <2>2, <2>3 DEF Delete, Answered
  <2>5. \A v \in Syncers \ {w} : o'[v] = o[v]
    BY <1>1, <1>13 DEF Delete, Typed, TypeOK
  <2>. QED
    BY <1>1, <1>4, <1>13, <2>4, <2>5 DEF Delete, Answered, Goto, Finish, Typed, TypeOK
<1>. QED
  BY <1>1, <1>3, <1>6, <1>7, <1>8, <1>9, <1>10, <1>11, <1>12, <1>13
     DEF Base, Next, Call

(* The facts every call relies on hold for ever. *)
THEOREM BaseInvariant == Spec => []Base
<1>1. Init => Base
  BY BaseInit, ServerAssumption, NoneAssumption, WriteAssumption
     DEF Init, WriteAssumption
<1>2. Base /\ [Next]_writeVars => Base'
  BY BaseStep, ServerAssumption, NoneAssumption, WriteAssumption
<1>. QED
  BY <1>1, <1>2, PTL DEF Spec

(* Every state of every behaviour of write() is well typed: whatever its   *)
(* goroutines, the faults and the other clients do, a call in flight works *)
(* on a complete draft of an object of the database.                       *)
THEOREM TypeCorrect == Spec => []TypeOK
<1>1. Base => TypeOK
  BY DEF Base, Typed
<1>. QED
  BY <1>1, BaseInvariant, PTL

(* Whatever happens between a Get and the Update that follows it, a        *)
(* Service is never sent with another clusterIP than the stored one.       *)
THEOREM AddressesAreKept == Spec => []AddressNeverRejected
<1>1. Base => AddressNeverRejected
  BY DEF Base, LocalOK, ErrOK, AddressNeverRejected
<1>. QED
  BY <1>1, BaseInvariant, PTL

------------------------------------------------------------------------------
(* The effect of one call on the cluster. *)

Untouched(k) == objects'[k] = objects[k] /\ version'[k] = version[k]

Repaired(k) ==
  /\ ~Matched(k)
  /\ objects'[k] # None /\ objects'[k].spec = Want[k] /\ objects'[k].owned
  /\ version'[k] = version[k] + 1
  /\ objects[k] # None => objects'[k].address = objects[k].address

Removed(k) == objects'[k] = None /\ version'[k] = version[k] + 1

CallEffect(w) ==
  \/ \A k \in Keys : Untouched(k)
  \/ /\ \A k \in Keys \ {key[w]} : Untouched(k)
     /\ \/ Repaired(key[w])
        \/ pc[w] = "delete" /\ objects[key[w]] # None /\ Removed(key[w])

LEMMA CallEffects ==
  ASSUME ServerAssumption, NoneAssumption, WriteAssumption, Base,
         NEW w \in Syncers, Call(w)
  PROVE  CallEffect(w)
<1>. DEFINE k == key[w]
<1>1. /\ pc[w] \in CallSteps /\ k \in Keys /\ o[w] \in Draft
      /\ DraftOK(w) /\ Typed /\ VersionOK
  BY DEF Call, Get, Create, Update, Delete, Recreate, Base, Typed, CallOK, LocalOK,
     CallSteps, WriteAssumption
<1>2. ASSUME UNCHANGED <<objects, version>>
      PROVE  CallEffect(w)
  BY <1>2 DEF CallEffect, Untouched
<1>3. ASSUME NEW a \in Addresses \cup {NoAddress}, Store(k, o[w], a), pc[w] # "get", ~Matched(k),
             o[w] \in Manifest, o[w].spec # Mixed,
             objects[k] # None => a = objects[k].address
      PROVE  CallEffect(w)
  <2>1. /\ objects'[k] = [spec |-> o[w].spec, owned |-> o[w].owned,
                          address |-> a, rv |-> version[k] + 1]
        /\ version'[k] = version[k] + 1
        /\ \A j \in Keys \ {k} : Untouched(j)
    BY <1>1, <1>3 DEF Store, Untouched, Typed, TypeOK, ServerTypeOK
  <2>2. objects'[k] \in Manifest
    BY <1>1, <1>3, <2>1 DEF Manifest, Draft, Typed, TypeOK, ServerTypeOK
  <2>3. objects'[k] # None /\ objects'[k].spec = Want[k] /\ objects'[k].owned
    BY <1>1, <1>3, <2>1, <2>2, NoneIsNoManifest DEF DraftOK
  <2>. QED
    BY <1>3, <2>1, <2>3 DEF CallEffect, Repaired
<1>4. CASE Get(w)
  BY <1>2, <1>4 DEF Get, serverVars
<1>5. CASE Create(w) \/ Recreate(w)
  <2>1. ASSUME CreateReply(k, o[w]) = "OK"
        PROVE  objects[k] = None /\ o[w] \in Manifest /\ o[w].spec # Mixed
    BY <1>1, <2>1, AcceptedDraft DEF CreateReply
  <2>2. \A a \in AddressesFor(k, o[w]) : a \in Addresses \cup {NoAddress}
    BY <1>1 DEF AddressesFor, Manifest, Draft
  <2>3. objects[k] = None => ~Matched(k)
    BY DEF Matched
  <2>. QED
    BY <1>2, <1>3, <1>5, <2>1, <2>2, <2>3 DEF Create, Recreate
<1>6. CASE Update(w)
  <2>1. CASE UpdateReply(k, o[w]) = "OK"
    <3>1. /\ objects[k] # None /\ objects[k].rv = o[w].rv
          /\ objects[k].address = o[w].address
      BY <2>1 DEF UpdateReply
    <3>2. objects[k] \in Manifest
      BY <1>1, <3>1 DEF Typed, TypeOK, ServerTypeOK
    <3>3. pc[w] = "update" /\ Replace(k, o[w])
      BY <1>6, <2>1 DEF Update
    <3>6. o[w] \in Manifest /\ o[w].spec # Mixed
      BY <1>1, <2>1, AcceptedDraft
    <3>4. Matched(k) => o[w] = objects[k]
      BY <1>1, <3>1, <3>2, <3>3, <3>6 DEF Matched, DraftOK, Manifest, Draft
    <3>5. o[w].address \in Addresses \cup {NoAddress}
      BY <1>1 DEF Manifest, Draft
    <3>. QED
      BY <1>2, <1>3, <3>1, <3>3, <3>4, <3>5, <3>6 DEF Replace
  <2>2. CASE UpdateReply(k, o[w]) # "OK"
    BY <1>2, <1>6, <2>2 DEF Update
  <2>. QED
    BY <2>1, <2>2
<1>7. CASE Delete(w)
  <2>1. CASE DeleteReply(k) = "OK"
    <3>1. objects[k] # None /\ pc[w] = "delete" /\ Remove(k)
      BY <1>7, <2>1 DEF Delete, DeleteReply
    <3>. QED
      BY <1>1, <3>1 DEF Remove, CallEffect, Removed, Untouched, Typed, TypeOK,
         ServerTypeOK
  <2>2. CASE DeleteReply(k) # "OK"
    BY <1>2, <1>7, <2>2 DEF Delete
  <2>. QED
    BY <2>1, <2>2
<1>. QED
  BY <1>4, <1>5, <1>6, <1>7 DEF Call

LEMMA StepKinds ==
  ASSUME [Next]_writeVars
  PROVE  \/ UNCHANGED serverVars
         \/ (\E w \in Syncers : Call(w)) /\ UNCHANGED <<edits, disturbed>>
         \/ \E k \in Keys : Outsider(k) /\ UNCHANGED <<callVars, faults>>
<1>1. ASSUME NEW w \in Syncers, Call(w)
      PROVE  UNCHANGED <<edits, disturbed>>
  BY <1>1 DEF Call, Get, Create, Update, Delete, Recreate, serverVars
<1>2. ASSUME NEW w \in Syncers, NEW k \in DB, NEW served \in BOOLEAN,
             BeginWrite(w, k, served)
      PROVE  UNCHANGED serverVars
  BY <1>2 DEF BeginWrite
<1>3. ASSUME NEW w \in Syncers, CallFails(w) \/ Return(w)
      PROVE  UNCHANGED serverVars
  BY <1>3 DEF CallFails, Return
<1>4. ASSUME Crash \/ UNCHANGED writeVars
      PROVE  UNCHANGED serverVars
  BY <1>4 DEF Crash, writeVars
<1>. QED
  BY <1>1, <1>2, <1>3, <1>4 DEF Next

(* Every write of the operator turns a wrong object into the right one, so *)
(* a key is written at most once more than twice per write of the others.  *)
Budget ==
  \A k \in DB \ StorageClasses :
    version[k] + (IF Matched(k) THEN 0 ELSE 1) <= 2 + 2 * edits

LEMMA BudgetStep ==
  ASSUME ServerAssumption, NoneAssumption, WriteAssumption,
         Base, Budget, [Next]_writeVars
  PROVE  Budget'
<1>. SUFFICES ASSUME NEW k \in DB \ StorageClasses
              PROVE  version'[k] + (IF Matched(k)' THEN 0 ELSE 1) <= 2 + 2 * edits'
  BY DEF Budget
<1>1. /\ k \in Keys /\ Typed /\ Typed' /\ VersionOK
      /\ version[k] + (IF Matched(k) THEN 0 ELSE 1) <= 2 + 2 * edits
  BY BaseStep DEF Base, Budget, WriteAssumption
<1>2. /\ version[k] \in Nat /\ version'[k] \in Nat
      /\ edits \in Nat /\ edits' \in Nat
  BY <1>1 DEF Typed, TypeOK, ServerTypeOK, ServerAssumption
<1>3. KeyStep(k)
  BY <1>1, KeySteps
<1>4. CASE UNCHANGED serverVars
  BY <1>1, <1>4 DEF serverVars, Matched
<1>5. ASSUME NEW w \in Syncers, Call(w), UNCHANGED edits
      PROVE  version'[k] + (IF Matched(k)' THEN 0 ELSE 1) <= 2 + 2 * edits'
  <2>1. CallEffect(w)
    BY <1>5, CallEffects
  <2>2. pc[w] = "delete" => key[w] \in StorageClasses
    BY DEF Base, LocalOK, DraftOK, CallSteps
  <2>3. Untouched(k) \/ Repaired(k)
    BY <1>1, <2>1, <2>2 DEF CallEffect
  <2>. QED
    BY <1>1, <1>2, <1>5, <2>3 DEF Untouched, Repaired, Matched
<1>6. ASSUME NEW j \in Keys, Outsider(j)
      PROVE  version'[k] + (IF Matched(k)' THEN 0 ELSE 1) <= 2 + 2 * edits'
  <2>1. edits' = edits + 1
    BY <1>6 DEF Outsider
  <2>2. version'[k] <= version[k] + 1
    BY <1>2, <1>3 DEF KeyStep, Rewritten
  <2>. QED
    BY <1>1, <1>2, <2>1, <2>2
<1>. QED
  BY <1>4, <1>5, <1>6, StepKinds

LEMMA BudgetIsEnough ==
  ASSUME ServerAssumption, WriteAssumption, Base, Budget
  PROVE  RetriesOutlastEdits
<1>. SUFFICES ASSUME NEW w \in Syncers,
                     err[w] = "Conflict", key[w] \notin StorageClasses
              PROVE  MaxAttempts <= 1 + 2 * edits
  BY DEF RetriesOutlastEdits
<1>1. key[w] \in DB /\ MaxAttempts < version[key[w]]
  BY DEF Base, Typed, CallOK, LocalOK, ErrOK
<1>2. version[key[w]] \in Nat /\ edits \in Nat /\ MaxAttempts \in Nat
  BY <1>1 DEF Base, Typed, TypeOK, ServerTypeOK, WriteAssumption
<1>3. version[key[w]] <= 2 + 2 * edits
  BY <1>1, <1>2 DEF Budget
<1>. QED
  BY <1>1, <1>2, <1>3

(* With the code's five attempts, a write() of anything but a StorageClass *)
(* is given up only after two writes by other clients.                     *)
THEOREM ConflictsNeedEdits == Spec => []RetriesOutlastEdits
<1>1. Init => Budget
  <2>. SUFFICES ASSUME Init, NEW k \in DB \ StorageClasses
                PROVE  version[k] + (IF Matched(k) THEN 0 ELSE 1) <= 2 + 2 * edits
    BY DEF Budget
  <2>1. version[k] = 1 /\ edits = 0
    BY WriteAssumption DEF Init, ServerInit
  <2>. QED
    BY <2>1
<1>2. Base /\ Budget /\ [Next]_writeVars => Budget'
  BY BudgetStep, ServerAssumption, NoneAssumption, WriteAssumption
<1>3. Base /\ Budget => RetriesOutlastEdits
  BY BudgetIsEnough, ServerAssumption, WriteAssumption
<1>. QED
  BY <1>1, <1>2, <1>3, BaseInvariant, PTL DEF Spec

------------------------------------------------------------------------------
(* Success *)

LEMMA SuccessfulCall ==
  ASSUME ServerAssumption, NoneAssumption, WriteAssumption, Base, Typed',
         NEW w \in Syncers, Call(w), pc'[w] = "done", err'[w] = "nil"
  PROVE  /\ key'[w] = key[w]
         /\ objects'[key[w]] # None
         /\ objects'[key[w]].spec = Want[key[w]]
         /\ objects'[key[w]].owned
<1>. DEFINE k == key[w]
<1>1. /\ pc[w] \in CallSteps /\ k \in Keys /\ o[w] \in Draft
      /\ DraftOK(w) /\ Typed /\ VersionOK
  BY DEF Call, Get, Create, Update, Delete, Recreate, Base, Typed, CallOK, LocalOK,
     CallSteps, WriteAssumption
<1>2. key'[w] = key[w]
  BY DEF Call, Get, Create, Update, Delete, Recreate, Goto, Finish, Retry, Answered
<1>3. ASSUME NEW a \in Addresses \cup {NoAddress}, Store(k, o[w], a), pc[w] # "get",
             o[w] \in Manifest, o[w].spec # Mixed
      PROVE  /\ objects'[k] # None /\ objects'[k].owned
             /\ objects'[k].spec = Want[k]
  <2>1. objects'[k] = [spec |-> o[w].spec, owned |-> o[w].owned,
                       address |-> a, rv |-> version[k] + 1]
    BY <1>1, <1>3 DEF Store, Typed, TypeOK, ServerTypeOK
  <2>2. objects'[k] \in Manifest
    BY <1>1, <1>3, <2>1 DEF Manifest, Draft, Typed, TypeOK, ServerTypeOK
  <2>. QED
    BY <1>1, <1>3, <2>1, <2>2, NoneIsNoManifest DEF DraftOK
<1>4. ASSUME Get(w)
      PROVE  /\ objects'[k] # None /\ objects'[k].owned
             /\ objects'[k].spec = Want[k]
  <2>. DEFINE draft  == MarkOwned(o[w])
              merged == HandleSpecial(k, objects[k], draft)
  <2>1. objects' = objects /\ objects[k] # None /\ ~NeedsUpdate(objects[k], merged)
    BY <1>1, <1>4 DEF Get, Goto, serverVars, Typed, TypeOK
  <2>2. objects[k] \in Manifest
    BY <1>1, <2>1 DEF Typed, TypeOK, ServerTypeOK
  <2>3. merged.owned /\ merged.spec \in {o[w].spec, Mixed}
    BY <1>1, <2>2 DEF MarkOwned, HandleSpecial, Manifest, Draft
  <2>4. objects[k].owned = merged.owned /\ objects[k].spec = merged.spec
    BY <2>1, <2>2 DEF NeedsUpdate, Manifest, Draft
  <2>5. objects[k].spec # Mixed
    BY <2>2, ServerAssumption DEF Manifest, ServerAssumption
  <2>. QED
    BY <1>1, <2>1, <2>3, <2>4, <2>5 DEF DraftOK
<1>5. ASSUME Create(w) \/ Recreate(w)
      PROVE  /\ objects'[k] # None /\ objects'[k].owned
             /\ objects'[k].spec = Want[k]
  <2>1. CreateReply(k, o[w]) \in {"OK", "NoNamespace", "Unsupported", "BadRequest",
                                  "AlreadyExists"}
    BY DEF CreateReply
  <2>4. CreateReply(k, o[w]) = "OK" => o[w] \in Manifest /\ o[w].spec # Mixed
    BY <1>1, AcceptedDraft
  <2>2. CreateReply(k, o[w]) = "OK" /\ \E a \in AddressesFor(k, o[w]) : Store(k, o[w], a)
    BY <1>1, <1>5, <2>1 DEF Create, Recreate, Finish, Retry, Typed, TypeOK
  <2>3. \A a \in AddressesFor(k, o[w]) : a \in Addresses \cup {NoAddress}
    BY <1>1 DEF AddressesFor, Manifest, Draft
  <2>. QED
    BY <1>3, <1>5, <2>2, <2>3, <2>4 DEF Create, Recreate
<1>6. ASSUME Update(w)
      PROVE  /\ objects'[k] # None /\ objects'[k].owned
             /\ objects'[k].spec = Want[k]
  <2>1. pc[w] = "update" /\ UpdateReply(k, o[w]) = "OK" /\ Replace(k, o[w])
    BY <1>1, <1>6 DEF Update, Finish, Retry, Goto, Typed, TypeOK
  <2>4. o[w] \in Manifest /\ o[w].spec # Mixed
    BY <1>1, <2>1, AcceptedDraft
  <2>2. CASE o[w] = objects[k]
    BY <1>1, <2>1, <2>2, <2>4, NoneAssumption DEF Replace, DraftOK
  <2>3. CASE o[w] # objects[k]
    <3>1. o[w].address \in Addresses \cup {NoAddress}
      BY <1>1 DEF Manifest, Draft
    <3>. QED
      BY <1>3, <2>1, <2>3, <2>4, <3>1 DEF Replace
  <2>. QED
    BY <2>2, <2>3
<1>7. ~Delete(w)
  BY <1>1 DEF Delete, Answered, Goto, Finish, Typed, TypeOK
<1>. QED
  BY <1>2, <1>4, <1>5, <1>6, <1>7 DEF Call

LEMMA HonestStep ==
  ASSUME Base, Base', [Next]_writeVars, NEW w \in Syncers,
         pc[w] # "done", pc'[w] = "done", err'[w] = "nil"
  PROVE  Matched(key[w])'
<1>1. Typed /\ Typed'
  BY DEF Base
<1>2. CASE Call(w)
  BY <1>1, <1>2, SuccessfulCall, ServerAssumption, NoneAssumption,
     WriteAssumption DEF Matched
<1>3. \A v \in Syncers : Call(v) => v = w \/ pc'[w] = pc[w]
  BY <1>1 DEF Call, Get, Create, Update, Delete, Recreate, Goto, Finish,
     Retry, Answered, Typed, TypeOK
<1>4. ASSUME NEW v \in Syncers, NEW k \in DB, NEW served \in BOOLEAN
      PROVE  ~BeginWrite(v, k, served)
  <2>1. \/ pc'[w] = pc[w]
        \/ pc'[w] = "get"
        \/ pc'[w] = "done" /\ err'[w] = "NoKind"
        \/ ~BeginWrite(v, k, served)
    BY <1>1 DEF BeginWrite, Typed, TypeOK
  <2>. QED
    BY <2>1
<1>5. \A v \in Syncers : ~CallFails(v) /\ ~Return(v)
  BY <1>1 DEF CallFails, Return, Finish, Typed, TypeOK
<1>6. ~Crash /\ ~UNCHANGED writeVars /\ ~UNCHANGED callVars
  BY DEF Crash, Forget, writeVars, callVars
<1>. QED
  BY <1>2, <1>3, <1>4, <1>5, <1>6 DEF Next

(* write() never reports success over an object that differs from the      *)
(* desired state in its spec or its label: neither when it finds nothing   *)
(* to update nor after conflicts on a reused draft.                        *)
THEOREM SuccessIsHonest == Spec => SuccessMeansMatch
<1>1. Base /\ Base' /\ [Next]_writeVars
        => [\A w \in Syncers :
              pc[w] # "done" /\ pc'[w] = "done" /\ err'[w] = "nil"
                => Matched(key[w])']_writeVars
  BY HonestStep
<1>. QED
  BY <1>1, BaseInvariant, PTL DEF Spec, SuccessMeansMatch

------------------------------------------------------------------------------
(* Undisturbed keys *)

LEMMA OutsiderLocal ==
  ASSUME ServerTypeOK, NEW j \in Keys, Outsider(j), NEW k \in Keys, k \notin disturbed'
  PROVE  k \notin disturbed /\ Untouched(k)
<1>1. k # j /\ k \notin disturbed
  BY DEF Outsider
<1>2. \A m, a : Store(j, m, a) => Untouched(k)
  BY <1>1 DEF Store, Untouched, ServerTypeOK
<1>3. Remove(j) => Untouched(k)
  BY <1>1 DEF Remove, Untouched, ServerTypeOK
<1>. QED
  BY <1>1, <1>2, <1>3 DEF Outsider, OutsiderWrites, OutsiderDeletes

(* A key no other client touches is only ever repaired, unless it is a     *)
(* StorageClass that some goroutine deletes.                               *)
LEMMA UndisturbedStep ==
  ASSUME ServerAssumption, NoneAssumption, WriteAssumption, Base,
         [Next]_writeVars, NEW k \in Keys \ disturbed'
  PROVE  /\ k \notin disturbed
         /\ \/ Untouched(k)
            \/ Repaired(k)
            \/ \E w \in Syncers : /\ key[w] = k /\ pc[w] = "delete"
                                  /\ k \in StorageClasses
                                  /\ Delete(w) /\ Removed(k)
<1>1. CASE UNCHANGED serverVars
  BY <1>1 DEF serverVars, Untouched
<1>2. ASSUME NEW w \in Syncers, Call(w), UNCHANGED disturbed
      PROVE  /\ k \notin disturbed
             /\ \/ Untouched(k)
                \/ Repaired(k)
                \/ \E v \in Syncers : /\ key[v] = k /\ pc[v] = "delete"
                                      /\ k \in StorageClasses
                                      /\ Delete(v) /\ Removed(k)
  <2>1. CallEffect(w)
    BY <1>2, CallEffects
  <2>2. pc[w] = "delete" => key[w] \in StorageClasses /\ Delete(w)
    BY <1>2 DEF Base, LocalOK, DraftOK, CallSteps, Call, Get, Create, Update, Recreate
  <2>. QED
    BY <1>2, <2>1, <2>2 DEF CallEffect
<1>3. ASSUME NEW j \in Keys, Outsider(j)
      PROVE  k \notin disturbed /\ Untouched(k)
  BY <1>3, OutsiderLocal DEF Base, Typed, TypeOK
<1>. QED
  BY <1>1, <1>2, <1>3, StepKinds

LEMMA NothingLostStep ==
  ASSUME ServerAssumption, NoneAssumption, WriteAssumption,
         Base, Base', NothingLost, [Next]_writeVars
  PROVE  NothingLost'
<1>. SUFFICES ASSUME NEW k \in DB \ disturbed',
                     objects'[k] = None, version'[k] > 1, faults' = 0
              PROVE  \E w \in Syncers : key'[w] = k /\ pc'[w] = "recreate"
  BY DEF NothingLost
<1>1. /\ Typed /\ Typed' /\ k \in Keys /\ faults \in Nat
  BY WriteAssumption DEF Base, Typed, TypeOK
<1>2. faults = 0
  <2>1. \A w \in Syncers : Call(w) => faults' = faults \/ faults' = faults + 1
    BY DEF Call, Get, Create, Update, Delete, Recreate, Answered
  <2>2. \A w \in Syncers, j \in DB, b \in BOOLEAN :
          BeginWrite(w, j, b) => faults' = faults
    BY DEF BeginWrite
  <2>3. \A w \in Syncers : CallFails(w) \/ Return(w)
          => faults' = faults \/ faults' = faults + 1
    BY DEF CallFails, Return
  <2>4. Crash => faults' = faults + 1
    BY DEF Crash
  <2>5. faults' = faults \/ faults' = faults + 1
    BY <2>1, <2>2, <2>3, <2>4 DEF Next, writeVars
  <2>. QED
    BY <1>1, <2>5
<1>3. CASE Untouched(k) \/ Repaired(k)
  <2>1. objects[k] = None /\ version[k] > 1 /\ k \notin disturbed
    BY <1>1, <1>3, UndisturbedStep DEF Untouched, Repaired
  <2>2. PICK w \in Syncers : key[w] = k /\ pc[w] = "recreate"
    BY <1>2, <2>1 DEF NothingLost
  <2>3. o[w].rv = 0 /\ k \in StorageClasses /\ err[w] = "nil"
    BY <2>2 DEF Base, LocalOK, DraftOK, ErrOK, CallSteps
  <2>7. o[w].spec # Mixed
    BY <2>2, <2>3, ServerAssumption, WriteAssumption
       DEF Base, LocalOK, DraftOK, CallSteps, ServerAssumption, WriteAssumption
  <2>4. CreateReply(k, o[w]) = "OK"
    BY <2>1, <2>3, <2>7, ServerAssumption
       DEF CreateReply, NamespaceReady, ServerAssumption
  <2>5. ~Recreate(w)
    <3>1. ASSUME NEW a \in AddressesFor(k, o[w]), Store(k, o[w], a)
          PROVE  FALSE
      BY <1>1, <1>3, <2>1, <3>1 DEF Store, Untouched, Repaired, Typed, TypeOK,
         ServerTypeOK
    <3>. QED
      BY <2>2, <2>4, <3>1 DEF Recreate
  <2>6. key'[w] = k /\ pc'[w] = "recreate"
    <3>1. \A v \in Syncers : Call(v) => key'[w] = key[w] /\ pc'[w] = pc[w]
      BY <1>1, <2>2, <2>5 DEF Call, Get, Create, Update, Delete, Recreate, Goto,
         Finish, Retry, Answered, Typed, TypeOK
    <3>2. ASSUME NEW v \in Syncers, NEW j \in DB, NEW served \in BOOLEAN,
                 BeginWrite(v, j, served)
          PROVE  key'[w] = key[w] /\ pc'[w] = pc[w]
      BY <1>1, <2>2, <3>2 DEF BeginWrite, Typed, TypeOK
    <3>3. ASSUME NEW v \in Syncers, CallFails(v) \/ Return(v)
          PROVE  key'[w] = key[w] /\ pc'[w] = pc[w]
      BY <1>1, <1>2, <2>2, <3>3 DEF CallFails, Return, Typed, TypeOK
    <3>4. ~Crash
      BY <1>1, <1>2 DEF Crash
    <3>5. UNCHANGED <<callVars, faults>> \/ UNCHANGED writeVars
            => key'[w] = key[w] /\ pc'[w] = pc[w]
      BY DEF callVars, writeVars
    <3>6. key'[w] = key[w] /\ pc'[w] = pc[w]
      BY <3>1, <3>2, <3>3, <3>4, <3>5 DEF Next
    <3>. QED
      BY <2>2, <3>6
  <2>. QED
    BY <2>6
<1>4. ASSUME NEW w \in Syncers, key[w] = k, pc[w] = "delete", Delete(w), Removed(k)
      PROVE  key'[w] = k /\ pc'[w] = "recreate"
  <2>1. DeleteReply(k) = "OK"
    BY <1>1, <1>4 DEF Delete, Removed, DeleteReply, Typed, TypeOK, ServerTypeOK
  <2>. QED
    BY <1>1, <1>2, <1>4, <2>1 DEF Delete, Answered, Goto, Typed, TypeOK
<1>. QED
  BY <1>1, <1>3, <1>4, UndisturbedStep

(* Goroutines that delete and re-create the same StorageClass at once      *)
(* never leave it deleted: whoever deleted it last is about to create it.  *)
THEOREM DeletedIsRecreated == Spec => []NothingLost
<1>1. Init => NothingLost
  BY WriteAssumption DEF Init, ServerInit, NothingLost
<1>2. Base /\ Base' /\ NothingLost /\ [Next]_writeVars => NothingLost'
  BY NothingLostStep, ServerAssumption, NoneAssumption, WriteAssumption
<1>. QED
  BY <1>1, <1>2, BaseInvariant, PTL DEF Spec

------------------------------------------------------------------------------
(* Concurrent calls *)

Resting(v) ==
  /\ pc'[v] = pc[v] /\ key'[v] = key[v] /\ o'[v] = o[v]
  /\ attempts'[v] = attempts[v] /\ err'[v] = err[v]

LEMMA LocalKinds ==
  ASSUME Typed, [Next]_writeVars, NEW v \in Syncers
  PROVE  \/ Resting(v)
         \/ Crash \/ CallFails(v) \/ Return(v)
         \/ Call(v)
         \/ \E k \in DB, served \in BOOLEAN : BeginWrite(v, k, served)
<1>1. ASSUME NEW w \in Syncers \ {v}, Get(w) \/ Create(w) \/ Update(w) \/ Recreate(w)
      PROVE  Resting(v)
  BY <1>1 DEF Get, Create, Update, Recreate, Goto, Finish, Retry, Answered,
     Typed, TypeOK, Resting
<1>2. ASSUME NEW w \in Syncers \ {v}, Delete(w)
      PROVE  Resting(v)
  BY <1>2 DEF Delete, Goto, Finish, Answered, Typed, TypeOK, Resting
<1>3. ASSUME NEW w \in Syncers \ {v}, CallFails(w) \/ Return(w)
      PROVE  Resting(v)
  BY <1>3 DEF CallFails, Return, Finish, Typed, TypeOK, Resting
<1>4. ASSUME NEW w \in Syncers \ {v}, NEW k \in DB, NEW served \in BOOLEAN,
             BeginWrite(w, k, served)
      PROVE  Resting(v)
  BY <1>4 DEF BeginWrite, Typed, TypeOK, Resting
<1>5. UNCHANGED <<callVars, faults>> \/ UNCHANGED writeVars => Resting(v)
  BY DEF callVars, writeVars, Resting
<1>. QED
  BY <1>1, <1>2, <1>3, <1>4, <1>5 DEF Next, Call

(* A call on a key only the operator writes: what is wrong is repaired     *)
(* once, so there is at most one conflict, and an object that was repaired *)
(* by another goroutine stays.                                             *)
Peaceful(w) ==
  /\ pc[w] \in CallSteps =>
       /\ attempts[w] > 0 => Matched(key[w])
       /\ pc[w] \in {"get", "create"} /\ attempts[w] = 0 => o[w].rv = 0
       /\ pc[w] = "create" =>
            /\ attempts[w] = 0
            /\ objects[key[w]] # None => Matched(key[w])
       /\ pc[w] = "update" =>
            /\ objects[key[w]] # None
            /\ \/ objects[key[w]].rv = o[w].rv
               \/ attempts[w] = 0 /\ Matched(key[w])
  /\ err[w] \in {"nil", "NoKind", "NoNamespace", "Unsupported", "Fault"}

Peace ==
  \A w \in Syncers : key[w] \in StorageClasses \cup disturbed \/ Peaceful(w)

LEMMA PeaceResting ==
  ASSUME WriteAssumption, Typed, NEW w \in Syncers, Peaceful(w), Resting(w),
         pc[w] \in CallSteps => Untouched(key[w]) \/ Repaired(key[w])
  PROVE  Peaceful(w)'
<1>1. CASE pc[w] \in CallSteps
  <2>1. attempts[w] \in Nat
    BY WriteAssumption DEF Typed, TypeOK
  <2>. QED
    BY <1>1, <2>1 DEF Peaceful, Resting, Untouched, Repaired, Matched
<1>2. CASE pc[w] \notin CallSteps
  BY <1>2 DEF Peaceful, Resting
<1>. QED
  BY <1>1, <1>2

LEMMA PeaceCall ==
  ASSUME ServerAssumption, NoneAssumption, WriteAssumption, Base, Base',
         [Next]_writeVars, NEW w \in Syncers, Peaceful(w), Call(w),
         key[w] \notin StorageClasses
  PROVE  Peaceful(w)'
<1>. DEFINE k == key[w]
<1>1. /\ pc[w] \in CallSteps /\ k \in Keys /\ o[w] \in Draft
      /\ DraftOK(w) /\ Typed /\ VersionOK /\ Typed' /\ ErrOK(w)
      /\ attempts[w] \in Nat /\ MaxAttempts \in Nat /\ MaxAttempts >= 2
  BY DEF Call, Get, Create, Update, Delete, Recreate, Base, Typed, CallOK, LocalOK,
     CallSteps, WriteAssumption, TypeOK
<1>2. \A e : Finish(w, e) => pc'[w] = "done" /\ err'[w] = e
  BY <1>1 DEF Finish, Typed, TypeOK
<1>3. ASSUME NEW e \in {"nil", "NoNamespace", "Unsupported", "Fault"}, Finish(w, e)
      PROVE  Peaceful(w)'
  BY <1>2, <1>3 DEF Peaceful, CallSteps
<1>4. ASSUME Answered(w, "done")
      PROVE  Peaceful(w)'
  BY <1>3, <1>4 DEF Answered
<1>5. ASSUME Retry(w), attempts[w] = 0, Matched(k), UNCHANGED <<objects, o>>
      PROVE  Peaceful(w)'
  <2>1. attempts[w] + 1 < MaxAttempts
    BY <1>1, <1>5
  <2>2. /\ pc'[w] = "get" /\ attempts'[w] = 1 /\ key'[w] = k /\ err'[w] = err[w]
    BY <1>1, <1>5, <2>1 DEF Retry, Typed, TypeOK
  <2>. QED
    BY <1>1, <1>5, <2>2 DEF Peaceful, Matched
<1>6. CASE Get(w)
  <2>1. /\ pc[w] = "get" /\ objects' = objects /\ key'[w] = k
        /\ attempts'[w] = attempts[w]
    BY <1>1, <1>6 DEF Get, Goto, Finish, serverVars, Typed, TypeOK
  <2>2. ASSUME objects[k] = None
        PROVE  Peaceful(w)'
    <3>1. attempts[w] = 0 /\ o[w].rv = 0
      BY <1>1, <2>1, <2>2 DEF Peaceful, Matched
    <3>2. pc'[w] = "create" /\ o'[w] = MarkOwned(o[w]) /\ err'[w] = err[w]
      BY <1>1, <1>6, <2>2 DEF Get, Goto, Typed, TypeOK
    <3>3. o'[w].rv = 0
      BY <1>1, <3>1, <3>2 DEF MarkOwned, Manifest, Draft
    <3>. QED
      BY <1>1, <2>1, <2>2, <3>1, <3>2, <3>3 DEF Peaceful, Matched
  <2>3. ASSUME objects[k] # None, Goto(w, "update"),
               o' = [o EXCEPT ![w] = [HandleSpecial(k, objects[k], MarkOwned(o[w]))
                                        EXCEPT !.rv = objects[k].rv]]
        PROVE  Peaceful(w)'
    <3>1. objects[k] \in Manifest
      BY <1>1, <2>3 DEF Typed, TypeOK, ServerTypeOK
    <3>2. HandleSpecial(k, objects[k], MarkOwned(o[w])) \in Draft
      BY <1>1, <3>1 DEF HandleSpecial, MarkOwned, Manifest, Draft
    <3>3. o'[w].rv = objects[k].rv
      BY <1>1, <2>3, <3>2 DEF Manifest, Draft, Typed, TypeOK
    <3>4. pc'[w] = "update" /\ err'[w] = err[w]
      BY <1>1, <2>3 DEF Goto, Typed, TypeOK
    <3>. QED
      BY <1>1, <2>1, <2>3, <3>3, <3>4 DEF Peaceful, Matched
  <2>. QED
    BY <1>3, <1>6, <2>2, <2>3 DEF Get
<1>7. CASE Create(w)
  <2>1. /\ pc[w] = "create" /\ attempts[w] = 0 /\ o[w].rv = 0
        /\ objects[k] # None => Matched(k)
    BY <1>1, <1>7 DEF Create, Peaceful
  <2>2. CreateReply(k, o[w]) \in {"OK", "NoNamespace", "Unsupported", "AlreadyExists"}
    BY <2>1 DEF CreateReply
  <2>3. CreateReply(k, o[w]) = "AlreadyExists" => objects[k] # None
    BY DEF CreateReply
  <2>. QED
    BY <1>3, <1>4, <1>5, <1>7, <2>1, <2>2, <2>3 DEF Create
<1>8. CASE Update(w)
  <2>1. /\ pc[w] = "update" /\ objects[k] # None
        /\ \/ objects[k].rv = o[w].rv
           \/ attempts[w] = 0 /\ Matched(k)
    BY <1>1, <1>8 DEF Update, Peaceful
  <2>2. UpdateReply(k, o[w]) \in {"OK", "Conflict", "Unsupported"}
    BY <1>1, <2>1 DEF UpdateReply, DraftOK
  <2>3. UpdateReply(k, o[w]) = "Conflict" => attempts[w] = 0 /\ Matched(k)
    BY <2>1 DEF UpdateReply
  <2>. QED
    BY <1>3, <1>4, <1>5, <1>8, <2>2, <2>3 DEF Update
<1>9. ~Delete(w) /\ ~Recreate(w)
  BY <1>1 DEF Delete, Recreate, DraftOK
<1>. QED
  BY <1>6, <1>7, <1>8, <1>9 DEF Call

LEMMA PeaceStep ==
  ASSUME ServerAssumption, NoneAssumption, WriteAssumption, Base, Base',
         Peace, [Next]_writeVars
  PROVE  Peace'
<1>. SUFFICES ASSUME NEW w \in Syncers,
                     key'[w] \notin StorageClasses, key'[w] \notin disturbed'
              PROVE  Peaceful(w)'
  BY DEF Peace
<1>1. Typed /\ Typed'
  BY DEF Base
<1>2. CASE Resting(w)
  <2>1. key[w] \notin StorageClasses /\ key'[w] = key[w]
    BY <1>2 DEF Resting
  <2>2. CASE pc[w] \in CallSteps
    <3>1. key[w] \in Keys \ disturbed'
      BY <1>1, <2>1, <2>2 DEF Typed, CallOK, CallSteps, WriteAssumption
    <3>2. /\ key[w] \notin disturbed
          /\ Untouched(key[w]) \/ Repaired(key[w])
      BY <2>1, <3>1, UndisturbedStep
    <3>. QED
      BY <1>1, <1>2, <2>1, <3>2, PeaceResting DEF Peace
  <2>3. CASE pc[w] = "idle"
    BY <1>1, <1>2, <2>3 DEF Resting, Peaceful, CallSteps, Base, LocalOK, ErrOK
  <2>4. CASE pc[w] = "done"
    <3>1. key[w] \in Keys \ disturbed'
      BY <1>1, <2>1, <2>4 DEF Typed, CallOK, WriteAssumption
    <3>2. key[w] \notin disturbed
      BY <3>1, UndisturbedStep
    <3>. QED
      BY <1>1, <1>2, <2>1, <2>4, <3>2, PeaceResting DEF Peace, CallSteps
  <2>. QED
    BY <1>1, <2>2, <2>3, <2>4 DEF Typed, TypeOK
<1>3. CASE Call(w)
  <2>1. pc[w] \in CallSteps /\ key'[w] = key[w]
    BY <1>3 DEF Call, Get, Create, Update, Delete, Recreate, Goto, Finish, Retry,
       Answered, CallSteps
  <2>2. key[w] \in Keys \ disturbed'
    BY <1>1, <2>1 DEF Typed, CallOK, CallSteps, WriteAssumption
  <2>3. key[w] \notin disturbed
    BY <2>2, UndisturbedStep
  <2>. QED
    BY <1>3, <2>1, <2>3, PeaceCall DEF Peace
<1>4. CASE CallFails(w)
  BY <1>1, <1>4 DEF CallFails, Finish, Peaceful, CallSteps, Typed, TypeOK
<1>5. CASE Return(w)
  BY <1>1, <1>5 DEF Return, Peaceful, CallSteps, Typed, TypeOK
<1>6. CASE Crash
  BY <1>6 DEF Crash, Forget, Peaceful, CallSteps
<1>7. ASSUME NEW k \in DB, NEW served \in BOOLEAN, BeginWrite(w, k, served)
      PROVE  Peaceful(w)'
  <2>1. pc[w] = "idle" /\ attempts[w] = 0
    BY <1>1, <1>7 DEF BeginWrite, Typed, CallOK
  <2>. QED
    BY <1>1, <1>7, <2>1 DEF BeginWrite, Stored, Peaceful, CallSteps, Typed, TypeOK
<1>. QED
  BY <1>1, <1>2, <1>3, <1>4, <1>5, <1>6, <1>7, LocalKinds

(* However many passes write the same object at once, none of them fails   *)
(* because of the others: with nobody else writing it, the only errors are *)
(* a kind not served, a missing namespace and a failed call.               *)
THEOREM PassesAreCompatible == Spec => []ConcurrentWritesCompatible
<1>1. Init => Peace
  BY DEF Init, Idle, Peace, Peaceful, CallSteps
<1>2. Base /\ Base' /\ Peace /\ [Next]_writeVars => Peace'
  BY PeaceStep, ServerAssumption, NoneAssumption, WriteAssumption
<1>3. Peace => ConcurrentWritesCompatible
  BY DEF Peace, Peaceful, ConcurrentWritesCompatible, Excusable
<1>. QED
  BY <1>1, <1>2, <1>3, BaseInvariant, PTL DEF Spec

------------------------------------------------------------------------------
(* Refinement of DesiredState *)

LEMMA ClusterAt ==
  ASSUME NEW k \in Keys
  PROVE  Cluster[k] = IF objects[k] = None THEN None
                      ELSE [spec    |-> objects[k].spec,
                            owned   |-> objects[k].owned,
                            address |-> objects[k].address]
BY DEF Cluster

LEMMA ClusterTyped ==
  ASSUME ServerTypeOK
  PROVE  Cluster \in [Keys -> Abstract!Object \cup {None}]
<1>1. ASSUME NEW k \in Keys, objects[k] # None
      PROVE  [spec |-> objects[k].spec, owned |-> objects[k].owned,
              address |-> objects[k].address] \in Abstract!Object
  BY <1>1 DEF ServerTypeOK, Manifest, Draft, Abstract!Object
<1>. QED
  BY <1>1 DEF Cluster

LEMMA ClusterChange ==
  ASSUME NEW k \in Keys, \A j \in Keys \ {k} : objects'[j] = objects[j]
  PROVE  Cluster' = [Cluster EXCEPT ![k] =
                       IF objects'[k] = None THEN None
                       ELSE [spec    |-> objects'[k].spec,
                             owned   |-> objects'[k].owned,
                             address |-> objects'[k].address]]
BY DEF Cluster

LEMMA RefinedStep ==
  ASSUME ServerAssumption, NoneAssumption, WriteAssumption, ObjectAssumption,
         Base, Base', [Next]_writeVars
  PROVE  [Abstract!Next]_(Abstract!vars)
<1>. USE DEF Abstract!vars
<1>1. Typed /\ Typed' /\ ServerTypeOK /\ ServerTypeOK'
  BY DEF Base, Typed, TypeOK
<1>2. CASE UNCHANGED <<objects, edits>>
  BY <1>2 DEF Cluster
<1>3. ASSUME NEW w \in Syncers, Call(w), UNCHANGED edits
      PROVE  Abstract!Next \/ UNCHANGED <<Cluster, edits>>
  <2>1. PICK k \in DB : k = key[w] /\ k \in Keys
    BY <1>1, <1>3 DEF Call, Get, Create, Update, Delete, Recreate, Typed, CallOK,
       WriteAssumption
  <2>2. CallEffect(w)
    BY <1>3, CallEffects
  <2>3. CASE \A j \in Keys : Untouched(j)
    BY <1>3, <2>3 DEF Untouched, Cluster
  <2>4. ASSUME \A j \in Keys \ {k} : Untouched(j), Repaired(k)
        PROVE  Abstract!Ensure(k)
    <3>1. objects'[k] \in Manifest
      BY <1>1, <2>1, <2>4 DEF Repaired, ServerTypeOK
    <3>2. /\ objects'[k].spec = Want[k] /\ objects'[k].owned = TRUE
          /\ objects'[k].address \in Addresses \cup {NoAddress}
      BY <2>4, <3>1 DEF Repaired, Manifest, Draft
    <3>3. Cluster' = [Cluster EXCEPT ![k] =
             [spec |-> Want[k], owned |-> TRUE, address |-> objects'[k].address]]
      <4>1. objects'[k] # None /\ \A j \in Keys \ {k} : objects'[j] = objects[j]
        BY <2>4 DEF Untouched, Repaired
      <4>. QED
        BY <2>1, <3>2, <4>1, ClusterChange
    <3>4. ~Abstract!InPlace(k)
      <4>1. CASE objects[k] = None
        BY <2>1, <4>1, ClusterAt DEF Abstract!InPlace
      <4>2. CASE objects[k] # None
        <5>1. Cluster[k] = [spec    |-> objects[k].spec,
                            owned   |-> objects[k].owned,
                            address |-> objects[k].address]
          BY <2>1, <4>2, ClusterAt
        <5>2. Cluster[k].spec = objects[k].spec /\ Cluster[k].owned = objects[k].owned
          BY <5>1
        <5>. QED
          BY <2>4, <4>2, <5>2 DEF Repaired, Matched, Abstract!InPlace
      <4>. QED
        BY <4>1, <4>2
    <3>5. ASSUME Cluster[k] # None
          PROVE  objects'[k].address = Cluster[k].address
      <4>1. objects[k] # None
        BY <2>1, <3>5, ClusterAt
      <4>2. Cluster[k] = [spec    |-> objects[k].spec,
                          owned   |-> objects[k].owned,
                          address |-> objects[k].address]
        BY <2>1, <4>1, ClusterAt
      <4>3. Cluster[k].address = objects[k].address
        BY <4>2
      <4>. QED
        BY <2>4, <4>1, <4>3 DEF Repaired
    <3>. QED
      BY <1>3, <3>2, <3>3, <3>4, <3>5 DEF Abstract!Ensure
  <2>5. ASSUME \A j \in Keys \ {k} : Untouched(j), pc[w] = "delete",
               objects[k] # None, Removed(k)
        PROVE  Abstract!Recycle(k)
    <3>1. k \in StorageClasses
      BY <2>1, <2>5 DEF Base, LocalOK, DraftOK, CallSteps
    <3>2. Cluster[k] # None
      <4>1. objects[k] \in Manifest
        BY <1>1, <2>1, <2>5 DEF ServerTypeOK
      <4>2. [spec |-> objects[k].spec, owned |-> objects[k].owned,
             address |-> objects[k].address] \in Abstract!Object
        BY <4>1 DEF Manifest, Draft, Abstract!Object
      <4>3. Cluster[k] \in Abstract!Object
        BY <2>1, <2>5, <4>2, ClusterAt
      <4>. QED
        BY <4>3, ObjectAssumption
    <3>3. Cluster' = [Cluster EXCEPT ![k] = None]
      <4>1. objects'[k] = None /\ \A j \in Keys \ {k} : objects'[j] = objects[j]
        BY <2>5 DEF Untouched, Removed
      <4>. QED
        BY <2>1, <4>1, ClusterChange
    <3>. QED
      BY <1>3, <3>1, <3>2, <3>3 DEF Abstract!Recycle
  <2>. QED
    BY <2>1, <2>2, <2>3, <2>4, <2>5 DEF CallEffect, Abstract!Next
<1>4. ASSUME NEW j \in Keys, Outsider(j)
      PROVE  Abstract!Outsider(j)
  <2>1. \A k \in Keys \ {j} : objects'[k] = objects[k]
    BY <1>1, <1>4 DEF Outsider, OutsiderWrites, OutsiderDeletes, Store, Remove,
       ServerTypeOK
  <2>2. Cluster' \in [Keys -> Abstract!Object \cup {None}]
    <3>1. ASSUME NEW k \in Keys, objects'[k] # None
          PROVE  [spec |-> objects'[k].spec, owned |-> objects'[k].owned,
                  address |-> objects'[k].address] \in Abstract!Object
      BY <1>1, <3>1 DEF ServerTypeOK, Manifest, Draft, Abstract!Object
    <3>. QED
      BY <3>1 DEF Cluster
  <2>. DEFINE v == Cluster'[j]
  <2>3. v \in Abstract!Object \cup {None}
    BY <2>2
  <2>5. Cluster' = [Cluster EXCEPT ![j] = v]
    BY <2>1 DEF Cluster
  <2>4. edits' = edits + 1
    BY <1>4 DEF Outsider
  <2>. QED
    BY <2>3, <2>4, <2>5 DEF Abstract!Outsider
<1>. QED
  BY <1>2, <1>3, <1>4, StepKinds DEF serverVars, Abstract!Next

(* The goroutines, whatever their interleaving, conflicts, lost replies    *)
(* and crashes, implement DesiredState: they only turn a wrong object into *)
(* the right one with its address kept, and remove only StorageClasses.    *)
THEOREM Refinement == Spec => RefinesDesiredState
<1>1. Init => Abstract!Init
  <2>1. Init => Cluster \in [Keys -> Abstract!Object \cup {None}]
    BY BaseInit, ClusterTyped, ServerAssumption, NoneAssumption, WriteAssumption
       DEF Base, Typed, TypeOK, Init, WriteAssumption
  <2>. QED
    BY <2>1 DEF Init, ServerInit, Abstract!Init
<1>2. Base /\ Base' /\ [Next]_writeVars => [Abstract!Next]_(Abstract!vars)
  BY RefinedStep, ServerAssumption, NoneAssumption, WriteAssumption, ObjectAssumption
<1>. QED
  BY <1>1, <1>2, BaseInvariant, PTL DEF Spec, RefinesDesiredState, Abstract!Spec
==============================================================================
