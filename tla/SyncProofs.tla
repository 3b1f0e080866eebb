------------------------------ MODULE SyncProofs ------------------------------
(***************************************************************************)
(* What Sync promises for every number of passes, objects, kinds, faults,  *)
(* restarts and writes by other clients.                                   *)
(***************************************************************************)
EXTENDS Sync, WriteObjectProofs, NaturalsInduction, WellFoundedInduction

------------------------------------------------------------------------------
(* The order of a pass *)

PassTyped ==
  /\ stage \in [Syncers -> {"rest", "early", "assign", "late", "collect"}]
  /\ todo \in [Syncers -> SUBSET DB]
  /\ snapshot \in [Syncers -> SUBSET served]
  /\ unlisted \in [Syncers -> SUBSET {g \in Kinds : Collectable(g)}]
  /\ doomed \in [Syncers -> SUBSET (Keys \ DB)]
  /\ grs \subseteq served /\ served \subseteq Kinds

(* A call in flight writes the first object that is due. *)
Working(w) ==
  pc[w] # "idle" =>
    /\ key[w] \in Due(w)
    /\ \A j \in Due(w) \ {key[w]} : Before(key[w], j)

(* An object is as desired, or nobody promises that it is. *)
Resolved(k) == Matched(k) \/ k \in StorageClasses \cup disturbed

(* What a pass has written is as desired. *)
WrittenOK(w) ==
  /\ stage[w] # "rest" => \A k \in DB \ todo[w] : Resolved(k)
  /\ pc[w] = "done" /\ err[w] = "nil" => Resolved(key[w])
  /\ stage[w] = "collect" => todo[w] = {}

MissingOK(w) ==
  err[w] = "NoNamespace" /\ NamespaceOf[key[w]] \in DB
    => NamespaceOf[key[w]] \in disturbed

PassOK(w) == Working(w) /\ WrittenOK(w) /\ MissingOK(w)

Passes == Base /\ PassTyped /\ \A w \in Syncers : PassOK(w)

(* Discovery without a fault knows every kind that is always served. *)
Known(S) == \A g \in Kinds : DefinedBy[g] = None => g \in S

DiscoveryOK ==
  faults = 0 =>
    /\ Known(served) /\ Known(grs)
    /\ \A w \in Syncers : stage[w] = "assign" => Known(snapshot[w])

(* What a pass that collects has not yet removed it has still to remove. *)
SweptOK(w) ==
  faults = 0 /\ stage[w] = "collect" =>
    \A k \in Keys \ (DB \cup disturbed) :
      KindOf[k] \in Collected /\ DefinedBy[KindOf[k]] = None =>
        \/ objects[k] = None \/ ~objects[k].owned
        \/ KindOf[k] \in unlisted[w] \/ k \in doomed[w]

Swept == DiscoveryOK /\ \A w \in Syncers : SweptOK(w)

LEMMA Minimum ==
  ASSUME NEW S \in SUBSET Nat, S # {}
  PROVE  \E m \in S : \A n \in S : m <= n
<1>. DEFINE R == {ss \in Nat \X Nat : ss[1] < ss[2]}
<1>1. IsWellFoundedOn(R, Nat)
  BY NatLessThanWellFounded DEF OpToRel
<1>. HIDE DEF R
<1>2. PICK m \in S : \A n \in S : ~ (<<n, m>> \in R)
  BY <1>1, WFMin
<1>3. \A n \in S : ~ (n < m)
  BY <1>2 DEF R
<1>. QED
  BY <1>3

(* Sorting has a first element: phases first, then names. *)
LEMMA FirstExists ==
  ASSUME SyncAssumption, NEW S \in SUBSET Keys, S # {}
  PROVE  \E k \in S : \A j \in S \ {k} : Before(k, j)
<1>1. \A k \in Keys : PhaseOf(k) \in Nat /\ Rank[k] \in Nat
  BY DEF PhaseOf, SyncAssumption
<1>2. PICK p \in {PhaseOf(k) : k \in S} : \A n \in {PhaseOf(k) : k \in S} : p <= n
  <2>1. {PhaseOf(k) : k \in S} \in SUBSET Nat /\ {PhaseOf(k) : k \in S} # {}
    BY <1>1
  <2>. QED
    BY <2>1, Minimum
<1>. DEFINE T == {k \in S : PhaseOf(k) = p}
<1>3. PICK r \in {Rank[k] : k \in T} : \A n \in {Rank[k] : k \in T} : r <= n
  <2>1. {Rank[k] : k \in T} \in SUBSET Nat /\ {Rank[k] : k \in T} # {}
    BY <1>1, <1>2
  <2>. QED
    BY <2>1, Minimum
<1>4. PICK k \in T : Rank[k] = r
  BY <1>3
<1>5. ASSUME NEW j \in S \ {k}
      PROVE  Before(k, j)
  <2>1. PhaseOf(k) <= PhaseOf(j)
    BY <1>2, <1>4
  <2>2. PhaseOf(k) = PhaseOf(j) => Rank[k] <= Rank[j]
    BY <1>3, <1>4
  <2>3. Rank[k] # Rank[j]
    BY <1>4 DEF SyncAssumption
  <2>4. /\ PhaseOf(k) \in Nat /\ PhaseOf(j) \in Nat
        /\ Rank[k] \in Nat /\ Rank[j] \in Nat
    BY <1>1, <1>4
  <2>. QED
    BY <2>1, <2>2, <2>3, <2>4 DEF Before
<1>. QED
  BY <1>4, <1>5

LEMMA DueTyped ==
  ASSUME PassTyped, WriteAssumption, NEW w \in Syncers
  PROVE  Due(w) \subseteq todo[w] /\ Due(w) \subseteq DB /\ Due(w) \subseteq Keys
BY DEF Due, PassTyped, WriteAssumption

LEMMA NextKeyIsFirst ==
  ASSUME SyncAssumption, WriteAssumption, PassTyped, NEW w \in Syncers, Due(w) # {}
  PROVE  /\ NextKey(w) \in Due(w)
         /\ \A j \in Due(w) \ {NextKey(w)} : Before(NextKey(w), j)
<1>1. \E k \in Due(w) : \A j \in Due(w) \ {k} : Before(k, j)
  BY DueTyped, FirstExists
<1>. QED
  BY <1>1 DEF NextKey

------------------------------------------------------------------------------
(* What a step of Sync does to write() and to the server *)

FaultsGrow ==
  \/ faults' = faults
  \/ faults' \in {faults + 1, faults + 2} /\ faults' <= MaxFaults

Paused == UNCHANGED <<serverVars, callVars>> /\ FaultsGrow

Restarted == UNCHANGED serverVars /\ Forget /\ FaultsGrow /\ faults' # faults

OrphanRemoved ==
  /\ UNCHANGED <<edits, disturbed, callVars>> /\ FaultsGrow
  /\ \E k \in Keys \ DB : objects[k] # None /\ Remove(k)

LEMMA StepClasses ==
  ASSUME SyncAssumption, WriteAssumption, TypeOK, PassTyped, [SyncNext]_vars
  PROVE  [Next]_writeVars \/ Paused \/ Restarted \/ OrphanRemoved
<1>. /\ faults \in Nat /\ MaxFaults \in Nat
     /\ Fault => FaultsGrow
  BY DEF TypeOK, WriteAssumption, Fault, FaultsGrow
<1>1. ASSUME NEW w \in Syncers, StartPass(w) \/ Assign(w) \/ Complete(w)
      PROVE  UNCHANGED writeVars
  BY <1>1 DEF StartPass, Assign, Complete
<1>2. ASSUME NEW w \in Syncers, Apply(w)
      PROVE  Next
  <2>1. NextKey(w) \in DB
    BY <1>2, NextKeyIsFirst, DueTyped DEF Apply
  <2>2. \E b \in BOOLEAN : BeginWrite(w, NextKey(w), b)
    <3>1. (KindOf[NextKey(w)] \in grs) \in BOOLEAN
      OBVIOUS
    <3>. QED
      BY <1>2, <3>1, Zenon DEF Apply
  <2>. QED
    BY <2>1, <2>2, Zenon DEF Next
<1>3. ASSUME NEW w \in Syncers, Applied(w) \/ Call(w) \/ CallFails(w)
      PROVE  Next
  BY <1>3 DEF Applied, Next
<1>4. ASSUME NEW w \in Syncers, TornLookup(w) \/ Discover(w) \/ StartCollect(w) \/ List(w)
      PROVE  Paused
  BY <1>4 DEF TornLookup, Discover, StartCollect, List, FaultsGrow, Paused, serverVars
<1>5. ASSUME NEW w \in Syncers, DeleteOrphan(w)
      PROVE  Paused \/ OrphanRemoved
  <2>1. PICK k \in doomed[w] :
          \/ DeleteReply(k) = "OK" /\ Remove(k)
          \/ UNCHANGED <<objects, version>>
    BY <1>5 DEF DeleteOrphan
  <2>2. k \in Keys \ DB
    BY <2>1 DEF PassTyped
  <2>3. FaultsGrow /\ UNCHANGED <<edits, disturbed, callVars>>
    BY <1>5 DEF DeleteOrphan, FaultsGrow
  <2>. QED
    BY <2>1, <2>2, <2>3 DEF DeleteReply, Paused, OrphanRemoved, serverVars
<1>6. ASSUME Restart
      PROVE  Restarted
  BY <1>6 DEF Restart, Restarted, FaultsGrow
<1>7. ASSUME NEW g \in Kinds, Establish(g)
      PROVE  UNCHANGED writeVars
  BY <1>7 DEF Establish
<1>8. ASSUME NEW k \in Keys, Others(k)
      PROVE  Next
  BY <1>8 DEF Others, Next
<1>9. UNCHANGED vars => UNCHANGED writeVars
  BY DEF vars
<1>. QED
  BY <1>1, <1>2, <1>3, <1>4, <1>5, <1>6, <1>7, <1>8, <1>9 DEF SyncNext, PassStep

LEMMA BaseStepOfPass ==
  ASSUME ServerAssumption, NoneAssumption, WriteAssumption, SyncAssumption,
         Base, PassTyped, [SyncNext]_vars
  PROVE  Base'
<1>1. /\ Typed /\ TypeOK /\ ServerTypeOK /\ CallOK /\ VersionOK
      /\ \A w \in Syncers : LocalOK(w)
  BY DEF Base, Typed, TypeOK
<1>2. FaultsGrow => faults' \in 0..MaxFaults
  BY <1>1 DEF FaultsGrow, TypeOK, WriteAssumption
<1>3. CASE Paused
  <2>1. Typed'
    BY <1>1, <1>2, <1>3 DEF Paused, Typed, TypeOK, ServerTypeOK, CallOK, serverVars, callVars
  <2>2. VersionOK'
    BY <1>1, <1>3 DEF Paused, VersionOK, serverVars
  <2>3. \A w \in Syncers : LocalOK(w)'
    BY <1>1, <1>3 DEF Paused, LocalOK, DraftOK, AttemptsOK, ErrOK, serverVars, callVars
  <2>. QED
    BY <2>1, <2>2, <2>3 DEF Base
<1>4. CASE Restarted
  <2>1. Typed'
    BY <1>1, <1>2, <1>4 DEF Restarted, Forget, Typed, TypeOK, ServerTypeOK, CallOK,
       serverVars, CallSteps, Errors, WriteAssumption
  <2>2. VersionOK'
    BY <1>1, <1>4 DEF Restarted, VersionOK, serverVars
  <2>3. \A w \in Syncers : LocalOK(w)'
    BY <1>4 DEF Restarted, Forget, LocalOK, ErrOK, CallSteps
  <2>. QED
    BY <2>1, <2>2, <2>3 DEF Base
<1>5. CASE OrphanRemoved
  <2>1. PICK k \in Keys \ DB : Remove(k)
    BY <1>5 DEF OrphanRemoved
  <2>2. \A j \in Keys : KeyStep(j)
    BY <1>1, <2>1 DEF Remove, KeyStep, Rewritten, ServerTypeOK
  <2>3. Typed'
    BY <1>1, <1>2, <1>5, <2>1, RemoveTyped DEF OrphanRemoved, Typed, TypeOK, ServerTypeOK,
       CallOK, callVars
  <2>4. VersionOK'
    BY <1>1, <2>2, <2>3, VersionStep
  <2>5. \A w \in Syncers : LocalOK(w)'
    BY <1>1, <1>5, <2>2, <2>3, <2>4, LocalStable DEF OrphanRemoved, callVars
  <2>. QED
    BY <2>3, <2>4, <2>5 DEF Base
<1>. QED
  BY <1>1, <1>3, <1>4, <1>5, BaseStep, StepClasses

(* The collector leaves the database alone: what happens to an object of   *)
(* the database in a pass is what happens to it in write().                *)
LEMMA DatabaseStep ==
  ASSUME ServerAssumption, NoneAssumption, WriteAssumption, SyncAssumption,
         Base, PassTyped, [SyncNext]_vars, NEW k \in DB \ disturbed'
  PROVE  /\ k \notin disturbed
         /\ \/ Untouched(k)
            \/ Repaired(k)
            \/ k \in StorageClasses /\ \E w \in Syncers : pc[w] = "delete"
<1>1. k \in Keys /\ ServerTypeOK
  BY DEF Base, Typed, TypeOK, WriteAssumption
<1>2. CASE [Next]_writeVars
  BY <1>1, <1>2, UndisturbedStep
<1>3. CASE Paused \/ Restarted
  BY <1>3 DEF Paused, Restarted, Untouched, serverVars
<1>4. CASE OrphanRemoved
  BY <1>1, <1>4 DEF OrphanRemoved, Remove, Untouched, ServerTypeOK
<1>. QED
  BY <1>2, <1>3, <1>4, StepClasses DEF Base, Typed

LEMMA DisturbedGrows ==
  ASSUME WriteAssumption, SyncAssumption, TypeOK, PassTyped, [SyncNext]_vars
  PROVE  disturbed \subseteq disturbed'
<1>1. CASE [Next]_writeVars
  BY <1>1, StepKinds DEF serverVars, Outsider
<1>2. CASE Paused \/ Restarted \/ OrphanRemoved
  BY <1>2 DEF Paused, Restarted, OrphanRemoved, serverVars
<1>. QED
  BY <1>1, <1>2, StepClasses

LEMMA ResolvedStays ==
  ASSUME ServerAssumption, NoneAssumption, WriteAssumption, SyncAssumption,
         Base, PassTyped, [SyncNext]_vars, NEW k \in DB, Resolved(k)
  PROVE  Resolved(k)'
<1>1. disturbed \subseteq disturbed'
  BY DisturbedGrows DEF Base, Typed
<1>2. CASE k \in StorageClasses \cup disturbed'
  BY <1>2 DEF Resolved
<1>3. CASE k \notin StorageClasses \cup disturbed'
  <2>1. Matched(k)
    BY <1>1, <1>3 DEF Resolved
  <2>2. Untouched(k) \/ Repaired(k)
    BY <1>3, DatabaseStep
  <2>. QED
    BY <2>1, <2>2 DEF Resolved, Matched, Untouched, Repaired
<1>. QED
  BY <1>2, <1>3

------------------------------------------------------------------------------
(* Types *)

LEMMA EndPassTyped ==
  ASSUME PassTyped, NEW w \in Syncers, EndPass(w), UNCHANGED <<grs, served>>
  PROVE  PassTyped'
BY DEF EndPass, PassTyped

LEMMA OrphansAreForeign ==
  ASSUME SyncAssumption, NEW g \in Kinds, Collectable(g)
  PROVE  Orphans(g) \subseteq Keys \ DB
BY DEF SyncAssumption, Collectable, Orphans

LEMMA PassTypedStep ==
  ASSUME SyncAssumption, PassTyped, [SyncNext]_vars
  PROVE  PassTyped'
<1>1. ASSUME NEW w \in Syncers, StartPass(w)
      PROVE  PassTyped'
  BY <1>1 DEF StartPass, PassTyped
<1>2. ASSUME NEW w \in Syncers, Apply(w)
      PROVE  PassTyped'
  BY <1>2 DEF Apply, passVars, PassTyped
<1>3. ASSUME NEW w \in Syncers, Applied(w) \/ TornLookup(w)
      PROVE  PassTyped'
  <2>1. CASE EndPass(w)
    BY <1>3, <2>1, EndPassTyped DEF Applied, TornLookup
  <2>2. CASE ~EndPass(w)
    BY <1>3, <2>2 DEF Applied, TornLookup, PassTyped
  <2>. QED
    BY <2>1, <2>2
<1>4. ASSUME NEW w \in Syncers, Discover(w)
      PROVE  PassTyped'
  <2>1. CASE EndPass(w)
    BY <1>4, <2>1, EndPassTyped DEF Discover
  <2>2. CASE ~EndPass(w)
    <3>1. PICK lost \in SUBSET Flaky :
            snapshot' = [snapshot EXCEPT ![w] = Discovered(lost)]
      BY <1>4, <2>2 DEF Discover
    <3>2. Discovered(lost) \subseteq served
      BY DEF Discovered
    <3>3. /\ stage' = [stage EXCEPT ![w] = "assign"]
          /\ UNCHANGED <<todo, unlisted, doomed, grs, served>>
      BY <1>4, <2>2 DEF Discover
    <3>. QED
      BY <3>1, <3>2, <3>3 DEF PassTyped
  <2>. QED
    BY <2>1, <2>2
<1>5. ASSUME NEW w \in Syncers, Assign(w)
      PROVE  PassTyped'
  BY <1>5 DEF Assign, PassTyped
<1>6. ASSUME NEW w \in Syncers, StartCollect(w)
      PROVE  PassTyped'
  <2>1. PICK part \in SUBSET grs :
          unlisted' = [unlisted EXCEPT ![w] = {g \in part : Collectable(g)}]
    BY <1>6 DEF StartCollect
  <2>2. /\ stage' = [stage EXCEPT ![w] = "collect"]
        /\ UNCHANGED <<todo, snapshot, doomed, grs, served>>
    BY <1>6 DEF StartCollect
  <2>3. {g \in part : Collectable(g)} \in SUBSET {g \in Kinds : Collectable(g)}
    BY <2>1 DEF PassTyped
  <2>. QED
    BY <2>1, <2>2, <2>3 DEF PassTyped
<1>7. ASSUME NEW w \in Syncers, List(w)
      PROVE  PassTyped'
  <2>1. CASE EndPass(w)
    BY <1>7, <2>1, EndPassTyped DEF List
  <2>2. CASE ~EndPass(w)
    <3>1. PICK g \in unlisted[w] :
            /\ unlisted' = [unlisted EXCEPT ![w] = @ \ {g}]
            /\ doomed' = [doomed EXCEPT ![w] = Orphans(g)]
      BY <1>7, <2>2 DEF List
    <3>2. Orphans(g) \subseteq Keys \ DB
      BY <3>1, OrphansAreForeign DEF PassTyped
    <3>3. UNCHANGED <<stage, todo, snapshot, grs, served>>
      BY <1>7, <2>2 DEF List
    <3>. QED
      BY <3>1, <3>2, <3>3 DEF PassTyped
  <2>. QED
    BY <2>1, <2>2
<1>8. ASSUME NEW w \in Syncers, DeleteOrphan(w)
      PROVE  PassTyped'
  <2>1. CASE EndPass(w)
    BY <1>8, <2>1, EndPassTyped DEF DeleteOrphan
  <2>2. CASE ~EndPass(w)
    <3>1. PICK k \in doomed[w] : doomed' = [doomed EXCEPT ![w] = @ \ {k}]
      BY <1>8, <2>2 DEF DeleteOrphan
    <3>2. UNCHANGED <<stage, todo, snapshot, unlisted, grs, served>>
      BY <1>8, <2>2 DEF DeleteOrphan
    <3>. QED
      BY <3>1, <3>2 DEF PassTyped
  <2>. QED
    BY <2>1, <2>2
<1>9. ASSUME NEW w \in Syncers, Complete(w)
      PROVE  PassTyped'
  BY <1>9, EndPassTyped DEF Complete
<1>10. ASSUME NEW g \in Kinds, Establish(g)
       PROVE  PassTyped'
  BY <1>10 DEF Establish, passVars, PassTyped
<1>11. ASSUME Restart
       PROVE  PassTyped'
  <2>1. /\ grs' \subseteq served /\ served' = served
        /\ stage' = [w \in Syncers |-> "rest"]
        /\ todo' = [w \in Syncers |-> {}] /\ snapshot' = [w \in Syncers |-> {}]
        /\ unlisted' = [w \in Syncers |-> {}] /\ doomed' = [w \in Syncers |-> {}]
    BY <1>11 DEF Restart
  <2>. QED
    BY <2>1 DEF PassTyped
<1>12. ASSUME UNCHANGED <<passVars, grs, served>>
       PROVE  PassTyped'
  BY <1>12 DEF passVars, PassTyped
<1>. QED
  BY <1>1, <1>2, <1>3, <1>4, <1>5, <1>6, <1>7, <1>8, <1>9, <1>10, <1>11, <1>12
     DEF SyncNext, PassStep, Others, vars

------------------------------------------------------------------------------
(* What a pass relies on *)

LEMMA IdleUnlessDue ==
  ASSUME NEW w \in Syncers, Working(w), Due(w) = {}
  PROVE  pc[w] = "idle"
BY DEF Working

(* What the goroutines have in common for one step. *)
Context ==
  /\ ServerAssumption /\ NoneAssumption /\ WriteAssumption /\ SyncAssumption
  /\ Passes /\ [SyncNext]_vars

LEMMA ContextFacts ==
  ASSUME Context
  PROVE  /\ Typed /\ TypeOK /\ ServerTypeOK /\ PassTyped
         /\ Base' /\ Typed' /\ PassTyped'
         /\ disturbed \subseteq disturbed'
         /\ \A k \in DB : Resolved(k) => Resolved(k)'
<1>1. /\ Base /\ Typed /\ TypeOK /\ ServerTypeOK /\ PassTyped
  BY DEF Context, Passes, Base, Typed, TypeOK
<1>2. Base' /\ PassTyped'
  BY <1>1, BaseStepOfPass, PassTypedStep DEF Context
<1>3. disturbed \subseteq disturbed'
  BY <1>1, DisturbedGrows DEF Context
<1>4. \A k \in DB : Resolved(k) => Resolved(k)'
  BY <1>1, ResolvedStays DEF Context
<1>. QED
  BY <1>1, <1>2, <1>3, <1>4 DEF Base

(* A goroutine that rests while others step. *)
LEMMA PassRests ==
  ASSUME Context, NEW v \in Syncers,
         pc'[v] = pc[v], key'[v] = key[v], err'[v] = err[v],
         stage'[v] = stage[v], todo'[v] = todo[v]
  PROVE  PassOK(v)'
<1>1. PassOK(v) /\ Typed /\ disturbed \subseteq disturbed'
  BY ContextFacts DEF Context, Passes
<1>2. \A k \in DB : Resolved(k) => Resolved(k)'
  BY ContextFacts
<1>3. Working(v)'
  BY <1>1 DEF PassOK, Working, Due, Before
<1>4. WrittenOK(v)'
  <2>1. pc[v] = "done" => key[v] \in DB
    BY <1>1 DEF Typed, CallOK
  <2>. QED
    BY <1>1, <1>2, <2>1 DEF PassOK, WrittenOK
<1>5. MissingOK(v)'
  BY <1>1 DEF PassOK, MissingOK
<1>. QED
  BY <1>3, <1>4, <1>5 DEF PassOK

(* A goroutine that is between two calls of write(). *)
LEMMA PassIdles ==
  ASSUME Context, NEW w \in Syncers, UNCHANGED callVars, pc[w] = "idle",
         stage'[w] # "rest" => \/ todo'[w] = DB
                               \/ todo'[w] = todo[w] /\ stage[w] # "rest",
         stage'[w] = "collect" => todo'[w] = {}
  PROVE  PassOK(w)'
<1>1. PassOK(w) /\ disturbed \subseteq disturbed'
  BY ContextFacts DEF Context, Passes
<1>2. \A k \in DB : Resolved(k) => Resolved(k)'
  BY ContextFacts
<1>3. pc'[w] = "idle" /\ key'[w] = key[w] /\ err'[w] = err[w]
  BY DEF callVars
<1>4. Working(w)'
  BY <1>3 DEF Working
<1>5. WrittenOK(w)'
  BY <1>1, <1>2, <1>3 DEF PassOK, WrittenOK
<1>6. MissingOK(w)'
  BY <1>1, <1>3 DEF PassOK, MissingOK
<1>. QED
  BY <1>4, <1>5, <1>6 DEF PassOK

(* The namespaces come before what is in them. *)
LEMMA NamespaceFirst ==
  ASSUME SyncAssumption, ServerAssumption, NoneAssumption, PassTyped, WriteAssumption,
         NEW w \in Syncers, PassOK(w), pc[w] # "idle",
         NEW n \in DB, n = NamespaceOf[key[w]], objects[n] = None
  PROVE  n \in disturbed
<1>1. key[w] \in Due(w) /\ key[w] \in Keys
  BY DueTyped DEF PassOK, Working
<1>2. /\ KindOf[n] = "Namespace"
      /\ KindOf[key[w]] \notin {"CustomResourceDefinition", "Namespace"}
  BY <1>1 DEF SyncAssumption, WriteAssumption, NoneAssumption
<1>3. PhaseOf(n) = 2 /\ PhaseOf(key[w]) \in {3, 4, 5, 6}
  BY <1>2 DEF PhaseOf
<1>4. n # key[w] /\ ~Before(key[w], n)
  BY <1>2, <1>3 DEF Before
<1>5. n \notin Due(w)
  BY <1>4 DEF PassOK, Working
<1>6. stage[w] \in {"early", "late"} /\ n \notin todo[w]
  BY <1>1, <1>3, <1>5 DEF Due
<1>7. Resolved(n)
  BY <1>6 DEF PassOK, WrittenOK
<1>8. n \notin StorageClasses
  BY <1>2 DEF SyncAssumption
<1>. QED
  BY <1>7, <1>8 DEF Resolved, Matched

LEMMA PassCalls ==
  ASSUME Context, NEW w \in Syncers, Call(w), UNCHANGED passVars
  PROVE  PassOK(w)'
<1>1. /\ PassOK(w) /\ Typed /\ TypeOK /\ Typed' /\ Base /\ disturbed \subseteq disturbed'
      /\ PassTyped
  BY ContextFacts DEF Context, Passes
<1>2. \A k \in DB : Resolved(k) => Resolved(k)'
  BY ContextFacts
<1>3. pc[w] \in CallSteps /\ pc'[w] # "idle" /\ key'[w] = key[w]
  BY <1>1 DEF Call, Get, Create, Update, Delete, Recreate, Goto, Finish, Retry, Answered,
     Typed, TypeOK, CallSteps
<1>4. key[w] \in DB /\ err[w] = "nil"
  BY <1>1, <1>3 DEF Typed, CallOK, CallSteps, Base, LocalOK, ErrOK
<1>5. stage' = stage /\ todo' = todo
  BY DEF passVars
<1>6. Working(w)'
  BY <1>1, <1>3, <1>5 DEF PassOK, Working, Due, Before, CallSteps
<1>7. WrittenOK(w)'
  <2>1. pc'[w] = "done" /\ err'[w] = "nil" => Matched(key[w])'
    BY <1>1, <1>3, SuccessfulCall DEF Context, Matched
  <2>. QED
    BY <1>1, <1>2, <1>3, <1>5, <2>1 DEF PassOK, WrittenOK, Resolved
<1>8. MissingOK(w)'
  <2>. SUFFICES ASSUME err'[w] = "NoNamespace", NamespaceOf[key[w]] \in DB
                PROVE  NamespaceOf[key[w]] \in disturbed
    BY <1>1, <1>3 DEF MissingOK
  <2>1. CreateReply(key[w], o[w]) = "NoNamespace"
    <3>1. \A e : Finish(w, e) => err'[w] = e
      BY <1>1 DEF Finish, Typed, TypeOK
    <3>2. ~Retry(w) /\ ~Answered(w, "done") /\ ~Answered(w, "recreate")
          /\ \A s : ~Goto(w, s)
      BY <1>1, <1>4, <3>1 DEF Retry, Answered, Goto, Typed, TypeOK
    <3>3. ~Get(w) /\ ~Update(w) /\ ~Delete(w)
      BY <3>1, <3>2 DEF Get, Update, Delete
    <3>. QED
      BY <3>1, <3>2, <3>3 DEF Call, Create, Recreate
  <2>2. objects[NamespaceOf[key[w]]] = None
    BY <2>1 DEF CreateReply, NamespaceReady
  <2>. QED
    BY <1>1, <1>3, <2>2, NamespaceFirst DEF Context, CallSteps
<1>. QED
  BY <1>6, <1>7, <1>8 DEF PassOK

LEMMA PassesStep ==
  ASSUME Context
  PROVE  Passes'
<1>1. /\ Typed /\ TypeOK /\ PassTyped /\ Base' /\ PassTyped'
      /\ \A w \in Syncers : PassOK(w)
  BY ContextFacts DEF Context, Passes
(* The steps of a goroutine between two calls, and of nobody. *)
<1>2. ASSUME NEW w \in Syncers, UNCHANGED callVars, pc[w] = "idle",
             stage'[w] # "rest" => \/ todo'[w] = DB
                                   \/ todo'[w] = todo[w] /\ stage[w] # "rest",
             stage'[w] = "collect" => todo'[w] = {},
             \A v \in Syncers \ {w} : stage'[v] = stage[v] /\ todo'[v] = todo[v]
      PROVE  \A v \in Syncers : PassOK(v)'
  BY <1>2, PassIdles, PassRests DEF callVars, Context
<1>3. ASSUME NEW w \in Syncers, UNCHANGED callVars, EndPass(w), pc[w] = "idle"
      PROVE  \A v \in Syncers : PassOK(v)'
  BY <1>1, <1>2, <1>3 DEF EndPass, PassTyped
<1>4. ASSUME UNCHANGED <<callVars, stage, todo>>
      PROVE  \A v \in Syncers : PassOK(v)'
  BY <1>4, PassRests DEF callVars, Context
<1>5. ASSUME NEW w \in Syncers, StartPass(w)
      PROVE  \A v \in Syncers : PassOK(v)'
  <2>1. Due(w) = {}
    BY <1>5 DEF StartPass, Due
  <2>2. pc[w] = "idle"
    BY <1>1, <2>1, IdleUnlessDue DEF PassOK
  <2>3. /\ stage'[w] = "early" /\ todo'[w] = DB
        /\ \A v \in Syncers \ {w} : stage'[v] = stage[v] /\ todo'[v] = todo[v]
    BY <1>1, <1>5 DEF StartPass, PassTyped
  <2>. QED
    BY <1>2, <1>5, <2>2, <2>3 DEF StartPass, writeVars
<1>6. ASSUME NEW w \in Syncers, Apply(w)
      PROVE  \A v \in Syncers : PassOK(v)'
  <2>1. PICK b \in BOOLEAN : BeginWrite(w, NextKey(w), b)
    <3>1. (KindOf[NextKey(w)] \in grs) \in BOOLEAN
      OBVIOUS
    <3>. QED
      BY <1>6, <3>1, Zenon DEF Apply
  <2>2. /\ NextKey(w) \in Due(w) /\ Due(w) \subseteq DB
        /\ \A j \in Due(w) \ {NextKey(w)} : Before(NextKey(w), j)
    BY <1>1, <1>6, NextKeyIsFirst, DueTyped DEF Apply, Context
  <2>3. /\ key'[w] = NextKey(w) /\ pc'[w] \in {"get", "done"} /\ err'[w] \in {"nil", "NoKind"}
        /\ pc'[w] = "done" => err'[w] = "NoKind"
        /\ stage' = stage /\ todo' = todo
    BY <1>1, <1>6, <2>1 DEF BeginWrite, Apply, passVars, Typed, TypeOK
  <2>4. Working(w)'
    BY <2>2, <2>3 DEF Working, Due, Before
  <2>5. WrittenOK(w)'
    BY <1>1, <2>3, ContextFacts DEF PassOK, WrittenOK
  <2>6. MissingOK(w)'
    BY <2>3 DEF MissingOK
  <2>7. \A v \in Syncers \ {w} :
          /\ pc'[v] = pc[v] /\ key'[v] = key[v] /\ err'[v] = err[v]
          /\ stage'[v] = stage[v] /\ todo'[v] = todo[v]
    BY <1>1, <2>1, <2>3 DEF BeginWrite, Typed, TypeOK
  <2>. QED
    BY <2>4, <2>5, <2>6, <2>7, PassRests DEF PassOK, Context
<1>7. ASSUME NEW w \in Syncers, Applied(w)
      PROVE  \A v \in Syncers : PassOK(v)'
  <2>1. /\ pc[w] = "done" /\ pc'[w] = "idle" /\ err'[w] = "nil"
        /\ \A v \in Syncers \ {w} :
             pc'[v] = pc[v] /\ key'[v] = key[v] /\ err'[v] = err[v]
    BY <1>1, <1>7 DEF Applied, Return, Typed, TypeOK
  <2>2. /\ Working(w)' /\ MissingOK(w)'
    BY <2>1 DEF Working, MissingOK
  <2>3. CASE err[w] = "nil" /\ ~EndPass(w)
    <3>1. stage' = stage /\ todo' = [todo EXCEPT ![w] = @ \ {key[w]}]
      BY <1>7, <2>3 DEF Applied
    <3>2. Resolved(key[w]) /\ key[w] \in Due(w)
      BY <1>1, <2>1, <2>3 DEF PassOK, WrittenOK, Working
    <3>3. stage[w] # "collect"
      BY <3>2 DEF Due
    <3>4. todo'[w] = todo[w] \ {key[w]}
      BY <1>1, <3>1 DEF PassTyped
    <3>5. \A k \in DB \ todo'[w] : stage[w] # "rest" => Resolved(k)
      BY <1>1, <3>2, <3>4 DEF PassOK, WrittenOK
    <3>6. WrittenOK(w)'
      BY <2>1, <3>1, <3>3, <3>5, ContextFacts DEF WrittenOK
    <3>7. \A v \in Syncers \ {w} : stage'[v] = stage[v] /\ todo'[v] = todo[v]
      BY <1>1, <3>1 DEF PassTyped
    <3>. QED
      BY <2>1, <2>2, <3>6, <3>7, PassRests DEF PassOK, Context
  <2>4. CASE EndPass(w)
    <3>1. stage'[w] = "rest"
      BY <1>1, <2>4 DEF EndPass, PassTyped
    <3>2. WrittenOK(w)'
      BY <2>1, <3>1 DEF WrittenOK
    <3>3. \A v \in Syncers \ {w} : stage'[v] = stage[v] /\ todo'[v] = todo[v]
      BY <1>1, <2>4 DEF EndPass, PassTyped
    <3>. QED
      BY <2>1, <2>2, <3>2, <3>3, PassRests DEF PassOK, Context
  <2>. QED
    BY <1>7, <2>3, <2>4 DEF Applied
<1>8. ASSUME NEW w \in Syncers, TornLookup(w)
      PROVE  \A v \in Syncers : PassOK(v)'
  BY <1>3, <1>8 DEF TornLookup
<1>9. ASSUME NEW w \in Syncers, Call(w), UNCHANGED passVars
      PROVE  \A v \in Syncers : PassOK(v)'
  <2>1. \A v \in Syncers \ {w} : pc'[v] = pc[v] /\ key'[v] = key[v] /\ err'[v] = err[v]
    BY <1>1, <1>9 DEF Call, Get, Create, Update, Delete, Recreate, Goto, Finish, Retry,
       Answered, Typed, TypeOK
  <2>. QED
    BY <1>9, <2>1, PassCalls, PassRests DEF passVars, Context
<1>10. ASSUME NEW w \in Syncers, CallFails(w), UNCHANGED passVars
       PROVE  \A v \in Syncers : PassOK(v)'
  <2>1. /\ pc[w] # "idle" /\ pc'[w] = "done" /\ err'[w] = "Fault" /\ key' = key
        /\ \A v \in Syncers \ {w} : pc'[v] = pc[v] /\ err'[v] = err[v]
    BY <1>1, <1>10 DEF CallFails, Finish, CallSteps, Typed, TypeOK
  <2>2. stage' = stage /\ todo' = todo
    BY <1>10 DEF passVars
  <2>3. Working(w)' /\ MissingOK(w)'
    BY <1>1, <2>1, <2>2 DEF PassOK, Working, Due, Before, MissingOK
  <2>4. WrittenOK(w)'
    BY <1>1, <2>1, <2>2, ContextFacts DEF PassOK, WrittenOK
  <2>. QED
    BY <2>1, <2>2, <2>3, <2>4, PassRests DEF PassOK, Context
<1>11. ASSUME NEW w \in Syncers, Discover(w) \/ Assign(w) \/ StartCollect(w)
       PROVE  \A v \in Syncers : PassOK(v)'
  <2>1. /\ Due(w) = {} /\ stage[w] \in {"early", "assign", "late"} /\ UNCHANGED callVars
        /\ stage[w] = "late" => todo[w] = {}
    BY <1>11 DEF Discover, Assign, StartCollect, Due, writeVars
  <2>2. pc[w] = "idle"
    BY <1>1, <2>1, IdleUnlessDue DEF PassOK
  <2>3. CASE EndPass(w)
    BY <1>3, <2>1, <2>2, <2>3
  <2>4. CASE ~EndPass(w)
    <3>1. todo' = todo /\ \E s \in {"assign", "late", "collect"} :
            /\ stage' = [stage EXCEPT ![w] = s]
            /\ s = "collect" => stage[w] = "late"
      BY <1>11, <2>4 DEF Discover, Assign, StartCollect, writeVars
    <3>. QED
      BY <1>1, <1>2, <2>1, <2>2, <3>1 DEF PassTyped
  <2>. QED
    BY <2>3, <2>4
<1>12. ASSUME NEW w \in Syncers, List(w) \/ DeleteOrphan(w) \/ Complete(w)
       PROVE  \A v \in Syncers : PassOK(v)'
  <2>1. stage[w] = "collect" /\ UNCHANGED callVars
    BY <1>12 DEF List, DeleteOrphan, Complete, writeVars
  <2>2. pc[w] = "idle"
    BY <1>1, <2>1, IdleUnlessDue DEF PassOK, Due
  <2>3. EndPass(w) \/ UNCHANGED <<stage, todo>>
    BY <1>12 DEF List, DeleteOrphan, Complete
  <2>. QED
    BY <1>3, <1>4, <2>1, <2>2, <2>3
<1>13. ASSUME Restart
       PROVE  \A v \in Syncers : PassOK(v)'
  <2>1. /\ pc' = [w \in Syncers |-> "idle"] /\ err' = [w \in Syncers |-> "nil"]
        /\ stage' = [w \in Syncers |-> "rest"]
    BY <1>13 DEF Restart, Forget
  <2>. QED
    BY <2>1 DEF PassOK, Working, WrittenOK, MissingOK
<1>14. ASSUME NEW g \in Kinds, Establish(g)
       PROVE  \A v \in Syncers : PassOK(v)'
  BY <1>4, <1>14 DEF Establish, writeVars, passVars
<1>15. ASSUME NEW k \in Keys, Others(k)
       PROVE  \A v \in Syncers : PassOK(v)'
  BY <1>4, <1>15 DEF Others, passVars
<1>16. ASSUME UNCHANGED vars
       PROVE  \A v \in Syncers : PassOK(v)'
  BY <1>4, <1>16 DEF vars, writeVars, passVars
<1>17. [SyncNext]_vars
  BY DEF Context
<1>. QED
  BY <1>1, <1>5, <1>6, <1>7, <1>8, <1>9, <1>10, <1>11, <1>12, <1>13, <1>14, <1>15, <1>16,
     <1>17 DEF Passes, SyncNext, PassStep

LEMMA ServedFaults ==
  ASSUME WriteAssumption, SyncAssumption, SyncInit
  PROVE  faults \in 0..MaxFaults
BY DEF SyncInit, WriteAssumption

LEMMA PassesInit ==
  ASSUME ServerAssumption, NoneAssumption, WriteAssumption, SyncAssumption, SyncInit
  PROVE  Passes
<1>1. Base
  BY ServedFaults, BaseInit DEF SyncInit
<1>2. PassTyped
  BY DEF SyncInit, PassTyped
<1>3. \A w \in Syncers : PassOK(w)
  BY DEF SyncInit, Idle, PassOK, Working, WrittenOK, MissingOK
<1>. QED
  BY <1>1, <1>2, <1>3 DEF Passes

(* What every pass relies on holds for ever. *)
THEOREM PassInvariant == SyncSpec => []Passes
<1>1. SyncInit => Passes
  BY PassesInit, ServerAssumption, NoneAssumption, WriteAssumption, SyncAssumption
<1>2. Passes /\ [SyncNext]_vars => Passes'
  BY PassesStep, ServerAssumption, NoneAssumption, WriteAssumption, SyncAssumption
     DEF Context
<1>. QED
  BY <1>1, <1>2, PTL DEF SyncSpec

(* Every pass keeps its types, and neither a snapshot nor s.grs ever holds *)
(* a kind the API server does not serve.                                   *)
THEOREM PassTypes == SyncSpec => []PassTypeOK
<1>1. Passes => PassTypeOK
  <2>. SUFFICES ASSUME Passes
                PROVE  PassTypeOK
    OBVIOUS
  <2>1. TypeOK /\ PassTyped
    BY DEF Passes, Base, Typed
  <2>2. served \subseteq Kinds /\ grs \subseteq served
    BY <2>1 DEF PassTyped
  <2>3. snapshot \in [Syncers -> SUBSET Kinds] /\ unlisted \in [Syncers -> SUBSET Kinds]
    BY <2>1, <2>2 DEF PassTyped
  <2>4. doomed \in [Syncers -> SUBSET Keys]
    BY <2>1 DEF PassTyped
  <2>. QED
    BY <2>1, <2>2, <2>3, <2>4 DEF PassTyped, PassTypeOK
<1>. QED
  BY <1>1, PassInvariant, PTL

(* No pass fails for want of a namespace of the database, however many     *)
(* passes run, unless another client has touched that namespace.           *)
THEOREM NamespacesAreThere == SyncSpec => []NamespacesLandFirst
<1>1. Passes => NamespacesLandFirst
  BY DEF Passes, PassOK, MissingOK, NamespacesLandFirst
<1>. QED
  BY <1>1, PassInvariant, PTL

(* Nothing is collected before the whole database is in place, whatever    *)
(* other passes, faults and restarts do in between.                        *)
THEOREM NothingCollectedEarly == SyncSpec => []CollectsLast
<1>1. Passes => CollectsLast
  BY DEF Passes, PassOK, WrittenOK, Resolved, CollectsLast, PassTyped
<1>. QED
  BY <1>1, PassInvariant, PTL

------------------------------------------------------------------------------
(* What a pass has collected *)

LEMMA FaultsStep ==
  ASSUME Context
  PROVE  faults \in Nat /\ faults' \in Nat /\ faults <= faults'
<1>1. /\ TypeOK /\ PassTyped /\ faults \in Nat /\ faults' \in Nat
      /\ SyncAssumption /\ WriteAssumption /\ [SyncNext]_vars
  BY ContextFacts DEF Context, Typed, TypeOK
<1>2. FaultsGrow => faults <= faults'
  BY <1>1 DEF FaultsGrow, WriteAssumption
<1>3. ASSUME [Next]_writeVars
      PROVE  faults <= faults'
  <2>1. \A w \in Syncers : Call(w) \/ CallFails(w) \/ Return(w) =>
          faults' \in {faults, faults + 1}
    BY DEF Call, Get, Create, Update, Delete, Recreate, Answered, CallFails, Return
  <2>2. \A w \in Syncers, k \in DB, b \in BOOLEAN : BeginWrite(w, k, b) => faults' = faults
    BY DEF BeginWrite
  <2>3. faults' \in {faults, faults + 1}
    BY <1>3, <2>1, <2>2 DEF Next, Crash, writeVars
  <2>. QED
    BY <1>1, <2>3
<1>. QED
  BY <1>1, <1>2, <1>3, StepClasses DEF Paused, Restarted, OrphanRemoved

LEMMA KnownGrows ==
  ASSUME NEW S, NEW T, S \subseteq T, Known(S)
  PROVE  Known(T)
BY DEF Known

LEMMA DiscoveryStep ==
  ASSUME Context, DiscoveryOK
  PROVE  DiscoveryOK'
<1>. SUFFICES ASSUME faults' = 0
              PROVE  /\ Known(served') /\ Known(grs')
                     /\ \A w \in Syncers : stage'[w] = "assign" => Known(snapshot'[w])
  BY DEF DiscoveryOK, Known
<1>1. /\ PassTyped /\ PassTyped' /\ faults = 0 /\ faults \in Nat
  BY ContextFacts, FaultsStep
<1>2. /\ Known(served) /\ Known(grs)
      /\ \A w \in Syncers : stage[w] = "assign" => Known(snapshot[w])
  BY <1>1 DEF DiscoveryOK
<1>3. ~Fault
  BY <1>1 DEF Fault
<1>4. ASSUME NEW w \in Syncers, EndPass(w)
      PROVE  \A v \in Syncers : stage'[v] = "assign" => Known(snapshot'[v])
  BY <1>1, <1>2, <1>4 DEF EndPass, PassTyped
<1>5. ASSUME NEW w \in Syncers, Discover(w)
      PROVE  /\ Known(served') /\ Known(grs')
             /\ \A v \in Syncers : stage'[v] = "assign" => Known(snapshot'[v])
  <2>1. PICK lost \in SUBSET Flaky :
          /\ snapshot' = [snapshot EXCEPT ![w] = Discovered(lost)]
          /\ lost = {}
    BY <1>3, <1>5 DEF Discover
  <2>2. /\ stage' = [stage EXCEPT ![w] = "assign"] /\ UNCHANGED <<grs, served>>
    BY <1>3, <1>5 DEF Discover
  <2>3. Discovered(lost) = served
    BY <2>1 DEF Discovered
  <2>. QED
    BY <1>1, <1>2, <2>1, <2>2, <2>3 DEF PassTyped
<1>6. ASSUME NEW w \in Syncers, Assign(w)
      PROVE  /\ Known(served') /\ Known(grs')
             /\ \A v \in Syncers : stage'[v] = "assign" => Known(snapshot'[v])
  BY <1>1, <1>2, <1>6 DEF Assign, PassTyped
<1>7. ASSUME NEW g \in Kinds, Establish(g)
      PROVE  /\ Known(served') /\ Known(grs')
             /\ \A v \in Syncers : stage'[v] = "assign" => Known(snapshot'[v])
  BY <1>1, <1>2, <1>7, KnownGrows DEF Establish, passVars
<1>8. ~Restart
  BY <1>1 DEF Restart
<1>9. ASSUME NEW w \in Syncers, Applied(w) \/ List(w) \/ DeleteOrphan(w) \/ Complete(w)
      PROVE  /\ Known(served') /\ Known(grs')
             /\ \A v \in Syncers : stage'[v] = "assign" => Known(snapshot'[v])
  <2>1. UNCHANGED <<grs, served>>
    BY <1>9 DEF Applied, List, DeleteOrphan, Complete
  <2>2. EndPass(w) \/ UNCHANGED <<stage, snapshot>>
    BY <1>9 DEF Applied, List, DeleteOrphan, Complete
  <2>. QED
    BY <1>2, <1>4, <2>1, <2>2
<1>10. ASSUME NEW w \in Syncers, StartPass(w) \/ StartCollect(w)
       PROVE  /\ Known(served') /\ Known(grs')
              /\ \A v \in Syncers : stage'[v] = "assign" => Known(snapshot'[v])
  BY <1>1, <1>2, <1>10 DEF StartPass, StartCollect, PassTyped
<1>11. \A w \in Syncers : ~TornLookup(w)
  BY <1>3 DEF TornLookup
<1>12. ASSUME UNCHANGED <<passVars, grs, served>>
       PROVE  /\ Known(served') /\ Known(grs')
              /\ \A v \in Syncers : stage'[v] = "assign" => Known(snapshot'[v])
  BY <1>2, <1>12 DEF passVars
<1>13. [SyncNext]_vars
  BY DEF Context
<1>. QED
  BY <1>5, <1>6, <1>7, <1>8, <1>9, <1>10, <1>11, <1>12, <1>13
     DEF SyncNext, PassStep, Apply, Others, vars

(* An object that is not in the database and that no other client touches  *)
(* changes only when a pass removes it.                                    *)
LEMMA ForeignStep ==
  ASSUME Context, NEW k \in Keys \ (DB \cup disturbed')
  PROVE  objects'[k] = objects[k] \/ objects'[k] = None
<1>1. /\ Base /\ Typed /\ TypeOK /\ ServerTypeOK /\ PassTyped /\ [SyncNext]_vars
      /\ ServerAssumption /\ NoneAssumption /\ WriteAssumption /\ SyncAssumption
  BY ContextFacts DEF Context, Passes
<1>2. CASE [Next]_writeVars
  <2>1. CASE UNCHANGED serverVars
    BY <2>1 DEF serverVars
  <2>2. ASSUME NEW w \in Syncers, Call(w)
        PROVE  objects'[k] = objects[k]
    <3>1. key[w] \in DB
      BY <1>1, <2>2 DEF Call, Get, Create, Update, Delete, Recreate, Typed, CallOK
    <3>2. CallEffect(w)
      BY <1>1, <2>2, CallEffects
    <3>. QED
      BY <3>1, <3>2 DEF CallEffect, Untouched
  <2>3. ASSUME NEW j \in Keys, Outsider(j)
        PROVE  objects'[k] = objects[k]
    BY <1>1, <2>3, OutsiderLocal DEF Untouched
  <2>. QED
    BY <1>2, <2>1, <2>2, <2>3, StepKinds
<1>3. CASE Paused \/ Restarted
  BY <1>3 DEF Paused, Restarted, serverVars
<1>4. CASE OrphanRemoved
  BY <1>1, <1>4 DEF OrphanRemoved, Remove, ServerTypeOK
<1>. QED
  BY <1>1, <1>2, <1>3, <1>4, StepClasses

(* A kind that is always served and collected: a list of it returns its    *)
(* own objects.                                                            *)
LEMMA OrphansOfKind ==
  ASSUME SyncAssumption, NEW k \in Keys \ DB, KindOf[k] \in Collected,
         objects[k] # None, objects[k].owned
  PROVE  k \in Orphans(KindOf[k]) /\ Collectable(KindOf[k])
<1>1. KindOf[k] \in Kinds /\ KindOf[k] \notin Doubles /\ KindOf[k] \in Listable
      /\ KindOf[k] # "Endpoints"
  BY DEF SyncAssumption, Collected
<1>2. Backing[KindOf[k]] = KindOf[k]
  BY <1>1 DEF SyncAssumption
<1>. QED
  BY <1>1, <1>2 DEF Orphans, Collectable

(* A pass that does not move keeps what it has swept. *)
LEMMA SweptRests ==
  ASSUME Context, NEW w \in Syncers, SweptOK(w), stage'[w] = stage[w],
         unlisted[w] \subseteq unlisted'[w], doomed[w] \subseteq doomed'[w]
  PROVE  SweptOK(w)'
<1>. SUFFICES ASSUME faults' = 0, stage[w] = "collect",
                     NEW k \in Keys \ (DB \cup disturbed'),
                     KindOf[k] \in Collected, DefinedBy[KindOf[k]] = None
              PROVE  \/ objects'[k] = None \/ ~objects'[k].owned
                     \/ KindOf[k] \in unlisted'[w] \/ k \in doomed'[w]
  BY DEF SweptOK
<1>1. faults = 0 /\ k \notin disturbed
  BY FaultsStep, ContextFacts
<1>2. \/ objects[k] = None \/ ~objects[k].owned
      \/ KindOf[k] \in unlisted[w] \/ k \in doomed[w]
  BY <1>1 DEF SweptOK
<1>. QED
  BY <1>2, ForeignStep

LEMMA SweptStep ==
  ASSUME Context, Swept
  PROVE  Swept'
<1>1. /\ PassTyped /\ PassTyped' /\ DiscoveryOK' /\ \A w \in Syncers : SweptOK(w)
      /\ TypeOK /\ TypeOK' /\ ServerTypeOK
  BY ContextFacts, DiscoveryStep DEF Swept, Typed
<1>2. ASSUME NEW w \in Syncers, SweptOK(w)',
             \A v \in Syncers \ {w} :
               /\ stage'[v] = stage[v] /\ unlisted'[v] = unlisted[v] /\ doomed'[v] = doomed[v]
      PROVE  Swept'
  BY <1>1, <1>2, SweptRests DEF Swept
<1>3. ASSUME UNCHANGED <<stage, unlisted, doomed>>
      PROVE  Swept'
  BY <1>1, <1>3, SweptRests DEF Swept
<1>4. ASSUME NEW w \in Syncers, NEW s \in {"rest", "early", "assign", "late"},
             stage' = [stage EXCEPT ![w] = s],
             \A v \in Syncers \ {w} : unlisted'[v] = unlisted[v] /\ doomed'[v] = doomed[v]
      PROVE  Swept'
  <2>1. SweptOK(w)'
    BY <1>1, <1>4 DEF SweptOK, PassTyped
  <2>. QED
    BY <1>1, <1>2, <1>4, <2>1 DEF PassTyped
<1>5. ASSUME NEW w \in Syncers, EndPass(w)
      PROVE  Swept'
  BY <1>1, <1>4, <1>5 DEF EndPass, PassTyped
<1>6. ASSUME NEW w \in Syncers, StartPass(w) \/ Assign(w)
      PROVE  Swept'
  BY <1>4, <1>6 DEF StartPass, Assign
<1>7. ASSUME NEW w \in Syncers, Discover(w)
      PROVE  Swept'
  BY <1>4, <1>5, <1>7 DEF Discover
<1>8. ASSUME NEW w \in Syncers, StartCollect(w)
      PROVE  Swept'
  <2>1. /\ stage' = [stage EXCEPT ![w] = "collect"] /\ doomed' = doomed
        /\ \A v \in Syncers \ {w} : unlisted'[v] = unlisted[v]
    BY <1>1, <1>8 DEF StartCollect, PassTyped
  <2>. SUFFICES ASSUME faults' = 0
                PROVE  SweptOK(w)'
    BY <1>1, <1>2, <2>1 DEF PassTyped, SweptOK
  <2>2. faults = 0 /\ faults \in Nat /\ Known(grs)
    BY FaultsStep DEF Swept, DiscoveryOK
  <2>3. unlisted'[w] = {g \in grs : Collectable(g)}
    BY <1>1, <1>8, <2>2 DEF StartCollect, Fault, PassTyped
  <2>4. ASSUME NEW k \in Keys \ DB, KindOf[k] \in Collected, DefinedBy[KindOf[k]] = None
        PROVE  KindOf[k] \in unlisted'[w]
    <3>1. KindOf[k] \in grs
      BY <2>2, <2>4 DEF Known, Context, SyncAssumption
    <3>2. Collectable(KindOf[k])
      BY <2>4 DEF Collectable, Collected
    <3>. QED
      BY <2>3, <3>1, <3>2
  <2>. QED
    BY <2>4 DEF SweptOK
<1>9. ASSUME NEW w \in Syncers, List(w)
      PROVE  Swept'
  <2>1. CASE EndPass(w)
    BY <1>5, <2>1
  <2>2. CASE ~EndPass(w)
    <3>1. /\ stage' = stage /\ doomed[w] = {} /\ objects' = objects /\ disturbed' = disturbed
          /\ faults' = faults
      BY <1>9, <2>2 DEF List, serverVars
    <3>2. PICK g \in unlisted[w] :
            /\ unlisted' = [unlisted EXCEPT ![w] = @ \ {g}]
            /\ doomed' = [doomed EXCEPT ![w] = Orphans(g)]
      BY <1>9, <2>2 DEF List
    <3>3. /\ unlisted'[w] = unlisted[w] \ {g} /\ doomed'[w] = Orphans(g)
          /\ \A v \in Syncers \ {w} : unlisted'[v] = unlisted[v] /\ doomed'[v] = doomed[v]
      BY <1>1, <3>2 DEF PassTyped
    <3>4. ASSUME faults = 0, stage[w] = "collect",
                 NEW k \in Keys \ (DB \cup disturbed),
                 KindOf[k] \in Collected, DefinedBy[KindOf[k]] = None,
                 objects[k] # None, objects[k].owned
          PROVE  KindOf[k] \in unlisted'[w] \/ k \in doomed'[w]
      <4>1. KindOf[k] \in unlisted[w]
        BY <1>1, <3>1, <3>4 DEF SweptOK
      <4>2. k \in Orphans(KindOf[k])
        BY <3>4, OrphansOfKind DEF Context
      <4>. QED
        BY <3>3, <4>1, <4>2
    <3>5. SweptOK(w)'
      BY <3>1, <3>4 DEF SweptOK
    <3>. QED
      BY <1>2, <3>1, <3>3, <3>5
  <2>. QED
    BY <2>1, <2>2
<1>10. ASSUME NEW w \in Syncers, DeleteOrphan(w)
       PROVE  Swept'
  <2>1. CASE EndPass(w)
    BY <1>5, <2>1
  <2>2. CASE ~EndPass(w)
    <3>1. PICK k \in doomed[w] : Remove(k) /\ doomed' = [doomed EXCEPT ![w] = @ \ {k}]
      BY <1>10, <2>2 DEF DeleteOrphan
    <3>2. /\ stage' = stage /\ unlisted' = unlisted /\ faults' = faults
          /\ disturbed' = disturbed
      BY <1>10, <2>2 DEF DeleteOrphan
    <3>3. /\ doomed'[w] = doomed[w] \ {k} /\ k \in Keys /\ objects'[k] = None
          /\ \A v \in Syncers \ {w} : doomed'[v] = doomed[v]
          /\ \A j \in Keys \ {k} : objects'[j] = objects[j]
      BY <1>1, <3>1 DEF PassTyped, Remove, ServerTypeOK
    <3>4. SweptOK(w)'
      BY <1>1, <3>2, <3>3 DEF SweptOK
    <3>. QED
      BY <1>2, <3>2, <3>3, <3>4
  <2>. QED
    BY <2>1, <2>2
<1>11. ASSUME NEW w \in Syncers, Applied(w) \/ TornLookup(w) \/ Complete(w)
       PROVE  Swept'
  <2>1. EndPass(w) \/ UNCHANGED <<stage, unlisted, doomed>>
    BY <1>11 DEF Applied, TornLookup, Complete
  <2>. QED
    BY <1>3, <1>5, <2>1
<1>12. ASSUME Restart
       PROVE  Swept'
  <2>1. \A w \in Syncers : stage'[w] = "rest"
    BY <1>12 DEF Restart
  <2>. QED
    BY <1>1, <2>1 DEF Swept, SweptOK
<1>13. ASSUME UNCHANGED passVars
       PROVE  Swept'
  BY <1>3, <1>13 DEF passVars
<1>14. [SyncNext]_vars
  BY DEF Context
<1>. QED
  BY <1>6, <1>7, <1>8, <1>9, <1>10, <1>11, <1>12, <1>13, <1>14
     DEF SyncNext, PassStep, Apply, Establish, Others, vars

(* A pass that ends well has removed every labelled object that is not in  *)
(* the database, of the kinds that are always served, however many passes  *)
(* remove them at once.                                                    *)
THEOREM OrphansAreGone == SyncSpec => []CompletedPassCollected
<1>1. SyncInit => Swept
  <2>1. SyncInit => DiscoveryOK
    <3>1. SyncInit => Known(served)
      BY DEF SyncInit, Known
    <3>2. SyncInit /\ faults = 0 => grs = served
      BY DEF SyncInit
    <3>3. SyncInit => \A w \in Syncers : stage[w] = "rest"
      BY DEF SyncInit
    <3>. QED
      BY <3>1, <3>2, <3>3 DEF DiscoveryOK
  <2>2. SyncInit => \A w \in Syncers : SweptOK(w)
    BY DEF SyncInit, SweptOK
  <2>. QED
    BY <2>1, <2>2 DEF Swept
<1>2. Passes /\ Swept /\ [SyncNext]_vars => Swept'
  BY SweptStep, ServerAssumption, NoneAssumption, WriteAssumption, SyncAssumption
     DEF Context
<1>3. Swept => CompletedPassCollected
  BY DEF Swept, SweptOK, CompletedPassCollected
<1>. QED
  BY <1>1, <1>2, <1>3, PassInvariant, PTL DEF SyncSpec

------------------------------------------------------------------------------
(* Passes and DesiredState *)

LEMMA PassRefinesStep ==
  ASSUME Context, ObjectAssumption
  PROVE  [Abstract!Next]_(Abstract!vars)
<1>. USE DEF Abstract!vars
<1>1. /\ Base /\ Base' /\ Typed /\ TypeOK /\ ServerTypeOK /\ PassTyped /\ [SyncNext]_vars
      /\ ServerAssumption /\ NoneAssumption /\ WriteAssumption /\ SyncAssumption
  BY ContextFacts DEF Context, Passes
<1>2. CASE [Next]_writeVars
  BY <1>1, <1>2, RefinedStep
<1>3. CASE Paused \/ Restarted
  BY <1>3 DEF Paused, Restarted, serverVars, Cluster
<1>4. CASE OrphanRemoved
  <2>1. PICK k \in Keys \ DB : objects[k] # None /\ Remove(k)
    BY <1>4 DEF OrphanRemoved
  <2>2. Cluster[k] # None
    <3>1. objects[k] \in Manifest
      BY <1>1, <2>1 DEF ServerTypeOK
    <3>2. [spec |-> objects[k].spec, owned |-> objects[k].owned,
           address |-> objects[k].address] \in Abstract!Object
      BY <3>1 DEF Manifest, Draft, Abstract!Object
    <3>3. Cluster[k] \in Abstract!Object
      BY <2>1, <3>2, ClusterAt
    <3>. QED
      BY <3>3 DEF ObjectAssumption
  <2>3. Cluster' = [Cluster EXCEPT ![k] = None]
    <3>1. objects'[k] = None /\ \A j \in Keys \ {k} : objects'[j] = objects[j]
      BY <1>1, <2>1 DEF Remove, ServerTypeOK
    <3>. QED
      BY <2>1, <3>1, ClusterChange
  <2>4. edits' = edits
    BY <1>4 DEF OrphanRemoved
  <2>. QED
    BY <2>2, <2>3, <2>4 DEF Abstract!Collect, Abstract!Next
<1>. QED
  BY <1>1, <1>2, <1>3, <1>4, StepClasses

(* Whole passes, with their collection, restarts and torn reads of s.grs,  *)
(* implement DesiredState: they never remove an object of the database but *)
(* to create it again, and never make one worse.                           *)
THEOREM PassesRefine == SyncSpec => RefinesDesiredState
<1>1. SyncInit => Abstract!Init
  <2>1. SyncInit => Cluster \in [Keys -> Abstract!Object \cup {None}]
    BY PassesInit, ClusterTyped, ServerAssumption, NoneAssumption, WriteAssumption,
       SyncAssumption DEF Passes, Base, Typed, TypeOK
  <2>. QED
    BY <2>1 DEF SyncInit, ServerInit, Abstract!Init
<1>2. Passes /\ [SyncNext]_vars => [Abstract!Next]_(Abstract!vars)
  BY PassRefinesStep, ServerAssumption, NoneAssumption, WriteAssumption, SyncAssumption,
     ObjectAssumption DEF Context
<1>. QED
  BY <1>1, <1>2, PassInvariant, PTL DEF SyncSpec, RefinesDesiredState, Abstract!Spec

------------------------------------------------------------------------------
(* What write() promises, it promises in a pass. *)

LEMMA PeaceOfPasses ==
  ASSUME Context, Peace
  PROVE  Peace'
<1>1. /\ Base /\ Base' /\ Typed /\ TypeOK /\ ServerTypeOK /\ PassTyped /\ [SyncNext]_vars
      /\ ServerAssumption /\ NoneAssumption /\ WriteAssumption /\ SyncAssumption
  BY ContextFacts DEF Context, Passes
<1>2. CASE [Next]_writeVars
  BY <1>1, <1>2, PeaceStep
<1>3. CASE Paused
  BY <1>3 DEF Paused, serverVars, callVars, Peace, Peaceful, Matched
<1>4. CASE Restarted
  BY <1>4 DEF Restarted, Forget, Peace, Peaceful, CallSteps
<1>5. CASE OrphanRemoved
  <2>1. PICK k \in Keys \ DB : Remove(k)
    BY <1>5 DEF OrphanRemoved
  <2>2. \A j \in DB : Untouched(j)
    BY <1>1, <2>1 DEF Remove, Untouched, ServerTypeOK, WriteAssumption
  <2>. SUFFICES ASSUME NEW w \in Syncers,
                       key'[w] \notin StorageClasses, key'[w] \notin disturbed'
                PROVE  Peaceful(w)'
    BY DEF Peace
  <2>3. Resting(w) /\ Peaceful(w)
    BY <1>5 DEF OrphanRemoved, callVars, Resting, Peace
  <2>4. pc[w] \in CallSteps => key[w] \in DB
    BY <1>1 DEF Typed, CallOK, CallSteps
  <2>. QED
    BY <1>1, <2>2, <2>3, <2>4, PeaceResting
<1>. QED
  BY <1>1, <1>2, <1>3, <1>4, <1>5, StepClasses

(* Passes that run at once never make a write() of each other fail, not    *)
(* even while one of them collects.                                        *)
THEOREM ConcurrentPassesCompatible == SyncSpec => []ConcurrentWritesCompatible
<1>1. SyncInit => Peace
  BY DEF SyncInit, Idle, Peace, Peaceful, CallSteps
<1>2. Passes /\ Peace /\ [SyncNext]_vars => Peace'
  BY PeaceOfPasses, ServerAssumption, NoneAssumption, WriteAssumption, SyncAssumption
     DEF Context
<1>3. Peace => ConcurrentWritesCompatible
  BY DEF Peace, Peaceful, ConcurrentWritesCompatible, Excusable
<1>. QED
  BY <1>1, <1>2, <1>3, PassInvariant, PTL DEF SyncSpec

(* No sequence of passes makes a Service be sent with another clusterIP    *)
(* than the stored one.                                                    *)
THEOREM PassesKeepAddresses == SyncSpec => []AddressNeverRejected
<1>1. Passes => AddressNeverRejected
  BY DEF Passes, Base, LocalOK, ErrOK, AddressNeverRejected
<1>. QED
  BY <1>1, PassInvariant, PTL

LEMMA BudgetOfPasses ==
  ASSUME Context, Budget
  PROVE  Budget'
<1>1. /\ Base /\ Typed /\ TypeOK /\ ServerTypeOK /\ PassTyped /\ [SyncNext]_vars
      /\ ServerAssumption /\ NoneAssumption /\ WriteAssumption /\ SyncAssumption
  BY ContextFacts DEF Context, Passes
<1>2. CASE [Next]_writeVars
  BY <1>1, <1>2, BudgetStep
<1>3. CASE Paused \/ Restarted
  BY <1>3 DEF Paused, Restarted, serverVars, Budget, Matched
<1>4. CASE OrphanRemoved
  <2>1. PICK k \in Keys \ DB : Remove(k)
    BY <1>4 DEF OrphanRemoved
  <2>2. \A j \in DB : Untouched(j)
    BY <1>1, <2>1 DEF Remove, Untouched, ServerTypeOK, WriteAssumption
  <2>3. edits' = edits
    BY <1>4 DEF OrphanRemoved
  <2>. QED
    BY <2>2, <2>3 DEF Budget, Untouched, Matched
<1>. QED
  BY <1>1, <1>2, <1>3, <1>4, StepClasses

(* Nor do passes use up each other's attempts: a write() of a whole pass   *)
(* is given up for conflicts only after (MaxAttempts - 1) / 2 writes by    *)
(* other clients.                                                          *)
THEOREM PassesRetryEnough == SyncSpec => []RetriesOutlastEdits
<1>1. SyncInit => Budget
  <2>. SUFFICES ASSUME SyncInit, NEW k \in DB \ StorageClasses
                PROVE  version[k] + (IF Matched(k) THEN 0 ELSE 1) <= 2 + 2 * edits
    BY DEF Budget
  <2>1. version[k] = 1 /\ edits = 0
    BY WriteAssumption DEF SyncInit, ServerInit
  <2>. QED
    BY <2>1
<1>2. Passes /\ Budget /\ [SyncNext]_vars => Budget'
  BY BudgetOfPasses, ServerAssumption, NoneAssumption, WriteAssumption, SyncAssumption
     DEF Context
<1>3. Passes /\ Budget => RetriesOutlastEdits
  BY BudgetIsEnough, ServerAssumption, WriteAssumption DEF Passes
<1>. QED
  BY <1>1, <1>2, <1>3, PassInvariant, PTL DEF SyncSpec

LEMMA LostInNoPass ==
  ASSUME Context, NothingLost
  PROVE  NothingLost'
<1>1. /\ Base /\ Base' /\ Typed /\ TypeOK /\ ServerTypeOK /\ PassTyped /\ [SyncNext]_vars
      /\ ServerAssumption /\ NoneAssumption /\ WriteAssumption /\ SyncAssumption
  BY ContextFacts DEF Context, Passes
<1>2. CASE [Next]_writeVars
  BY <1>1, <1>2, NothingLostStep
<1>. SUFFICES ASSUME NEW k \in DB \ disturbed',
                     objects'[k] = None, version'[k] > 1, faults' = 0,
                     Paused \/ Restarted \/ OrphanRemoved
              PROVE  \E w \in Syncers : key'[w] = k /\ pc'[w] = "recreate"
  BY <1>1, <1>2, StepClasses DEF NothingLost
<1>3. faults = 0 /\ ~Restarted
  BY <1>1 DEF Paused, Restarted, OrphanRemoved, FaultsGrow, TypeOK
<1>4. Untouched(k) /\ UNCHANGED <<disturbed, callVars>>
  <2>1. CASE Paused
    BY <2>1 DEF Paused, serverVars, Untouched
  <2>2. CASE OrphanRemoved
    <3>1. PICK j \in Keys \ DB : Remove(j)
      BY <2>2 DEF OrphanRemoved
    <3>. QED
      BY <1>1, <2>2, <3>1 DEF OrphanRemoved, Remove, Untouched, ServerTypeOK, WriteAssumption
  <2>. QED
    BY <1>3, <2>1, <2>2
<1>5. \E w \in Syncers : key[w] = k /\ pc[w] = "recreate"
  BY <1>3, <1>4 DEF NothingLost, Untouched
<1>. QED
  BY <1>4, <1>5 DEF callVars

(* Passes that delete and re-create the same StorageClass at once do not   *)
(* lose it between them, and no collector ever takes an object of the      *)
(* database for an orphan.                                                 *)
THEOREM PassesLoseNothing == SyncSpec => []NothingLost
<1>1. SyncInit => NothingLost
  BY WriteAssumption DEF SyncInit, ServerInit, NothingLost
<1>2. Passes /\ NothingLost /\ [SyncNext]_vars => NothingLost'
  BY LostInNoPass, ServerAssumption, NoneAssumption, WriteAssumption, SyncAssumption
     DEF Context
<1>. QED
  BY <1>1, <1>2, PassInvariant, PTL DEF SyncSpec

(* A write() of a pass that reports success has seen or left the object in *)
(* its desired state, whatever passes, collectors and restarts do beside   *)
(* it: so a pass drops a key from what it has to do only for a reason.     *)
THEOREM PassesAreHonest == SyncSpec => SuccessMeansMatch
<1>1. ASSUME Passes, Passes', [SyncNext]_vars, NEW w \in Syncers,
             pc[w] # "done", pc'[w] = "done", err'[w] = "nil"
      PROVE  Matched(key[w])'
  <2>1. Base /\ Base' /\ TypeOK /\ PassTyped
    BY <1>1 DEF Passes, Base, Typed
  <2>2. ~Paused /\ ~Restarted /\ ~OrphanRemoved
    BY <1>1 DEF Paused, Restarted, OrphanRemoved, Forget, callVars
  <2>3. [Next]_writeVars
    BY <1>1, <2>1, <2>2, StepClasses, SyncAssumption, WriteAssumption
  <2>. QED
    BY <1>1, <2>1, <2>3, HonestStep
<1>2. Passes /\ Passes' /\ [SyncNext]_vars
        => [\A w \in Syncers :
              pc[w] # "done" /\ pc'[w] = "done" /\ err'[w] = "nil"
                => Matched(key[w])']_writeVars
  BY <1>1
<1>. QED
  BY <1>2, PassInvariant, PTL DEF SyncSpec, SuccessMeansMatch
==============================================================================
