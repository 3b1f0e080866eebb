----------------------------- MODULE ReadDBProofs ----------------------------
(***************************************************************************)
(* Proofs about ReadDB, for any assets, labels, platforms and failures.    *)
(***************************************************************************)
EXTENDS ReadDB, TLAPS

(* What the place of a goroutine says about its asset. *)
PlaceOK ==
  \A a \in Assets :
    /\ pc[a] \in {"lock", "insert"} => a \in Kept \ Failing
    /\ pc[a] = "failed" => a \in Failing
    /\ pc[a] = "done" /\ a \in Failing => err # None

(* The store holds exactly the objects of the goroutines that are done. *)
StoreOK ==
  /\ \A a \in Kept \ Failing : pc[a] = "done" => store[KeyOf[a]] = a
  /\ \A k \in Keys : store[k] # None =>
       store[k] \in Kept \ Failing /\ KeyOf[store[k]] = k

(* Nothing is returned before all goroutines are done. *)
OutcomeOK ==
  /\ err # None => err \in Failing
  /\ outcome # "running" => \A a \in Assets : pc[a] = "done"
  /\ outcome = "ready" => err = None
  /\ outcome = "failed" => err # None

IInv == TypeOK /\ PlaceOK /\ StoreOK /\ OutcomeOK

LEMMA OneAssetPerKey ==
  ASSUME NEW a \in Kept, NEW b \in Kept, KeyOf[a] = KeyOf[b]
  PROVE  a = b
BY AssetAssumption DEF Kept, ValidatePlatform

LEMMA KeptAndFailing ==
  /\ Kept \subseteq Assets
  /\ TypeOK => Failing \subseteq Assets
BY DEF Kept, Failing, TypeOK

LEMMA InputsAreFixed ==
  ASSUME UNCHANGED inputs
  PROVE  Kept' = Kept /\ Failing' = Failing
BY DEF inputs, Kept, Failing, ValidatePlatform

LEMMA InitIInv == Init => IInv
<1> SUFFICES ASSUME Init PROVE IInv
  OBVIOUS
<1>1. TypeOK
  BY AssetAssumption DEF Init, TypeOK
<1>2. PlaceOK /\ StoreOK /\ OutcomeOK
  BY AssetAssumption DEF Init, PlaceOK, StoreOK, OutcomeOK, Kept, Failing
<1> QED
  BY <1>1, <1>2 DEF IInv

LEMMA StepIInv == IInv /\ [Next]_vars => IInv'
<1> SUFFICES ASSUME IInv, [Next]_vars PROVE IInv'
  OBVIOUS
<1> USE AssetAssumption, KeptAndFailing DEF IInv
<1>1. ASSUME NEW a \in Assets, Go(a) PROVE IInv'
  <2>1. Kept' = Kept /\ Failing' = Failing
    BY <1>1, InputsAreFixed DEF Go
  <2>2. TypeOK'
    BY <1>1 DEF Go, TypeOK, inputs
  <2>3. PlaceOK' /\ StoreOK' /\ OutcomeOK'
    BY <1>1, <2>1 DEF Go, TypeOK, PlaceOK, StoreOK, OutcomeOK
  <2> QED
    BY <2>2, <2>3
<1>2. ASSUME NEW a \in Assets, Prepare(a) PROVE IInv'
  <2>1. Kept' = Kept /\ Failing' = Failing
    BY <1>2, InputsAreFixed DEF Prepare
  <2>2. TypeOK'
    BY <1>2 DEF Prepare, TypeOK, inputs
  <2>3. PlaceOK' /\ StoreOK' /\ OutcomeOK'
    BY <1>2, <2>1 DEF Prepare, TypeOK, PlaceOK, StoreOK, OutcomeOK
  <2> QED
    BY <2>2, <2>3
<1>3. ASSUME NEW a \in Assets, Lock(a) PROVE IInv'
  <2>1. Kept' = Kept /\ Failing' = Failing
    BY <1>3, InputsAreFixed DEF Lock
  <2>2. TypeOK'
    BY <1>3 DEF Lock, TypeOK, inputs
  <2>3. PlaceOK' /\ StoreOK' /\ OutcomeOK'
    BY <1>3, <2>1 DEF Lock, TypeOK, PlaceOK, StoreOK, OutcomeOK
  <2> QED
    BY <2>2, <2>3
<1>4. ASSUME NEW a \in Assets, Insert(a) PROVE IInv'
  <2>1. Kept' = Kept /\ Failing' = Failing
    BY <1>4, InputsAreFixed DEF Insert
  <2>2. TypeOK'
    BY <1>4 DEF Insert, TypeOK, inputs
  <2>3. a \in Kept \ Failing
    BY <1>4 DEF Insert, PlaceOK
  <2>4. StoreOK'
    <3>1. \A b \in Kept \ Failing : pc'[b] = "done" => store'[KeyOf[b]] = b
      BY <1>4, <2>3, OneAssetPerKey DEF Insert, TypeOK, StoreOK
    <3>2. \A k \in Keys : store'[k] # None =>
            store'[k] \in Kept \ Failing /\ KeyOf[store'[k]] = k
      BY <1>4, <2>3 DEF Insert, TypeOK, StoreOK
    <3> QED
      BY <2>1, <3>1, <3>2 DEF StoreOK
  <2>5. PlaceOK' /\ OutcomeOK'
    BY <1>4, <2>1, <2>3 DEF Insert, TypeOK, PlaceOK, OutcomeOK
  <2> QED
    BY <2>2, <2>4, <2>5
<1>5. ASSUME NEW a \in Assets, Report(a) PROVE IInv'
  <2>1. Kept' = Kept /\ Failing' = Failing
    BY <1>5, InputsAreFixed DEF Report
  <2>2. TypeOK'
    BY <1>5 DEF Report, TypeOK, inputs
  <2>3. a \in Failing
    BY <1>5 DEF Report, PlaceOK
  <2>4. PlaceOK' /\ StoreOK' /\ OutcomeOK'
    BY <1>5, <2>1, <2>3 DEF Report, TypeOK, PlaceOK, StoreOK, OutcomeOK
  <2> QED
    BY <2>2, <2>4
<1>6. CASE Wait
  <2>1. Kept' = Kept /\ Failing' = Failing
    BY <1>6, InputsAreFixed DEF Wait
  <2>2. TypeOK'
    BY <1>6 DEF Wait, TypeOK, inputs
  <2>3. PlaceOK' /\ StoreOK' /\ OutcomeOK'
    BY <1>6, <2>1 DEF Wait, PlaceOK, StoreOK, OutcomeOK
  <2> QED
    BY <2>2, <2>3
<1>7. CASE UNCHANGED vars
  <2>1. Kept' = Kept /\ Failing' = Failing
    BY <1>7, InputsAreFixed DEF vars, inputs
  <2> QED
    BY <1>7, <2>1 DEF vars, TypeOK, PlaceOK, StoreOK, OutcomeOK
<1> QED
  BY <1>1, <1>2, <1>3, <1>4, <1>5, <1>6, <1>7 DEF Next, Goroutine

LEMMA Inductive == Spec => []IInv
  BY InitIInv, StepIInv, PTL DEF Spec

(* Types; the lock is held by the goroutine that writes s.store and by no  *)
(* other, however many assets there are.                                   *)
THEOREM ReadDBTypes == Spec => []TypeOK
<1>1. IInv => TypeOK
  BY DEF IInv
<1> QED
  BY <1>1, Inductive, PTL

(* s.store is never written by two goroutines at once, nor by any after    *)
(* readDB has returned (client.go:137-146).                                *)
THEOREM StoreIsQuiet == Spec => []NoMapRace
<1>1. IInv => NoMapRace
  BY DEF IInv, TypeOK, OutcomeOK, NoMapRace
<1> QED
  BY <1>1, Inductive, PTL

(* A ready store is the one the kept assets determine. *)
LEMMA ReadyStore ==
  ASSUME IInv, \A a \in Assets : pc[a] = "done", err = None
  PROVE  Failing = {} /\ store = AbstractStore!StoreFor(Kept)
<1>1. Failing = {}
  BY KeptAndFailing DEF IInv, PlaceOK
<1>2. ASSUME NEW k \in Keys
      PROVE  store[k] = IF \E a \in Kept : KeyOf[a] = k
                          THEN CHOOSE a \in Kept : KeyOf[a] = k
                          ELSE None
  <2>1. CASE \E a \in Kept : KeyOf[a] = k
    <3> DEFINE c == CHOOSE a \in Kept : KeyOf[a] = k
    <3>1. c \in Kept /\ KeyOf[c] = k
      BY <2>1
    <3>2. store[KeyOf[c]] = c
      BY <1>1, <3>1, KeptAndFailing DEF IInv, StoreOK
    <3> QED
      BY <2>1, <3>1, <3>2
  <2>2. CASE ~\E a \in Kept : KeyOf[a] = k
    BY <2>2 DEF IInv, StoreOK
  <2> QED
    BY <2>1, <2>2
<1>3. store = [k \in Keys |-> store[k]]
  BY DEF IInv, TypeOK
<1>4. store = [k \in Keys |-> IF \E a \in Kept : KeyOf[a] = k
                                THEN CHOOSE a \in Kept : KeyOf[a] = k
                                ELSE None]
  BY <1>2, <1>3
<1> QED
  BY <1>1, <1>4 DEF AbstractStore!StoreFor

LEMMA InitRefines == Init => AbstractStore!Init
<1> SUFFICES ASSUME Init PROVE AbstractStore!Init
  OBVIOUS
<1>1. TypeOK
  BY InitIInv DEF IInv
<1>2. Failing \subseteq Assets /\ Kept \subseteq Assets
  BY <1>1, KeptAndFailing
<1> QED
  BY <1>2 DEF Init, Published, AbstractStore!Init, AbstractStore!Empty

LEMMA StepRefines ==
  ASSUME IInv, [Next]_vars
  PROVE  [AbstractStore!Publish \/ AbstractStore!GiveUp]_<<Kept, Failing, outcome, Published>>
<1>1. Kept' = Kept /\ Failing' = Failing
  <2>1. UNCHANGED inputs
    BY DEF Next, Goroutine, Go, Prepare, Lock, Insert, Report, Wait, vars, inputs
  <2> QED
    BY <2>1, InputsAreFixed
<1>2. ASSUME NEW a \in Assets, Go(a) \/ Goroutine(a)
      PROVE  UNCHANGED <<outcome, Published>>
  <2>1. pc[a] # "done"
    BY <1>2 DEF Go, Goroutine, Prepare, Lock, Insert, Report
  <2>2. outcome = "running"
    BY <2>1 DEF IInv, TypeOK, OutcomeOK
  <2>3. outcome' = outcome
    BY <1>2 DEF Go, Goroutine, Prepare, Lock, Insert, Report
  <2> QED
    BY <2>2, <2>3 DEF Published
<1>3. CASE Wait
  <2>1. CASE err = None
    <3>1. Failing = {} /\ store = AbstractStore!StoreFor(Kept)
      BY <1>3, <2>1, ReadyStore DEF Wait
    <3>2. outcome = "running" /\ outcome' = "ready" /\ Published' = store
      BY <1>3, <2>1 DEF Wait, Published
    <3> QED
      BY <1>1, <3>1, <3>2 DEF AbstractStore!Publish
  <2>2. CASE err # None
    <3>1. Failing # {}
      BY <2>2 DEF IInv, OutcomeOK
    <3>2. outcome = "running" /\ outcome' = "failed" /\ Published' = Published
      BY <1>3, <2>2 DEF Wait, Published
    <3> QED
      BY <1>1, <3>1, <3>2 DEF AbstractStore!GiveUp
  <2> QED
    BY <2>1, <2>2
<1>4. CASE UNCHANGED vars
  BY <1>1, <1>4 DEF vars, Published
<1> QED
  BY <1>1, <1>2, <1>3, <1>4 DEF Next

(* readDB is one step to its caller: an error if and only if an asset of   *)
(* this platform cannot be read, otherwise the one store the assets        *)
(* determine, in whatever order the goroutines run.                        *)
THEOREM ReadDBRefines == Spec => RefinesStoreOfAssets
<1>1. Spec => []IInv
  BY Inductive
<1> QED
  BY <1>1, InitRefines, StepRefines, PTL
  DEF Spec, RefinesStoreOfAssets, AbstractStore!Spec
==============================================================================
