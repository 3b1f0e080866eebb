---------------------------- MODULE StoreOfAssets ----------------------------
(***************************************************************************)
(* What readDB() promises its caller: in one step, either an error or the  *)
(* one store that the assets and the configuration determine.              *)
(***************************************************************************)
CONSTANTS Assets, Keys, KeyOf, None

VARIABLES
  kept,      \* the assets this platform applies
  failing,   \* the assets that make readDB fail
  outcome,   \* "running", "failed" or "ready"
  published  \* the store New returns: which asset is under which key

Empty == [k \in Keys |-> None]

StoreFor(as) ==
  [k \in Keys |-> IF \E a \in as : KeyOf[a] = k
                    THEN CHOOSE a \in as : KeyOf[a] = k
                    ELSE None]

Init ==
  /\ kept \subseteq Assets /\ failing \subseteq Assets
  /\ outcome = "running" /\ published = Empty

Publish ==
  /\ outcome = "running" /\ failing = {}
  /\ outcome' = "ready" /\ published' = StoreFor(kept)
  /\ UNCHANGED <<kept, failing>>

GiveUp ==
  /\ outcome = "running" /\ failing # {}
  /\ outcome' = "failed"
  /\ UNCHANGED <<kept, failing, published>>

Spec == Init /\ [][Publish \/ GiveUp]_<<kept, failing, outcome, published>>
==============================================================================
