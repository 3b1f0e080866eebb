# Verification of the static-config-operator

The operator carries a set of Kubernetes manifests in its binary and keeps them
applied: it creates what is missing, repairs what differs, and removes what an
earlier version of it applied and this one no longer has. This directory holds
TLA+ models of that program, TLC configurations that check them, and TLAPS
proofs of what matters most. Paths are relative to the repository.

## 1. Inventory

| Component | State it keeps | Operations | Correct when |
|---|---|---|---|
| `write` (`pkg/sync/client.go` 221-307, `clean.go` 164-190) | the draft `o`, which the retry closure captures; the attempts of `RetryOnConflict` | Get, then Create, Update, or Delete and Create | success is reported only over a matching object; concurrent writers do not make each other fail; nothing is lost on the way |
| `Sync` (`sync.go` 130-177, `filter.go`, `applyResources`) | none but its place in the sorted keys | five phases, a refresh of the groups, everything else, the collector; the first error ends the pass | every pass that can succeed gets the cluster closer to the database, and collects only at the end |
| `updateDynamicClient` (`client.go` 189-202) | `s.grs`, `s.dyn`, shared and unguarded | read the API groups, assign both fields | custom resources become writable after their definitions |
| `deleteOrphans` (`client.go` 24-93, `wants.go`) | the kinds already listed | list each kind, delete what carries the label and is not in the store | removes orphans, and only orphans |
| `Reconcile` (`pkg/controller/config/config_controller.go` 76-114) | `r.sync` | the first one builds the `Sync` and starts `SyncPeriodic`; later ones run a pass | the cluster follows the Config |
| `SyncPeriodic` (`sync.go` 115-128) | a ticker | a pass at every tick, errors logged | passes never stop |
| `readDB` (`client.go` 105-168) | `s.store` under `s.storeLock` | one goroutine per asset: decode, filter by platform, substitute, normalise | the store does not depend on the order |
| `translate` (`translate.go`, `derive.go`, `pkg/util/template`) | none | values of the Config set along a table of paths, also inside YAML texts | every placeholder is replaced, nothing else changes, every value arrives |
| `clean`, `defaults`, `handleSpecialObjects` (`clean.go`, `default.go`) | none | strip what the server adds, copy what only it knows | an object is written exactly when it drifted, and one write repairs it |
| `pkg/util/jsonpath` | none | `Compile` (lexer, goyacc tables); Get, Set, Delete, DeleteIfMatch | a text means its grammar's rules, rules mean positions, calls touch nothing else |
| `cmd/manager` with operator-sdk's leader election | a ConfigMap owned by the leader's pod; the metrics objects | configure, become leader, build and start the manager | never two operators, and in the end one |
| `pkg/util/tls` | none | issue and match certificates; PEM text and back | what was issued for params matches them, and nothing else |
| `pkg/apis`, `pkg/util/cmp`, embedded data | - | types, a printed diff, generated code | - |

**How they interact.** The manager runs one worker of the Config controller. Its
first `Reconcile` calls `New`, which reads the API groups and the store, and
starts `SyncPeriodic` in a goroutine; every later `Reconcile` calls `Sync` on
the same value. So two passes may run at once. They share `s.grs` and `s.dyn`,
which nothing guards, and the cluster. Everything else they meet (users,
controllers, the API server that establishes a definition some time after it
was created) they meet through the API server.

The manager in turn runs in a pod of a Deployment; a lock that its pod owns keeps
a second process from doing the same, which `Controller` and `Sync`, models of
one process, take for granted. Inside a pass, `write` compares normal forms that
`clean` and `defaults` make, and the store holds what `translate` made of the
files; both are sequences of calls of compiled `jsonpath` paths.

**What is hard.** The order of two passes' calls; drafts that survive a
conflict; a delete and a create that must come in pairs; an error anywhere
ending the pass; discovery that succeeds in part; replies lost after a write
took effect; the process dying in the middle; normal forms that must strip
exactly what a server added; tables kept in step with files by hand; a lock
whose owner is replaced. `PROJECT.json` lists each hazard
at its line, with the properties that would notice.

## 2. Modules

| Module | Models | EXTENDS |
|---|---|---|
| `ApiServer` | the API server and its other clients: external, read off the replies `client.go` distinguishes | - |
| `WriteObject` | `write`, one action per API call, any number of goroutines | `ApiServer` |
| `DesiredState` | abstract: what the operator may do to the cluster | - |
| `Sync` | whole passes: phases, discovery, collector, restarts | `WriteObject` |
| `Controller` | `Reconcile`, `New`, `SyncPeriodic` and their work queue; a pass is one step | - |
| `ReadDB` | `readDB`: a goroutine for each asset, the lock, the error group | - |
| `StoreOfAssets` | abstract: the store in one step | - |
| `JsonPath` | compiled paths on documents, as operators | - |
| `Document` | a document under calls of the methods of a path | `JsonPath` |
| `PathSyntax` | lexer and goyacc driver with the generated tables, a step per label | `JsonPath` |
| `PathGrammar` | abstract: `parser.y`, and the spellings of a list of rules | `PathSyntax` |
| `Translate` | `translateAsset` | `JsonPath` |
| `Normalize` | `clean`, `defaults`, `handleSpecialObjects`, `needsUpdate`, field by field | `JsonPath` |
| `Drift` | one object, its live copy, and everybody who writes it | `Normalize` |
| `Tls`, `Pem` | `tls.go`; `marshal.go` | - |
| `Manager` | `main`, the leader election, the pods | - |
| `WriteObjectProofs`, `SyncProofs`, `ControllerProofs`, `ReadDBProofs`, `ManagerProofs`, `DocumentProofs`, `ObjectProofs`, `TlsProofs` | theorems | the modules they are about (`SyncProofs` also `WriteObjectProofs`, `ObjectProofs` also `DocumentProofs`), `TLAPS` |
| `MCWriteObject`, `MCSync`, `MCController`, `MCReadDB`, `MCManager` | instances for TLC | |
| `MCDocument`, `MCPathSyntax`, `MCTranslate`, `MCDrift`, `MCTls`, `MCPem` | data of the instances that `MCSequential` puts side by side | |

### ApiServer

An object is its spec, the operator's label, the clusterIP of a Service, and
its resourceVersion. The spec is what `needsUpdate` compares after `clean` and
`defaults` made the live and the stored object comparable. `version[k]` counts
the writes of key `k`, so a re-created object never has an old version.
`CreateReply`, `UpdateReply` and `DeleteReply` give the reply of a call in the
current state. `Outsider` is any other client; `MaxEdits` bounds how often it
writes, and `disturbed` remembers where. StorageClasses are cluster-scoped and
refuse an update of their spec with the text `write` looks for. `Draft` is what a
client may send, `Manifest` what the server stores: it never stores `Mixed`, a
Service of one type with the externalTrafficPolicy of another.

### WriteObject

`pc[w]` is the next API call of goroutine `w`. `BeginWrite` looks the kind up in
the discovery snapshot and copies the stored object into `o[w]`. `Get` is the
read and everything the closure does up to its next call: label, clusterIP,
comparison, resourceVersion. `Create`, `Update`, `Delete`, `Recreate` are the
calls with all their outcomes; `Retry` is `RetryOnConflict`. The draft `o[w]`
survives a retry with everything an earlier attempt put into it, as it does in
the code: in particular a resourceVersion, so a draft that was once sent always
"needs update", and a Create that follows a Conflict is refused when the object
has vanished in between (the pass fails and the next one repairs it). In the same
way a live LoadBalancer leaves its externalTrafficPolicy and ports in the draft
(`HandleSpecial`); the database holds no LoadBalancer (`WriteAssumption`, true
of `pkg/sync/data`), so such a draft is refused, and a pass over it fails.
Every call may fail without an effect (`CallFails`), or take effect with its reply
lost (`Answered`); `Crash` ends the process between two calls. `MaxFaults`
bounds all of these.

### DesiredState

The cluster without resourceVersions. The operator may put an object that
differs into its desired state, keeping its address (`Ensure`); remove a
StorageClass (`Recycle`); remove an object that is not in the database (`Collect`).
`WriteObject` and `Sync` implement it under the mapping `Cluster`, which hides
the versions (`RefinesDesiredState`). Read backwards it says what can never
happen whatever the interleaving: no object of the database other than a
StorageClass is ever deleted, none is written with anything but its desired
spec, no address changes, and an object in place is not touched.

### Sync

`stage[w]` is where the pass of `w` is, `todo[w]` what it has still to write,
`Before` the order the filters and `sort.Strings` give. `Apply` begins the
write of the next key with the lookup of its kind in `grs`; the actions of
`WriteObject` do the rest; `Applied` goes on or ends the pass. `Discover` and
`Assign` are the two halves of `updateDynamicClient`: what the groups were when they
were read, and the assignment that may come after another pass's. `StartCollect` reads
`grs` once, as the loop of `deleteOrphans` does; `List` takes the kinds in any
order, since the code ranges over a map; `DeleteOrphan` deletes by name.

The data race on `s.grs` is modelled as a fault: while another pass is about to
assign it, a lookup may miss its kind (`TornLookup`) and the collector may see a
part of the groups. A torn slice header could also point past the end of the
array and bring the process down, which is `Restart`.

### Controller

`config` is the Config named "cluster" at the API server and `cached` the
informer's copy, from which `Reconcile` reads. `queued` and `delayed` are the
work queue: a request in it, and one the rate limiter holds back after an
error. The single worker goes through `BeginReconcile`, `ReadConfig`, then
`NewSync` the first time and `WorkerPass` later; `ticker` and `tick` are the
goroutine of `SyncPeriodic` and the channel, which holds one tick. `sync` is the
Config the `Sync` was built from: `New` substitutes it into the store, so it is
what every pass applies. A pass is one step that brings `cluster` to
`sync.content` or fails; `Drift` is a write by another client. `Deliver` and
`Nudge` are the watch, which enqueues any Config of the namespace. `Bad` are the
periods `time.NewTicker` panics for. A crash, that panic included, leaves
`NewProcess`.

### ReadDB

`pc[a]` is where the goroutine of asset `a` is. `Go` is the loop over
`AssetNames()`, whose order is that of a map; `Prepare` is everything before
the lock (`Asset`, `unmarshal`, `validatePlatform`, `translateAsset`), which
touches nothing shared; `Lock` and `Insert` put the object under its key;
`Report` and `Wait` are the error group. `undecodable` and `untranslatable`, any
disjoint sets of assets, are what fails. `Kept` is what `validatePlatform` lets through: the
label must be there, and a platform label must equal `spec.platform` ignoring
case (`Fold`). `AssetAssumption`: assets with the same key are for different
platforms (in `pkg/sync/data` no two share a key at all; nothing checks it). `StoreOfAssets` is what the caller is promised; `Published` hides the
store until `readDB` has returned without an error.

### JsonPath, Document

A document is the function from positions (sequences of keys) to "map", "list"
or an atom. `Subscript`, `Filter` and `Execute` are the rules' `execute`;
`Set` works on every location, existing or not, and does nothing where the
parent is missing, as `mapval.Set` behind a failed lookup does. What panics in
the code (Delete of the root or of a list element, a filter over anything but a
string) ends the behaviour of `Document` with `panic`. `PathsMeanPositions`
compares the rules, executed over a growing and shrinking list of values, with
a statement of what a path means that looks at one position at a time.
`IsDocument` says what a document is: every node hangs in a map or a list, and
the elements of a list have the first numbers as their keys. The rules of a
path are executed by functions on 0..Len, one value for each number of rules, so that
`DocumentProofs` can reason about them.

### PathSyntax, PathGrammar

The tables of `parser.go` are constants of the module, and `ReadToken`,
`Shift`, `Reduce`, `Accept`, `Fail` are the labels of the driver (its arrays,
whose indices start at 0, are sequences). `Expected` is `yyErrorMessage`. `PathGrammar`
holds `parser.y` as productions and decides by them which sequences of tokens
can go on; nothing of it is taken from the tables.

### Translate

The table of `translations` is copied row by row, with each path as `Compile`
splits it: a path without quotes has a key for every dot. `Yaml` maps texts to
documents for the nested row. The instance holds the files of `pkg/sync/data`
that have a row, cut to what is near the value.

What the table and the files owe each other is `FilesAssumption`, which TLC
evaluates of the instance: the placeholders of a file (`Open`) are exactly where its rows
put their values (`Filled`), and a row with a nested path finds a text. The other
assumptions keep apart what the properties tell apart (no value of the Config is the placeholder or
one of the YAML texts) and say of the YAML library that every document has a
text and different documents have different ones.

### Normalize, Drift

`Strip` runs stages of deletions, each a set of paths with, or without, a value
to match. Deletions that are not nested in each other commute, which
`DeletionsCommute` checks for `JsonPath`, so that a stage is a set; where the
code relies on an order (a strategy is emptied from the inside out) there are
several stages. What that order owes is `LinesAssumption`, which speaks of no
constant and is evaluated by TLC: no line that deletes an empty map
comes before, or in one stage with, a line that deletes something inside such a map, whatever the
keys that a `*` stands for. With the lines of `Strategy` swapped TLC finds
it false. `Drift` runs the operator against a server that fills the
defaults that the comments of the vendored API types state (`Serve`, external),
controllers that annotate, and one write by another client at any field of the
file. `Drifted` says, without `clean` and `defaults`, when a pass should write:
when what the file settles is not as a fresh write would leave it, except for what belongs to
the cluster (`ClusterOwned`, `LeftAlone`, `GeneratedRefs`). These exceptions
are the operator's blind spots by design: `imagePullPolicy`, the ports and the
policy of a LoadBalancer, the spec of a Namespace, references to generated
secrets.

### Tls, Pem

A key is a number and a signature the key it was made with. The module keeps
Go's nil apart from the list without elements, and addresses apart from their
form, since `CertMatchesParams` compares with `reflect.DeepEqual` what came back
from DER. `Pem` is the text as the sequence of its blocks, with blocks of
others between them; the parsers read it block by block, as functions on the number
of blocks read.

### Manager

`pc[p]` is where the process of pod `p` is in `main`; a call fails into
`os.Exit(1)`. `ReadOwner`, `ReadLock`, `CreateLock` are `leader.Become`;
its loop of attempts while the lock is another's is a step that cannot be taken
yet. `pod` is the pod's object, which the kubelet removes when the process is
gone, or keeps as failed after an eviction; `CollectLock` is the garbage
collector. The Deployment has one replica and a surge of one
(`deploy/operator.yaml`).

## 3. Runs

| Run | Checks | Bounds |
|---|---|---|
| `write` | `TypeOK`, `ConcurrentWritesCompatible`, `AddressNeverRejected`, `RetriesOutlastEdits`, `NothingLost`, `SuccessMeansMatch`, `RefinesDesiredState` | a StorageClass and a Service, 2 goroutines, 4 attempts, 1 foreign write, 1 fault |
| `sync_passes` | `PassTypeOK`, `NamespacesLandFirst`, `CollectsLast`, `CompletedPassCollected`, `RefinesDesiredState` | definition, Namespace, custom resource, orphan, an alias kind; 2 passes at once, 1 foreign write or 1 fault (`OneTrouble`) |
| `sync_live` | `Converges`, `OrphansCollected`, `FoundationsConverge` | definition, Namespace, custom resource, two orphans, an object in a namespace only others make; 2 goroutines, 1 foreign write, 1 fault; 2 kinds to list |
| `sync_label` | `CollectorRespectsLabel`: **violated** | 2 passes, 1 foreign write |
| `sync_wedge` | `Converges`: **violated** | 1 goroutine, 1 partial discovery |
| `controller` | `TypeOK`, `NoLostWakeup`, `FollowsUnchangedConfig` | 2 contents, 3 periods, 2 changes, 1 drift, 2 faults |
| `controller_change` | `FollowsConfig`: **violated** | 1 change, no fault |
| `controller_period` | `FollowsConfig`: **violated** | no change, no fault, a period that is not positive |
| `readdb` | `TypeOK`, `NoMapRace`, `RefinesStoreOfAssets`, `Returns` | 4 assets, 2 keys, 3 spellings of 2 platforms |
| `manager` | `ManagerTypeOK`, `OneOperator`, `OperatorComesBack` | 3 pods, 2 faults, any evictions and rollouts |
| `sequential` | 15 properties of `Document`, `PathGrammar`, `Translate`, `Drift`, `Tls`, `Pem` | see below |
| `translate_lost` | `EveryValueArrives`: **violated** | the files that have a translation |

What the properties say is in the comments above them. `sequential` exercises
the parts that share nothing with another goroutine, one part in a behaviour
while the others stand still: they do not interact, so nothing is lost by it,
and its states are the sum of theirs.

**Why these bounds.** Two goroutines are what the program has: `SyncPeriodic` and
the one worker of the controller. One foreign write and four attempts make
`RetriesOutlastEdits` tight: one attempt fewer and it fails; the theorem
covers the 5 attempts of the code and any number of writes. In the passes
attempts are 2, the least that retries. A third key of
one kind adds no order the four kinds do not have, but to the collector: `sync_live`
has two orphans of one kind, and lists two kinds, to keep the orders few. Two specs are enough
there, desired and not; `write` has a third, of a LoadBalancer, and `sync_live`
one: an object differs from its desired state by missing or by its label.

Three pods are a leader, its replacement, and the replacement of a
replacement, which may meet a lock left by either; the theorems cover any
number. `sequential` has nested maps and a list of two, wildcards, indices
inside and outside the list, a filter, missing parents and every pair of calls
that matters reached through longer sequences; every spelling of nine lists of rules and every
text one character from one of them (which reaches every entry of the tables
and each of their errors); every configuration of three values, the empty one
among them; every kind that `clean.go` and `default.go` name, each with one
write at any of its fields; three keys issued one after another for
requests that differ from one in one thing, and one that names nothing but a subject, as a CA
does; PEM texts of up to four blocks.

**Fairness** (`sync_live`, `sync_wedge`). A pass that has begun goes on: a
goroutine is scheduled and every API call returns, with a reply or an error.
`SyncPeriodic` begins a pass at every tick. The API server establishes the
definitions it has. Nothing makes `Reconcile` begin a pass, so no fairness is
assumed there. Foreign writes and faults are finitely many, by
their bounds: while others keep breaking the cluster it cannot converge. In
`sync_live` others have made the missing namespace, make it later or never, and `Converges` asks for
the rest of the database only when it is there to stay; where it is there from the start, the foreign write
is one to the custom resource, which has to be repaired. `FoundationsConverge` asks
for the definition and the Namespace in each of these cases. The two orphans are of one kind, so that two
collectors list both and the one that comes second to the first of them ends its pass (`client.go` 82): the next has
to delete the other.

In the runs of `Controller` both goroutines run, ticks come, the informer
delivers, and what the rate limiter holds back is put back. A Config need not
be created, nor another Config nudge the queue. In `readdb` goroutines are scheduled,
and a waiter is given a lock that is free again and again (strong fairness):
Go's mutexes do not starve. In `manager` calls are answered, kubelets start and
stop what they are told to, the Deployment creates a pod when it has none, and the
garbage collector runs; nothing forces a rollout, a deletion, an eviction or a
crash.

**What the violations show.**

- `sync_label`. `deleteOrphans` reads the label in a list and deletes by name
  later (`client.go` 61-81). Another client that takes the label off in between
  loses its object.
- `sync_wedge`. `GetAPIGroupResources` swallows the failure of a single group,
  and `updateDynamicClient` stores the incomplete result. If the group is one
  the early phases need (in the instance: Namespace), each later pass fails on
  "couldn't find kind" before it gets to the next refresh, and no pass completes
  until the process restarts. `sync_live` restricts the flaky group to one the early
  phases do not need, and there the next refresh repairs it.
- `controller_change`. `New` is called only when `r.sync` is nil and captures the
  Config. A later change wakes `Reconcile`, which reads the new Config and runs
  a pass over the old store (`config_controller.go` 100-113).
  `FollowsUnchangedConfig` is what remains true.
- `controller_period`. `Reconcile` defaults a missing period but takes any other.
  `time.NewTicker` panics for zero and below (`sync.go` 118), in a goroutine
  nobody recovers, so the process ends and the next one does the same. Restarts
  are no fault here; they are what the code does with that Config.
- `translate_lost`. The row of the LDAP CA sets `$.stringData.ca.crt` of a
  ConfigMap, which has no `stringData`; and without quotes the path has three
  keys. `Set` finds no location and says nothing: `config.osdLdapCA` is never used.

**Conditions that name a divergence.** Three properties of passing runs hold
because of a condition in them, and what the condition excludes is a limit of
the code:

- `OperatorComesBack` asks that failed pods are gone in the end. The lock is owned by the pod's object, an
  evicted pod keeps its object in phase Failed, so the garbage collector leaves the lock
  alone and the pod that replaces it waits in `Become` until somebody deletes
  the failed one, though the comment in `leader.go` (42-44) has termination free it.
- `MatchesItsParamsOnly` excludes lists that are empty and not nil (`NilIfEmpty`): for them
  a fresh certificate does not match its own params. And it knows one certificate that fits
  params other than its own (`SignedAsWanted`): a CA has signed itself, so it also matches params
  that name it as their CA.
- The files of `MCDrift` name the fields that the server fills and neither `clean` nor
  `defaults` strips: `spec.replicas`, the scheme of a probe, the `apiVersion` of a
  `fieldRef`, the `imagePullPolicy` of a CronJob (`cleanPodTemplate` is not called for that kind).
  A file that leaves one to the server would be written in every pass. The other way round, a workload of
  another kind must not name its `imagePullPolicy`: `clean` strips it from the live object, and nothing
  from the stored one. The files of `pkg/sync/data` keep to both.

## 4. Theorems

`WriteObjectProofs` proves, for every number of goroutines, keys, attempts,
faults and foreign writes:

| Theorem | Property |
|---|---|
| `TypeCorrect` | `TypeOK` |
| `AddressesAreKept` | `AddressNeverRejected` |
| `ConflictsNeedEdits` | `RetriesOutlastEdits` |
| `SuccessIsHonest` | `SuccessMeansMatch` |
| `DeletedIsRecreated` | `NothingLost` |
| `PassesAreCompatible` | `ConcurrentWritesCompatible` |
| `Refinement` | `RefinesDesiredState` |

They assume `ServerAssumption`, `NoneAssumption`, `WriteAssumption` and
`ObjectAssumption`, which TLC evaluates in the runs.

**The argument.** `BaseInvariant` is the common part: types, and what a draft
looks like at each `pc` (at "update" it is owned, has the desired spec, and
names a version not newer than the stored one; if it names the stored version
its address is the stored address). None of the properties is inductive
without it: `AddressNeverRejected` needs that an equal resourceVersion means
the object has not changed since the Get. `RetriesOutlastEdits` needs a bound
on conflicts: each attempt that ended in one has seen the version grow, and a
goroutine makes the version grow only when the object is not in its desired
state, which takes a foreign write first. `NothingLost` needs that a missing key
which was written before has a goroutine at "recreate" whose draft has no
resourceVersion. The refinement follows from `BaseInvariant` and
`AddressNeverRejected` step by step: Create, Update and Recreate are `Ensure`, Delete is
`Recycle`, an outsider's write is `Outsider`, everything else stutters.

`ControllerProofs` proves, for any Configs, changes, drifts and faults,
`ControllerTypes` (`TypeOK`: above all, what `SyncPeriodic` is given has a
period) and `NoWakeupIsLost` (`NoLostWakeup`), from `ControllerAssumption`.
`NoLostWakeup` is not inductive: a Config may be deleted and come back as the
cache still shows it. What is inductive is `SeenIsPending`, about the cache
alone: once it has shown a Config, a request is queued, delayed or in work until there
is a `Sync`.

`ReadDBProofs` proves, for any assets, labels, platforms and failures,
`ReadDBTypes` (`TypeOK`), `StoreIsQuiet` (`NoMapRace`) and `ReadDBRefines`
(`RefinesStoreOfAssets`), from `AssetAssumption`. The inductive invariant says what a
goroutine's place tells about its asset (`PlaceOK`) and that the store holds
exactly the objects of the goroutines that are done (`StoreOK`); that no two
kept assets share a key is what keeps a later one from replacing it.

`ManagerProofs` proves, for any pods, evictions, rollouts and faults,
`ManagerTypes` (`ManagerTypeOK`), `LeadersOwn` and `NeverTwoOperators`
(`OneOperator`), from `ManagerAssumption`. `OneOperator` is not inductive: a
second process could be about to create the lock while the first works without
one. What is inductive is `LeaderOwnsLock`, who is past `Become` owns the lock,
together with the part of `ManagerTypeOK` that says every process runs in a pod
that still has an object: it is why `CollectLock` never takes the lock from a
leader at work.

`SyncProofs` proves of whole passes, for any number of them at once, any keys,
kinds and namespaces, and any faults, restarts and foreign writes:

| Theorem | Property |
|---|---|
| `PassTypes` | `PassTypeOK` |
| `NamespacesAreThere` | `NamespacesLandFirst` |
| `NothingCollectedEarly` | `CollectsLast` |
| `OrphansAreGone` | `CompletedPassCollected` |
| `PassesRefine` | `RefinesDesiredState` |
| `ConcurrentPassesCompatible` | `ConcurrentWritesCompatible` |
| `PassesKeepAddresses` | `AddressNeverRejected` |
| `PassesRetryEnough` | `RetriesOutlastEdits` |
| `PassesLoseNothing` | `NothingLost` |
| `PassesAreHonest` | `SuccessMeansMatch` |

They assume what `WriteObjectProofs` assumes and `SyncAssumption`. Its part about
namespaces (what an object is in is a Namespace, and the object is neither a
Namespace nor a definition) holds in every cluster; it is what makes the order of
the filters an order of namespaces and what is in them.

**The argument.** A step of a pass is a step of `write` with the keys it may
begin restricted, a step of the collector, or one of discovery; the lemmas about the
steps of `write` are those of `WriteObjectProofs`, which are stated of actions and
not of its specification. `Passes` is the inductive invariant: the common part
`BaseInvariant`, the types of the passes, and for each pass a sentence about what it
has left behind: whatever is not in `todo` any more and nobody else touched is
in its desired state. `NamespacesLandFirst` is not inductive without it, since
it speaks of a goroutine that has failed already: that the Namespace of a key was written in
an earlier phase is known only from what is left in `todo`; for the next key
of a phase, that it is the least one by `Before` (there is a least one because
the natural numbers are well-founded). `CollectsLast` is the same sentence with
`todo` empty; it survives other passes because no goroutine spoils a key
that is in its desired state, and the collector because what is doomed is
not in the database. `CompletedPassCollected` needs `Swept`: an orphan of a kind that was
listed is gone or doomed. Trying to prove it found that it holds for the
Endpoints of a Service only with the Service (`Collected` leaves them out: they
carry the labels of their Service, `deleteOrphans` does not list them, and they go
with it).
The refinement maps `DeleteOrphan` to `Collect`, and everything
else as in `WriteObjectProofs`. The last three rows hold of passes for the reason they hold
of `write` alone, but each step has to be looked at (`StepClasses`): it is a
step of `write`, or leaves the cluster alone (`Paused`), or restarts the process
(`Restarted`, which is a fault), or removes an orphan, and an orphan is no key of the database.
`WriteObjectProofs` has the shared parts as `BudgetIsEnough` and `HonestStep`.

`TlsProofs` proves `OnlyItsParams` (`MatchesItsParamsOnly`) from `TlsAssumption`, for any
requests and any number of keys. The property is about pairs of
certificates and is not inductive. `IssuanceInvariant` is: each certificate is
the one `newCert` makes of its params, no two have one key, and the signer a
certificate names was issued before it. So a signature identifies the signer,
which is what refuses params of another CA. The proof of an earlier form of the
property failed at the self-signed certificate described in section 3, which no
request of the instance could produce then; the instance has one now.

Of `Pem` the module proves `ChainsComeBack` (`ChainsSurvive`) and `TheFirstKey`
(`FirstKeyFound`) for any certificates, keys and `MaxBlocks`. Its assumption,
`PemAssumption`, says that none of them is one of the values that stand for an error, nil
or bytes that do not parse. A text is a sequence of the blocks that the encoders
and others write (`TextsHaveBlocks`), and the rest is induction over the blocks
read. A recursive function on 0..N is only known by its equations once one
exists; `StepsExist` builds it, again with a set in place of a predicate. After
n blocks `ParseCertChain` has an error if a broken certificate was among them,
and otherwise one certificate for each that stands there, the k-th in the k-th place
(`ReadOK`); `UniqueCert` has what it saw, each where it came first (`KeptOK`).
`ParsePrivateKey` has nothing, or an error, as long as no key came
(`BeforeTheKey`), and never changes its mind (`FoundStays`).

`DocumentProofs` proves of the calls of a compiled path, for every
document and every path without a filter inside a filter, from `DocumentAssumption`:

| Theorem | Property |
|---|---|
| `DocumentTypes` | `DocumentTypeOK` |
| `PathsFindTheirMeaning` | `PathsMeanPositions` |
| `CallsStayLocal` | `CallsAreLocal` |
| `CallsDoIt` | `CallsDoTheirJob` |
| `DeletionsInAnyOrder` | `DeletionsCommute` |

**The argument.** A path finds what it means (`LocationsMean`) by induction over its
rules; after n rules the positions found are those of length n whose every
key fits its rule (`Reach`). The induction theorems of the library cannot be used here, as
they take the predicate as a parameter; `UpTo` states the induction with a set in its
place and follows from the well-foundedness of the naturals. That
`IsDocument` is preserved rests on two frame lemmas: `CutDocument` (what is cut hangs in
maps, so no list loses an element) and `PutDocument` (a location in a list
exists already, so no list gains one; inside what was put, joining the location in front
is a bijection, so its lists keep their lengths). Locations of one
path have one length and none is inside another, which is why Set can
put its value at all of them and `SubDocument` gets it back (`PutIsThere`). Two
deletions commute because all that is above a node of a document is there
(`AboveIsThere`): a path without filters selects the same nodes in what a cut has left,
so both orders leave what neither path reaches (`DeleteTwice`).

`ObjectProofs` proves `NoPlaceholderSurvives` (`NoPlaceholderLeft`) and
`NothingElseChanges` (`OnlyPlaceholdersChange`) for every Config and any files and YAML
texts, from `KeysAssumption` (the keys in the table are strings, which no installed prover
knows of a literal), `ValuesAssumption`, `YamlAssumption` and `FilesAssumption`.

**The argument.** What the assumptions say is static: where the rows find something in the
file. The rows are executed one after another on an object that changes under
them, and one of them on a document inside it. `TranslateInvariant` closes the
gap: between two rows the object is its file with values in place of
placeholders (`Becomes`), and every row done has its value everywhere it goes to
(`Reached`). It is preserved because a path of names finds the same
places in both (`SamePlaces`: which they are depends on the positions and on
which of them are maps and lists, and neither a value nor a placeholder is
one), because Set on atoms that are there changes them and nothing else
(`SetAtoms`, from the frame lemmas of `DocumentProofs`), and because a later row overwrites
a value with a value. A row with a nested path is the only one of its table
(`TableTyped`, by going through the table); its path finds one text
(`OnePlace`), so the text `translate` reads is the one it writes. `OpenedIs` says that
opening the texts puts each position into one of them at most, since nothing hangs
in an atom.

The same module proves `NormalFormsAreFinal`: `clean` and `defaults`, applied to what
they have made of a document, leave it as it is (`Existing(k, Existing(k, d)) =
Existing(k, d)`). It holds for every document and every kind but one,
also a kind the code does not know, from `LinesAssumption` alone. `LiveNormalForms` says the same of
`NormalFormStable`, in every state of `Drift` whose live object is a document, whoever
wrote what into it. Two hypotheses remain. The ports of a Service have numbers
(`Numbered`): the API server accepts no others, and `defaults` panics on them
(`default.go` 93). The kind is not ServiceAccount: `KeepRefs` numbers the references it keeps anew, and that texts of
different numbers are different (`ToString`) is not known to any prover here; that case is
checked by TLC only. Where `clean` panics, on a CronJob without a template, the
model goes on and the theorem says nothing of the code.

**The argument.** A line is spent on a document if it finds nothing to delete there.
A stage spends its lines: a line without a value because all it found is gone, a line
with a value because what it matched is gone and nothing comes to match it, a
leaf since no leaf changes (`MatchedLess`), an empty map since a map becomes empty only
by a deletion inside it. That is excluded by the order: what a later line deletes inside a
map is deleted by a line under it (`FitsOver`, `Under`), and `Orderly` says there is none.
So every line stays spent until the end (`StripSpends`), and a document on which all lines are spent is not
changed (`StripNothing`). This is the proof for the kinds that have only lines (`PlainStable`). For
a Service, no line takes the number of a port or its `targetPort` (the last part of the assumption but
one), so the second time no `targetPort` repeats its number. For a
Secret, what is left in `data` decodes to no text, and no line but those on `data` can have found
anything in what has been moved to `stringData` (`SecretKeys`).
This is why `convertSecretData` has to look whether `data` is empty after it has emptied it, which is the mutant of
`NormalFormStable`.

**Only model-checked** are

- the liveness properties, which are out of the prover's reach;
- `ParsesTheGrammar` and `SpellingsCompile`: they speak of the numbers in the tables that goyacc
  generated. Those tables are one value, not a parameter, and following them is a
  computation, which TLC does and a prover does not;
- `UpdatesExactlyDrift` and `OneWriteRepairs`: they hold of the fields
  the server fills and the files have, one by one; what they share, that the deletions of a stage touch
  nothing else and commute, is proved in `DocumentProofs`;
- `NormalFormStable` of ServiceAccounts. As an invariant of `Drift` it is model-checked of the other kinds too: that every
  live object is a document whose ports have numbers would take an induction over the folds in `Serve`.

## 5. Left out, and limits

- Deleting a Namespace does not delete what is in it, and removing a
  definition does not stop its kind from being served: the models have fewer
  cascades than a cluster.
- `s.dyn` is taken to hold what `s.grs` holds; the moment between the two
  assignments is not a state of its own.
- Admission, quotas and authorisation: their errors are the failed call.
- `WriteObject` abstracts an object to its spec and a few fields; `Drift` has the
  fields and one goroutine. That the two comparisons are the same is by
  inspection: `needsUpdate` is `NeedsUpdate` in both.
- Of `clean` and `defaults`: the case CustomResourceDefinition of `defaults` is never
  reached, since `gk.String()` of the kind has its group; it is left out. An
  update of a Namespace sends no `openshift.io/sa.scc` annotations, so it
  takes them off until the cluster puts them back.
- Of `jsonpath`: a filter inside a filter's path is parsed but not executed in
  the model. An unterminated quote ends the text silently (the row of
  `translate.go` 136 relies on it), and a backslash that escapes a quote stays
  in the name. `MustGetObject` and its relatives are Get and a choice.
- Of `translate`: `nestedFlagsBase64` and `F` are used by no row. The rows of
  `SelectorSyncIdentityProvider` have no file in the database. The row of the
  providers page names the login template, though `derive.go` embeds a
  providers one; the model has what the table says. The templates encode the pages
  in base64 and the table puts them into `stringData`, which the server encodes
  again. A value that the Config leaves out is written as the empty string. A
  nested text that does not parse panics (80-83).
- Of the manager: the logger, the flags, what the metrics say; a run outside a
  cluster, which skips the election; pods deleted by force, whose process may
  outlive their object and with it the promise of one operator.
- Of `tls`: validity dates, which `CertMatchesParams` does not look at either; one of signing key and
  certificate without the other, which panics; `SSHPublicKeyAsString`, a format
  nothing here reads back.

**Not modelled.** `pkg/util/cmp` prints a diff into the log. The generated
`bindata.go` files, the OpenAPI definitions and the deep copies are data and
type plumbing with no decision of the program in them; `bindata.go` alone is a third of
the lines. `config_types.go` declares types, which are state of `Controller` and
`Translate`.

**An exposure of the database.** Its objects of group `velero.io` are of a kind that no
definition of the database introduces, and sort before those of the operator
that would. Until that operator has made them a pass ends there, which is
what the stuck object of `sync_live` stands for.

## 6. Plan

1. Done: `ApiServer`, `WriteObject`, `DesiredState`, `Sync`, and the proofs about
   `WriteObject`.
2. Done: `Controller`, `ReadDB`, `StoreOfAssets` and the proofs about them.
3. Done: `JsonPath`, `Document`, `PathSyntax`, `PathGrammar`, `Translate`,
   `Normalize`, `Drift`, `Tls`, `Pem`.
4. Done: `Manager` and the proofs about it.
5. Done: `SyncProofs`, reusing the lemmas of `WriteObjectProofs` for the shared
   steps.
6. Done: `TlsProofs`; `DocumentProofs` with the frame lemmas about `CutAt` and
   `PutAt` for every document.
7. Done: the proofs about `Pem` in `TlsProofs`, with the parsers written as functions on 0..Len, as in
   `JsonPath`.
8. Done: `SuccessMeansMatch`, `RetriesOutlastEdits` and `NothingLost` of whole passes; `ObjectProofs`, about `Translate` and about the
   normal forms of `Normalize`.
