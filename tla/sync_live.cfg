SPECIFICATION StuckSpec
CONSTANTS
  None = None
  NoAddress = NoAddress
  crd = crd
  ns = ns
  cr = cr
  orphan = orphan
  another = another
  absent = absent
  stuck = stuck
  old = old
  new = new
  w1 = w1
  w2 = w2
  Keys <- StuckKeys
  Specs = {new}
  LoadBalancers = {}
  Mixed = Mixed
  Addresses = {a1}
  Services = {}
  StorageClasses = {}
  NamespaceOf <- StuckNamespaceOf
  Preexisting = {orphan, another, absent}
  Editable = {cr, absent}
  MaxEdits = 1
  Syncers = {w1, w2}
  DB = {crd, ns, stuck, cr}
  Want <- StuckWant
  MaxAttempts = 2
  MaxFaults = 1
  Kinds <- StuckKinds
  KindOf <- StuckKindOf
  Rank <- StuckRank
  DefinedBy <- StuckDefinedBy
  Backing <- StuckBacking
  Doubles = {}
  Listable <- StuckListable
  Flaky = {"Widget"}
  Periodic = w1
PROPERTIES
  Converges
  OrphansCollected
  FoundationsConverge
