SPECIFICATION FairSpec
CONSTANTS
  None = None
  NoAddress = NoAddress
  crd = crd
  ns = ns
  cr = cr
  orphan = orphan
  another = another
  absent = absent
  stuck = stuck
  old = old
  new = new
  w1 = w1
  w2 = w2
  Keys = {crd, ns, cr, orphan}
  Specs = {old, new}
  LoadBalancers = {}
  Mixed = Mixed
  Addresses = {a1}
  Services = {}
  StorageClasses = {}
  NamespaceOf <- SomeNamespaceOf
  Preexisting = {ns, orphan}
  Editable = {ns, cr, orphan}
  MaxEdits = 0
  Syncers = {w1}
  DB = {crd, ns, cr}
  Want <- SomeWant
  MaxAttempts = 2
  MaxFaults = 1
  Kinds <- SomeKinds
  KindOf <- SomeKindOf
  Rank <- SomeRank
  DefinedBy <- SomeDefinedBy
  Backing <- SomeBacking
  Doubles = {"Project"}
  Listable <- SomeKinds
  Flaky = {"Namespace"}
  Periodic = w1
PROPERTIES
  Converges
