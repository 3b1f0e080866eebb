SPECIFICATION Spec
CONSTANTS
  None = None
  NoAddress = NoAddress
  ns = ns
  svc = svc
  sc = sc
  lb = lb
  old = old
  new = new
  Keys = {sc, svc}
  Specs = {old, new, lb}
  LoadBalancers = {lb}
  Mixed = Mixed
  Addresses = {a1, a2}
  Services = {svc}
  StorageClasses = {sc}
  NamespaceOf <- NoNamespaces
  Preexisting = {sc, svc}
  Editable = {sc, svc}
  MaxEdits = 1
  Syncers = {w1, w2}
  DB = {sc, svc}
  Want <- ClassWant
  MaxAttempts = 4
  MaxFaults = 1
SYMMETRY SyncerSymmetry
INVARIANTS
  TypeOK
  ConcurrentWritesCompatible
  AddressNeverRejected
  RetriesOutlastEdits
  NothingLost
PROPERTIES
  SuccessMeansMatch
  RefinesDesiredState
