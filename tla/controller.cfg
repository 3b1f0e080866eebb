SPECIFICATION FairSpec
CONSTANTS
  None = None
  Contents = {aws, gcp}
  Periods = {unset, five, zero}
  Unset = unset
  Default = five
  Bad = {zero}
  MaxChanges = 2
  MaxDrifts = 1
  MaxFaults = 2
INVARIANTS
  TypeOK
  NoLostWakeup
PROPERTY
  FollowsUnchangedConfig
