SPECIFICATION FairSpec
CONSTANTS
  None = None
  Contents = {aws, gcp}
  Periods = {unset, five, zero}
  Unset = unset
  Default = five
  Bad = {zero}
  MaxChanges = 0
  MaxDrifts = 0
  MaxFaults = 0
PROPERTIES
  FollowsConfig
