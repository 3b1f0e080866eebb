SPECIFICATION FairSpec
CONSTANTS
  None = None
  Contents = {aws, gcp}
  Periods = {unset, five}
  Unset = unset
  Default = five
  Bad = {}
  MaxChanges = 1
  MaxDrifts = 0
  MaxFaults = 0
PROPERTIES
  FollowsConfig
