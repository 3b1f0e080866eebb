SPECIFICATION FairSpec
CONSTANTS
  onAws = onAws
  onGcp = onGcp
  everywhere = everywhere
  stray = stray
  cfg = cfg
  ns = ns
  aws = aws
  AWS = AWS
  gcp = gcp
  None = None
  Assets = {onAws, onGcp, everywhere, stray}
  Keys = {cfg, ns}
  Managed = {onAws, onGcp, everywhere}
  Platforms = {aws, AWS, gcp}
  KeyOf <- MCKeyOf
  Fold <- MCFold
  PlatformOf <- MCPlatformOf
INVARIANTS
  TypeOK
  NoMapRace
PROPERTIES
  RefinesStoreOfAssets
  Returns
