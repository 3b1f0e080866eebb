SPECIFICATION Spec
CONSTANTS
  Parts = {"document", "path", "translation", "drift", "tls", "pem"}
  Untyped = {"3", "null"}
  Documents <- SomeDocuments
  Paths <- SomePaths
  Arguments <- SomeArguments
  Letters <- MCLetters
  Spaces <- MCSpaces
  Texts <- MCTexts
  Written <- MCWritten
  Assets <- SomeAssets
  Yaml <- SomeYaml
  Values <- SomeSettings
  Configs <- SomeConfigs
  Encode <- SomeEncode
  Generated = {"sa-token-x2b4z"}
  Cases <- SomeCases
  Other = "other"
  MaxEdits = 1
  NoObject = NoObject
  Requests <- Neighbours
  MaxKeys = 3
  None = None
  Certs <- SomeCerts
  Keys <- SomeKeys
  MaxBlocks = 4
  NilPointer = NilPointer
INVARIANTS
  DocumentTypeOK
  PathsMeanPositions
  DeletionsCommute
  ParsesTheGrammar
  SpellingsCompile
  NoPlaceholderLeft
  OnlyPlaceholdersChange
  UpdatesExactlyDrift
  NormalFormStable
  MatchesItsParamsOnly
  ChainsSurvive
  FirstKeyFound
PROPERTIES
  CallsAreLocal
  CallsDoTheirJob
  OneWriteRepairs
CHECK_DEADLOCK FALSE
