SPECIFICATION Spec
CONSTANTS
  a1 = a1
  a2 = a2
  a3 = a3
  d1 = d1
  d2 = d2
  e1 = e1
  e2 = e2
  users = users
  accounts = accounts
  x = x
  y = y
  corrupt = corrupt
  Streams = {users, accounts}
  Watches = 3
  Versions = {1, 2}
  Revisions = 4
  Nameless = {e3}
  Writes = 3
  Sleeps = 2
  Faults = 1
  Capacity = 1
  Batch = 2
  KindCount = 2
  Manifests = {{1}, {1, 2}}
  Changes = 1
  Publications = 2
  InitialDelay = 1
  CapDelay = 4
  Actors = {a1, a2}
  BootReplica = {a1, a2, a3}
  Database = {d1, d2}
  Home <- MCHome
  Builds <- MCBuilds
  MaxVersion = 2
  MaxAttempts = 2
  OldSum = x
  KvKeys = {k1, k2}
  Versioned = {k1}
  WatchKey = {e1, e2}
  User = {u1}
  Account = {}
  Group = {g1}
  Id = {i1}
  Content = {good, off}
  Name = {name}
  Good = {good}
  Bad = {corrupt}
  Legible = {good, corrupt}
  Sum = {x, y}
  Tombstone = Tombstone
  Void = Void
  NoSum = NoSum
  NoOne = NoOne
  Incoming <- MCIncoming
  AdminId = "a1"
  UserIds = {"u1", "u2"}
  ClaimSets <- MCClaimSets
  ScopeKeys <- MCScopeKeys
  Correlations = {"c1", "c2"}
  NoId = "none"
  Routes <- MCRoutes
  NoRoute = "none"
  Statuses = {500}
  Reasons = {"boot", "down"}
  Component = "svc"
  LogEvents <- MCLogEvents
  GateCalls = 2
  LogLines = 1
  BusWord <- MCBusWord
  BusRaw <- MCBusRaw
  BusWishes <- MCBusWishes
  BusStreams <- MCBusStreams
  BusFrames = 1
  RowId = {"i1", "i2"}
  RowCore <- MCRowCore
  RowExtensions <- MCRowExtensions
  RowForeign <- MCRowForeign
  RowKept = {"locale", "avatar"}
  RowManifests <- MCRowManifests
  RowDependencies <- MCRowDependencies
  RowsKnown = 2
  BootEnvironments <- MCEnvironments
  BootDatabases <- MCDatabases
  BootBinaries <- MCBinaries
  LoopbackHosts = {"localhost", "::1"}
  BareHosts <- MCBareHosts
  NoText <- MCNoText
  SecretText = "secret"
  MaskedText = "***"
  BootRoles <- MCRoles
  BootPasswords <- MCPasswords
  BootKeys <- MCKeys
  LongestRole = 2
  KeySegments <- MCSegments
  RegistryCommands <- MCDeclarations
  UnnamedService <- MCSentinel
  Blank <- MCBlank
  ValueProducts <- MCProducts
  LowerForms = {"en", "fr"}
  UpperForms <- MCUppercase
  CodeLetters = {"E", "U", "R", "S", "F"}
  CurrencyCodes <- MCCurrencies
  CountryCodes <- MCCountries
  LeastAmount <- MCLeastAmount
  LargestAmount = 1
  ValueInputs <- MCInputForms
  ValueDocuments <- MCDocuments
  ValueEdits <- MCEdits
SYMMETRY MCSymmetry
CHECK_DEADLOCK FALSE
INVARIANTS
  DerivedUpToTheGap
  HealthyMeansInFlight
  PublicationHolds
  ReplicasAgree
  DirectoryReadsHold
  BootsAgree
  BootDecides
  BusKeepsAddresses
  RegistryIsJust
  IdentityHolds
  ValuesHold
  EdgeTells
  BroadcastIsHonest
PROPERTIES
  RevisionsGuard
  StagedOnlyForAChange
