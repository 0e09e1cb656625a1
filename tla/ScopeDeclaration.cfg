SPECIFICATION Spec
CONSTANTS
  w1 = w1
  w2 = w2
  dA = dA
  dB = dB
  dX = dX
  A = A
  B = B
  a = a
  b = b
  Service = {A, B}
  Scope = {a, b}
  Prefix <- MCPrefix
  Declarant <- TwoDeclarants
  ServiceOf <- TwoServiceOf
  Declared <- TwoDeclared
  Disabled = {}
  Worker <- TwoWorkers
  MaxAttempts = 2
  NoCommand = NoCommand
  MaxBoots = 2
  MaxFrames = 1
  MaxFaults = 1
SYMMETRY Symmetry
CHECK_DEADLOCK FALSE
INVARIANTS
  TypeOK
  ReadyMeansRegistered
  RejectedOnlyIfInvalid
  StoreHydrates
  SavesWhatItJudged
PROPERTY
  OneRegistryPerVersion
