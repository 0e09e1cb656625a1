SPECIFICATION LiveSpec
CONSTANTS
  w1 = w1
  w2 = w2
  dA = dA
  dB = dB
  dX = dX
  A = A
  B = B
  a = a
  b = b
  Service = {A, B}
  Scope = {a, b}
  Prefix <- MCPrefix
  Declarant <- BadDeclarants
  ServiceOf <- BadServiceOf
  Declared <- BadDeclared
  Disabled = {dB}
  Worker <- TwoWorkers
  MaxAttempts = 2
  NoCommand = NoCommand
  MaxBoots = 1
  MaxFrames = 1
  MaxFaults = 1
CHECK_DEADLOCK FALSE
PROPERTY
  EventuallyAnswered
