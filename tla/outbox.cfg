SPECIFICATION Spec
CONSTANTS
  n1 = n1  w1 = w1  w2 = w2  i1 = i1  i2 = i2  t1 = t1  t2 = t2  k1 = k1  k2 = k2  q1 = q1  q2 = q2  q3 = q3
  Notices <- OneNotice
  Mandatory <- NoNotice
  Choices <- EveryChannel
  Workers <- TwoWorkers
  Devices <- NoThing
  Tokens <- NoThing
  Registrations <- NoThing
  Keys <- NoThing
  KeyOf <- NoMap
  DeviceOf <- NoMap
  TokenOf <- NoMap
  MaxAttempts = 2
  LockSpan = 1
  Backoff <- Delays
  BatchLimit = 1
  MaxAge = 2
  MaxCrashes = 1
INVARIANTS
  TypeOK
  DeliveredWasAccepted
PROPERTIES
  OutcomeIsFinal
SYMMETRY WorkersAlike
