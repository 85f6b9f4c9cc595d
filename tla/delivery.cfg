SPECIFICATION FairSpec
CONSTANTS
  n1 = n1  w1 = w1  w2 = w2  i1 = i1  i2 = i2  t1 = t1  t2 = t2  k1 = k1  k2 = k2  q1 = q1  q2 = q2  q3 = q3
  Notices <- OneNotice
  Mandatory <- NoNotice
  Choices <- PushOnly
  Workers <- OneWorker
  Devices <- TwoDevices
  Tokens <- TwoTokens
  Registrations <- Registered
  Keys <- TwoKeys
  KeyOf <- RegisteredKey
  DeviceOf <- RegisteredDevice
  TokenOf <- RegisteredToken
  MaxAttempts = 2
  LockSpan = 1
  Backoff <- Delays
  BatchLimit = 1
  MaxAge = 1
  MaxCrashes = 1
PROPERTIES
  DeliveriesSettle
  ServedTokenStaysOn
