SPECIFICATION Spec
CONSTANTS
  f1 = f1  f2 = f2  r1 = r1  r2 = r2  w1 = w1  w2 = w2
  Files <- OneFile
  Holdable <- OneFile
  Requests <- OneRequest
  Workers <- OneWorker
  MaxAttempts = 5
  MaxCrashes = 1
PROPERTIES AcceptedHasRetryTask
CHECK_DEADLOCK FALSE
