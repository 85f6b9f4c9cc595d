SPECIFICATION FairSpec
CONSTANTS
  f1 = f1  f2 = f2  r1 = r1  r2 = r2  w1 = w1  w2 = w2
  Files <- OneFile
  Holdable <- OneFile
  Requests <- TwoRequests
  Workers <- TwoWorkers
  MaxAttempts = 3
  MaxCrashes = 2
INVARIANTS
  TypeOK
  ObjectsFollowDocuments
  OrphansAreKnown
PROPERTIES
  TaskOutcomeIsFinal
  TasksFinish
CHECK_DEADLOCK FALSE
