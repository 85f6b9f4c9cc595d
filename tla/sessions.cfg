SPECIFICATION Spec
CONSTANTS
  s1 = s1  s2 = s2  r1 = r1  r2 = r2  a1 = a1
  Sessions <- TwoSessions
  MaxGeneration = 2
  Requests <- TwoRequests
  Administrators <- OneAdministrator
  MaxChanges = 3
INVARIANTS
  TypeOK
  OneLineOfTokens
SYMMETRY Alike
