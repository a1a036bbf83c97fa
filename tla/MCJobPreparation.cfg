\* One operator with two overlapping requests, two workbooks, two verification files.
CONSTANTS
  u1 = u1 r1 = r1 r2 = r2 v1 = v1 v2 = v2 w1 = w1 w2 = w2
  c1 = c1 c2 = c2 s1 = s1 s2 = s2
  Users <- MCUsers
  UserRoles <- MCUserRoles
  Requests <- MCRequests
  Readings <- MCReadings
  VerificationFiles <- MCVerificationFiles
  Setpoints <- MCSetpoints
  WindowIds <- MCWindowIds
SPECIFICATION Spec
SYMMETRY MCSymmetry
INVARIANTS
  CalculationCoversPlan
  LinkedOnceInTurn
  CalculatedFromAllWindowsInTurn
  CompletedIsCalculableInTurn
PROPERTY
  LifecycleSpec
\* A calculated job, and one that cannot be calculated, take no further step here.
CHECK_DEADLOCK FALSE
