CONSTANTS
  Users = {ada, bea}
  EmailOf <- OwnEmail
  RoleSets <- RolesGiven
  Sessions = {s1, s2}
  Versions = {"v1"}
  Requests = {r1, r2}
  MaxDuration = 1
  MaxTime = 1
  MaxEvents = 3

SPECIFICATION Spec
SYMMETRY Interchangeable

INVARIANTS
  ActorHadAuthority
  TrailIsAccurate

PROPERTY
  LockoutIsFinal

CHECK_DEADLOCK FALSE
