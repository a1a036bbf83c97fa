\* Concurrent requests, two at a time, while accounts change.
CONSTANTS
  u1 = u1 u2 = u2 u3 = u3 u4 = u4
  r1 = r1 r2 = r2 c1 = c1 c2 = c2 v1 = v1
  Users <- FourUsers
  Requests <- TwoRequests
  CertificateIds <- TwoIds
  Variants <- OneVariant
  UserRoles <- SmallLaboratory
  AccountChanges <- Staffing
SPECIFICATION Spec
VIEW WithoutWindowed
SYMMETRY RequestSymmetry
INVARIANTS
  CertificateEvidence
PROPERTIES
  LifecycleSpec
  IndependentReview
  AllocatedReleaseIndependent
  OnlyAccountsFreeADeadEnd
