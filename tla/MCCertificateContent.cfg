\* One job from its windows to its released certificate.
CONSTANTS
  Decimals = 1
  Jobs <- MCJobs
  Plans <- MCPlans
  Duts <- MCDuts
  Templates <- MCTemplates
  Numbers <- MCNumbers
  Assets <- MCAssets
  RowsPerPage = 2
  LineLength = 92
  MaxPreviews = 1
SPECIFICATION CCSpec
INVARIANTS
  CCTypeOK
  UncertaintyIsSound
  UncertaintyGrows
  EveryRowOnItsPage
  PreviewedIsReleasable
\* A job that is released, or that the contract refuses, goes no further.
CHECK_DEADLOCK FALSE
