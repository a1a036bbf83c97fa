\* Releases of every route, downloads, faults and the cleanup.
CONSTANTS
  j1 = j1 j2 = j2 r1 = r1 r2 = r2
  Jobs <- TwoJobs
  Requests <- TwoRequests
  Numbers <- MCNumbers
  TypedNumbers <- MCTypedNumbers
  ManualFiles <- MCManualFiles
  Absent = Absent
  Truncated = Truncated
  Nobody = Nobody
  PromptRequests = TRUE
  MaxFaults = 2
SPECIFICATION Spec
SYMMETRY MCSymmetry
INVARIANTS
  AnsweredIsRetrievable
  DownloadsServeReleased
  OnlyCleanupLosesPdf
\* Once every job is released nothing need happen any more.
CHECK_DEADLOCK FALSE
