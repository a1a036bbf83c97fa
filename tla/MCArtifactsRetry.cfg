\* Allocated releases that are retried.
CONSTANTS
  j1 = j1 j2 = j2 r1 = r1 r2 = r2
  Jobs <- TwoJobs
  Requests <- TwoRequests
  Numbers <- MCNumbers
  TypedNumbers <- None
  ManualFiles <- None
  Absent = Absent
  Truncated = Truncated
  Nobody = Nobody
  PromptRequests = FALSE
  MaxFaults = 2
SPECIFICATION FairSpec
PROPERTY
  RetriedReleaseSucceeds
\* Once every job is released nothing need happen any more.
CHECK_DEADLOCK FALSE
