CONSTANTS
  Connections = {c1, c2}
  Operators = {o1}
  Paths = {"live", "restored"}
  Live = "live"
  Plan <- Plans
  SchemaVersion <- Versions
  Repeatable = {"baseline"}
  Seconds = {1}
  MaxIssued = 2
  MaxRestarts = 1
  MaxFaults = 1

SPECIFICATION Spec
SYMMETRY Interchangeable

INVARIANTS
  TypeOK
  OpenMeansComplete
  HistoryFollowsPlan
  NumbersStandAfterRestore
  PassedDrillRestoresCopy

CHECK_DEADLOCK FALSE
