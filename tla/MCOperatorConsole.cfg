SPECIFICATION Spec
CONSTANTS
  Jobs = {"j1", "j2"}
  Windows = {"w1", "w2"}
  Default = "default"
  SampleNumber = "sample"
  SampleVersion = "v1"
  Setpoints = {1, 2}
  Person = {"op", "tech", "qa", "rel", "adm"}
  PersonRoles <- MCPersonRoles
  FieldPerson = "adm"
  LocalActor <- MCLocalActor
  ParserEnabled = TRUE
  Buttons = {"one_click", "upload_both", "approve_both",
    "select_window", "complete_windows", "calculate", "rendered_release"}
  Scripts = {1, 2}
  MaxClicks = 2
  MaxEdits = 1
INVARIANTS TypeOK DoneIsBacked FinishedRunIsWholeRun
CHECK_DEADLOCK FALSE
