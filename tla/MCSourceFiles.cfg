CONSTANTS
  Jobs = {"t", "p"}
  DisciplineOf <- Disciplines
  FileIds = {f1, f2, f3}
  Uploads <- Sent
  Tables <- Transcribed
  Unit = "bar"
  Requests = {r1, r2}
  ProvisionalParserEnabled = TRUE

SPECIFICATION Spec
SYMMETRY Interchangeable

INVARIANTS
  TypeOK
  BytesAndRowsAgree
  ReadingsAreTheFilesNumbers
  ReviewShowsTheFile

CHECK_DEADLOCK FALSE
