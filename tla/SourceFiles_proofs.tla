-------------------------- MODULE SourceFiles_proofs --------------------------
(***************************************************************************)
(* What SourceFiles guarantees for any jobs, files, uploads and tables,    *)
(* with any number of requests in flight and of crashes.                   *)
(***************************************************************************)
EXTENDS SourceFiles, FiniteSetTheorems, TLAPS

(***************************************************************************)
(* The inductive invariant                                                 *)
(***************************************************************************)

Uploading(r) == req[r].pc \in {"storing", "stored"}

UploadType(x) ==
  /\ DOMAIN x = {"pc", "file", "upload"}
  /\ x.pc \in {"storing", "stored"}
  /\ x.file \in FileIds
  /\ x.upload \in Uploads /\ Admissible(x.upload)

ReviewType(x) ==
  /\ DOMAIN x = {"pc", "counted", "seen", "todo"}
  /\ x.pc = "reviewing"

Types ==
  /\ TypeOK
  /\ DOMAIN req = Requests
  /\ \A r \in Requests :
       req[r] = Idle \/ UploadType(req[r]) \/ ReviewType(req[r])
  /\ \A file \in DOMAIN files :
       \E upload \in Uploads : Admissible(upload) /\ files[file] = Row(upload)

\* An upload in flight has its id for itself, and its bytes where they should
\* be.
BytesInv ==
  /\ BytesAndRowsAgree
  /\ \A r \in Requests :
       Uploading(r) =>
         /\ req[r].file \notin DOMAIN files
         /\ disk[req[r].file] = IF req[r].pc = "storing" THEN Absent
                                ELSE req[r].upload.content
  /\ \A r, s \in Requests :
       Uploading(r) /\ Uploading(s) /\ req[r].file = req[s].file => r = s

\* The readings and the result of a file are what the parser made of its bytes:
\* of a workbook with the upload, of a table with the entry.
ResultAgrees(file) ==
  LET content == files[file].checksum
      kind == files[file].kind
  IN /\ kind = "calibration_xlsx" =>
          /\ file \in DOMAIN results
          /\ results[file].count = Cardinality(ReadingsOf(file))
          /\ results[file].status = "parsed" =>
               /\ ParseWorkbook(content, file).status = "parsed"
               /\ ReadingsOf(file) = WorkbookReadings(content, file)
          /\ results[file].status # "parsed" => ReadingsOf(file) = {}
     /\ kind \notin {"calibration_xlsx", "verification_pdf"} =>
          ReadingsOf(file) = {}
     /\ kind # "calibration_xlsx" /\ file \in DOMAIN results =>
          /\ kind # "verification_pdf"
          /\ results[file].status = "parsed"
          /\ results[file].count = 2 * Cardinality(CsvPairs(content))

ResultsInv == \A file \in DOMAIN files : ResultAgrees(file)

\* A count that a review has read is still the file's.
CountStands(x) ==
  /\ x.todo \cup DOMAIN x.seen \subseteq DOMAIN files
  /\ x.counted # <<>> =>
       /\ x.counted[1] \in x.todo
       /\ files[x.counted[1]].kind # "verification_pdf" =>
            x.counted[2] = Cardinality(ReadingsOf(x.counted[1]))

ReviewInv ==
  \A r \in Requests : req[r].pc = "reviewing" => CountStands(req[r])

\* What ReviewShowsTheFile says of one line.
Shows(line, file) ==
  /\ line.status = "parsed" =>
       line.count = IF files[file].kind = "calibration_xlsx"
                    THEN Cardinality(CellsWithNumbers(files[file].checksum))
                    ELSE 2 * Cardinality(CsvPairs(files[file].checksum))
  /\ line.status # "parsed" =>
       line.count = 0 \/ files[file].kind = "verification_pdf"

LinesInv ==
  \A r \in Requests :
    req[r].pc = "reviewing" =>
      \A file \in DOMAIN req[r].seen : Shows(req[r].seen[file], file)

(***************************************************************************)
(* Parsers                                                                 *)
(***************************************************************************)

\* The cells a parsed workbook has readings of.
NumericCells(book) == {at \in DataCells(book) : Numeric(Cell(book, at))}

\* A workbook that parses has no cell that is not finite, so its readings are
\* of the cells with a number.
LEMMA ParsedCells ==
  ASSUME NEW book, NEW file, ParseWorkbook(book, file).status = "parsed"
  PROVE  /\ ParseWorkbook(book, file).readings = WorkbookReadings(book, file)
         /\ NumericCells(book) = CellsWithNumbers(book)
         /\ \A at \in NumericCells(book) : Cell(book, at) >= 0
<1>1. /\ ParseWorkbook(book, file).readings = WorkbookReadings(book, file)
      /\ \A at \in DataCells(book) : Cell(book, at) # NotFinite
  BY DEF ParseWorkbook, Outcome
<1>2. DataCells(book) =
        {at \in (DOMAIN book.rows) \X (DOMAIN book.loggers) :
           /\ at[1] >= 12 /\ book.rows[at[1]].time >= 0
           /\ book.loggers[at[2]] # ""}
  BY DEF DataCells, TimedRows, DataRows, LoggerColumns, FirstDataRow
<1>3. CellsWithNumbers(book) = {at \in DataCells(book) : Cell(book, at) >= 0}
  BY <1>2 DEF CellsWithNumbers, Cell
<1>4. \A at \in DataCells(book) :
        Numeric(Cell(book, at)) <=> Cell(book, at) >= 0
  BY <1>1 DEF Numeric
<1> QED
  BY <1>1, <1>3, <1>4 DEF NumericCells

\* The readings of a workbook are its numeric cells, each once.
LEMMA ReadingOfCell ==
  ASSUME NEW book, NEW file
  PROVE  WorkbookReadings(book, file) =
           {Reading(file, at[1], at[2], book.loggers[at[2]],
                    book.rows[at[1]].time, Cell(book, at), book.units[at[2]])
              : at \in NumericCells(book)}
  BY DEF WorkbookReadings, NumericCells

LEMMA ReadingFields ==
  ASSUME NEW book, NEW file, NEW reading \in WorkbookReadings(book, file)
  PROVE  /\ reading.file = file
         /\ <<reading.row, reading.column>> \in NumericCells(book)
         /\ reading.value = Cell(book, <<reading.row, reading.column>>)
         /\ reading.time = book.rows[reading.row].time
<1>1. PICK at \in NumericCells(book) :
        reading = Reading(file, at[1], at[2], book.loggers[at[2]],
                          book.rows[at[1]].time, Cell(book, at),
                          book.units[at[2]])
  BY ReadingOfCell
<1>2. at = <<at[1], at[2]>>
  BY DEF NumericCells, DataCells
<1> QED
  BY <1>1, <1>2 DEF Reading

LEMMA CellsOfReadings ==
  ASSUME NEW book, NEW file
  PROVE  {<<reading.row, reading.column>> :
            reading \in WorkbookReadings(book, file)} = NumericCells(book)
<1>1. ASSUME NEW at \in NumericCells(book)
      PROVE  \E reading \in WorkbookReadings(book, file) :
               at = <<reading.row, reading.column>>
  <2>1. PICK reading :
          reading = Reading(file, at[1], at[2], book.loggers[at[2]],
                            book.rows[at[1]].time, Cell(book, at),
                            book.units[at[2]])
    OBVIOUS
  <2>2. reading \in WorkbookReadings(book, file)
    BY <2>1, ReadingOfCell
  <2>3. at = <<at[1], at[2]>>
    BY DEF NumericCells, DataCells
  <2> QED
    BY <2>1, <2>2, <2>3 DEF Reading
<1>2. \A reading \in WorkbookReadings(book, file) :
        <<reading.row, reading.column>> \in NumericCells(book)
  BY ReadingFields
<1> QED
  BY <1>1, <1>2

\* A finite workbook has finitely many readings, as many as cells.
LEMMA ReadingsCounted ==
  ASSUME NEW book, NEW file, IsFiniteSet(DOMAIN book.rows),
         IsFiniteSet(DOMAIN book.loggers)
  PROVE  /\ IsFiniteSet(WorkbookReadings(book, file))
         /\ Cardinality(WorkbookReadings(book, file)) =
              Cardinality(NumericCells(book))
<1> DEFINE F == [at \in NumericCells(book) |->
                   Reading(file, at[1], at[2], book.loggers[at[2]],
                           book.rows[at[1]].time, Cell(book, at),
                           book.units[at[2]])]
<1>1. IsFiniteSet(NumericCells(book))
  <2>1. TimedRows(book) \subseteq DOMAIN book.rows
    BY DEF TimedRows, DataRows
  <2>2. LoggerColumns(book) \subseteq DOMAIN book.loggers
    BY DEF LoggerColumns
  <2>3. IsFiniteSet(TimedRows(book)) /\ IsFiniteSet(LoggerColumns(book))
    BY <2>1, <2>2, FS_Subset
  <2>4. IsFiniteSet(DataCells(book))
    BY <2>3, FS_Product DEF DataCells
  <2> QED
    BY <2>4, FS_Subset DEF NumericCells
<1>2. F \in [NumericCells(book) -> WorkbookReadings(book, file)]
  BY ReadingOfCell
<1>3. \A at, cell \in NumericCells(book) : F[at] = F[cell] => at = cell
  <2>1. \A at \in NumericCells(book) :
          at = <<at[1], at[2]>> /\ F[at].row = at[1] /\ F[at].column = at[2]
    BY DEF NumericCells, DataCells, Reading
  <2> QED
    BY <2>1
<1>4. \A reading \in WorkbookReadings(book, file) :
        \E at \in NumericCells(book) : F[at] = reading
  BY ReadingOfCell
<1>5. F \in Bijection(NumericCells(book), WorkbookReadings(book, file))
  BY <1>2, <1>3, <1>4 DEF Bijection, Injection, Surjection, IsInjective
<1>6. ExistsBijection(NumericCells(book), WorkbookReadings(book, file))
  BY <1>5 DEF ExistsBijection
<1> QED
  BY <1>1, <1>6, FS_Bijection

\* The rows of a finite table are counted too.
LEMMA PairsCounted ==
  ASSUME NEW csv, Len(csv.rows) \in Nat
  PROVE  Cardinality(CsvPairs(csv)) \in Nat
<1>1. CsvPairs(csv) \subseteq 1..Len(csv.rows)
  BY DEF CsvPairs, CsvRows
<1>2. IsFiniteSet(1..Len(csv.rows))
  BY FS_Interval
<1>3. IsFiniteSet(CsvPairs(csv))
  BY <1>1, <1>2, FS_Subset
<1> QED
  BY <1>3, FS_CardinalityType

\* The result of an upload that the transaction commits.
LEMMA ParsedUpload ==
  ASSUME Types, BytesInv, NEW r \in Requests, req[r].pc = "stored",
         NEW outcome, outcome = ParseUpload(r), outcome.status # "raised",
         NEW upload, upload = req[r].upload, NEW file, file = req[r].file
  PROVE  /\ upload.kind # "calibration_xlsx" =>
              outcome.status = "not_run" /\ outcome.readings = {}
         /\ upload.kind = "calibration_xlsx" =>
              /\ outcome.status \in {"parsed", "failed", "stored_only"}
              /\ outcome.status = "parsed" =>
                   /\ ParseWorkbook(upload.content, file).status = "parsed"
                   /\ outcome.readings = WorkbookReadings(upload.content, file)
              /\ outcome.status # "parsed" => outcome.readings = {}
         /\ IsFiniteSet(outcome.readings)
         /\ \A reading \in outcome.readings :
              reading.file = file /\ reading.time >= 0 /\ reading.value >= 0
<1>1. upload \in Uploads /\ Admissible(upload)
  BY DEF Types, UploadType, Idle, ReviewType
<1>2. disk[file] = upload.content
  BY DEF BytesInv, Uploading
<1>3. CASE upload.kind # "calibration_xlsx"
  BY <1>3, FS_EmptySet DEF ParseUpload, Outcome
<1>4. CASE upload.kind = "calibration_xlsx"
  <2>1. PICK book : book = upload.content
    OBVIOUS
  <2>2. book.form = "workbook"
    BY <1>1, <1>4, <2>1 DEF Admissible
  <2>3. \/ outcome = Outcome("stored_only", {}, 1)
        \/ outcome = ParseWorkbook(book, file)
    BY <1>2, <1>4, <2>1, <2>2 DEF ParseUpload
  <2>4. outcome = ParseWorkbook(book, file) =>
          \/ outcome = Outcome("failed", {}, 1)
          \/ outcome = Outcome("parsed", WorkbookReadings(book, file),
                               WorkbookWarnings(book))
    BY DEF ParseWorkbook, Outcome
  <2>5. CASE outcome.status = "parsed"
    <3>1. /\ ParseWorkbook(book, file).status = "parsed"
          /\ outcome.readings = WorkbookReadings(book, file)
      BY <2>3, <2>4, <2>5 DEF Outcome
    <3>2. /\ IsFiniteSet(DOMAIN book.rows)
          /\ IsFiniteSet(DOMAIN book.loggers)
      BY <1>1, <2>1, <2>2, UploadsAssumption
    <3>3. IsFiniteSet(outcome.readings)
      BY <3>1, <3>2, ReadingsCounted
    <3>4. ASSUME NEW reading \in outcome.readings
          PROVE  reading.file = file /\ reading.time >= 0 /\ reading.value >= 0
      <4>1. PICK at : at = <<reading.row, reading.column>>
        OBVIOUS
      <4>2. /\ reading.file = file /\ at \in NumericCells(book)
            /\ reading.value = Cell(book, at)
            /\ reading.time = book.rows[reading.row].time
        <5>1. reading \in WorkbookReadings(book, file)
          BY <3>1
        <5>2. /\ reading.file = file
              /\ <<reading.row, reading.column>> \in NumericCells(book)
              /\ reading.value = Cell(book, <<reading.row, reading.column>>)
              /\ reading.time = book.rows[reading.row].time
          BY <5>1, ReadingFields
        <5> QED
          BY <4>1, <5>2
      <4>3. Cell(book, at) >= 0
        BY <3>1, <4>2, ParsedCells
      <4>4. book.rows[reading.row].time >= 0
        <5>1. at[1] \in TimedRows(book) /\ at[1] = reading.row
          BY <4>1, <4>2 DEF NumericCells, DataCells
        <5> QED
          BY <5>1 DEF TimedRows
      <4> QED
        BY <4>2, <4>3, <4>4
    <3> QED
      BY <1>4, <2>1, <2>5, <3>1, <3>3, <3>4
  <2>6. CASE outcome.status # "parsed"
    <3>1. outcome.readings = {} /\ outcome.status \in {"failed", "stored_only"}
      BY <2>3, <2>4, <2>6 DEF Outcome
    <3> QED
      BY <1>4, <2>6, <3>1, FS_EmptySet
  <2> QED
    BY <2>5, <2>6
<1> QED
  BY <1>3, <1>4

\* What a committed upload adds.
LEMMA CommitStep ==
  ASSUME Types, BytesInv, NEW r \in Requests, CommitUpload(r),
         NEW file, file = req[r].file, NEW upload, upload = req[r].upload,
         NEW outcome, outcome = ParseUpload(r)
  PROVE  /\ file \in FileIds /\ upload \in Uploads
         /\ req[r].pc = "stored" /\ Admissible(upload)
         /\ file \notin DOMAIN files
         /\ files' = With(files, file, Row(upload))
         /\ readings' = readings \cup outcome.readings
         /\ IsFiniteSet(outcome.readings)
         /\ \A reading \in outcome.readings :
              reading.file = file /\ reading.time >= 0 /\ reading.value >= 0
         /\ upload.kind = "calibration_xlsx" =>
              /\ results' = With(results, file,
                       Result(outcome, Cardinality(outcome.readings)))
              /\ outcome.status \in Status
              /\ outcome.status = "parsed" =>
                   /\ ParseWorkbook(upload.content, file).status = "parsed"
                   /\ outcome.readings = WorkbookReadings(upload.content, file)
              /\ outcome.status # "parsed" => outcome.readings = {}
         /\ upload.kind # "calibration_xlsx" =>
              results' = results /\ outcome.readings = {}
         /\ req' = [req EXCEPT ![r] = Idle]
         /\ UNCHANGED <<disk, links, entered, excused>>
<1>1. req[r].pc = "stored" /\ outcome.status # "raised"
  BY DEF CommitUpload
<1>2. /\ upload \in Uploads /\ Admissible(upload) /\ file \in FileIds
      /\ file \notin DOMAIN files
  BY <1>1 DEF Types, UploadType, Idle, ReviewType, BytesInv, Uploading
<1>3. /\ upload.kind # "calibration_xlsx" =>
           outcome.status = "not_run" /\ outcome.readings = {}
      /\ upload.kind = "calibration_xlsx" =>
           /\ outcome.status \in {"parsed", "failed", "stored_only"}
           /\ outcome.status = "parsed" =>
                /\ ParseWorkbook(upload.content, file).status = "parsed"
                /\ outcome.readings = WorkbookReadings(upload.content, file)
           /\ outcome.status # "parsed" => outcome.readings = {}
      /\ IsFiniteSet(outcome.readings)
      /\ \A reading \in outcome.readings :
           reading.file = file /\ reading.time >= 0 /\ reading.value >= 0
  BY <1>1, ParsedUpload
<1>4. /\ files' = With(files, file, Row(upload))
      /\ readings' = readings \cup outcome.readings
      /\ results' = IF outcome.status = "not_run" THEN results
                    ELSE With(results, file,
                              Result(outcome, Cardinality(outcome.readings)))
      /\ req' = [req EXCEPT ![r] = Idle]
      /\ UNCHANGED <<disk, links, entered, excused>>
  BY DEF CommitUpload, Become
<1> QED
  BY <1>1, <1>2, <1>3, <1>4 DEF Status

\* What an entry from a table adds to the results of its file.
LEMMA EntryStep ==
  ASSUME Types, BytesInv, NEW job \in Jobs, NEW file \in DOMAIN files,
         EnterPressure(job, file)
  PROVE  /\ files[file].kind = "other"
         /\ results' = With(results, file, results'[file])
         /\ results'[file].status = "parsed"
         /\ results'[file].count =
              2 * Cardinality(CsvPairs(files[file].checksum))
         /\ results'[file].count \in Nat
         /\ entered' = entered \cup {job}
         /\ UNCHANGED <<disk, files, readings, links, excused, req>>
<1>1. PICK csv : csv = disk[file]
  OBVIOUS
<1>2. csv = files[file].checksum
  BY <1>1 DEF BytesInv, BytesAndRowsAgree
<1>3. PICK outcome : outcome = ParseCsv(csv)
  OBVIOUS
<1>4. PICK result :
        result = Result(outcome, 2 * Cardinality(outcome.readings))
  OBVIOUS
<1>5. /\ files[file].kind = "other" /\ outcome.status = "parsed"
      /\ results' = With(results, file, result)
      /\ entered' = entered \cup {job}
      /\ UNCHANGED <<disk, files, readings, links, excused, req>>
  BY <1>1, <1>3, <1>4 DEF EnterPressure, FileOf
<1>6. csv.form = "csv" /\ outcome.readings = CsvPairs(csv)
  BY <1>3, <1>5 DEF ParseCsv, Outcome
<1>7. PICK upload \in Uploads : files[file] = Row(upload)
  BY DEF Types
<1>8. upload.content = csv
  BY <1>2, <1>7 DEF Row
<1>9. Cardinality(CsvPairs(csv)) \in Nat
  BY <1>6, <1>8, UploadsAssumption, PairsCounted
<1>10. /\ result.status = "parsed"
       /\ result.count = 2 * Cardinality(CsvPairs(csv))
       /\ result.count \in Nat
  BY <1>4, <1>5, <1>6, <1>9 DEF Result
<1>11. results'[file] = result
  BY <1>5 DEF With
<1> QED
  BY <1>2, <1>5, <1>10, <1>11

\* What a transcription adds: references of a verification file.
LEMMA TranscriptionStep ==
  ASSUME NEW job \in Jobs, NEW calibration \in DOMAIN files,
         NEW verification \in DOMAIN files, NEW table \in Tables,
         Transcribe(job, calibration, verification, table)
  PROVE  /\ files[verification].kind = "verification_pdf"
         /\ readings \subseteq readings'
         /\ \A reading \in readings' \ readings :
              /\ reading.file = verification
              /\ reading.time >= 0 /\ reading.value >= 0
         /\ UNCHANGED <<disk, files, results, entered, excused, req>>
<1>1. PICK new : new = IrtdReadings(table, verification)
  OBVIOUS
<1>2. /\ files[verification].kind = "verification_pdf"
      /\ readings' = readings \cup new /\ IrtdAcceptable(table)
      /\ UNCHANGED <<disk, files, results, entered, excused, req>>
  BY <1>1 DEF Transcribe, FileOf
<1>3. ASSUME NEW reading \in new
      PROVE  /\ reading.file = verification
             /\ reading.time >= 0 /\ reading.value >= 0
  <2>1. PICK n \in IrtdRows(table) :
          reading = Reading(verification, n + 1, "IRTD", "IRTD",
                            table.rows[n].time, table.rows[n].value, table.unit)
    BY <1>1 DEF IrtdReadings
  <2>2. /\ table.rows[n].time >= 0 /\ Numeric(table.rows[n].value)
        /\ table.rows[n].value # NotFinite
    BY <1>2 DEF IrtdRows, IrtdAcceptable
  <2> QED
    BY <2>1, <2>2 DEF Reading, Numeric
<1> QED
  BY <1>2, <1>3

(***************************************************************************)
(* Types                                                                   *)
(***************************************************************************)

\* A step of a request.
Acts(r) == UploadStep(r) \/ ReviewStep(r)

\* It changes the request's own record only.
LEMMA RequestStep ==
  ASSUME Types, NEW r \in Requests, Acts(r)
  PROVE  /\ DOMAIN req' = Requests
         /\ \A s \in Requests : s # r => req'[s] = req[s]
         /\ req'[r] = Idle \/ UploadType(req'[r]) \/ ReviewType(req'[r])
<1> DEFINE Goal == /\ DOMAIN req' = Requests
                   /\ \A s \in Requests : s # r => req'[s] = req[s]
                   /\ \/ req'[r] = Idle
                      \/ UploadType(req'[r])
                      \/ ReviewType(req'[r])
<1>0. ASSUME NEW x, req' = [req EXCEPT ![r] = x],
             x = Idle \/ UploadType(x) \/ ReviewType(x)
      PROVE  Goal
  BY <1>0 DEF Types
<1>1. req[r] = Idle \/ UploadType(req[r]) \/ ReviewType(req[r])
  BY DEF Types
<1>2. ASSUME NEW file \in FileIds, NEW upload \in Uploads,
             BeginUpload(r, file, upload)
      PROVE  Goal
  <2>1. PICK x : x = [pc |-> "storing", file |-> file, upload |-> upload]
    OBVIOUS
  <2>2. UploadType(x)
    BY <1>2, <2>1 DEF BeginUpload, UploadType
  <2> QED
    BY <1>0, <1>2, <2>1, <2>2 DEF BeginUpload, Become
<1>3. CASE StoreBytes(r)
  <2>1. req[r].pc = "storing"
    BY <1>3 DEF StoreBytes
  <2>2. PICK x : x = [req[r] EXCEPT !.pc = "stored"]
    OBVIOUS
  <2>3. UploadType(x)
    BY <1>1, <2>1, <2>2 DEF UploadType, ReviewType, Idle
  <2> QED
    BY <1>0, <1>3, <2>2, <2>3 DEF StoreBytes, Become
<1>4. CASE CannotStore(r) \/ CommitUpload(r) \/ FailUpload(r) \/ EndReview(r)
  BY <1>0, <1>4 DEF CannotStore, CommitUpload, FailUpload, EndReview, Become
<1>5. ASSUME NEW job \in Jobs, BeginReview(r, job)
      PROVE  Goal
  <2>1. PICK x :
          x = [pc |-> "reviewing", counted |-> <<>>, seen |-> <<>>,
               todo |-> {file \in DOMAIN files : files[file].job = job}]
    OBVIOUS
  <2>2. ReviewType(x)
    BY <2>1 DEF ReviewType
  <2> QED
    BY <1>0, <1>5, <2>1, <2>2 DEF BeginReview, Become
<1>6. CASE CountReadings(r)
  <2>1. req[r].pc = "reviewing" /\ ReviewType(req[r])
    BY <1>1, <1>6 DEF CountReadings, UploadType, Idle
  <2>2. PICK file \in req[r].todo :
          req' = [req EXCEPT ![r] = [req[r] EXCEPT
                    !.counted = <<file, Cardinality(ReadingsOf(file))>>]]
    BY <1>6 DEF CountReadings, Become
  <2>3. PICK x : x = [req[r] EXCEPT
                        !.counted = <<file, Cardinality(ReadingsOf(file))>>]
    OBVIOUS
  <2>4. ReviewType(x)
    BY <2>1, <2>3 DEF ReviewType
  <2> QED
    BY <1>0, <2>2, <2>3, <2>4
<1>7. CASE ReadResult(r)
  <2>1. req[r].pc = "reviewing" /\ ReviewType(req[r])
    BY <1>1, <1>7 DEF ReadResult, UploadType, Idle
  <2>2. PICK todo, seen, x :
          /\ x = [req[r] EXCEPT !.todo = todo, !.counted = <<>>, !.seen = seen]
          /\ req' = [req EXCEPT ![r] = x]
    BY <1>7 DEF ReadResult, Become
  <2>3. ReviewType(x)
    BY <2>1, <2>2 DEF ReviewType
  <2> QED
    BY <1>0, <2>2, <2>3
<1> QED
  BY <1>2, <1>3, <1>4, <1>5, <1>6, <1>7 DEF Acts, UploadStep, ReviewStep

\* What the steps leave alone.
LEMMA Frames ==
  ASSUME [Next]_vars
  PROVE  \/ \E r \in Requests : CommitUpload(r)
         \/ \E job \in Jobs, file \in DOMAIN files : EnterPressure(job, file)
         \/ \E job \in Jobs, calibration \in DOMAIN files,
               verification \in DOMAIN files, table \in Tables :
              Transcribe(job, calibration, verification, table)
         \/ \E job \in Jobs, file \in DOMAIN files : PrepareDataEntry(job, file)
         \/ /\ UNCHANGED stored
            /\ \E r \in Requests : Acts(r) /\ ~ CommitUpload(r)
         \/ UNCHANGED stored /\ Crash
         \/ UNCHANGED vars
<1>1. ASSUME NEW r \in Requests, Acts(r)
      PROVE  CommitUpload(r) \/ UNCHANGED stored
  BY <1>1 DEF Acts, UploadStep, ReviewStep, BeginUpload, StoreBytes, CannotStore,
              FailUpload, BeginReview, CountReadings, ReadResult, EndReview
<1>2. Crash => UNCHANGED stored
  BY DEF Crash
<1> QED
  BY <1>1, <1>2 DEF Next, Use, Acts

\* Requests, whoever steps.
LEMMA RequestsStay ==
  ASSUME Types, [Next]_vars
  PROVE  /\ DOMAIN req' = Requests
         /\ \A r \in Requests :
              req'[r] = Idle \/ UploadType(req'[r]) \/ ReviewType(req'[r])
<1>1. /\ DOMAIN req = Requests
      /\ \A r \in Requests :
           req[r] = Idle \/ UploadType(req[r]) \/ ReviewType(req[r])
  BY DEF Types
<1>2. ASSUME NEW r \in Requests, Acts(r)
      PROVE  /\ DOMAIN req' = Requests
             /\ \A s \in Requests :
                  req'[s] = Idle \/ UploadType(req'[s]) \/ ReviewType(req'[s])
  BY <1>1, <1>2, RequestStep
<1>3. Crash => req' = [r \in Requests |-> Idle]
  BY DEF Crash
<1>4. CASE UNCHANGED req
  BY <1>1, <1>4
<1>5. Use => UNCHANGED req
  BY ZenonT(30) DEF Use, PrepareDataEntry, Transcribe, EnterPressure
<1> QED
  BY <1>2, <1>3, <1>4, <1>5 DEF Next, Acts, vars

\* The parts of Types that are about rows.
RowsType ==
  /\ DOMAIN results \subseteq DOMAIN files /\ DOMAIN files \subseteq FileIds
  /\ \A reading \in readings : reading.file \in DOMAIN files
                               /\ reading.time >= 0 /\ reading.value >= 0
  /\ \A file \in DOMAIN results : results[file].status \in Status
                                  /\ results[file].count \in Nat
  /\ entered \subseteq Jobs
  /\ \A file \in DOMAIN files :
       \E upload \in Uploads : Admissible(upload) /\ files[file] = Row(upload)

LEMMA RowsStay ==
  ASSUME Types, BytesInv, [Next]_vars
  PROVE  RowsType'
<1>1. RowsType
  BY DEF Types, TypeOK, RowsType
<1>2. CASE UNCHANGED stored
  BY <1>1, <1>2 DEF stored, RowsType
<1>3. ASSUME NEW r \in Requests, CommitUpload(r) PROVE RowsType'
  <2>1. PICK file, upload, outcome :
          /\ file = req[r].file /\ upload = req[r].upload
          /\ outcome = ParseUpload(r)
    OBVIOUS
  <2>2. PICK new : new = outcome.readings
    OBVIOUS
  <2>3. PICK result : result = Result(outcome, Cardinality(new))
    OBVIOUS
  <2>4. /\ file \in FileIds /\ upload \in Uploads /\ Admissible(upload)
        /\ file \notin DOMAIN files
        /\ files' = With(files, file, Row(upload))
        /\ readings' = readings \cup new /\ IsFiniteSet(new)
        /\ \A reading \in new :
             reading.file = file /\ reading.time >= 0 /\ reading.value >= 0
        /\ \/ results' = results
           \/ results' = With(results, file, result) /\ outcome.status \in Status
        /\ UNCHANGED entered
    BY <1>3, <2>1, <2>2, <2>3, CommitStep
  <2>5. DOMAIN files' = DOMAIN files \cup {file}
    BY <2>4 DEF With
  <2>6. Cardinality(new) \in Nat
    BY <2>4, FS_CardinalityType
  <2>7. result.status = outcome.status /\ result.count \in Nat
    BY <2>3, <2>6 DEF Result
  <2>8. /\ DOMAIN results' \subseteq DOMAIN files'
        /\ \A f \in DOMAIN results' : results'[f].status \in Status
                                     /\ results'[f].count \in Nat
    BY <1>1, <2>4, <2>5, <2>7 DEF RowsType, With
  <2>9. ASSUME NEW f \in DOMAIN files'
        PROVE  \E u \in Uploads : Admissible(u) /\ files'[f] = Row(u)
    <3>1. CASE f = file
      BY <2>4, <3>1 DEF With
    <3>2. CASE f # file
      <4>1. f \in DOMAIN files /\ files'[f] = files[f]
        BY <2>4, <2>5, <3>2 DEF With
      <4> QED
        BY <1>1, <4>1 DEF RowsType
    <3> QED
      BY <3>1, <3>2
  <2> QED
    BY <1>1, <2>4, <2>5, <2>8, <2>9 DEF RowsType, Admissible
<1>4. ASSUME NEW job \in Jobs, NEW file \in DOMAIN files, EnterPressure(job, file)
      PROVE  RowsType'
  <2>1. /\ results' = With(results, file, results'[file])
        /\ results'[file].status = "parsed" /\ results'[file].count \in Nat
        /\ entered' = entered \cup {job}
        /\ UNCHANGED <<files, readings>>
    BY <1>4, EntryStep
  <2>2. /\ DOMAIN results' = DOMAIN results \cup {file}
        /\ \A f \in DOMAIN results : f # file => results'[f] = results[f]
    BY <2>1 DEF With
  <2> QED
    BY <1>1, <2>1, <2>2 DEF RowsType, Status
<1>5. ASSUME NEW job \in Jobs, NEW calibration \in DOMAIN files,
             NEW verification \in DOMAIN files, NEW table \in Tables,
             Transcribe(job, calibration, verification, table)
      PROVE  RowsType'
  <2>1. /\ \A reading \in readings' \ readings :
             /\ reading.file = verification
             /\ reading.time >= 0 /\ reading.value >= 0
        /\ UNCHANGED <<files, results, entered>>
    BY <1>5, TranscriptionStep
  <2> QED
    BY <1>1, <2>1 DEF RowsType
<1>6. ASSUME NEW job \in Jobs, NEW file \in DOMAIN files,
             PrepareDataEntry(job, file)
      PROVE  RowsType'
  BY <1>1, <1>6 DEF PrepareDataEntry, RowsType
<1>7. UNCHANGED vars => UNCHANGED stored
  BY DEF vars, stored
<1> QED
  BY <1>2, <1>3, <1>4, <1>5, <1>6, <1>7, Frames

LEMMA TypesStay ==
  ASSUME Types, BytesInv, [Next]_vars
  PROVE  Types'
<1>1. DOMAIN disk = FileIds /\ excused \subseteq FileIds
  BY DEF Types, TypeOK
<1>2. \A r \in Requests : Uploading(r) => req[r].file \in FileIds
  BY DEF Types, Uploading, UploadType, ReviewType, Idle
<1>3. DOMAIN disk' = FileIds /\ excused' \subseteq FileIds
  <2>1. ASSUME NEW r \in Requests, UploadStep(r)
        PROVE  DOMAIN disk' = FileIds /\ excused' \subseteq FileIds
    <3>1. CASE StoreBytes(r)
      BY <1>1, <1>2, <3>1 DEF StoreBytes, Uploading
    <3>2. CASE CannotStore(r)
      BY <1>1, <1>2, <3>2 DEF CannotStore, Uploading
    <3>3. CASE CommitUpload(r) \/ FailUpload(r)
      BY <1>1, <3>3 DEF CommitUpload, FailUpload
    <3> QED
      BY <1>1, <2>1, <3>1, <3>2, <3>3 DEF UploadStep, BeginUpload
  <2>2. ASSUME NEW r \in Requests, ReviewStep(r)
        PROVE  UNCHANGED <<disk, excused>>
    BY <2>2 DEF ReviewStep, BeginReview, CountReadings, ReadResult, EndReview
  <2>3. CASE Use
    BY <1>1, <2>3, ZenonT(30) DEF Use, PrepareDataEntry, Transcribe, EnterPressure
  <2>4. CASE Crash
    BY <1>1, <1>2, <2>4 DEF Crash, Uploading
  <2>5. CASE UNCHANGED vars
    BY <1>1, <2>5 DEF vars
  <2> QED
    BY <1>1, <2>1, <2>2, <2>3, <2>4, <2>5 DEF Next
<1>4. RowsType'
  BY RowsStay
<1>5. /\ DOMAIN req' = Requests
      /\ \A r \in Requests :
           req'[r] = Idle \/ UploadType(req'[r]) \/ ReviewType(req'[r])
  BY RequestsStay
<1> QED
  BY <1>3, <1>4, <1>5 DEF Types, TypeOK, RowsType, UploadType, ReviewType,
                          Admissible

(***************************************************************************)
(* Bytes                                                                   *)
(***************************************************************************)

\* What BytesInv says of the bytes of one id, and of one upload.
FileAgrees(file) ==
  /\ file \in DOMAIN files => disk[file] = files[file].checksum
  /\ disk[file] # Absent =>
       \/ file \in DOMAIN files
       \/ file \in excused
       \/ \E r \in Requests : req[r].pc = "stored" /\ req[r].file = file

UploadAgrees(r) ==
  Uploading(r) =>
    /\ req[r].file \notin DOMAIN files
    /\ disk[req[r].file] = IF req[r].pc = "storing" THEN Absent
                           ELSE req[r].upload.content

Apart ==
  \A r, s \in Requests :
    Uploading(r) /\ Uploading(s) /\ req[r].file = req[s].file => r = s

BytesAgree ==
  /\ \A file \in FileIds : FileAgrees(file)
  /\ \A r \in Requests : UploadAgrees(r)
  /\ Apart

LEMMA BytesParts == Types => (BytesInv <=> BytesAgree)
  BY DEF BytesAgree, Types, TypeOK, BytesInv, BytesAndRowsAgree, FileAgrees, UploadAgrees,
         Apart

\* A request steps that alone is on the file: what is said of the other files
\* and uploads stands.
LEMMA OthersAgree ==
  ASSUME Types, BytesInv, NEW r \in Requests, NEW file \in FileIds,
         \A s \in Requests : s # r => req'[s] = req[s],
         Uploading(r) => req[r].file = file,
         Uploading(r)' => req'[r].file = file,
         \A s \in Requests : s # r /\ Uploading(s) => req[s].file # file,
         \A other \in FileIds : other # file => disk'[other] = disk[other],
         excused \subseteq excused',
         DOMAIN files \subseteq DOMAIN files',
         DOMAIN files' \subseteq DOMAIN files \cup {file},
         \A other \in DOMAIN files : other # file => files'[other] = files[other]
  PROVE  /\ \A other \in FileIds : other # file => FileAgrees(other)'
         /\ \A s \in Requests : s # r => UploadAgrees(s)'
         /\ Apart'
<1>1. /\ \A other \in FileIds : FileAgrees(other)
      /\ \A s \in Requests : UploadAgrees(s)
      /\ Apart
  BY BytesParts DEF BytesAgree
<1>2. ASSUME NEW other \in FileIds, other # file PROVE FileAgrees(other)'
  <2>1. /\ disk'[other] = disk[other]
        /\ other \in DOMAIN files' <=> other \in DOMAIN files
        /\ other \in DOMAIN files => files'[other] = files[other]
        /\ other \in excused => other \in excused'
    BY <1>2
  <2>2. ASSUME NEW s \in Requests, req[s].pc = "stored", req[s].file = other
        PROVE  req'[s].pc = "stored" /\ req'[s].file = other
    BY <1>2, <2>2 DEF Uploading
  <2> QED
    BY <1>1, <2>1, <2>2 DEF FileAgrees
<1>3. ASSUME NEW s \in Requests, s # r PROVE UploadAgrees(s)'
  <2>1. req'[s] = req[s]
    BY <1>3
  <2>2. Uploading(s) => req[s].file \in FileIds /\ req[s].file # file
    BY <1>3 DEF Types, Uploading, UploadType, ReviewType, Idle
  <2>3. ASSUME Uploading(s)
        PROVE  /\ req[s].file \notin DOMAIN files'
               /\ disk'[req[s].file] = disk[req[s].file]
    BY <1>1, <2>2, <2>3 DEF UploadAgrees
  <2> QED
    BY <1>1, <2>1, <2>3 DEF UploadAgrees, Uploading
<1>4. Apart'
  BY <1>1 DEF Apart, Uploading
<1> QED
  BY <1>2, <1>3, <1>4

\* A step that touches no bytes, no rows and no upload.
LEMMA BytesFrame ==
  ASSUME BytesInv, UNCHANGED <<disk, files>>, excused \subseteq excused',
         \A r \in Requests :
           Uploading(r) \/ Uploading(r)' => req'[r] = req[r]
  PROVE  BytesInv'
  BY DEF BytesInv, BytesAndRowsAgree, Uploading

LEMMA UploadKeepsBytes ==
  ASSUME Types, BytesInv, Types', NEW r \in Requests, UploadStep(r)
  PROVE  BytesInv'
<1>1. /\ \A file \in FileIds : FileAgrees(file)
      /\ \A s \in Requests : UploadAgrees(s)
      /\ Apart
  BY BytesParts DEF BytesAgree
<1>2. /\ DOMAIN req = Requests /\ DOMAIN disk = FileIds
      /\ \A s \in Requests : s # r => req'[s] = req[s]
  <2>1. Acts(r)
    BY DEF Acts
  <2> QED
    BY <2>1, RequestStep DEF Types, TypeOK
<1>3. ASSUME NEW file \in FileIds, FileAgrees(file)', UploadAgrees(r)',
             Uploading(r) => req[r].file = file,
             Uploading(r)' => req'[r].file = file,
             \A s \in Requests : s # r /\ Uploading(s) => req[s].file # file,
             \A other \in FileIds : other # file => disk'[other] = disk[other],
             excused \subseteq excused',
             DOMAIN files \subseteq DOMAIN files',
             DOMAIN files' \subseteq DOMAIN files \cup {file},
             \A other \in DOMAIN files :
               other # file => files'[other] = files[other]
      PROVE  BytesInv'
  <2>1. /\ \A other \in FileIds : other # file => FileAgrees(other)'
        /\ \A s \in Requests : s # r => UploadAgrees(s)'
        /\ Apart'
    BY <1>2, <1>3, OthersAgree
  <2>2. /\ \A other \in FileIds : FileAgrees(other)'
        /\ \A s \in Requests : UploadAgrees(s)'
    BY <1>3, <2>1
  <2>3. (Types => (BytesInv <=> BytesAgree))'
    BY BytesParts, PTL
  <2> QED
    BY <2>1, <2>2, <2>3 DEF BytesAgree
<1>4. ASSUME Uploading(r)
      PROVE  /\ req[r].file \in FileIds /\ req[r].file \notin DOMAIN files
             /\ \A s \in Requests :
                  s # r /\ Uploading(s) => req[s].file # req[r].file
             /\ DOMAIN req[r] = {"pc", "file", "upload"}
  BY <1>1, <1>4 DEF Types, Uploading, UploadType, ReviewType, Idle,
                    UploadAgrees, Apart
<1>5. Idle.pc \notin {"storing", "stored"}
  BY DEF Idle
<1>6. ASSUME NEW file \in FileIds, NEW upload \in Uploads,
             BeginUpload(r, file, upload)
      PROVE  BytesInv'
  <2>1. /\ req[r] = Idle /\ file \notin DOMAIN files
        /\ disk[file] = Absent
        /\ \A s \in Requests : Uploading(s) => req[s].file # file
        /\ req'[r] = [pc |-> "storing", file |-> file, upload |-> upload]
        /\ UNCHANGED <<disk, files, excused>>
    BY <1>2, <1>6 DEF BeginUpload, Become, Uploading, stored
  <2>2. UploadAgrees(r)' /\ FileAgrees(file)'
    BY <2>1 DEF UploadAgrees, FileAgrees
  <2> QED
    BY <1>3, <1>5, <2>1, <2>2 DEF Uploading
<1>7. CASE StoreBytes(r)
  <2>1. PICK file, upload : file = req[r].file /\ upload = req[r].upload
    OBVIOUS
  <2>2. /\ req[r].pc = "storing" /\ Uploading(r)
        /\ disk' = [disk EXCEPT ![file] = upload.content]
        /\ \/ req'[r] = Idle /\ excused' = excused \cup {file}
           \/ /\ req'[r] = [req[r] EXCEPT !.pc = "stored"]
              /\ excused' = excused
        /\ UNCHANGED files
    BY <1>2, <1>7, <2>1 DEF StoreBytes, Become, Uploading, stored
  <2>3. /\ file \in FileIds /\ file \notin DOMAIN files
        /\ \A s \in Requests : s # r /\ Uploading(s) => req[s].file # file
        /\ DOMAIN req[r] = {"pc", "file", "upload"}
    BY <1>4, <2>1, <2>2
  <2>4. disk'[file] = upload.content
    BY <1>2, <2>2, <2>3
  <2>5. CASE req'[r] = Idle /\ excused' = excused \cup {file}
    <3>1. UploadAgrees(r)' /\ FileAgrees(file)'
      BY <1>5, <2>2, <2>3, <2>5 DEF UploadAgrees, Uploading, FileAgrees
    <3> QED
      BY <1>2, <1>3, <1>5, <2>1, <2>2, <2>3, <2>5, <3>1 DEF Uploading
  <2>6. CASE /\ req'[r] = [req[r] EXCEPT !.pc = "stored"]
             /\ excused' = excused
    <3>1. /\ req'[r].pc = "stored" /\ req'[r].file = file
          /\ req'[r].upload = upload
      BY <2>1, <2>3, <2>6
    <3>2. UploadAgrees(r)' /\ FileAgrees(file)'
      BY <2>2, <2>3, <2>4, <3>1 DEF UploadAgrees, Uploading, FileAgrees
    <3> QED
      BY <1>2, <1>3, <2>1, <2>2, <2>3, <2>6, <3>1, <3>2 DEF Uploading
  <2> QED
    BY <2>2, <2>5, <2>6
<1>8. CASE CannotStore(r)
  <2>1. PICK file : file = req[r].file
    OBVIOUS
  <2>2. /\ Uploading(r) /\ req'[r] = Idle
        /\ excused' = excused \cup {file} /\ UNCHANGED files
        /\ \A other \in FileIds : other # file => disk'[other] = disk[other]
    BY <1>2, <1>8, <2>1 DEF CannotStore, Become, Uploading, stored
  <2>3. UploadAgrees(r)' /\ FileAgrees(file)'
    BY <1>4, <1>5, <2>1, <2>2 DEF UploadAgrees, Uploading, FileAgrees
  <2> QED
    BY <1>3, <1>4, <1>5, <2>1, <2>2, <2>3 DEF Uploading
<1>9. CASE CommitUpload(r)
  <2>1. PICK file, upload, outcome :
          /\ file = req[r].file /\ upload = req[r].upload
          /\ outcome = ParseUpload(r)
    OBVIOUS
  <2>2. /\ req[r].pc = "stored" /\ Uploading(r)
        /\ file \in FileIds /\ file \notin DOMAIN files
        /\ files' = With(files, file, Row(upload))
        /\ req' = [req EXCEPT ![r] = Idle]
        /\ UNCHANGED <<disk, excused>>
    BY <1>9, <2>1, CommitStep DEF Uploading
  <2>3. /\ DOMAIN files' = DOMAIN files \cup {file}
        /\ files'[file] = Row(upload)
        /\ \A other \in DOMAIN files :
             other # file => files'[other] = files[other]
    BY <2>2 DEF With
  <2>4. disk[file] = upload.content
    BY <1>1, <2>1, <2>2 DEF UploadAgrees
  <2>5. req'[r] = Idle
    BY <1>2, <2>2
  <2>6. UploadAgrees(r)' /\ FileAgrees(file)'
    BY <1>5, <2>2, <2>3, <2>4, <2>5
       DEF UploadAgrees, Uploading, FileAgrees, Row
  <2> QED
    BY <1>3, <1>4, <1>5, <2>1, <2>2, <2>3, <2>5, <2>6 DEF Uploading
<1>10. CASE FailUpload(r)
  <2>1. PICK file : file = req[r].file
    OBVIOUS
  <2>2. /\ Uploading(r) /\ req'[r] = Idle /\ UNCHANGED <<files, excused>>
        /\ disk' = [disk EXCEPT ![file] = Absent]
    BY <1>2, <1>10, <2>1 DEF FailUpload, Become, Uploading, stored
  <2>3. UploadAgrees(r)' /\ FileAgrees(file)'
    BY <1>2, <1>4, <1>5, <2>1, <2>2 DEF UploadAgrees, Uploading, FileAgrees
  <2> QED
    BY <1>2, <1>3, <1>4, <1>5, <2>1, <2>2, <2>3 DEF Uploading
<1> QED
  BY <1>6, <1>7, <1>8, <1>9, <1>10 DEF UploadStep

LEMMA BytesStay ==
  ASSUME Types, BytesInv, Types', [Next]_vars
  PROVE  BytesInv'
<1>1. ASSUME NEW r \in Requests, UploadStep(r) PROVE BytesInv'
  BY <1>1, UploadKeepsBytes
<1>2. ASSUME NEW r \in Requests, ReviewStep(r) PROVE BytesInv'
  <2>1. UNCHANGED <<disk, files, excused>>
    BY <1>2 DEF ReviewStep, BeginReview, CountReadings, ReadResult, EndReview,
                stored
  <2>2. req[r].pc \in {"idle", "reviewing"}
    <3>1. (\E job \in Jobs : BeginReview(r, job)) => req[r] = Idle
      BY DEF BeginReview
    <3>2. CountReadings(r) \/ ReadResult(r) \/ EndReview(r)
            => req[r].pc = "reviewing"
      BY DEF CountReadings, ReadResult, EndReview
    <3> QED
      BY <1>2, <3>1, <3>2 DEF ReviewStep, Idle
  <2>3. /\ \A s \in Requests : s # r => req'[s] = req[s]
        /\ req'[r] = Idle \/ UploadType(req'[r]) \/ ReviewType(req'[r])
    BY <1>2, RequestStep DEF Acts
  <2>4. req'[r].pc \notin {"storing", "stored"}
    <3>1. CASE \E job \in Jobs : BeginReview(r, job)
      BY <3>1 DEF BeginReview, Become, Types
    <3>2. CASE CountReadings(r)
      <4>1. /\ req[r].pc = "reviewing" /\ ReviewType(req[r])
        BY <3>2 DEF CountReadings, Types, UploadType, Idle
      <4> QED
        BY <3>2, <4>1 DEF CountReadings, Become, Types, ReviewType
    <3>3. CASE ReadResult(r)
      <4>1. /\ req[r].pc = "reviewing" /\ ReviewType(req[r])
        BY <3>3 DEF ReadResult, Types, UploadType, Idle
      <4> QED
        BY <3>3, <4>1 DEF ReadResult, Become, Types, ReviewType
    <3>4. CASE EndReview(r)
      BY <3>4 DEF EndReview, Become, Types, Idle
    <3> QED
      BY <1>2, <3>1, <3>2, <3>3, <3>4 DEF ReviewStep
  <2> QED
    BY <2>1, <2>2, <2>3, <2>4, BytesFrame DEF Uploading
<1>3. CASE Use
  BY <1>3, BytesFrame, ZenonT(30) DEF Use, PrepareDataEntry, Transcribe, EnterPressure
<1>4. CASE Crash
  <2>1. \A r \in Requests : ~ Uploading(r)'
    BY <1>4 DEF Crash, Uploading, Idle
  <2>2. /\ UNCHANGED <<disk, files>>
        /\ excused \subseteq excused'
        /\ \A r \in Requests : Uploading(r) => req[r].file \in excused'
    BY <1>4 DEF Crash, Uploading, stored
  <2> QED
    BY <2>1, <2>2 DEF BytesInv, BytesAndRowsAgree, Uploading
<1>5. CASE UNCHANGED vars
  BY <1>5, BytesFrame DEF vars
<1> QED
  BY <1>1, <1>2, <1>3, <1>4, <1>5 DEF Next

(***************************************************************************)
(* Results                                                                 *)
(***************************************************************************)

\* Files are never changed, and their readings are there with their row; only
\* a verification file is given readings later.
LEMMA FilesStand ==
  ASSUME Types, BytesInv, [Next]_vars, NEW file \in DOMAIN files
  PROVE  /\ file \in DOMAIN files' /\ files'[file] = files[file]
         /\ files[file].kind # "verification_pdf" =>
              ReadingsOf(file)' = ReadingsOf(file)
<1>1. CASE UNCHANGED <<files, readings>>
  BY <1>1 DEF ReadingsOf
<1>2. ASSUME NEW r \in Requests, CommitUpload(r)
      PROVE  /\ file \in DOMAIN files' /\ files'[file] = files[file]
             /\ ReadingsOf(file)' = ReadingsOf(file)
  <2>1. PICK new, upload, outcome :
          /\ new = req[r].file /\ upload = req[r].upload
          /\ outcome = ParseUpload(r)
    OBVIOUS
  <2>2. /\ new \notin DOMAIN files
        /\ files' = With(files, new, Row(upload))
        /\ readings' = readings \cup outcome.readings
        /\ \A reading \in outcome.readings : reading.file = new
    BY <1>2, <2>1, CommitStep
  <2>3. file # new
    BY <2>2
  <2> QED
    BY <2>2, <2>3 DEF With, ReadingsOf
<1>3. ASSUME NEW job \in Jobs, NEW calibration \in DOMAIN files,
             NEW verification \in DOMAIN files, NEW table \in Tables,
             Transcribe(job, calibration, verification, table)
      PROVE  /\ UNCHANGED files
             /\ files[file].kind # "verification_pdf" =>
                  ReadingsOf(file)' = ReadingsOf(file)
  <2>1. /\ files[verification].kind = "verification_pdf"
        /\ readings \subseteq readings'
        /\ \A reading \in readings' \ readings : reading.file = verification
        /\ UNCHANGED files
    BY <1>3, TranscriptionStep
  <2> QED
    BY <2>1 DEF ReadingsOf
<1>4. ASSUME NEW job \in Jobs, NEW other \in DOMAIN files,
             EnterPressure(job, other) \/ PrepareDataEntry(job, other)
      PROVE  UNCHANGED <<files, readings>>
  BY <1>4 DEF EnterPressure, PrepareDataEntry
<1>5. UNCHANGED stored \/ UNCHANGED vars => UNCHANGED <<files, readings>>
  BY DEF stored, vars
<1> QED
  BY <1>1, <1>2, <1>3, <1>4, <1>5, Frames

LEMMA ResultsStay ==
  ASSUME Types, BytesInv, ResultsInv, [Next]_vars
  PROVE  ResultsInv'
<1>1. ASSUME UNCHANGED <<files, readings, results>> PROVE ResultsInv'
  BY <1>1 DEF ResultsInv, ResultAgrees, ReadingsOf
<1>2. ASSUME NEW r \in Requests, CommitUpload(r) PROVE ResultsInv'
  <2>1. PICK new, upload, outcome :
          /\ new = req[r].file /\ upload = req[r].upload
          /\ outcome = ParseUpload(r)
    OBVIOUS
  <2>2. PICK result : result = Result(outcome, Cardinality(outcome.readings))
    OBVIOUS
  <2>3. /\ new \notin DOMAIN files
        /\ files' = With(files, new, Row(upload))
        /\ readings' = readings \cup outcome.readings
        /\ \A reading \in outcome.readings : reading.file = new
        /\ upload.kind = "calibration_xlsx" =>
             /\ results' = With(results, new, result)
             /\ outcome.status = "parsed" =>
                  /\ ParseWorkbook(upload.content, new).status = "parsed"
                  /\ outcome.readings = WorkbookReadings(upload.content, new)
             /\ outcome.status # "parsed" => outcome.readings = {}
        /\ upload.kind # "calibration_xlsx" =>
             results' = results /\ outcome.readings = {}
    BY <1>2, <2>1, <2>2, CommitStep
  <2>4. /\ DOMAIN files' = DOMAIN files \cup {new}
        /\ files'[new] = Row(upload)
        /\ \A file \in DOMAIN files : files'[file] = files[file]
        /\ \A file \in DOMAIN files :
             /\ file \in DOMAIN results' <=> file \in DOMAIN results
             /\ results'[file] = results[file] \/ file \notin DOMAIN results
    BY <2>3 DEF With
  <2>5. ASSUME NEW file \in DOMAIN files PROVE ResultAgrees(file)'
    <3>1. ReadingsOf(file)' = ReadingsOf(file)
      BY <2>3 DEF ReadingsOf
    <3>2. ResultAgrees(file)
      BY DEF ResultsInv
    <3> QED
      BY <2>4, <3>1, <3>2 DEF ResultAgrees
  <2>6. ResultAgrees(new)'
    <3>1. ReadingsOf(new)' = outcome.readings
      BY <2>3 DEF ReadingsOf, Types, TypeOK
    <3>2. files'[new].kind = upload.kind /\ files'[new].checksum = upload.content
      BY <2>4 DEF Row
    <3>3. result.status = outcome.status
          /\ result.count = Cardinality(outcome.readings)
      BY <2>2 DEF Result
    <3>4. CASE upload.kind = "calibration_xlsx"
      <4>1. new \in DOMAIN results' /\ results'[new] = result
        BY <2>3, <3>4 DEF With
      <4> QED
        BY <2>3, <3>1, <3>2, <3>3, <3>4, <4>1 DEF ResultAgrees
    <3>5. CASE upload.kind # "calibration_xlsx"
      <4>1. new \notin DOMAIN results'
        BY <2>3, <3>5 DEF Types, TypeOK
      <4> QED
        BY <2>3, <3>1, <3>2, <3>5, <4>1 DEF ResultAgrees
    <3> QED
      BY <3>4, <3>5
  <2> QED
    BY <2>4, <2>5, <2>6 DEF ResultsInv
<1>3. ASSUME NEW job \in Jobs, NEW entry \in DOMAIN files,
             EnterPressure(job, entry)
      PROVE  ResultsInv'
  <2>1. /\ files[entry].kind = "other"
        /\ results' = With(results, entry, results'[entry])
        /\ results'[entry].status = "parsed"
        /\ results'[entry].count =
             2 * Cardinality(CsvPairs(files[entry].checksum))
        /\ UNCHANGED <<files, readings>>
    BY <1>3, EntryStep
  <2>2. /\ DOMAIN results' = DOMAIN results \cup {entry}
        /\ \A file \in DOMAIN results :
             file # entry => results'[file] = results[file]
    BY <2>1 DEF With
  <2>3. ASSUME NEW file \in DOMAIN files PROVE ResultAgrees(file)'
    <3>1. ResultAgrees(file) /\ ReadingsOf(file)' = ReadingsOf(file)
      BY <2>1 DEF ResultsInv, ReadingsOf
    <3>2. CASE file = entry
      BY <2>1, <3>1, <3>2 DEF ResultAgrees
    <3>3. CASE file # entry
      BY <2>1, <2>2, <3>1, <3>3 DEF ResultAgrees
    <3> QED
      BY <3>2, <3>3
  <2> QED
    BY <2>1, <2>3 DEF ResultsInv
<1>4. ASSUME NEW job \in Jobs, NEW calibration \in DOMAIN files,
             NEW verification \in DOMAIN files, NEW table \in Tables,
             Transcribe(job, calibration, verification, table)
      PROVE  ResultsInv'
  <2>1. UNCHANGED <<files, results>>
    BY <1>4 DEF Transcribe
  <2>2. ASSUME NEW file \in DOMAIN files PROVE ResultAgrees(file)'
    <3>1. /\ ResultAgrees(file)
          /\ files[file].kind # "verification_pdf" =>
               ReadingsOf(file)' = ReadingsOf(file)
      <4>1. Transcribe(job, calibration, verification, table) => [Next]_vars
        BY DEF Next, Use
      <4> QED
        BY FilesStand DEF ResultsInv
    <3> QED
      BY <2>1, <3>1 DEF ResultAgrees
  <2> QED
    BY <2>1, <2>2 DEF ResultsInv
<1>5. ASSUME NEW job \in Jobs, NEW file \in DOMAIN files,
             PrepareDataEntry(job, file)
      PROVE  ResultsInv'
  BY <1>1, <1>5 DEF PrepareDataEntry
<1>6. UNCHANGED stored \/ UNCHANGED vars => UNCHANGED <<files, readings, results>>
  BY DEF stored, vars
<1> QED
  BY <1>1, <1>2, <1>3, <1>4, <1>5, <1>6, Frames

(***************************************************************************)
(* Reviews                                                                 *)
(***************************************************************************)

\* A workbook that was parsed has as many readings as cells with a number.
LEMMA ParsedCount ==
  ASSUME Types, ResultsInv, NEW file \in DOMAIN files,
         files[file].kind = "calibration_xlsx", results[file].status = "parsed"
  PROVE  Cardinality(ReadingsOf(file)) =
           Cardinality(CellsWithNumbers(files[file].checksum))
<1>1. PICK upload \in Uploads : Admissible(upload) /\ files[file] = Row(upload)
  BY DEF Types
<1>2. PICK book : book = upload.content
  OBVIOUS
<1>3. files[file].checksum = book /\ upload.kind = "calibration_xlsx"
  BY <1>1, <1>2 DEF Row
<1>4. IsFiniteSet(DOMAIN book.rows) /\ IsFiniteSet(DOMAIN book.loggers)
  BY <1>1, <1>2, <1>3, UploadsAssumption DEF Admissible
<1>5. /\ ParseWorkbook(book, file).status = "parsed"
      /\ ReadingsOf(file) = WorkbookReadings(book, file)
  BY <1>3 DEF ResultsInv, ResultAgrees
<1>6. Cardinality(WorkbookReadings(book, file)) =
        Cardinality(NumericCells(book))
  BY <1>4, ReadingsCounted
<1>7. NumericCells(book) = CellsWithNumbers(book)
  BY <1>5, ParsedCells
<1> QED
  BY <1>3, <1>5, <1>6, <1>7

\* The line made of a file's count and of its result shows the file.
LEMMA ReviewedShows ==
  ASSUME Types, ResultsInv, NEW file \in DOMAIN files, NEW n,
         files[file].kind # "verification_pdf" =>
           n = Cardinality(ReadingsOf(file))
  PROVE  Shows(Reviewed(file, n), file)
<1>1. PICK line : line = Reviewed(file, n)
  OBVIOUS
<1>2. ResultAgrees(file)
  BY DEF ResultsInv
<1>3. Cardinality({}) = 0
  BY FS_EmptySet
<1>4. CASE file \in DOMAIN results
  <2>1. /\ line.status = results[file].status
        /\ line.count = IF n = 0 THEN results[file].count ELSE n
    BY <1>1, <1>4 DEF Reviewed
  <2>2. CASE files[file].kind = "calibration_xlsx"
    <3>1. line.count = Cardinality(ReadingsOf(file))
      BY <1>2, <2>1, <2>2 DEF ResultAgrees
    <3>2. CASE results[file].status = "parsed"
      BY <1>1, <2>1, <2>2, <3>1, <3>2, ParsedCount DEF Shows
    <3>3. CASE results[file].status # "parsed"
      BY <1>1, <1>2, <1>3, <2>1, <2>2, <3>1, <3>3 DEF Shows, ResultAgrees
    <3> QED
      BY <3>2, <3>3
  <2>3. CASE files[file].kind # "calibration_xlsx"
    <3>1. /\ results[file].status = "parsed" /\ n = 0
          /\ results[file].count =
               2 * Cardinality(CsvPairs(files[file].checksum))
      BY <1>2, <1>3, <1>4, <2>3 DEF ResultAgrees
    <3> QED
      BY <1>1, <2>1, <2>3, <3>1 DEF Shows
  <2> QED
    BY <2>2, <2>3
<1>5. CASE file \notin DOMAIN results
  <2>1. line.status # "parsed" /\ line.count = n
    BY <1>1, <1>5 DEF Reviewed
  <2>2. files[file].kind # "verification_pdf" => n = 0
    BY <1>2, <1>3, <1>5 DEF ResultAgrees
  <2> QED
    BY <1>1, <2>1, <2>2 DEF Shows
<1> QED
  BY <1>4, <1>5

\* How a review comes to be where it is.
LEMMA ReviewRecord ==
  ASSUME Types, [Next]_vars, NEW r \in Requests, req'[r].pc = "reviewing"
  PROVE  \/ req'[r] = req[r]
         \/ \E job \in Jobs : BeginReview(r, job)
         \/ CountReadings(r)
         \/ ReadResult(r)
<1>1. DOMAIN req = Requests
  BY DEF Types
<1>2. ASSUME NEW s \in Requests, UploadStep(s) \/ ReviewStep(s), s # r
      PROVE  req'[r] = req[r]
  BY <1>2, RequestStep DEF Acts
<1>3. ~ UploadStep(r)
  <2>1. (\E file \in FileIds, upload \in Uploads : BeginUpload(r, file, upload))
          => req'[r].pc # "reviewing"
    BY <1>1 DEF BeginUpload, Become
  <2>2. StoreBytes(r) => req'[r].pc # "reviewing"
    <3>1. SUFFICES ASSUME StoreBytes(r) PROVE req'[r].pc # "reviewing"
      OBVIOUS
    <3>2. req[r].pc = "storing"
      BY <3>1 DEF StoreBytes
    <3>3. DOMAIN req[r] = {"pc", "file", "upload"}
      BY <3>2 DEF Types, UploadType, ReviewType, Idle
    <3>4. \/ req'[r] = Idle
          \/ req'[r] = [req[r] EXCEPT !.pc = "stored"]
      BY <1>1, <3>1 DEF StoreBytes, Become
    <3> QED
      BY <3>3, <3>4 DEF Idle
  <2>3. CannotStore(r) \/ CommitUpload(r) \/ FailUpload(r)
          => req'[r].pc # "reviewing"
    BY <1>1 DEF CannotStore, CommitUpload, FailUpload, Become, Idle
  <2> QED
    BY <2>1, <2>2, <2>3 DEF UploadStep
<1>4. ~ EndReview(r)
  BY <1>1 DEF EndReview, Become, Idle
<1>5. ~ Crash
  BY DEF Crash, Idle
<1>6. Use \/ UNCHANGED vars => req'[r] = req[r]
  BY ZenonT(30) DEF Use, PrepareDataEntry, Transcribe, EnterPressure, vars
<1> QED
  BY <1>2, <1>3, <1>4, <1>5, <1>6 DEF Next, ReviewStep

LEMMA ReviewsStay ==
  ASSUME Types, BytesInv, ResultsInv, ReviewInv, LinesInv, [Next]_vars
  PROVE  ReviewInv' /\ LinesInv'
<1>1. \A file \in DOMAIN files :
        /\ file \in DOMAIN files' /\ files'[file] = files[file]
        /\ files[file].kind # "verification_pdf" =>
             ReadingsOf(file)' = ReadingsOf(file)
  BY FilesStand
<1>2. ASSUME NEW x, CountStands(x) PROVE CountStands(x)'
  <2>1. x.todo \cup DOMAIN x.seen \subseteq DOMAIN files'
    BY <1>1, <1>2 DEF CountStands
  <2>2. ASSUME x.counted # <<>>
        PROVE  /\ x.counted[1] \in x.todo
               /\ files'[x.counted[1]].kind # "verification_pdf" =>
                    x.counted[2] = Cardinality(ReadingsOf(x.counted[1])')
    <3>1. PICK file : file = x.counted[1]
      OBVIOUS
    <3>2. /\ file \in x.todo /\ file \in DOMAIN files
          /\ files[file].kind # "verification_pdf" =>
               x.counted[2] = Cardinality(ReadingsOf(file))
      BY <1>2, <2>2, <3>1 DEF CountStands
    <3>3. /\ files'[file] = files[file]
          /\ files[file].kind # "verification_pdf" =>
               ReadingsOf(file)' = ReadingsOf(file)
      BY <1>1, <3>2
    <3> QED
      BY <3>1, <3>2, <3>3 DEF ReadingsOf
  <2> QED
    BY <2>1, <2>2 DEF CountStands, ReadingsOf
<1>3. ASSUME NEW line, NEW file \in DOMAIN files, Shows(line, file)
      PROVE  Shows(line, file)'
  BY <1>1, <1>3 DEF Shows
<1>4. ASSUME NEW r \in Requests, NEW x, x = req'[r], x.pc = "reviewing"
      PROVE  /\ CountStands(x)'
             /\ \A file \in DOMAIN x.seen : Shows(x.seen[file], file)'
  <2>1. DOMAIN req = Requests /\ DOMAIN <<>> = {}
    BY DEF Types
  <2>2. req[r].pc = "reviewing" =>
          /\ CountStands(req[r])
          /\ \A file \in DOMAIN req[r].seen : Shows(req[r].seen[file], file)
          /\ DOMAIN req[r].seen \subseteq DOMAIN files
          /\ DOMAIN req[r] = {"pc", "counted", "seen", "todo"}
    BY DEF ReviewInv, LinesInv, CountStands, Types, UploadType, ReviewType, Idle
  <2>3. x = req'[r]
    BY <1>4
  <2>4. CASE x = req[r]
    BY <1>2, <1>3, <1>4, <2>2, <2>4
  <2>5. ASSUME NEW job \in Jobs, BeginReview(r, job)
        PROVE  /\ CountStands(x)'
               /\ \A file \in DOMAIN x.seen : Shows(x.seen[file], file)'
    <3>1. /\ x.seen = <<>> /\ x.counted = <<>>
          /\ x.todo \subseteq DOMAIN files
      BY <2>1, <2>3, <2>5 DEF BeginReview, Become
    <3>2. CountStands(x)
      BY <2>1, <3>1 DEF CountStands
    <3> QED
      BY <1>2, <2>1, <3>1, <3>2
  <2>6. CASE CountReadings(r)
    <3>1. PICK file \in req[r].todo :
            x = [req[r] EXCEPT
                   !.counted = <<file, Cardinality(ReadingsOf(file))>>]
      BY <2>1, <2>3, <2>6 DEF CountReadings, Become
    <3>2. req[r].pc = "reviewing"
      BY <2>6 DEF CountReadings
    <3>3. /\ x.todo = req[r].todo /\ x.seen = req[r].seen
          /\ x.counted = <<file, Cardinality(ReadingsOf(file))>>
      BY <2>2, <3>1, <3>2
    <3>4. CountStands(x)
      BY <2>2, <3>2, <3>3 DEF CountStands
    <3> QED
      BY <1>2, <1>3, <2>2, <3>2, <3>3, <3>4
  <2>7. CASE ReadResult(r)
    <3>1. PICK file, n : file = req[r].counted[1] /\ n = req[r].counted[2]
      OBVIOUS
    <3>2. PICK seen, line :
            /\ seen = With(req[r].seen, file, line) /\ line = Reviewed(file, n)
      OBVIOUS
    <3>3. /\ req[r].pc = "reviewing" /\ req[r].counted # <<>>
          /\ x = [req[r] EXCEPT !.todo = @ \ {file}, !.counted = <<>>,
                                !.seen = seen]
      BY <2>1, <2>3, <2>7, <3>1, <3>2 DEF ReadResult, Become
    <3>4. /\ file \in req[r].todo /\ file \in DOMAIN files
          /\ files[file].kind # "verification_pdf" =>
               n = Cardinality(ReadingsOf(file))
      BY <2>2, <3>1, <3>3 DEF CountStands
    <3>5. Shows(line, file)
      BY <3>2, <3>4, ReviewedShows
    <3>6. /\ x.todo = req[r].todo \ {file} /\ x.counted = <<>>
          /\ x.seen = seen
      BY <2>2, <3>3
    <3>7. /\ DOMAIN seen = DOMAIN req[r].seen \cup {file}
          /\ \A f \in DOMAIN seen : Shows(seen[f], f)
      BY <2>2, <3>2, <3>3, <3>5 DEF With
    <3>8. CountStands(x) /\ DOMAIN seen \subseteq DOMAIN files
      BY <2>2, <3>3, <3>4, <3>6, <3>7 DEF CountStands
    <3> QED
      BY <1>2, <1>3, <3>6, <3>7, <3>8
  <2> QED
    BY <1>4, <2>3, <2>4, <2>5, <2>6, <2>7, ReviewRecord
<1>5. ASSUME NEW r \in Requests, req'[r].pc = "reviewing"
      PROVE  /\ CountStands(req[r])'
             /\ \A file \in DOMAIN req'[r].seen : Shows(req[r].seen[file], file)'
  <2>1. PICK x : x = req'[r]
    OBVIOUS
  <2>2. CountStands(x)' /\ \A file \in DOMAIN x.seen : Shows(x.seen[file], file)'
    BY <1>4, <1>5, <2>1
  <2> QED
    BY <2>1, <2>2 DEF CountStands, Shows, ReadingsOf
<1> QED
  BY <1>5 DEF ReviewInv, LinesInv

(***************************************************************************)
(* Theorems                                                                *)
(***************************************************************************)

IInv == Types /\ BytesInv /\ ResultsInv /\ ReviewInv /\ LinesInv

LEMMA Invariant == Spec => []IInv
<1>1. Init => IInv
  BY DEF Init, IInv, Types, TypeOK, BytesInv, BytesAndRowsAgree, ResultsInv,
         ReviewInv, LinesInv, Idle, Uploading
<1>2. IInv /\ [Next]_vars => IInv'
  BY TypesStay, BytesStay, ResultsStay, ReviewsStay DEF IInv
<1> QED
  BY <1>1, <1>2, PTL DEF Spec

\* Rows, readings and results belong to files that were uploaded, for any
\* uploads and any requests.
THEOREM TypeCorrect == Spec => []TypeOK
<1>1. IInv => TypeOK
  BY DEF IInv, Types
<1> QED
  BY <1>1, Invariant, PTL

\* An upload leaves both its bytes and its row or neither, whatever requests
\* overlap and whatever the parser and the transaction do; what a crash, an I/O
\* error or a blank parser version left is the exception.
THEOREM BytesStayWithRows == Spec => []BytesAndRowsAgree
<1>1. IInv => BytesAndRowsAgree
  BY DEF IInv, BytesInv
<1> QED
  BY <1>1, Invariant, PTL

\* The readings of a workbook that was reported as parsed are the numbers of its
\* bytes, each at its place, and no other workbook has readings, for workbooks
\* of any size.
THEOREM ReadingsAreOfTheBytes == Spec => []ReadingsAreTheFilesNumbers
<1>1. IInv => ReadingsAreTheFilesNumbers
  <2> SUFFICES ASSUME IInv, NEW file \in DOMAIN files,
                      files[file].kind = "calibration_xlsx"
               PROVE  IF results[file].status = "parsed"
                      THEN /\ {<<reading.row, reading.column>> :
                                 reading \in ReadingsOf(file)} =
                                CellsWithNumbers(files[file].checksum)
                           /\ \A reading \in ReadingsOf(file) :
                                reading.value =
                                  Cell(files[file].checksum,
                                       <<reading.row, reading.column>>)
                      ELSE ReadingsOf(file) = {}
    BY DEF ReadingsAreTheFilesNumbers
  <2>1. ResultAgrees(file)
    BY DEF IInv, ResultsInv
  <2>2. PICK book : book = files[file].checksum
    OBVIOUS
  <2>3. CASE results[file].status = "parsed"
    <3>1. /\ ParseWorkbook(book, file).status = "parsed"
          /\ ReadingsOf(file) = WorkbookReadings(book, file)
      BY <2>1, <2>2, <2>3 DEF ResultAgrees
    <3>2. {<<reading.row, reading.column>> :
             reading \in WorkbookReadings(book, file)} = CellsWithNumbers(book)
      BY <3>1, ParsedCells, CellsOfReadings
    <3>3. \A reading \in WorkbookReadings(book, file) :
            reading.value = Cell(book, <<reading.row, reading.column>>)
      BY ReadingFields, ZenonT(30)
    <3> QED
      BY <2>2, <2>3, <3>1, <3>2, <3>3
  <2>4. CASE results[file].status # "parsed"
    BY <2>1, <2>4 DEF ResultAgrees
  <2> QED
    BY <2>3, <2>4
<1> QED
  BY <1>1, Invariant, PTL

\* What a review shows of a file is what the file holds, whatever is uploaded,
\* entered and transcribed between its two reads.
THEOREM ReviewsShowTheFiles == Spec => []ReviewShowsTheFile
<1>1. LinesInv => ReviewShowsTheFile
  BY DEF LinesInv, Shows, ReviewShowsTheFile
<1>2. IInv => LinesInv
  BY DEF IInv
<1> QED
  BY <1>1, <1>2, Invariant, PTL

=============================================================================
