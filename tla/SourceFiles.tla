------------------------------ MODULE SourceFiles ------------------------------
(***************************************************************************)
(* Uploaded source files: their bytes in the artifact directory, their     *)
(* rows and parsed readings in the database, and the import review.        *)
(*                                                                         *)
(* The bytes are written before the transaction of an upload and removed   *)
(* when it fails.  What a parser makes of a file is an operator of its     *)
(* content.  A checksum is the content itself.  Requests here are those    *)
(* that authentication let through (Accounts).                             *)
(***************************************************************************)
EXTENDS Integers, FiniteSets, Sequences

CONSTANTS
  Jobs,           \* ids of jobs
  DisciplineOf,   \* their disciplines
  FileIds,        \* ids the server may draw for files, each drawn once
  Uploads,        \* what clients upload: job, kind, extension, content, version
  Tables,         \* IRTD tables clients transcribe: unit and rows
  Unit,           \* the unit of a pressure entry
  Requests,       \* requests that can be in flight together
  ProvisionalParserEnabled  \* allow_provisional_valprobe_parser

ASSUME SourceFilesAssumption ==
  /\ DisciplineOf \in [Jobs -> {"temperature", "pressure"}]
  /\ ProvisionalParserEnabled \in BOOLEAN

\* Files are finite.
ASSUME UploadsAssumption ==
  \A upload \in Uploads :
    /\ upload.content.form = "workbook" =>
         /\ IsFiniteSet(DOMAIN upload.content.rows)
         /\ IsFiniteSet(DOMAIN upload.content.loggers)
    /\ upload.content.form = "csv" => Len(upload.content.rows) \in Nat

\* What a cell may hold beside a number or a time, which are naturals.
Blank == -1
Text == -2
NotFinite == -3

Absent == [form |-> "absent"]

\* The bytes a write that failed left behind.
Truncated == [form |-> "truncated"]

(***************************************************************************)
(* Parsers                                                                 *)
(***************************************************************************)

FirstDataRow == 12

Reading(file, row, column, channel, time, value, unit) ==
  [file |-> file, row |-> row, column |-> column, channel |-> channel,
   time |-> time, value |-> value, unit |-> unit]

\* float() accepts a value that MeasurementReading then refuses.
Numeric(value) == value >= 0 \/ value = NotFinite

\* The columns with a logger id in row 8.
LoggerColumns(book) ==
  {column \in DOMAIN book.loggers : book.loggers[column] # ""}

\* Data that begins in the row after the logger ids.
DataRowsFromHeader(book) == {row \in DOMAIN book.rows : row > 8}

DataRows(book) == {row \in DOMAIN book.rows : row >= FirstDataRow}

TimedRows(book) == {row \in DataRows(book) : book.rows[row].time >= 0}

\* The cells a reading may come from, as rows and columns.
DataCells(book) == TimedRows(book) \X LoggerColumns(book)

Cell(book, at) == book.rows[at[1]].cells[at[2]]

WorkbookReadings(book, file) ==
  {Reading(file, at[1], at[2], book.loggers[at[2]], book.rows[at[1]].time,
           Cell(book, at), book.units[at[2]])
     : at \in {cell \in DataCells(book) : Numeric(Cell(book, cell))}}

\* One for each row without a time, and for each cell of text.
WorkbookWarnings(book) ==
  Cardinality(DataRows(book) \ TimedRows(book))
    + Cardinality({at \in DataCells(book) : Cell(book, at) = Text})

Outcome(status, readings, warnings) ==
  [status |-> status, readings |-> readings, warnings |-> warnings]

\* A workbook that breaks the contract fails, and is kept; an exception the
\* upload does not know, such as a missing part, ends the upload.
ParseWorkbook(book, file) ==
  IF book.parts = "missing" THEN Outcome("raised", {}, 0)
  ELSE IF \/ book.parts = "malformed"
          \/ ~ book.sheet
          \/ LoggerColumns(book) = {} THEN Outcome("failed", {}, 1)
  ELSE IF \E at \in DataCells(book) : Cell(book, at) = NotFinite
       THEN Outcome("raised", {}, 0)
  ELSE Outcome("parsed", WorkbookReadings(book, file), WorkbookWarnings(book))

\* Rows of the pressure CSV that are not blank all the way.
CsvRows(csv) ==
  {n \in 1..Len(csv.rows) :
     ~ (csv.rows[n].time = Blank /\ csv.rows[n].reference = Blank
                                 /\ csv.rows[n].indication = Blank)}

CsvPairs(csv) ==
  {n \in CsvRows(csv) : csv.rows[n].time >= 0 /\ csv.rows[n].reference >= 0
                                              /\ csv.rows[n].indication >= 0}

ParseCsv(csv) ==
  IF csv.form = "csv" /\ Cardinality(CsvPairs(csv)) >= 2
  THEN Outcome("parsed", CsvPairs(csv),
               Cardinality(CsvRows(csv) \ CsvPairs(csv)))
  ELSE Outcome("refused", {}, 0)

\* Rows of a transcribed table that make a reference reading.
IrtdRows(table) ==
  {n \in 1..Len(table.rows) : table.rows[n].time >= 0
                              /\ Numeric(table.rows[n].value)}

IrtdReadings(table, file) ==
  {Reading(file, n + 1, "IRTD", "IRTD", table.rows[n].time,
           table.rows[n].value, table.unit) : n \in IrtdRows(table)}

\* A duplicate time or a value that is not finite refuses the transcription.
IrtdAcceptable(table) ==
  /\ \A n \in IrtdRows(table) : table.rows[n].value # NotFinite
  /\ \A n, k \in IrtdRows(table) :
       table.rows[n].time = table.rows[k].time => n = k

Link(indication, reference) ==
  [indication |-> indication, reference |-> reference]

\* link_logger_readings_to_irtd: same time and unit; the rest is warned about.
LinkReadings(loggers, references) ==
  {Link(pair[1], pair[2]) :
     pair \in {both \in loggers \X references :
                 /\ both[1].time = both[2].time
                 /\ both[1].unit = both[2].unit}}

(***************************************************************************)
(* State                                                                   *)
(***************************************************************************)

VARIABLES
  disk,      \* the bytes under uploads/, by file id
  files,     \* uploaded_files
  readings,  \* parsed_readings
  links,     \* linked_temperature_readings, with the job
  results,   \* PARSER_RESULT_RECORDED events of the files
  entered,   \* jobs whose data were entered
  excused,   \* history: ids whose upload met a crash or an I/O error, or was
             \* refused for its parser version after its bytes were written
  req        \* what each request has done so far

vars == <<disk, files, readings, links, results, entered, excused, req>>
stored == <<files, readings, links, results, entered>>

Idle == [pc |-> "idle"]

Become(r, record) == req' = [req EXCEPT ![r] = record]

ReadingsOf(file) == {reading \in readings : reading.file = file}

(***************************************************************************)
(* Uploads                                                                 *)
(***************************************************************************)

Extensions ==
  [calibration_xlsx |-> {"xlsx"}, verification_pdf |-> {"pdf"},
   certificate_reference_pdf |-> {"pdf"}, other |-> {"csv", "json", "txt"}]

\* _validate_upload_controls; the size limits and the rules for the members of
\* an archive are its verdict on it.
Admissible(upload) ==
  /\ upload.extension \in Extensions[upload.kind]
  /\ upload.kind = "calibration_xlsx" =>
       upload.content.form = "workbook" /\ upload.content.archive = "sound"

\* An id is drawn once, so no two uploads share a path; the id of an upload that
\* failed and left nothing stands for a new one.
BeginUpload(r, file, upload) ==
  /\ req[r] = Idle
  /\ file \notin DOMAIN files \cup excused
  /\ disk[file] = Absent
  /\ \A other \in Requests :
       req[other].pc \in {"storing", "stored"} => req[other].file # file
  /\ Admissible(upload)
  /\ Become(r, [pc |-> "storing", file |-> file, upload |-> upload])
  /\ UNCHANGED <<disk, stored, excused>>

\* The parser version is looked at only when the bytes are there.
StoreBytes(r) ==
  /\ req[r].pc = "storing"
  /\ disk' = [disk EXCEPT ![req[r].file] = req[r].upload.content]
  /\ IF req[r].upload.version = "blank"
     THEN /\ Become(r, Idle)
          /\ excused' = excused \cup {req[r].file}
     ELSE /\ Become(r, [req[r] EXCEPT !.pc = "stored"])
          /\ UNCHANGED excused
  /\ UNCHANGED stored

\* A failed write; what it wrote stays.
CannotStore(r) ==
  /\ req[r].pc = "storing"
  /\ \E left \in {Absent, Truncated} :
       disk' = [disk EXCEPT ![req[r].file] = left]
  /\ excused' = excused \cup {req[r].file}
  /\ Become(r, Idle)
  /\ UNCHANGED stored

\* The file of a workbook is parsed as it is on disk.
ParseUpload(r) ==
  LET upload == req[r].upload
  IN IF upload.kind # "calibration_xlsx" THEN Outcome("not_run", {}, 0)
     ELSE IF ~ ProvisionalParserEnabled THEN Outcome("stored_only", {}, 1)
     ELSE IF disk[req[r].file].form # "workbook" THEN Outcome("raised", {}, 0)
     ELSE ParseWorkbook(disk[req[r].file], req[r].file)

Result(outcome, count) ==
  [status |-> outcome.status, count |-> count, warnings |-> outcome.warnings]

Row(upload) ==
  [job |-> upload.job, kind |-> upload.kind, extension |-> upload.extension,
   checksum |-> upload.content]

With(function, key, value) ==
  [x \in DOMAIN function \cup {key} |-> IF x = key THEN value ELSE function[x]]

\* An upload that lets any exception of the parser pass for a failed parse, after
\* some of the readings were added.
CommitUploadInParts(r) ==
  /\ req[r].pc = "stored"
  /\ LET outcome == ParseUpload(r)
         file == req[r].file
         added == {reading \in outcome.readings : reading.row = FirstDataRow}
     IN /\ files' = With(files, file, Row(req[r].upload))
        /\ readings' = readings \cup added
        /\ results' = With(results, file, Result(outcome, Cardinality(added)))
  /\ Become(r, Idle)
  /\ UNCHANGED <<disk, links, entered, excused>>

\* The row, the readings and the events are one transaction.
CommitUpload(r) ==
  /\ req[r].pc = "stored"
  /\ LET outcome == ParseUpload(r)
         file == req[r].file
     IN /\ outcome.status # "raised"
        /\ files' = With(files, file, Row(req[r].upload))
        /\ readings' = readings \cup outcome.readings
        /\ results' = IF outcome.status = "not_run" THEN results
                      ELSE With(results, file,
                                Result(outcome, Cardinality(outcome.readings)))
  /\ Become(r, Idle)
  /\ UNCHANGED <<disk, links, entered, excused>>

\* A failure that only rolls back.
FailUploadKeepingBytes(r) ==
  /\ req[r].pc = "stored"
  /\ Become(r, Idle)
  /\ UNCHANGED <<disk, stored, excused>>

\* An exception of the parser, a locked database or a failed COMMIT: everything
\* is rolled back and the bytes are removed.
FailUpload(r) ==
  /\ req[r].pc = "stored"
  /\ disk' = [disk EXCEPT ![req[r].file] = Absent]
  /\ Become(r, Idle)
  /\ UNCHANGED <<stored, excused>>

(***************************************************************************)
(* Use of the files                                                        *)
(***************************************************************************)

FileOf(file, job, kind) ==
  file \in DOMAIN files /\ files[file].job = job /\ files[file].kind = kind

\* prepare_temperature_data_entry_for_session.
PrepareDataEntry(job, calibration) ==
  /\ job \notin entered
  /\ FileOf(calibration, job, "calibration_xlsx")
  /\ ReadingsOf(calibration) # {}
  /\ entered' = entered \cup {job}
  /\ UNCHANGED <<disk, files, readings, links, results, excused, req>>

\* record_manual_irtd_rows_for_session, in one step; JobPreparation has the
\* requests that overlap.
Transcribe(job, calibration, verification, table) ==
  /\ job \in entered
  /\ FileOf(calibration, job, "calibration_xlsx")
  /\ FileOf(verification, job, "verification_pdf")
  /\ ReadingsOf(calibration) # {} /\ ReadingsOf(verification) = {}
  /\ \A link \in links : link.job # job
  /\ IrtdAcceptable(table)
  /\ LET references == IrtdReadings(table, verification)
         joined == LinkReadings(ReadingsOf(calibration), references)
     IN /\ joined # {}
        /\ readings' = readings \cup references
        /\ links' = links \cup {[job |-> job, link |-> link] : link \in joined}
  /\ UNCHANGED <<disk, files, results, entered, excused, req>>

\* record_automatic_pressure_entry parses the bytes again, without comparing
\* their checksum; a row without a unit agrees with any.
EnterPressure(job, file) ==
  /\ DisciplineOf[job] = "pressure"
  /\ job \notin entered
  /\ FileOf(file, job, "other") /\ files[file].extension = "csv"
  /\ LET outcome == ParseCsv(disk[file])
     IN /\ outcome.status = "parsed"
        /\ \A n \in outcome.readings : disk[file].rows[n].unit \in {"", Unit}
        /\ results' = With(results, file,
                           Result(outcome, 2 * Cardinality(outcome.readings)))
  /\ entered' = entered \cup {job}
  /\ UNCHANGED <<disk, files, readings, links, excused, req>>

(***************************************************************************)
(* Import review                                                           *)
(***************************************************************************)

\* The files of the job are listed, then read one after the other.
BeginReview(r, job) ==
  /\ req[r] = Idle
  /\ Become(r, [pc |-> "reviewing", counted |-> <<>>, seen |-> <<>>,
                todo |-> {file \in DOMAIN files : files[file].job = job}])
  /\ UNCHANGED <<disk, stored, excused>>

\* list_for_uploaded_file.
CountReadings(r) ==
  /\ req[r].pc = "reviewing"
  /\ req[r].counted = <<>>
  /\ \E file \in req[r].todo :
       Become(r, [req[r] EXCEPT
                    !.counted = <<file, Cardinality(ReadingsOf(file))>>])
  /\ UNCHANGED <<disk, stored, excused>>

\* A review that counts stored readings only.
ReviewedByReadings(file, count) ==
  IF file \in DOMAIN results
  THEN [status |-> results[file].status, warnings |-> results[file].warnings,
        count |-> count]
  ELSE [status |-> IF files[file].kind = "verification_pdf"
                   THEN "stored_only" ELSE "not_run",
        warnings |-> 0, count |-> count]

Reviewed(file, count) ==
  IF file \in DOMAIN results
  THEN [status |-> results[file].status, warnings |-> results[file].warnings,
        count |-> IF count = 0 THEN results[file].count ELSE count]
  ELSE [status |-> IF files[file].kind = "verification_pdf"
                   THEN "stored_only" ELSE "not_run",
        warnings |-> 0, count |-> count]

\* list_for_entity, and the line of the review.
ReadResult(r) ==
  /\ req[r].pc = "reviewing"
  /\ req[r].counted # <<>>
  /\ LET file == req[r].counted[1]
     IN Become(r, [req[r] EXCEPT
                     !.todo = @ \ {file},
                     !.counted = <<>>,
                     !.seen = With(@, file, Reviewed(file, req[r].counted[2]))])
  /\ UNCHANGED <<disk, stored, excused>>

EndReview(r) ==
  /\ req[r].pc = "reviewing"
  /\ req[r].todo = {} /\ req[r].counted = <<>>
  /\ Become(r, Idle)
  /\ UNCHANGED <<disk, stored, excused>>

\* The process dies.
Crash ==
  /\ excused' = excused \cup {req[r].file : r \in {uploading \in Requests :
                                req[uploading].pc \in {"storing", "stored"}}}
  /\ excused' # excused
  /\ req' = [r \in Requests |-> Idle]
  /\ UNCHANGED <<disk, stored>>

Init ==
  /\ disk = [file \in FileIds |-> Absent]
  /\ files = <<>> /\ results = <<>>
  /\ readings = {} /\ links = {}
  /\ entered = {} /\ excused = {}
  /\ req = [r \in Requests |-> Idle]

UploadStep(r) ==
  \/ \E file \in FileIds, upload \in Uploads : BeginUpload(r, file, upload)
  \/ StoreBytes(r) \/ CannotStore(r)
  \/ CommitUpload(r) \/ FailUpload(r)

ReviewStep(r) ==
  \/ \E job \in Jobs : BeginReview(r, job)
  \/ CountReadings(r) \/ ReadResult(r) \/ EndReview(r)

Use ==
  \E job \in Jobs, file \in DOMAIN files :
    \/ PrepareDataEntry(job, file)
    \/ \E verification \in DOMAIN files, table \in Tables :
         Transcribe(job, file, verification, table)
    \/ EnterPressure(job, file)

Next == (\E r \in Requests : UploadStep(r) \/ ReviewStep(r)) \/ Use \/ Crash

Spec == Init /\ [][Next]_vars

(***************************************************************************)
(* Properties                                                              *)
(***************************************************************************)

Status == {"parsed", "failed", "stored_only", "not_run"}

\* Rows, readings and events belong to files that were uploaded.
TypeOK ==
  /\ DOMAIN disk = FileIds
  /\ DOMAIN results \subseteq DOMAIN files /\ DOMAIN files \subseteq FileIds
  /\ \A reading \in readings : reading.file \in DOMAIN files
                               /\ reading.time >= 0 /\ reading.value >= 0
  /\ \A file \in DOMAIN results : results[file].status \in Status
                                  /\ results[file].count \in Nat
  /\ entered \subseteq Jobs /\ excused \subseteq FileIds

\* The bytes of every uploaded file are there as its checksum says, and bytes
\* without a row belong to an upload in flight, unless a crash, an I/O error or a
\* blank parser version left them: whatever the parser, the transaction or its
\* COMMIT does, an upload keeps both or neither.
BytesAndRowsAgree ==
  /\ \A file \in DOMAIN files : disk[file] = files[file].checksum
  /\ \A file \in FileIds :
       disk[file] # Absent =>
         \/ file \in DOMAIN files
         \/ file \in excused
         \/ \E r \in Requests : req[r].pc = "stored" /\ req[r].file = file

\* The cells of a workbook with a number, a time in their row and a logger over
\* their column, written without the parser's steps.
CellsWithNumbers(book) ==
  {at \in (DOMAIN book.rows) \X (DOMAIN book.loggers) :
     /\ at[1] >= 12 /\ book.rows[at[1]].time >= 0
     /\ book.loggers[at[2]] # ""
     /\ book.rows[at[1]].cells[at[2]] >= 0}

\* The stored readings of a workbook reported as parsed are the numbers of its
\* bytes, each once and at its place, and a workbook reported as anything else
\* has none: no reading outlives a failed parse and none is lost from one that
\* succeeded.
ReadingsAreTheFilesNumbers ==
  \A file \in DOMAIN files :
    files[file].kind = "calibration_xlsx" =>
      IF results[file].status = "parsed"
      THEN /\ {<<reading.row, reading.column>> : reading \in ReadingsOf(file)} =
                CellsWithNumbers(files[file].checksum)
           /\ \A reading \in ReadingsOf(file) :
                reading.value = Cell(files[file].checksum,
                                     <<reading.row, reading.column>>)
      ELSE ReadingsOf(file) = {}

\* A review reads the readings of a file and then its events; what it shows is
\* still what the file holds: a parsed file with all the readings of its bytes,
\* any other with none, unless they were transcribed.
ReviewShowsTheFile ==
  \A r \in Requests : req[r].pc = "reviewing" =>
    \A file \in DOMAIN req[r].seen :
      LET line == req[r].seen[file]
          content == files[file].checksum
      IN /\ line.status = "parsed" =>
              line.count = IF files[file].kind = "calibration_xlsx"
                           THEN Cardinality(CellsWithNumbers(content))
                           ELSE 2 * Cardinality(CsvPairs(content))
         /\ line.status # "parsed" =>
              line.count = 0 \/ files[file].kind = "verification_pdf"

=============================================================================
