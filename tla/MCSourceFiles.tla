----------------------------- MODULE MCSourceFiles -----------------------------
(***************************************************************************)
(* A temperature and a pressure job, two requests that overlap and three   *)
(* files, of workbooks and tables that meet every rule of the parsers.     *)
(***************************************************************************)
EXTENDS SourceFiles, TLC

Disciplines == [t |-> "temperature", p |-> "pressure"]

Columns == {"B", "C"}

DataRow(time, b, c) == [time |-> time, cells |-> [B |-> b, C |-> c]]

\* A logger in column B only; row 11 is above the data.
Workbook(parts, sheet, logger, rows) ==
  [form |-> "workbook", archive |-> "sound", parts |-> parts, sheet |-> sheet,
   loggers |-> [B |-> logger, C |-> ""],
   units |-> [column \in Columns |-> "C"], rows |-> rows]

Good == Workbook("sound", TRUE, "l1",
                 11 :> DataRow(1, 7, 7) @@ 12 :> DataRow(1, 4, 5)
                   @@ 13 :> DataRow(2, 6, Text) @@ 14 :> DataRow(Text, 4, 4))

Untidy == Workbook("sound", TRUE, "l1",
                   12 :> DataRow(1, Text, 5) @@ 13 :> DataRow(2, 5, Blank))

Infinite == Workbook("sound", TRUE, "l1",
                     12 :> DataRow(1, 4, 5) @@ 13 :> DataRow(2, NotFinite, 5))

Unsound == Workbook("missing", TRUE, "l1", 12 :> DataRow(1, 4, 5))

Unlabelled == Workbook("sound", TRUE, "", 12 :> DataRow(1, 4, 5))

CsvRow(time, reference, indication, unit) ==
  [time |-> time, reference |-> reference, indication |-> indication,
   unit |-> unit]

Csv == [form |-> "csv",
        rows |-> <<CsvRow(1, 3, 4, ""), CsvRow(Blank, Blank, Blank, ""),
                   CsvRow(2, Text, 4, "bar"), CsvRow(3, 3, 5, "bar")>>]

Pdf == [form |-> "pdf"]

Upload(job, kind, extension, content, version) ==
  [job |-> job, kind |-> kind, extension |-> extension, content |-> content,
   version |-> version]

Sent ==
  {Upload("t", "calibration_xlsx", "xlsx", book, "given") :
     book \in {Good, Untidy, Infinite, Unsound, Unlabelled}}
  \cup {Upload("t", "verification_pdf", "pdf", Pdf, "given"),
        Upload("p", "other", "csv", Csv, "given"),
        Upload("p", "other", "csv", Pdf, "blank")}

TableRow(time, value) == [time |-> time, value |-> value]

Transcribed ==
  {[unit |-> "C", rows |-> <<TableRow(1, 4), TableRow(Blank, 4)>>],
   [unit |-> "K", rows |-> <<TableRow(2, 4)>>],
   [unit |-> "C", rows |-> <<TableRow(1, 4), TableRow(1, 5)>>]}

Interchangeable == Permutations(FileIds) \cup Permutations(Requests)

=============================================================================
