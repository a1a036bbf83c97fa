--------------------------- MODULE OperatorConsole ---------------------------
(***************************************************************************)
(* The browser page of ui/workflow.py against the services it calls.       *)
(*                                                                         *)
(* Every button starts an asynchronous script that nothing disables, so    *)
(* scripts of one page overlap; each awaits its calls in turn, and a call  *)
(* is answered, refused or lost.  The page remembers what its pills and    *)
(* fields say across jobs.  A service is one step here: JobPreparation and *)
(* ReviewRelease model the steps inside it.                                *)
(***************************************************************************)
EXTENDS HttpApi, Sequences, FiniteSets

CONSTANTS
  Jobs,          \* ids an operator may type in the job field
  Windows,       \* values of the window id field, the same for every job
  Default,       \* the certificate number the page writes into its field
  SampleNumber,  \* the number in the sample payload of the release button
  SampleVersion, \* the version the sample payloads approve
  Setpoints,     \* setpoints that may be typed
  Person,        \* user accounts with a live session
  PersonRoles,   \* the roles of each
  LocalActor,    \* the account of each of the four laboratory sessions
  FieldPerson,   \* the account of the session the browser has stored
  ParserEnabled, \* allow_provisional_valprobe_parser
  Buttons,       \* the buttons that are used
  Scripts,       \* scripts that can be under way together
  MaxClicks,     \* bound: clicks
  MaxEdits       \* bound: edits of a field, and reloads

Stage == {"operator", "technical", "qa", "release"}

NoJob == "no job"

\* The numbers the page can send: the one-click script writes the default into
\* the field before it reads it, so what was typed there is never sent.
Numbers == {Default, SampleNumber}

ASSUME ConsoleAssumption ==
  /\ Jobs # {} /\ Windows # {} /\ Setpoints # {}
  /\ NoJob \notin Jobs
  /\ Default # SampleNumber /\ SampleVersion \notin Jobs
  /\ ParserEnabled \in BOOLEAN
  /\ PersonRoles \in [Person -> SUBSET Role]
  /\ LocalActor \in [Stage -> Person] /\ FieldPerson \in Person
  /\ MaxClicks \in Nat /\ MaxEdits \in Nat

Pill == {"job", "metadata", "equipment", "measurement", "calculation", "review"}

(***************************************************************************)
(* Scripts                                                                 *)
(***************************************************************************)

\* A call made with the session field, or with the session of a stage; the
\* pill it sets when its answer is a success, and whether it sets it to Done.
Call(route, stage, step, done) ==
  [route |-> route, stage |-> stage, step |-> step, done |-> done]

Plain(route, stage) == Call(route, stage, "none", FALSE)

\* An edit that sets measurement to Done before the windows are completed.
OneClickFirstEarly ==
  << Call("create_job", "operator", "job", TRUE),
     Call("metadata", "operator", "metadata", TRUE),
     Call("equipment", "operator", "equipment", FALSE),
     Plain("upload_xlsx", "operator"),
     Plain("upload_pdf", "operator"),
     Plain("data_entry", "operator"),
     Plain("irtd_rows", "operator"),
     Call("select_window", "operator", "measurement", TRUE),
     Plain("complete_windows", "operator") >>

OneClickFirst ==
  << Call("create_job", "operator", "job", TRUE),
     Call("metadata", "operator", "metadata", TRUE),
     Call("equipment", "operator", "equipment", FALSE),
     Plain("upload_xlsx", "operator"),
     Plain("upload_pdf", "operator"),
     Plain("data_entry", "operator"),
     Plain("irtd_rows", "operator"),
     Plain("select_window", "operator"),
     Call("complete_windows", "operator", "measurement", TRUE) >>

OneClickLast ==
  << Plain("approve_constants", "qa"),
     Call("approve_budget", "qa", "equipment", TRUE),
     Call("calculate", "operator", "calculation", TRUE),
     Plain("preview_pdf", "operator"),
     Plain("submit_review", "operator"),
     Plain("approve_technical", "technical"),
     Plain("approve_qa", "qa"),
     Plain("preview", "release"),
     Plain("rendered_release", "release"),
     Call("artifact", "release", "review", TRUE) >>

OneClick == OneClickFirst \o OneClickLast

\* The index of the calls at which the one-click script branches.
Equipment == 3
FirstUpload == 4
DataEntry == 6

UploadBoth ==
  << Plain("upload_xlsx", "operator"),
     Call("upload_pdf", "operator", "measurement", FALSE) >>

ApproveBoth ==
  << Plain("approve_constants", "qa"),
     Call("approve_budget", "qa", "equipment", TRUE) >>

\* The buttons of a single call.  Those of the samples send a fixed payload
\* in which only the job id is the page's.
ButtonPill ==
  [ create_job |-> "job", complete_windows |-> "measurement",
    calculate |-> "calculation" ]

SampleButtons ==
  {"metadata", "equipment", "approve_constants", "approve_budget", "preview",
   "rendered_release"}

PageButtons ==
  {"create_job", "data_entry", "irtd_rows", "select_window",
   "complete_windows", "calculate", "submit_review", "approve_technical",
   "approve_qa"} \cup SampleButtons

\* The buttons of several calls.
Sequel ==
  [one_click |-> OneClick, upload_both |-> UploadBoth, approve_both |-> ApproveBoth]

ScriptOf(button) ==
  IF button \in DOMAIN Sequel THEN Sequel[button]
  ELSE IF button \in DOMAIN ButtonPill
       THEN <<Call(button, "field", ButtonPill[button], TRUE)>>
       ELSE <<Plain(button, "field")>>

ASSUME ButtonsAssumption == Buttons \subseteq DOMAIN Sequel \cup PageButtons

(***************************************************************************)
(* State                                                                   *)
(***************************************************************************)

VARIABLES
  local,    \* the page was served from localhost
  page,     \* the fields of the page
  pill,     \* the job each step's pill was set to Done for, or NoJob
  script,   \* the scripts under way
  db,       \* what is stored about each job
  owner,    \* the job that took a window id, or a certificate number
  approved, \* versions of constant sets and of budgets that are approved
  clicks, edits

vars == <<local, page, pill, script, db, owner, approved, clicks, edits>>

Version == Jobs \cup {SampleVersion}

NoEntry == [by |-> "nobody", run |-> 0]

NewJob ==
  [state |-> "none", entered |-> [s \in WorkflowState |-> NoEntry],
   plan |-> {}, source |-> NoJob, reference |-> NoJob,
   windows |-> {}, previewed |-> FALSE]

BlankPage ==
  [job |-> CHOOSE job \in Jobs : TRUE, window |-> CHOOSE w \in Windows : TRUE,
   points |-> <<CHOOSE s \in Setpoints : TRUE>>, version |-> SampleVersion,
   person |-> FieldPerson, chosen |-> FALSE, xlsx |-> NoJob, pdf |-> NoJob]

Idle == [phase |-> "idle"]

\* Every pill is pending or active.
BlankPills == [step \in Pill |-> NoJob]

Init ==
  /\ page \in {[BlankPage EXCEPT !.chosen = chosen] : chosen \in BOOLEAN}
  /\ local \in BOOLEAN
  /\ pill = BlankPills
  /\ script = [s \in Scripts |-> Idle]
  /\ db = [job \in Jobs |-> NewJob]
  /\ owner = [id \in Windows \cup Numbers |-> NoJob]
  /\ approved = [constants |-> {}, budgets |-> {}]
  /\ clicks = 0 /\ edits = 0

(***************************************************************************)
(* What a service answers                                                  *)
(***************************************************************************)

Served(route) ==
  IF route \in {"upload_xlsx", "upload_pdf"} THEN "upload_file" ELSE route

\* A check that lets an administrator stand in for anybody.
ConflictingUnlessAdmin(job, stage, person) ==
  /\ "admin" \notin PersonRoles[person]
  /\ \E state \in WorkflowStateConflicts[stage] :
       db[job].entered[state].by = person

\* assert_reviewer_independence.
Conflicting(job, stage, person) ==
  \E state \in WorkflowStateConflicts[stage] :
    db[job].entered[state].by = person

Previewable == {"calculated", "technical_review", "qa_review", "approved"}

\* What a service requires beyond the existence of the job.
Accepts(route, s) ==
  LET job == db[s.job]
      covered == {window.point : window \in job.windows}
  IN \/ route = "metadata" /\ job.state = "draft"
     \/ route = "equipment" /\ job.state = "metadata_complete"
     \/ /\ route = "data_entry" /\ job.state = "equipment_selected"
        /\ s.xlsx = s.job /\ ParserEnabled
     \/ /\ route = "irtd_rows" /\ job.state = "data_entered"
        /\ s.xlsx = s.job /\ s.pdf = s.job /\ ParserEnabled
        /\ job.reference = NoJob
     \/ /\ route = "select_window"
        /\ job.state \in {"data_entered", "windows_selected"}
        /\ job.reference # NoJob
     \/ /\ route = "complete_windows" /\ job.state = "data_entered"
        /\ job.plan \subseteq covered
     \/ /\ route = "calculate" /\ job.state = "windows_selected"
        /\ s.version \in approved.constants \cap approved.budgets
        /\ job.plan \subseteq {Head(s.points)} \cap covered
        /\ \A window, other \in job.windows :
             window.point = other.point => window = other
     \/ route \in {"preview", "preview_pdf"} /\ job.state \in Previewable
     \/ route = "submit_review" /\ job.state = "calculated"
     \/ /\ route = "approve_technical" /\ job.state = "technical_review"
        /\ ~ Conflicting(s.job, "technical_review_approval", s.person)
     \/ /\ route = "approve_qa" /\ job.state = "qa_review"
        /\ ~ Conflicting(s.job, "qa_release_approval", s.person)
     \/ /\ route = "rendered_release" /\ job.state = "approved" /\ job.previewed
        /\ ~ Conflicting(s.job, "certificate_release", s.person)
        /\ owner[s.number] = NoJob
     \/ route = "artifact" /\ owner[s.number] = s.job

\* A second use of an identifier, and a job that does not exist, are found by
\* the repositories, not by the services.
Repeated(route, s) ==
  \/ route = "create_job" /\ db[s.job].state # "none"
  \/ route = "approve_constants" /\ s.version \in approved.constants
  \/ route = "approve_budget" /\ s.version \in approved.budgets

Unknown(route, s) ==
  /\ route \notin {"create_job", "approve_constants", "approve_budget"}
  /\ db[s.job].state = "none"

\* The services of the first list check nothing of their own.
Error(route, s) ==
  IF ~ Permitted(PersonRoles[s.person], Served(route)) THEN "authorization"
  ELSE IF Repeated(route, s) THEN "persistence"
  ELSE IF Unknown(route, s)
       THEN IF Served(route) = "upload_file" THEN "service" ELSE "persistence"
  ELSE IF /\ route \notin {"create_job", "approve_constants", "approve_budget",
                           "upload_xlsx", "upload_pdf"}
          /\ ~ Accepts(route, s)
       THEN "service"
  ELSE IF route = "select_window" /\ owner[s.window] # NoJob THEN "persistence"
  ELSE "none"

(***************************************************************************)
(* What a service stores                                                   *)
(***************************************************************************)

Target ==
  [ create_job |-> "draft", metadata |-> "metadata_complete",
    equipment |-> "equipment_selected", data_entry |-> "data_entered",
    complete_windows |-> "windows_selected", calculate |-> "calculated",
    submit_review |-> "technical_review", approve_technical |-> "qa_review",
    approve_qa |-> "approved", rendered_release |-> "released" ]

Entered(job, route, s) ==
  IF route \in DOMAIN Target
  THEN [job EXCEPT !.state = Target[route],
                   !.entered[Target[route]] = [by |-> s.person, run |-> s.run]]
  ELSE job

Stored(job, route, s) ==
  IF route = "data_entry"
  THEN [job EXCEPT !.plan = {s.points[n] : n \in DOMAIN s.points},
                   !.source = s.xlsx]
  ELSE IF route = "irtd_rows" THEN [job EXCEPT !.reference = s.pdf]
  ELSE IF route = "select_window"
       THEN [job EXCEPT !.windows = @ \cup {[id |-> s.window,
                                             point |-> Head(s.points)]}]
  ELSE IF route \in {"preview", "preview_pdf"} THEN [job EXCEPT !.previewed = TRUE]
  ELSE job

Serve(route, s) ==
  /\ db' = IF route \in {"approve_constants", "approve_budget"} THEN db
           ELSE [db EXCEPT ![s.job] = Entered(Stored(@, route, s), route, s)]
  /\ owner' = [id \in DOMAIN owner |->
                 IF \/ route = "select_window" /\ id = s.window
                    \/ route = "rendered_release" /\ id = s.number
                 THEN s.job ELSE owner[id]]
  /\ approved' =
       [constants |-> approved.constants \cup
                        (IF route = "approve_constants" THEN {s.version} ELSE {}),
        budgets   |-> approved.budgets \cup
                        (IF route = "approve_budget" THEN {s.version} ELSE {})]

(***************************************************************************)
(* The page                                                                *)
(***************************************************************************)

\* Off localhost every call uses the session field, read when it is sent.
Sender(call, fields) ==
  IF local /\ call.stage \in Stage THEN LocalActor[call.stage] ELSE fields.person

Busy(s) == script[s].phase \in {"calling", "answered"}

\* The identifiers a script computes from the fields when it is clicked.
Context(button, fields) ==
  [phase |-> "calling", button |-> button, at |-> 1, run |-> clicks + 1,
   job |-> fields.job, window |-> fields.window, points |-> fields.points,
   number |-> IF button = "rendered_release" THEN SampleNumber ELSE Default,
   version |-> IF button \in {"one_click", "approve_both"} THEN fields.job
               ELSE IF button \in SampleButtons THEN SampleVersion
               ELSE fields.version,
   xlsx |-> fields.xlsx, pdf |-> fields.pdf,
   person |-> Sender(ScriptOf(button)[1], fields), answer |-> 0]

Click(s, button) ==
  /\ clicks < MaxClicks
  /\ ~ Busy(s) /\ script[s].phase # "orphan"
  /\ button = "upload_both" => page.chosen
  /\ script' = [script EXCEPT ![s] = Context(button, page)]
  /\ page' = IF button \in {"one_click", "approve_both"}
             THEN [page EXCEPT !.version = page.job] ELSE page
  /\ clicks' = clicks + 1
  /\ UNCHANGED <<local, pill, db, owner, approved, edits>>

\* The service answers the call a script awaits.
Answer(s) ==
  /\ script[s].phase \in {"calling", "orphan"}
  /\ LET route == ScriptOf(script[s].button)[script[s].at].route
         error == Error(route, script[s])
     IN /\ script' = [script EXCEPT ![s] =
                         IF @.phase = "orphan" THEN Idle
                         ELSE [@ EXCEPT !.phase = "answered",
                                 !.answer = Status(Served(route), error)]]
        /\ IF error = "none" THEN Serve(route, script[s])
           ELSE UNCHANGED <<db, owner, approved>>
  /\ UNCHANGED <<local, page, pill, clicks, edits>>

\* The connection fails: the request or its answer is lost, and fetch rejects.
Lose(s) ==
  /\ script[s].phase \in {"calling", "answered", "orphan"}
  /\ script' = [script EXCEPT ![s] =
                   IF @.phase = "orphan" THEN Idle
                   ELSE [@ EXCEPT !.phase = "answered", !.answer = 0]]
  /\ UNCHANGED <<local, page, pill, db, owner, approved, clicks, edits>>

\* After the equipment call the one-click script uploads the chosen files, or
\* takes the ids the page still has from an earlier upload, or gives up.
AtAfter(s) ==
  IF s.button = "one_click" /\ s.at = Equipment /\ ~ page.chosen
  THEN DataEntry ELSE s.at + 1

Blocked(s) ==
  \/ s.answer # 200
  \/ /\ s.button = "one_click" /\ s.at = Equipment /\ ~ page.chosen
     /\ NoJob \in {page.xlsx, page.pdf}

\* An edit that stores the window id in place of the uploaded file's id.
FieldsAfterOfWindow(s, route) ==
  IF route = "upload_xlsx" THEN [page EXCEPT !.xlsx = s.window]
  ELSE IF route = "upload_pdf" THEN [page EXCEPT !.pdf = s.job]
  ELSE page

\* Fields and pills a successful answer sets.
FieldsAfter(s, route) ==
  IF route = "upload_xlsx" THEN [page EXCEPT !.xlsx = s.job]
  ELSE IF route = "upload_pdf" THEN [page EXCEPT !.pdf = s.job]
  ELSE page

PillsAfter(s, call) ==
  IF call.step = "none" THEN pill
  ELSE [pill EXCEPT ![call.step] = IF call.done THEN s.job ELSE NoJob]

\* The file ids a script holds: those it uploaded, else the one-click script
\* takes those of the page as they are when the equipment call returns.
HeldFiles(s, route) ==
  IF route = "upload_xlsx" THEN [s EXCEPT !.xlsx = s.job]
  ELSE IF route = "upload_pdf" THEN [s EXCEPT !.pdf = s.job]
  ELSE IF s.button = "one_click" /\ s.at = Equipment
       THEN [s EXCEPT !.xlsx = page.xlsx, !.pdf = page.pdf]
  ELSE s

Continued(s, calls) ==
  IF s.at = Len(calls)
  THEN IF s.button = "one_click" THEN [s EXCEPT !.phase = "finished"] ELSE Idle
  ELSE [HeldFiles(s, calls[s.at].route) EXCEPT
          !.phase = "calling", !.at = AtAfter(s),
          !.person = Sender(calls[AtAfter(s)], page)]

Receive(s) ==
  /\ script[s].phase = "answered"
  /\ LET calls == ScriptOf(script[s].button)
         call == calls[script[s].at]
         succeeded == script[s].answer = 200
     IN /\ page' = IF succeeded THEN FieldsAfter(script[s], call.route) ELSE page
        /\ pill' = IF succeeded THEN PillsAfter(script[s], call) ELSE pill
        /\ script' = [script EXCEPT ![s] =
                         IF Blocked(@) THEN Idle ELSE Continued(@, calls)]
  /\ UNCHANGED <<local, db, owner, approved, clicks, edits>>

Edit(field, value) ==
  /\ edits < MaxEdits
  /\ page[field] # value
  /\ page' = [page EXCEPT ![field] = value]
  /\ edits' = edits + 1
  /\ UNCHANGED <<local, pill, script, db, owner, approved, clicks>>

TypedPoints ==
  {<<point>> : point \in Setpoints}
  \cup {pair \in Setpoints \X Setpoints : pair[1] # pair[2]}

EditField ==
  \/ \E job \in Jobs : Edit("job", job)
  \/ \E id \in Windows : Edit("window", id)
  \/ \E points \in TypedPoints : Edit("points", points)
  \/ \E person \in Person : Edit("person", person)
  \/ \E chosen \in BOOLEAN : Edit("chosen", chosen)

\* The page is loaded again: its scripts stop, the calls they sent do not.
Reload ==
  /\ edits < MaxEdits
  /\ page' = BlankPage
  /\ pill' = BlankPills
  /\ script' = [s \in Scripts |->
                  IF script[s].phase = "calling"
                  THEN [script[s] EXCEPT !.phase = "orphan"] ELSE Idle]
  /\ edits' = edits + 1
  /\ UNCHANGED <<local, db, owner, approved, clicks>>

Next ==
  \/ \E s \in Scripts :
       \/ \E button \in Buttons : Click(s, button)
       \/ Answer(s)
       \/ Lose(s)
       \/ Receive(s)
  \/ EditField
  \/ Reload

Spec == Init /\ [][Next]_vars

(***************************************************************************)
(* Properties                                                              *)
(***************************************************************************)

Held ==
  [run |-> 1..MaxClicks, job |-> Jobs, window |-> Windows,
   number |-> Numbers, version |-> Version,
   xlsx |-> Jobs \cup {NoJob}, pdf |-> Jobs \cup {NoJob}, person |-> Person]

\* The page, the scripts and the stored jobs have their types.
TypeOK ==
  /\ page.job \in Jobs /\ page.window \in Windows
  /\ page.points \in TypedPoints /\ page.version \in Version
  /\ page.person \in Person /\ page.chosen \in BOOLEAN
  /\ {page.xlsx, page.pdf} \subseteq Jobs \cup {NoJob}
  /\ pill \in [Pill -> Jobs \cup {NoJob}]
  /\ \A s \in Scripts :
       script[s] = Idle
       \/ /\ script[s].phase \in {"calling", "answered", "orphan", "finished"}
          /\ script[s].at \in DOMAIN ScriptOf(script[s].button)
          /\ \A f \in DOMAIN Held : script[s][f] \in Held[f]
  /\ owner \in [Windows \cup Numbers -> Jobs \cup {NoJob}]
  /\ approved.constants \cup approved.budgets \subseteq Version
  /\ \A job \in Jobs : db[job].state \in WorkflowState \cup {"none"}

Backed(step, job) ==
  \/ step = "job" /\ db[job].state # "none"
  \/ step = "metadata" /\ db[job].entered["metadata_complete"] # NoEntry
  \/ step = "equipment" /\ job \in approved.constants \cap approved.budgets
  \/ step = "measurement" /\ db[job].entered["windows_selected"] # NoEntry
  \/ step = "calculation" /\ db[job].entered["calculated"] # NoEntry
  \/ /\ step = "review" /\ db[job].state = "released"
     /\ \E n \in Numbers : owner[n] = job

\* A pill says Done only of what is stored about the job it was set for,
\* whatever calls were refused or lost and however scripts overlapped.
DoneIsBacked ==
  \A step \in Pill : pill[step] # NoJob => Backed(step, pill[step])

Reviewed == {"technical_review", "qa_review", "approved", "released"}

\* A one-click script that reaches its end took the job through every state
\* itself, with files of this job and its own number, and with four people at
\* its reviews: had another script or an earlier run done one of its steps, or
\* the page one session only, a call of it would have been refused.
FinishedRunIsWholeRun ==
  \A s \in Scripts :
    script[s].phase = "finished" =>
      LET job == db[script[s].job]
      IN /\ job.state = "released"
         /\ owner[script[s].number] = script[s].job
         /\ \A route \in DOMAIN Target :
              job.entered[Target[route]].run = script[s].run
         /\ job.source = script[s].job /\ job.reference = script[s].job
         /\ job.plan = {Head(script[s].points)}
         /\ Cardinality({job.entered[state].by : state \in Reviewed}) = 4
==============================================================================
