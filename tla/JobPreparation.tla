---------------------------- MODULE JobPreparation ----------------------------
(***************************************************************************)
(* One job from its draft to its calculation: metadata and equipment, data *)
(* entry (temperature, or one of the two pressure services), the           *)
(* transcription of reference readings, measurement windows, calculation.  *)
(*                                                                         *)
(* A service all of whose reads can only grow, and which compares the      *)
(* state again when it writes, is one step.  The other three are not:      *)
(* transcription and window selection compare nothing when they write, and *)
(* a calculation uses the windows and links as it read them.               *)
(***************************************************************************)
EXTENDS WorkflowRules, Sequences, FiniteSets

CONSTANTS
  Users,              \* ids of user accounts
  UserRoles,          \* the roles of each user
  Requests,           \* requests that can be in flight together
  Readings,           \* parsed readings of the uploaded workbooks
  VerificationFiles,  \* uploaded verification files
  Setpoints,          \* setpoint values a client may plan or select
  WindowIds           \* ids a client may give to windows and pressure points

ASSUME PreparationAssumption ==
  /\ UserRoles \in [Users -> SUBSET Role]
  /\ \A reading \in Readings : reading.time \in Nat

\* A reading knows the workbook, the logger channel and the time it is from.
CalibrationFiles == {reading.file : reading \in Readings}
Channels == {reading.channel : reading \in Readings}
Times == {reading.time : reading \in Readings}

VARIABLES
  discipline,      \* the job's discipline, fixed when it is created
  state,           \* calibration_jobs.state
  trail,           \* the job's WORKFLOW_TRANSITIONED audit events, in order
  duts,            \* devices_under_test; a temperature DUT is its channel
  setpoints,       \* required_temperature_setpoints
  transcriptions,  \* each adds IRTD readings and linked_temperature_readings
  windows,         \* measurement_windows
  summaries,       \* measurement_point_summaries
  req,             \* what each request has read so far
  overlapped       \* history: a request began or ended a step of its own while
                   \* another was in flight

job == <<discipline, state, trail>>
plan == <<duts, setpoints>>
vars == <<job, plan, transcriptions, windows, summaries, req, overlapped>>

Idle == [pc |-> "idle"]

Can(user, action) ==
  \E role \in UserRoles[user] : IsAllowed(role, action)

(***************************************************************************)
(* Links and coverage                                                      *)
(***************************************************************************)

Transcription(calibration, verification, times) ==
  [calibration |-> calibration, verification |-> verification, times |-> times]

\* Logger readings are linked to the reference reading of the same time; one
\* without a reference, or in another unit, is left out with a warning.
Linked(transcription) ==
  {reading \in Readings : /\ reading.file = transcription.calibration
                          /\ reading.time \in transcription.times}

\* The links a reading has: one for each transcription that linked it.
Links(reading) ==
  {n \in 1..Len(transcriptions) : reading \in Linked(transcriptions[n])}

Window(id, dut, setpoint, readings) ==
  [id |-> id, dut |-> dut, setpoint |-> setpoint, readings |-> readings]

\* The windows of a DUT at a setpoint.
Covering(selected, dut, setpoint) ==
  {window \in selected : window.dut = dut /\ window.setpoint = setpoint}

Covered(selected) ==
  \A dut \in duts, setpoint \in setpoints :
    Covering(selected, dut, setpoint) # {}

\* No two windows of one DUT have the same setpoint, planned or not.
Unambiguous(selected) ==
  \A window, other \in selected :
    window.dut = other.dut /\ window.setpoint = other.setpoint => window = other

\* The windows the calculation uses.
Used(selected) ==
  {window \in selected : window.dut \in duts /\ window.setpoint \in setpoints}

\* Each reading has exactly one reference, and there are two for repeatability.
Referenced(window) ==
  /\ \A reading \in window.readings : Cardinality(Links(reading)) = 1
  /\ Cardinality(window.readings) >= 2

\* A calculation that takes any window of a DUT and setpoint.
CalculableFromAny(selected) ==
  /\ duts # {} /\ setpoints # {}
  /\ Covered(selected)
  /\ \A window \in Used(selected) : Referenced(window)

Calculable(selected) ==
  /\ duts # {} /\ setpoints # {}
  /\ Unambiguous(selected)
  /\ Covered(selected)
  /\ \A window \in Used(selected) : Referenced(window)

\* A point stored with its DUT where its window belongs.
PointOfDut(id, window) ==
  [id |-> id, window |-> window.dut, dut |-> window.dut,
   setpoint |-> window.setpoint]

Point(id, window) ==
  [id |-> id, window |-> window.id, dut |-> window.dut,
   setpoint |-> window.setpoint]

(***************************************************************************)
(* One-step services                                                       *)
(***************************************************************************)

Transition(from, to, user) == [from |-> from, to |-> to, by |-> user]

\* transition_calibration_job, update_state and the audit event.
Move(user, target) ==
  /\ CanTransition(state, target)
  /\ state' = target
  /\ trail' = Append(trail, Transition(state, target, user))
  /\ UNCHANGED discipline

CaptureMetadata(user) ==
  /\ Can(user, "edit_draft_job_metadata")
  /\ state = "draft"
  /\ Move(user, "metadata_complete")
  /\ UNCHANGED <<plan, transcriptions, windows, summaries>>

SelectEquipment(user) ==
  /\ Can(user, "select_reference_equipment")
  /\ state = "metadata_complete"
  /\ Move(user, "equipment_selected")
  /\ UNCHANGED <<plan, transcriptions, windows, summaries>>

\* One DUT per channel of the workbook, and the setpoints the client plans.  The
\* job's discipline is not looked at.
PrepareTemperatureDataEntry(user, calibration, planned) ==
  /\ Can(user, "upload_import_file")
  /\ state = "equipment_selected"
  /\ duts = {} /\ setpoints = {} /\ planned # {}
  /\ duts' = {reading.channel : reading \in
                {parsed \in Readings : parsed.file = calibration}}
  /\ setpoints' = planned
  /\ Move(user, "data_entered")
  /\ UNCHANGED <<transcriptions, windows, summaries>>

\* Pressure entry that commits after the first of its two transitions.
EnterPressureInHalves(user, dut, window) ==
  /\ Can(user, "enter_manual_readings")
  /\ discipline = "pressure"
  /\ state = "equipment_selected"
  /\ duts = {} /\ windows = {}
  /\ duts' = {dut}
  /\ windows' = {window}
  /\ Move(user, "data_entered")
  /\ UNCHANGED <<setpoints, transcriptions, summaries>>

\* Automatic and manual entry: the DUT, its one window and two transitions.  The
\* two ask for different permissions, and manual entry accepts a job of either
\* measurement mode.  The readings of a pressure window are linked to nothing and
\* left out.
EnterPressure(user, dut, window) ==
  /\ Can(user, "upload_import_file") \/ Can(user, "enter_manual_readings")
  /\ discipline = "pressure"
  /\ state = "equipment_selected"
  /\ duts = {} /\ windows = {}
  /\ duts' = {dut}
  /\ windows' = {window}
  /\ state' = "windows_selected"
  /\ trail' = trail \o << Transition(state, "data_entered", user),
                          Transition("data_entered", "windows_selected", user) >>
  /\ UNCHANGED <<discipline, setpoints, transcriptions, summaries>>

\* A completion that is content with one window for each DUT.
CompleteForEachDut(user) ==
  /\ Can(user, "select_measurement_windows")
  /\ state = "data_entered"
  /\ duts # {} /\ setpoints # {}
  /\ \A dut \in duts : \E window \in windows : window.dut = dut
  /\ Move(user, "windows_selected")
  /\ UNCHANGED <<plan, transcriptions, windows, summaries>>

CompleteWindowSelection(user) ==
  /\ Can(user, "select_measurement_windows")
  /\ state = "data_entered"
  /\ duts # {} /\ setpoints # {}
  /\ Covered(windows)
  /\ Move(user, "windows_selected")
  /\ UNCHANGED <<plan, transcriptions, windows, summaries>>

\* The points are the client's: each names a window and its DUT.
CalculatePressure(user, points) ==
  /\ Can(user, "run_calculation")
  /\ discipline = "pressure"
  /\ state = "windows_selected"
  /\ points # {}
  /\ summaries' = points
  /\ Move(user, "calculated")
  /\ UNCHANGED <<plan, transcriptions, windows>>

(***************************************************************************)
(* Services in several steps                                               *)
(***************************************************************************)

Become(r, record) == req' = [req EXCEPT ![r] = record]

\* Any number of transcriptions, each of a verification file.
BeginTranscriptionAgain(user, r, transcription) ==
  /\ Can(user, "enter_manual_readings")
  /\ req[r] = Idle
  /\ state = "data_entered"
  /\ Linked(transcription) # {}
  /\ Become(r, [pc |-> "transcribing", transcription |-> transcription])
  /\ UNCHANGED <<job, plan, transcriptions, windows, summaries>>

\* As long as nothing is linked the job has no way out of data_entered, so the
\* reads count as one.  Nothing linked also means that no verification file has
\* readings.
BeginTranscription(user, r, transcription) ==
  /\ Can(user, "enter_manual_readings")
  /\ req[r] = Idle
  /\ state = "data_entered"
  /\ transcriptions = <<>>
  /\ Linked(transcription) # {}
  /\ Become(r, [pc |-> "transcribing", transcription |-> transcription])
  /\ UNCHANGED <<job, plan, transcriptions, windows, summaries>>

\* Both tables are appended to, at the next free index.
CommitTranscription(r) ==
  /\ req[r].pc = "transcribing"
  /\ transcriptions' = Append(transcriptions, req[r].transcription)
  /\ Become(r, Idle)
  /\ UNCHANGED <<job, plan, windows, summaries>>

\* A selection at any time.
BeginSelectionAnytime(user, r) ==
  /\ Can(user, "select_measurement_windows")
  /\ req[r] = Idle
  /\ Become(r, [pc |-> "selecting"])
  /\ UNCHANGED <<job, plan, transcriptions, windows, summaries>>

BeginSelection(user, r) ==
  /\ Can(user, "select_measurement_windows")
  /\ req[r] = Idle
  /\ state \in {"data_entered", "windows_selected"}
  /\ Become(r, [pc |-> "selecting"])
  /\ UNCHANGED <<job, plan, transcriptions, windows, summaries>>

\* The linked readings of the DUT's channel from the first time to the last.
ReadLinksForSelection(r, id, dut, setpoint, first, last) ==
  /\ req[r].pc = "selecting"
  /\ dut \in duts
  /\ LET selected == {reading \in Readings :
                        /\ Links(reading) # {}
                        /\ reading.channel = dut
                        /\ first <= reading.time /\ reading.time <= last}
     IN  /\ selected # {}
         /\ Become(r, [pc |-> "selected",
                       window |-> Window(id, dut, setpoint, selected)])
  /\ UNCHANGED <<job, plan, transcriptions, windows, summaries>>

\* The id is the primary key.
CommitSelection(r) ==
  /\ req[r].pc = "selected"
  /\ \A window \in windows : window.id # req[r].window.id
  /\ windows' = windows \cup {req[r].window}
  /\ Become(r, Idle)
  /\ UNCHANGED <<job, plan, transcriptions, summaries>>

\* The constants and budget the client names are approved.
BeginCalculation(user, r) ==
  /\ Can(user, "run_calculation")
  /\ req[r] = Idle
  /\ state = "windows_selected"
  /\ Become(r, [pc |-> "calculating", user |-> user, windows |-> windows])
  /\ UNCHANGED <<job, plan, transcriptions, windows, summaries>>

ReadLinksForCalculation(r) ==
  /\ req[r].pc = "calculating"
  /\ Calculable(req[r].windows)
  /\ Become(r, [pc |-> "calculated", user |-> req[r].user,
                points |-> {Point(window.id, window) :
                              window \in Used(req[r].windows)}])
  /\ UNCHANGED <<job, plan, transcriptions, windows, summaries>>

\* A calculation that does not compare the state when it writes.
CommitCalculationBlindly(r) ==
  /\ req[r].pc = "calculated"
  /\ summaries' = req[r].points
  /\ state' = "calculated"
  /\ trail' = Append(trail, Transition("windows_selected", "calculated",
                                      req[r].user))
  /\ Become(r, Idle)
  /\ UNCHANGED <<discipline, plan, transcriptions, windows>>

\* A point's id is made of its window's and is the primary key.
CommitCalculation(r) ==
  /\ req[r].pc = "calculated"
  /\ state = "windows_selected"
  /\ summaries' = req[r].points
  /\ Move(req[r].user, "calculated")
  /\ Become(r, Idle)
  /\ UNCHANGED <<plan, transcriptions, windows>>

\* A request ends without effect.
Fail(r) ==
  /\ req[r] # Idle
  /\ Become(r, Idle)
  /\ UNCHANGED <<job, plan, transcriptions, windows, summaries>>

Init ==
  /\ discipline \in {"temperature", "pressure"}
  /\ state = "draft"
  /\ trail = <<>>
  /\ duts = {} /\ setpoints = {}
  /\ transcriptions = <<>>
  /\ windows = {}
  /\ summaries = {}
  /\ req = [r \in Requests |-> Idle]
  /\ overlapped = FALSE

NoteOverlap ==
  overlapped' = (overlapped \/ \E r \in Requests : req[r] # Idle)

CallService(user) ==
  /\ \/ CaptureMetadata(user)
     \/ SelectEquipment(user)
     \/ \E calibration \in CalibrationFiles, planned \in SUBSET Setpoints :
          PrepareTemperatureDataEntry(user, calibration, planned)
     \/ \E dut \in Channels, id \in WindowIds, setpoint \in Setpoints :
          EnterPressure(user, dut, Window(id, dut, setpoint, {}))
     \/ CompleteWindowSelection(user)
     \/ \E ids \in SUBSET WindowIds : \E named \in [ids -> windows] :
          CalculatePressure(user, {Point(id, named[id]) : id \in ids})
  /\ NoteOverlap
  /\ UNCHANGED req

BeginRequest(user, r) ==
  /\ \/ \E calibration \in CalibrationFiles,
          verification \in VerificationFiles, times \in SUBSET Times :
          BeginTranscription(user, r,
                             Transcription(calibration, verification, times))
     \/ BeginSelection(user, r)
     \/ BeginCalculation(user, r)
  /\ NoteOverlap

ContinueRequest(r) ==
  /\ \/ CommitTranscription(r)
     \/ \E id \in WindowIds, dut \in duts, setpoint \in Setpoints,
          first, last \in Times :
          ReadLinksForSelection(r, id, dut, setpoint, first, last)
     \/ CommitSelection(r)
     \/ ReadLinksForCalculation(r)
     \/ CommitCalculation(r)
     \/ Fail(r)
  /\ UNCHANGED overlapped

Next ==
  \/ \E user \in Users : CallService(user)
  \/ \E user \in Users, r \in Requests : BeginRequest(user, r)
  \/ \E r \in Requests : ContinueRequest(r)

Spec == Init /\ [][Next]_vars

(***************************************************************************)
(* Properties                                                              *)
(***************************************************************************)

TranscriptionRecord ==
  [calibration : CalibrationFiles, verification : VerificationFiles,
   times : SUBSET Times]

WindowRecord ==
  [id : WindowIds, dut : Channels, setpoint : Setpoints,
   readings : SUBSET Readings]

PointRecord ==
  [id : WindowIds, window : WindowIds, dut : Channels, setpoint : Setpoints]

Request ==
  [pc : {"idle", "selecting"}]
    \cup [pc : {"transcribing"}, transcription : TranscriptionRecord]
    \cup [pc : {"selected"}, window : WindowRecord]
    \cup [pc : {"calculating"}, user : Users, windows : SUBSET WindowRecord]
    \cup [pc : {"calculated"}, user : Users, points : SUBSET PointRecord]

TypeOK ==
  /\ discipline \in {"temperature", "pressure"}
  /\ state \in WorkflowState
  /\ trail \in Seq([from : WorkflowState, to : WorkflowState, by : Users])
  /\ duts \subseteq Channels /\ setpoints \subseteq Setpoints
  /\ transcriptions \in Seq(TranscriptionRecord)
  /\ windows \subseteq WindowRecord
  /\ summaries \subseteq PointRecord
  /\ req \in [Requests -> Request]
  /\ overlapped \in BOOLEAN

\* The moves of all these services are those the application promises of a job,
\* from its draft on.
Lifecycle == INSTANCE JobLifecycle WITH StartState <- "draft"

\* Every commit is a move along the transition table with its audit event,
\* though two requests may have read the same state.
LifecycleSpec == Lifecycle!Spec

\* A window of linked readings of its DUT.
Quoted(window) ==
  /\ window.readings # {} /\ window.dut \in duts
  /\ \A reading \in window.readings :
       Links(reading) # {} /\ reading.channel = window.dut

\* A job is entered once, by the temperature services or by a pressure service:
\* setpoints, transcriptions and windows of linked readings belong to the first
\* kind, exactly one DUT and one window to the second.  No request admitted under
\* one kind can write to a job of the other, however late it commits.
EnteredOneWay ==
  \/ /\ state \in {"draft", "metadata_complete", "equipment_selected"}
     /\ duts = {} /\ setpoints = {} /\ transcriptions = <<>> /\ windows = {}
  \/ /\ state \in {"data_entered", "windows_selected", "calculated"}
     /\ duts # {} /\ setpoints # {}
     /\ \A window \in windows : Quoted(window)
  \/ /\ state \in {"windows_selected", "calculated"}
     /\ discipline = "pressure"
     /\ setpoints = {} /\ transcriptions = <<>>
     /\ \E window \in windows : windows = {window} /\ duts = {window.dut}

\* One point for each DUT and planned setpoint.
CoverPlan(points) ==
  \A dut \in duts, setpoint \in setpoints :
    Cardinality({point \in points :
                   point.dut = dut /\ point.setpoint = setpoint}) = 1

\* A calculated temperature job has exactly one point for each DUT and planned
\* setpoint, whatever windows were selected meanwhile.
CalculationCoversPlan ==
  discipline = "temperature" /\ state = "calculated" => CoverPlan(summaries)

\* No reading has two references: one linked reading for each logger channel
\* and timestamp.
LinkedOnce == \A reading \in Readings : Cardinality(Links(reading)) <= 1

\* It holds while requests do not overlap.
LinkedOnceInTurn == ~ overlapped => LinkedOnce

\* Every window of a calculated temperature job at a planned setpoint is in the
\* calculation, while requests do not overlap: none is added behind its back.
CalculatedFromAllWindowsInTurn ==
  ~ overlapped /\ discipline = "temperature" /\ state = "calculated" =>
    \A window \in Used(windows) : Point(window.id, window) \in summaries

\* While requests do not overlap, a job whose windows are complete can be
\* calculated, unless the operator selected two windows for one DUT and setpoint
\* or a window of a single reading.  No service takes a window back.
CompletedIsCalculableInTurn ==
  /\ ~ overlapped
  /\ state = "windows_selected" /\ setpoints # {}
  /\ Unambiguous(windows)
  /\ \A window \in windows : Cardinality(window.readings) >= 2
  => Calculable(windows)
==============================================================================
