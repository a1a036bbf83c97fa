------------------------ MODULE JobPreparation_proofs -------------------------
(***************************************************************************)
(* What JobPreparation guarantees for any users, roles, requests, readings,*)
(* files, setpoints and window ids; and what the life of a job that it     *)
(* implements, JobLifecycle, promises from any starting state.             *)
(***************************************************************************)
EXTENDS JobPreparation, FiniteSetTheorems, TLAPS

(***************************************************************************)
(* Types                                                                   *)
(***************************************************************************)

\* What the fields of a request in flight can be.
LEMMA RequestFields ==
  ASSUME NEW q \in Request
  PROVE  /\ q.pc = "transcribing" => q.transcription \in TranscriptionRecord
         /\ q.pc = "selected" => q.window \in WindowRecord
         /\ q.pc = "calculating" =>
              q.user \in Users /\ q.windows \subseteq WindowRecord
         /\ q.pc = "calculated" =>
              q.user \in Users /\ q.points \subseteq PointRecord
         /\ q.pc = "idle" => q = Idle
  BY DEF Request, Idle

\* Replacing one request by a request keeps their type.
LEMMA BecomeType ==
  ASSUME req \in [Requests -> Request], NEW r \in Requests,
         NEW q \in Request, Become(r, q)
  PROVE  /\ req' \in [Requests -> Request]
         /\ req'[r] = q
         /\ \A p \in Requests : p # r => req'[p] = req[p]
  BY DEF Become

\* The records that the actions build are requests.
LEMMA RequestRecords ==
  /\ Idle \in Request
  /\ [pc |-> "selecting"] \in Request
  /\ \A t \in TranscriptionRecord :
       [pc |-> "transcribing", transcription |-> t] \in Request
  /\ \A window \in WindowRecord : [pc |-> "selected", window |-> window] \in Request
  /\ \A u \in Users : \A selected \in SUBSET WindowRecord :
       [pc |-> "calculating", user |-> u, windows |-> selected] \in Request
  /\ \A u \in Users : \A points \in SUBSET PointRecord :
       [pc |-> "calculated", user |-> u, points |-> points] \in Request
  BY DEF Request, Idle

\* What a state transition does to the job.
LEMMA MoveEffect ==
  ASSUME TypeOK, NEW u \in Users, NEW target \in WorkflowState, Move(u, target)
  PROVE  /\ discipline' \in {"temperature", "pressure"}
         /\ state' \in WorkflowState
         /\ trail' \in Seq([from : WorkflowState, to : WorkflowState, by : Users])
  BY DEF TypeOK, Move, Transition

\* The point of a window is a point.
LEMMA PointType ==
  ASSUME NEW window \in WindowRecord, NEW id \in WindowIds
  PROVE  Point(id, window) \in PointRecord
  BY DEF Point, PointRecord, WindowRecord

\* A service that commits at once keeps the types.
LEMMA ServiceTypes ==
  ASSUME TypeOK, NEW u \in Users, CallService(u)
  PROVE  TypeOK'
<1>1. overlapped' \in BOOLEAN
  BY DEF CallService, NoteOverlap
<1>2. req' \in [Requests -> Request]
  BY DEF CallService, TypeOK
<1>3. ASSUME CaptureMetadata(u) PROVE TypeOK'
  <2>1. "metadata_complete" \in WorkflowState
    BY DEF WorkflowState
  <2>2. Move(u, "metadata_complete")
    BY <1>3 DEF CaptureMetadata
  <2> QED
    BY <1>1, <1>2, <1>3, <2>1, <2>2, MoveEffect
    DEF CaptureMetadata, TypeOK, plan
<1>4. ASSUME SelectEquipment(u) PROVE TypeOK'
  <2>1. "equipment_selected" \in WorkflowState
    BY DEF WorkflowState
  <2>2. Move(u, "equipment_selected")
    BY <1>4 DEF SelectEquipment
  <2> QED
    BY <1>1, <1>2, <1>4, <2>1, <2>2, MoveEffect
    DEF SelectEquipment, TypeOK, plan
<1>5. ASSUME NEW c \in CalibrationFiles, NEW planned \in SUBSET Setpoints,
             PrepareTemperatureDataEntry(u, c, planned)
      PROVE  TypeOK'
  <2>1. "data_entered" \in WorkflowState
    BY DEF WorkflowState
  <2>2. Move(u, "data_entered")
    BY <1>5 DEF PrepareTemperatureDataEntry
  <2>3. duts' \subseteq Channels
    BY <1>5 DEF PrepareTemperatureDataEntry, Channels
  <2> QED
    BY <1>1, <1>2, <1>5, <2>1, <2>2, <2>3, MoveEffect
    DEF PrepareTemperatureDataEntry, TypeOK
<1>6. ASSUME NEW dut \in Channels, NEW id \in WindowIds, NEW sp \in Setpoints,
             EnterPressure(u, dut, Window(id, dut, sp, {}))
      PROVE  TypeOK'
  <2>1. Window(id, dut, sp, {}) \in WindowRecord
    BY DEF Window, WindowRecord
  <2>2. state' \in WorkflowState
    BY <1>6 DEF EnterPressure, WorkflowState
  <2>3. trail' \in Seq([from : WorkflowState, to : WorkflowState, by : Users])
    <3>1. /\ Transition(state, "data_entered", u)
               \in [from : WorkflowState, to : WorkflowState, by : Users]
          /\ Transition("data_entered", "windows_selected", u)
               \in [from : WorkflowState, to : WorkflowState, by : Users]
      BY DEF Transition, TypeOK, WorkflowState
    <3> QED
      BY <1>6, <3>1 DEF EnterPressure, TypeOK
  <2> QED
    BY <1>1, <1>2, <1>6, <2>1, <2>2, <2>3 DEF EnterPressure, TypeOK
<1>7. ASSUME CompleteWindowSelection(u) PROVE TypeOK'
  <2>1. "windows_selected" \in WorkflowState
    BY DEF WorkflowState
  <2>2. Move(u, "windows_selected")
    BY <1>7 DEF CompleteWindowSelection
  <2> QED
    BY <1>1, <1>2, <1>7, <2>1, <2>2, MoveEffect
    DEF CompleteWindowSelection, TypeOK, plan
<1>8. ASSUME NEW ids \in SUBSET WindowIds, NEW named \in [ids -> windows],
             CalculatePressure(u, {Point(id, named[id]) : id \in ids})
      PROVE  TypeOK'
  <2>1. "calculated" \in WorkflowState
    BY DEF WorkflowState
  <2>2. Move(u, "calculated")
    BY <1>8 DEF CalculatePressure
  <2>3. \A id \in ids : Point(id, named[id]) \in PointRecord
    BY PointType DEF TypeOK
  <2>4. summaries' \subseteq PointRecord
    BY <1>8, <2>3 DEF CalculatePressure
  <2> QED
    BY <1>1, <1>2, <1>8, <2>1, <2>2, <2>4, MoveEffect
    DEF CalculatePressure, TypeOK, plan
<1> QED
  BY <1>3, <1>4, <1>5, <1>6, <1>7, <1>8 DEF CallService

\* A request that begins keeps the types.
LEMMA BeginTypes ==
  ASSUME TypeOK, NEW u \in Users, NEW r \in Requests, BeginRequest(u, r)
  PROVE  TypeOK'
<1>1. overlapped' \in BOOLEAN
  BY DEF BeginRequest, NoteOverlap
<1>2. /\ UNCHANGED <<job, plan, transcriptions, windows, summaries>>
      /\ \E q \in Request : Become(r, q)
  <2>1. ASSUME NEW c \in CalibrationFiles, NEW v \in VerificationFiles,
               NEW times \in SUBSET Times,
               BeginTranscription(u, r, Transcription(c, v, times))
        PROVE  /\ UNCHANGED <<job, plan, transcriptions, windows, summaries>>
               /\ \E q \in Request : Become(r, q)
    <3>1. Transcription(c, v, times) \in TranscriptionRecord
      BY DEF Transcription, TranscriptionRecord
    <3> QED
      BY <2>1, <3>1, RequestRecords DEF BeginTranscription
  <2>2. ASSUME BeginSelection(u, r)
        PROVE  /\ UNCHANGED <<job, plan, transcriptions, windows, summaries>>
               /\ \E q \in Request : Become(r, q)
    BY <2>2, RequestRecords DEF BeginSelection
  <2>3. ASSUME BeginCalculation(u, r)
        PROVE  /\ UNCHANGED <<job, plan, transcriptions, windows, summaries>>
               /\ \E q \in Request : Become(r, q)
    BY <2>3, RequestRecords DEF BeginCalculation, TypeOK
  <2> QED
    BY <2>1, <2>2, <2>3 DEF BeginRequest
<1>3. req' \in [Requests -> Request]
  BY <1>2, BecomeType DEF TypeOK
<1> QED
  BY <1>1, <1>2, <1>3 DEF TypeOK, job, plan

\* A request that continues keeps the types.
LEMMA ContinueTypes ==
  ASSUME TypeOK, NEW r \in Requests, ContinueRequest(r)
  PROVE  TypeOK'
<1>1. overlapped' \in BOOLEAN
  BY DEF ContinueRequest, TypeOK
<1>2. req[r] \in Request
  BY DEF TypeOK
<1>3. Idle \in Request
  BY RequestRecords
<1>4. ASSUME CommitTranscription(r) PROVE TypeOK'
  <2>1. req' \in [Requests -> Request]
    BY <1>3, <1>4, BecomeType DEF CommitTranscription, TypeOK
  <2>2. req[r].transcription \in TranscriptionRecord
    BY <1>2, <1>4, RequestFields DEF CommitTranscription
  <2>3. transcriptions' \in Seq(TranscriptionRecord)
    BY <1>4, <2>2 DEF CommitTranscription, TypeOK
  <2> QED
    BY <1>1, <1>4, <2>1, <2>3 DEF CommitTranscription, TypeOK, job, plan
<1>5. ASSUME NEW id \in WindowIds, NEW dut \in duts, NEW sp \in Setpoints,
             NEW first \in Times, NEW last \in Times,
             ReadLinksForSelection(r, id, dut, sp, first, last)
      PROVE  TypeOK'
  <2> DEFINE selected == {reading \in Readings :
                            /\ Links(reading) # {}
                            /\ reading.channel = dut
                            /\ first <= reading.time /\ reading.time <= last}
  <2>1. Window(id, dut, sp, selected) \in WindowRecord
    BY DEF Window, WindowRecord, TypeOK
  <2>2. Become(r, [pc |-> "selected", window |-> Window(id, dut, sp, selected)])
    BY <1>5 DEF ReadLinksForSelection
  <2>3. req' \in [Requests -> Request]
    BY <2>1, <2>2, RequestRecords, BecomeType DEF TypeOK
  <2> QED
    BY <1>1, <1>5, <2>3 DEF ReadLinksForSelection, TypeOK, job, plan
<1>6. ASSUME CommitSelection(r) PROVE TypeOK'
  <2>1. req' \in [Requests -> Request]
    BY <1>3, <1>6, BecomeType DEF CommitSelection, TypeOK
  <2>2. req[r].window \in WindowRecord
    BY <1>2, <1>6, RequestFields DEF CommitSelection
  <2> QED
    BY <1>1, <1>6, <2>1, <2>2 DEF CommitSelection, TypeOK, job, plan
<1>7. ASSUME ReadLinksForCalculation(r) PROVE TypeOK'
  <2> DEFINE points == {Point(window.id, window) :
                          window \in Used(req[r].windows)}
  <2>1. req[r].user \in Users /\ req[r].windows \subseteq WindowRecord
    BY <1>2, <1>7, RequestFields DEF ReadLinksForCalculation
  <2>2. points \in SUBSET PointRecord
    <3>1. \A window \in Used(req[r].windows) :
            Point(window.id, window) \in PointRecord
      BY <2>1, PointType DEF Used, WindowRecord
    <3> QED
      BY <3>1
  <2>3. Become(r, [pc |-> "calculated", user |-> req[r].user, points |-> points])
    BY <1>7 DEF ReadLinksForCalculation
  <2> HIDE DEF points
  <2>4. req' \in [Requests -> Request]
    BY <2>1, <2>2, <2>3, RequestRecords, BecomeType DEF TypeOK
  <2> QED
    BY <1>1, <1>7, <2>4 DEF ReadLinksForCalculation, TypeOK, job, plan
<1>8. ASSUME CommitCalculation(r) PROVE TypeOK'
  <2>1. req' \in [Requests -> Request]
    BY <1>3, <1>8, BecomeType DEF CommitCalculation, TypeOK
  <2>2. req[r].user \in Users /\ req[r].points \subseteq PointRecord
    BY <1>2, <1>8, RequestFields DEF CommitCalculation
  <2>3. "calculated" \in WorkflowState
    BY DEF WorkflowState
  <2>4. Move(req[r].user, "calculated")
    BY <1>8 DEF CommitCalculation
  <2> QED
    BY <1>1, <1>8, <2>1, <2>2, <2>3, <2>4, MoveEffect
    DEF CommitCalculation, TypeOK, plan
<1>9. ASSUME Fail(r) PROVE TypeOK'
  <2>1. req' \in [Requests -> Request]
    BY <1>3, <1>9, BecomeType DEF Fail, TypeOK
  <2> QED
    BY <1>1, <1>9, <2>1 DEF Fail, TypeOK, job, plan
<1> QED
  BY <1>4, <1>5, <1>6, <1>7, <1>8, <1>9 DEF ContinueRequest

\* What every step keeps.
LEMMA TypesKept == TypeOK /\ [Next]_vars => TypeOK'
<1> SUFFICES ASSUME TypeOK, [Next]_vars PROVE TypeOK'
  OBVIOUS
<1>1. CASE UNCHANGED vars
  BY <1>1 DEF vars, job, plan, TypeOK
<1>2. CASE Next
  BY <1>2, ServiceTypes, BeginTypes, ContinueTypes DEF Next
<1> QED
  BY <1>1, <1>2

\* The type invariant, for any instance.
THEOREM TypeCorrect == Spec => []TypeOK
<1>1. Init => TypeOK
  <2> SUFFICES ASSUME Init PROVE TypeOK
    OBVIOUS
  <2>1. state \in WorkflowState
    BY DEF Init, WorkflowState
  <2>2. req \in [Requests -> Request]
    BY RequestRecords DEF Init
  <2>3. overlapped \in BOOLEAN
    BY DEF Init
  <2>4. /\ trail \in Seq([from : WorkflowState, to : WorkflowState, by : Users])
        /\ transcriptions \in Seq(TranscriptionRecord)
    BY DEF Init
  <2> QED
    BY <2>1, <2>2, <2>3, <2>4 DEF Init, TypeOK
<1> QED
  BY <1>1, TypesKept, PTL DEF Spec

(***************************************************************************)
(* Refinement                                                              *)
(***************************************************************************)

\* A step leaves the state and its trail alone or moves both.
LEMMA Moves ==
  ASSUME TypeOK, [Next]_vars
  PROVE  \/ UNCHANGED <<state, trail>>
         \/ \E u \in Users, target \in WorkflowState : Move(u, target)
         \/ \E u \in Users :
              /\ state = "equipment_selected"
              /\ state' = "windows_selected"
              /\ trail' = trail \o << Transition(state, "data_entered", u),
                                      Transition("data_entered", state', u) >>
<1>1. CASE UNCHANGED vars
  BY <1>1 DEF vars, job
<1>2. ASSUME NEW u \in Users, CallService(u)
      PROVE  \/ \E target \in WorkflowState : Move(u, target)
             \/ /\ state = "equipment_selected"
                /\ state' = "windows_selected"
                /\ trail' = trail \o << Transition(state, "data_entered", u),
                                        Transition("data_entered", state', u) >>
  BY <1>2 DEF CallService, CaptureMetadata, SelectEquipment,
     PrepareTemperatureDataEntry, EnterPressure, CompleteWindowSelection,
     CalculatePressure, WorkflowState
<1>3. ASSUME NEW u \in Users, NEW r \in Requests, BeginRequest(u, r)
      PROVE  UNCHANGED <<state, trail>>
  BY <1>3 DEF BeginRequest, BeginTranscription, BeginSelection,
     BeginCalculation, job
<1>4. ASSUME NEW r \in Requests, ContinueRequest(r)
      PROVE  \/ UNCHANGED <<state, trail>>
             \/ \E u \in Users, target \in WorkflowState : Move(u, target)
  <2>1. CASE CommitCalculation(r)
    <3>1. req[r].user \in Users
      BY <2>1, RequestFields DEF CommitCalculation, TypeOK
    <3> QED
      BY <2>1, <3>1 DEF CommitCalculation, WorkflowState
  <2>2. CASE ~ CommitCalculation(r)
    BY <1>4, <2>2 DEF ContinueRequest, CommitTranscription,
       ReadLinksForSelection, CommitSelection, ReadLinksForCalculation, Fail, job
  <2> QED
    BY <2>1, <2>2
<1> QED
  BY <1>1, <1>2, <1>3, <1>4 DEF Next

\* The services of the preparation implement the life of a job: no two of them,
\* however they overlap, move it off the transition table or lose a move's entry.
THEOREM ImplementsLifecycle == Spec => LifecycleSpec
<1>1. Init => Lifecycle!Init
  BY DEF Init, Lifecycle!Init
<1>2. TypeOK /\ [Next]_vars => [Lifecycle!Next]_(Lifecycle!vars)
  <2> SUFFICES ASSUME TypeOK, [Next]_vars
               PROVE  [Lifecycle!Next]_(Lifecycle!vars)
    OBVIOUS
  <2> USE DEF Lifecycle!CanTransition, Lifecycle!AllowedTransitions,
              CanTransition, AllowedTransitions,
              Lifecycle!Transition, Transition
  <2>1. CASE UNCHANGED <<state, trail>>
    BY <2>1 DEF Lifecycle!vars
  <2>2. ASSUME NEW u \in Users, NEW target \in WorkflowState, Move(u, target)
        PROVE  Lifecycle!Next
    <3>1. Lifecycle!Move(u, target)
      BY <2>2 DEF Move, Lifecycle!Move
    <3>2. target \in Lifecycle!WorkflowState
      BY DEF WorkflowState, Lifecycle!WorkflowState
    <3> QED
      BY <3>1, <3>2 DEF Lifecycle!Next
  <2>3. ASSUME NEW u \in Users,
               state = "equipment_selected",
               state' = "windows_selected",
               trail' = trail \o << Transition(state, "data_entered", u),
                                    Transition("data_entered", state', u) >>
        PROVE  Lifecycle!Next
    <3>1. Lifecycle!MoveThrough(u, "data_entered", "windows_selected")
      BY <2>3 DEF Lifecycle!MoveThrough
    <3>2. "windows_selected" \in Lifecycle!WorkflowState
      BY DEF Lifecycle!WorkflowState
    <3> QED
      BY <2>3, <3>1, <3>2 DEF Lifecycle!Next
  <2> QED
    BY <2>1, <2>2, <2>3, Moves
<1> QED
  BY <1>1, <1>2, TypeCorrect, PTL DEF Spec, LifecycleSpec, Lifecycle!Spec

(***************************************************************************)
(* The life of a job                                                       *)
(*                                                                         *)
(* What JobLifecycle promises, from any state at which observation of the  *)
(* job begins; then what that says of this module's jobs.  The argument    *)
(* that no state is entered twice is a rank: every allowed transition goes *)
(* strictly up, so no path returns to a state it left.                     *)
(***************************************************************************)

Life(Start) == INSTANCE JobLifecycle WITH StartState <- Start

Rank(s) ==
  CASE s = "draft" -> 0
    [] s = "metadata_complete" -> 1
    [] s = "equipment_selected" -> 2
    [] s = "data_entered" -> 3
    [] s = "windows_selected" -> 4
    [] s = "calculated" -> 5
    [] s = "technical_review" -> 6
    [] s = "qa_review" -> 7
    [] s = "approved" -> 8
    [] s = "released" -> 9
    [] s = "revised" -> 10
    [] s = "voided" -> 11

\* What the table says, one state at a time.
LEMMA Successors ==
  ASSUME NEW a \in WorkflowState, NEW b, CanTransition(a, b)
  PROVE  \/ a = "draft" /\ b = "metadata_complete"
         \/ a = "metadata_complete" /\ b = "equipment_selected"
         \/ a = "equipment_selected" /\ b = "data_entered"
         \/ a = "data_entered" /\ b = "windows_selected"
         \/ a = "windows_selected" /\ b = "calculated"
         \/ a = "calculated" /\ b = "technical_review"
         \/ a = "technical_review" /\ b = "qa_review"
         \/ a = "qa_review" /\ b = "approved"
         \/ a = "approved" /\ b = "released"
         \/ a = "released" /\ b = "revised"
         \/ a # "voided" /\ b = "voided"
  BY DEF WorkflowState, CanTransition, AllowedTransitions

\* Every allowed transition goes up.
LEMMA RankRises ==
  ASSUME NEW a \in WorkflowState, NEW b, CanTransition(a, b)
  PROVE  /\ b \in WorkflowState
         /\ Rank(a) \in Nat
         /\ Rank(b) \in Nat
         /\ Rank(a) < Rank(b)
  BY Successors DEF WorkflowState, Rank

\* What a step of the life of a job does: one entry or, from equipment_selected,
\* two; each entry starts where the one before it ended.
LifeStep ==
  \/ \E user \in Users, target \in WorkflowState :
       /\ CanTransition(state, target)
       /\ state' = target
       /\ trail' = Append(trail, Transition(state, target, user))
  \/ \E user \in Users :
       /\ state = "equipment_selected"
       /\ state' = "windows_selected"
       /\ trail' = trail \o
            << Transition("equipment_selected", "data_entered", user),
               Transition("data_entered", "windows_selected", user) >>
  \/ UNCHANGED <<state, trail>>

LifeEvent == [from : WorkflowState, to : WorkflowState, by : Users]

LifeTypes ==
  /\ state \in WorkflowState
  /\ trail \in Seq(LifeEvent)

Path(Start) ==
  /\ trail = <<>> => state = Start
  /\ trail # <<>> => /\ trail[1].from = Start
                     /\ trail[Len(trail)].to = state
  /\ \A i \in 1..Len(trail) : CanTransition(trail[i].from, trail[i].to)
  /\ \A i \in 1..(Len(trail) - 1) : trail[i].to = trail[i + 1].from

\* The rules of the instance are those of this module.
LEMMA SameRules ==
  ASSUME NEW Start
  PROVE  /\ Life(Start)!WorkflowState = WorkflowState
         /\ \A a, b : Life(Start)!CanTransition(a, b) <=> CanTransition(a, b)
         /\ \A a, b, u : Life(Start)!Transition(a, b, u) = Transition(a, b, u)
  BY DEF Life!WorkflowState, WorkflowState, Life!CanTransition, CanTransition,
         Life!AllowedTransitions, AllowedTransitions, Life!Transition, Transition

LEMMA SameLife ==
  ASSUME NEW Start
  PROVE  /\ Life(Start)!TypeOK <=> LifeTypes
         /\ Life(Start)!TrailIsPath <=> Path(Start)
  BY SameRules DEF Life!TypeOK, Life!TransitionEvent, LifeTypes, LifeEvent,
                   Life!TrailIsPath, Path

LEMMA LifeSteps ==
  ASSUME NEW Start, LifeTypes, [Life(Start)!Next]_(Life(Start)!vars)
  PROVE  LifeStep
<1>1. CASE UNCHANGED Life(Start)!vars
  BY <1>1 DEF Life!vars, LifeStep
<1>2. ASSUME NEW user \in Users, NEW target \in WorkflowState,
             Life(Start)!Move(user, target)
      PROVE  LifeStep
  <2>1. /\ CanTransition(state, target)
        /\ state' = target
        /\ trail' = Append(trail, Transition(state, target, user))
    BY <1>2, SameRules DEF Life!Move, Life!Transition, Transition
  <2> QED
    BY <2>1 DEF LifeStep
<1>3. ASSUME NEW user \in Users, state = "equipment_selected",
             Life(Start)!MoveThrough(user, "data_entered", "windows_selected")
      PROVE  LifeStep
  BY <1>3 DEF Life!MoveThrough, Life!Transition, Transition, LifeStep
<1> QED
  BY <1>1, <1>2, <1>3, SameRules DEF Life!Next

LEMMA LifeTypesStay ==
  ASSUME LifeTypes, LifeStep
  PROVE  LifeTypes'
<1>1. ASSUME NEW user \in Users, NEW target \in WorkflowState,
             state' = target,
             trail' = Append(trail, Transition(state, target, user))
      PROVE  LifeTypes'
  <2>1. Transition(state, target, user)
          \in LifeEvent
    BY DEF LifeTypes, Transition, LifeEvent
  <2> QED
    BY <1>1, <2>1 DEF LifeTypes
<1>2. ASSUME NEW user \in Users,
             state' = "windows_selected",
             trail' = trail \o
               << Transition("equipment_selected", "data_entered", user),
                  Transition("data_entered", "windows_selected", user) >>
      PROVE  LifeTypes'
  <2>1. /\ Transition("equipment_selected", "data_entered", user)
             \in LifeEvent
        /\ Transition("data_entered", "windows_selected", user)
             \in LifeEvent
    BY DEF Transition, WorkflowState, LifeEvent
  <2> QED
    BY <1>2, <2>1 DEF LifeTypes, WorkflowState
<1>3. CASE UNCHANGED <<state, trail>>
  BY <1>3 DEF LifeTypes
<1> QED
  BY <1>1, <1>2, <1>3 DEF LifeStep

\* The state and the trail of a job have their types.
THEOREM LifeTypeCorrect ==
  ASSUME NEW Start \in WorkflowState
  PROVE  Life(Start)!Spec => []Life(Start)!TypeOK
<1>1. Life(Start)!Init => Life(Start)!TypeOK
  BY SameLife DEF Life!Init, LifeTypes
<1>2. Life(Start)!TypeOK /\ [Life(Start)!Next]_(Life(Start)!vars)
        => Life(Start)!TypeOK'
  <2> SUFFICES ASSUME Life(Start)!TypeOK, [Life(Start)!Next]_(Life(Start)!vars)
               PROVE  Life(Start)!TypeOK'
    OBVIOUS
  <2>1. LifeTypes'
    BY SameLife, LifeSteps, LifeTypesStay
  <2>2. Life(Start)!TypeOK' <=> LifeTypes'
    BY SameRules DEF Life!TypeOK, Life!TransitionEvent, LifeTypes, LifeEvent
  <2> QED
    BY <2>1, <2>2
<1> QED
  BY <1>1, <1>2, PTL DEF Life!Spec

LEMMA PathStays ==
  ASSUME NEW Start, LifeTypes, Path(Start), LifeStep
  PROVE  Path(Start)'
<1> USE DEF LifeTypes
<1>1. ASSUME NEW user \in Users, NEW target \in WorkflowState,
             CanTransition(state, target),
             state' = target,
             trail' = Append(trail, Transition(state, target, user))
      PROVE  Path(Start)'
  <2>1. /\ Len(trail') = Len(trail) + 1
        /\ \A i \in 1..Len(trail) : trail'[i] = trail[i]
        /\ trail'[Len(trail')].from = state
        /\ trail'[Len(trail')].to = target
        /\ trail' # <<>>
    BY <1>1 DEF Transition
  <2>2. trail'[1].from = Start
    BY <1>1, <2>1 DEF Path, Transition
  <2>3. \A i \in 1..Len(trail') :
          CanTransition(trail'[i].from, trail'[i].to)
    BY <1>1, <2>1 DEF Path
  <2>4. \A i \in 1..(Len(trail') - 1) : trail'[i].to = trail'[i + 1].from
    <3> SUFFICES ASSUME NEW i \in 1..Len(trail)
                 PROVE  trail'[i].to = trail'[i + 1].from
      BY <2>1
    <3>1. CASE i = Len(trail)
      BY <2>1, <3>1 DEF Path
    <3>2. CASE i # Len(trail)
      BY <2>1, <3>2 DEF Path
    <3> QED
      BY <3>1, <3>2
  <2> QED
    BY <1>1, <2>1, <2>2, <2>3, <2>4 DEF Path
<1>2. ASSUME NEW user \in Users,
             state = "equipment_selected",
             state' = "windows_selected",
             trail' = trail \o
               << Transition("equipment_selected", "data_entered", user),
                  Transition("data_entered", "windows_selected", user) >>
      PROVE  Path(Start)'
  <2>1. /\ Len(trail') = Len(trail) + 2
        /\ \A i \in 1..Len(trail) : trail'[i] = trail[i]
        /\ trail'[Len(trail) + 1].from = state
        /\ trail'[Len(trail) + 1].to = "data_entered"
        /\ trail'[Len(trail) + 2].from = "data_entered"
        /\ trail'[Len(trail) + 2].to = "windows_selected"
        /\ trail' # <<>>
    BY <1>2 DEF Transition
  <2>2. trail'[1].from = Start
    BY <1>2, <2>1 DEF Path
  <2>3. /\ CanTransition("equipment_selected", "data_entered")
        /\ CanTransition("data_entered", "windows_selected")
    BY DEF CanTransition, AllowedTransitions
  <2>4. \A i \in 1..Len(trail') :
          CanTransition(trail'[i].from, trail'[i].to)
    <3> SUFFICES ASSUME NEW i \in 1..Len(trail')
                 PROVE  CanTransition(trail'[i].from, trail'[i].to)
      OBVIOUS
    <3>1. CASE i \in 1..Len(trail)
      BY <2>1, <3>1 DEF Path
    <3>2. CASE i = Len(trail) + 1 \/ i = Len(trail) + 2
      BY <1>2, <2>1, <2>3, <3>2
    <3> QED
      BY <2>1, <3>1, <3>2
  <2>5. \A i \in 1..(Len(trail') - 1) : trail'[i].to = trail'[i + 1].from
    <3> SUFFICES ASSUME NEW i \in 1..(Len(trail) + 1)
                 PROVE  trail'[i].to = trail'[i + 1].from
      BY <2>1
    <3>1. CASE i = Len(trail) + 1
      BY <2>1, <3>1
    <3>2. CASE i = Len(trail)
      BY <2>1, <3>2 DEF Path
    <3>3. CASE i \in 1..(Len(trail) - 1)
      BY <2>1, <3>3 DEF Path
    <3> QED
      BY <3>1, <3>2, <3>3
  <2> QED
    BY <1>2, <2>1, <2>2, <2>4, <2>5 DEF Path
<1>3. CASE UNCHANGED <<state, trail>>
  BY <1>3 DEF Path
<1> QED
  BY <1>1, <1>2, <1>3 DEF LifeStep

\* The audit trail alone tells the state of a job: it is an unbroken path of
\* allowed transitions from where observation began.
THEOREM LifeTrailIsPath ==
  ASSUME NEW Start \in WorkflowState
  PROVE  Life(Start)!Spec => []Life(Start)!TrailIsPath
<1>1. Life(Start)!Init => Life(Start)!TrailIsPath
  BY SameLife DEF Life!Init, Path
<1>2. Life(Start)!TypeOK /\ Life(Start)!TrailIsPath
        /\ [Life(Start)!Next]_(Life(Start)!vars) => Life(Start)!TrailIsPath'
  <2> SUFFICES ASSUME Life(Start)!TypeOK, Life(Start)!TrailIsPath,
                      [Life(Start)!Next]_(Life(Start)!vars)
               PROVE  Life(Start)!TrailIsPath'
    OBVIOUS
  <2>1. Path(Start)'
    BY SameLife, LifeSteps, PathStays
  <2>2. Life(Start)!TrailIsPath' <=> Path(Start)'
    BY SameRules DEF Life!TrailIsPath, Path
  <2> QED
    BY <2>1, <2>2
<1> QED
  BY <1>1, <1>2, LifeTypeCorrect, PTL DEF Life!Spec

(***************************************************************************)
(* No state is entered twice                                               *)
(***************************************************************************)

Ranked ==
  /\ \A i \in 1..Len(trail) : Rank(trail[i].to) <= Rank(state)
  /\ \A i, j \in 1..Len(trail) :
       i < j => Rank(trail[i].to) < Rank(trail[j].to)

\* Every entry ranks above the ones before it.
LEMMA RankedStays ==
  ASSUME LifeTypes, Ranked, LifeStep
  PROVE  Ranked'
<1>0. \A i \in 1..Len(trail) :
        trail[i].to \in WorkflowState /\ Rank(trail[i].to) \in Nat
  <2>1. \A i \in 1..Len(trail) : trail[i] \in LifeEvent
    BY DEF LifeTypes
  <2>2. \A s \in WorkflowState : Rank(s) \in Nat
    BY DEF WorkflowState, Rank
  <2> QED
    BY <2>1, <2>2 DEF LifeEvent
<1>1. ASSUME NEW user \in Users, NEW target \in WorkflowState,
             CanTransition(state, target),
             state' = target,
             trail' = Append(trail, Transition(state, target, user))
      PROVE  Ranked'
  <2>1. /\ Rank(state) \in Nat /\ Rank(target) \in Nat
        /\ Rank(state) < Rank(target)
    BY <1>1, RankRises DEF LifeTypes
  <2>2. /\ Len(trail') = Len(trail) + 1
        /\ Len(trail) \in Nat
        /\ \A i \in 1..Len(trail) : trail'[i] = trail[i]
        /\ trail'[Len(trail) + 1].to = target
    BY <1>1 DEF LifeTypes, Transition
  <2>3. \A i \in 1..Len(trail) : Rank(trail'[i].to) < Rank(target)
    BY <1>0, <2>1, <2>2 DEF Ranked
  <2>4. \A i \in 1..Len(trail') :
          i \in 1..Len(trail) \/ trail'[i].to = target
    BY <2>2
  <2>5. \A i \in 1..Len(trail') : Rank(trail'[i].to) <= Rank(state')
    BY <1>0, <1>1, <2>1, <2>2, <2>3, <2>4
  <2>6. ASSUME NEW i \in 1..Len(trail'), NEW j \in 1..Len(trail'), i < j
        PROVE  Rank(trail'[i].to) < Rank(trail'[j].to)
    <3>1. i \in 1..Len(trail)
      BY <2>2, <2>6
    <3>2. CASE j \in 1..Len(trail)
      BY <2>2, <2>6, <3>1, <3>2 DEF Ranked
    <3>3. CASE trail'[j].to = target
      BY <2>3, <3>1, <3>3
    <3> QED
      BY <2>4, <3>2, <3>3
  <2> QED
    BY <2>5, <2>6 DEF Ranked
<1>2. ASSUME NEW user \in Users,
             state = "equipment_selected",
             state' = "windows_selected",
             trail' = trail \o
               << Transition("equipment_selected", "data_entered", user),
                  Transition("data_entered", "windows_selected", user) >>
      PROVE  Ranked'
  <2>1. /\ Rank(state) = 2 /\ Rank(state') = 4
        /\ Rank("data_entered") = 3 /\ Rank("windows_selected") = 4
    BY <1>2 DEF Rank
  <2>2. /\ Len(trail') = Len(trail) + 2
        /\ Len(trail) \in Nat
        /\ \A i \in 1..Len(trail) : trail'[i] = trail[i]
        /\ trail'[Len(trail) + 1].to = "data_entered"
        /\ trail'[Len(trail) + 2].to = "windows_selected"
    BY <1>2 DEF LifeTypes, Transition
  <2>3. \A i \in 1..Len(trail) : Rank(trail'[i].to) \in Nat
                                 /\ Rank(trail'[i].to) <= 2
    BY <1>0, <2>1, <2>2 DEF Ranked
  <2>4. \A i \in 1..Len(trail') :
          \/ i \in 1..Len(trail)
          \/ i = Len(trail) + 1 /\ Rank(trail'[i].to) = 3
          \/ i = Len(trail) + 2 /\ Rank(trail'[i].to) = 4
    BY <2>1, <2>2
  <2>5. \A i \in 1..Len(trail') : Rank(trail'[i].to) <= Rank(state')
    BY <2>1, <2>3, <2>4
  <2>6. ASSUME NEW i \in 1..Len(trail'), NEW j \in 1..Len(trail'), i < j
        PROVE  Rank(trail'[i].to) < Rank(trail'[j].to)
    <3>1. CASE j \in 1..Len(trail)
      <4>1. i \in 1..Len(trail)
        BY <2>2, <2>6, <3>1
      <4> QED
        BY <2>2, <2>6, <3>1, <4>1 DEF Ranked
    <3>2. CASE j \notin 1..Len(trail)
      BY <2>2, <2>3, <2>4, <2>6, <3>2
    <3> QED
      BY <3>1, <3>2
  <2> QED
    BY <2>5, <2>6 DEF Ranked
<1>3. CASE UNCHANGED <<state, trail>>
  BY <1>3 DEF Ranked
<1> QED
  BY <1>1, <1>2, <1>3 DEF LifeStep

LEMMA RankedOnce ==
  ASSUME NEW Start, LifeTypes, Ranked
  PROVE  Life(Start)!NoStateEnteredTwice
<1> SUFFICES ASSUME NEW i \in 1..Len(trail), NEW j \in 1..Len(trail), i # j
             PROVE  trail[i].to # trail[j].to
  BY DEF Life!NoStateEnteredTwice
<1>1. \A k \in 1..Len(trail) : Rank(trail[k].to) \in Nat
  <2>1. \A k \in 1..Len(trail) : trail[k] \in LifeEvent
    BY DEF LifeTypes
  <2>2. \A s \in WorkflowState : Rank(s) \in Nat
    BY DEF WorkflowState, Rank
  <2> QED
    BY <2>1, <2>2 DEF LifeEvent
<1>2. i < j \/ j < i
  OBVIOUS
<1>3. Rank(trail[i].to) # Rank(trail[j].to)
  BY <1>1, <1>2 DEF Ranked
<1> QED
  BY <1>3

\* No state of a job is ever entered twice.
THEOREM LifeEntersOnce ==
  ASSUME NEW Start \in WorkflowState
  PROVE  Life(Start)!Spec => []Life(Start)!NoStateEnteredTwice
<1>1. Life(Start)!Init => Ranked
  BY DEF Life!Init, Ranked
<1>2. Life(Start)!TypeOK /\ Ranked /\ [Life(Start)!Next]_(Life(Start)!vars)
        => Ranked'
  BY SameLife, LifeSteps, RankedStays
<1>3. Life(Start)!TypeOK => LifeTypes
  BY SameLife
<1>4. LifeTypes /\ Ranked => Life(Start)!NoStateEnteredTwice
  BY RankedOnce
<1> QED
  BY <1>1, <1>2, <1>3, <1>4, LifeTypeCorrect, PTL DEF Life!Spec

\* So the audit trail of a job that is prepared for its calculation tells its
\* state, from the draft on and whatever requests overlap, and names one actor
\* for each state.
THEOREM PreparedTrailTellsState ==
  Spec => [](Life("draft")!TrailIsPath /\ Life("draft")!NoStateEnteredTwice)
<1>1. Init => Path("draft") /\ Ranked
  BY DEF Init, Path, Ranked
<1>2. TypeOK /\ Path("draft") /\ Ranked /\ [Next]_vars
        => Path("draft")' /\ Ranked'
  <2> SUFFICES ASSUME TypeOK, Path("draft"), Ranked, [Next]_vars
               PROVE  Path("draft")' /\ Ranked'
    OBVIOUS
  <2>1. LifeTypes
    BY DEF TypeOK, LifeTypes, LifeEvent
  <2>2. LifeStep
    BY Moves DEF LifeStep, Move
  <2> QED
    BY <2>1, <2>2, PathStays, RankedStays
<1>3. TypeOK /\ Path("draft") /\ Ranked
        => Life("draft")!TrailIsPath /\ Life("draft")!NoStateEnteredTwice
  <2>1. TypeOK => LifeTypes
    BY DEF TypeOK, LifeTypes, LifeEvent
  <2>2. LifeTypes /\ Ranked => Life("draft")!NoStateEnteredTwice
    BY RankedOnce
  <2> QED
    BY <2>1, <2>2, SameLife
<1> QED
  BY <1>1, <1>2, <1>3, TypeCorrect, PTL DEF Spec

(***************************************************************************)
(* One way into the data, and the plan covered by the calculation          *)
(***************************************************************************)

\* The states of a job whose data have been entered.
EnteredState == {"data_entered", "windows_selected", "calculated"}

\* Once data are entered the plan is fixed, the state goes on, and windows and
\* transcriptions are only added.
LEMMA PlanKept ==
  ASSUME TypeOK, state \in EnteredState, [Next]_vars
  PROVE  /\ discipline' = discipline /\ duts' = duts /\ setpoints' = setpoints
         /\ state' \in EnteredState
         /\ state = "windows_selected" =>
              state' \in {"windows_selected", "calculated"}
         /\ state = "calculated" => state' = "calculated"
         /\ \/ transcriptions' = transcriptions
            \/ \E t \in TranscriptionRecord :
                 transcriptions' = Append(transcriptions, t)
         /\ windows \subseteq windows'
<1> USE DEF EnteredState
<1>1. CASE UNCHANGED vars
  BY <1>1 DEF vars, job, plan
<1>2. ASSUME NEW u \in Users, CallService(u)
      PROVE  /\ UNCHANGED <<discipline, plan, transcriptions, windows>>
             /\ \/ state = "data_entered" /\ state' = "windows_selected"
                \/ state = "windows_selected" /\ state' = "calculated"
  BY <1>2 DEF CallService, CaptureMetadata, SelectEquipment, Move,
     PrepareTemperatureDataEntry, EnterPressure, CompleteWindowSelection,
     CalculatePressure
<1>3. ASSUME NEW u \in Users, NEW r \in Requests, BeginRequest(u, r)
      PROVE  UNCHANGED <<job, plan, transcriptions, windows>>
  BY <1>3 DEF BeginRequest, BeginTranscription, BeginSelection, BeginCalculation
<1>4. ASSUME NEW r \in Requests, CommitTranscription(r)
      PROVE  /\ UNCHANGED <<job, plan, windows>>
             /\ \E t \in TranscriptionRecord :
                  transcriptions' = Append(transcriptions, t)
  BY <1>4, RequestFields DEF CommitTranscription, TypeOK
<1>5. ASSUME NEW r \in Requests, CommitCalculation(r)
      PROVE  /\ UNCHANGED <<discipline, plan, transcriptions, windows>>
             /\ state = "windows_selected" /\ state' = "calculated"
  BY <1>5 DEF CommitCalculation, Move
<1>6. ASSUME NEW r \in Requests, ContinueRequest(r),
             ~ CommitTranscription(r), ~ CommitCalculation(r)
      PROVE  /\ UNCHANGED <<job, plan, transcriptions>>
             /\ windows \subseteq windows'
  BY <1>6 DEF ContinueRequest, ReadLinksForSelection, CommitSelection,
     ReadLinksForCalculation, Fail
<1> QED
  BY <1>1, <1>2, <1>3, <1>4, <1>5, <1>6 DEF Next, job, plan

\* A link is never taken away.
LEMMA LinksGrow ==
  ASSUME TypeOK, NEW reading \in Readings,
         \/ transcriptions' = transcriptions
         \/ \E t \in TranscriptionRecord :
              transcriptions' = Append(transcriptions, t)
  PROVE  Links(reading) \subseteq Links(reading)'
<1>1. CASE transcriptions' = transcriptions
  BY <1>1 DEF Links
<1>2. ASSUME NEW t \in TranscriptionRecord,
             transcriptions' = Append(transcriptions, t)
      PROVE  Links(reading) \subseteq Links(reading)'
  <2>1. /\ Len(transcriptions) \in Nat
        /\ Len(transcriptions') = Len(transcriptions) + 1
        /\ \A n \in 1..Len(transcriptions) :
             transcriptions'[n] = transcriptions[n]
    BY <1>2 DEF TypeOK
  <2>2. \A n \in 1..Len(transcriptions) : n \in 1..Len(transcriptions')
    BY <2>1
  <2> QED
    BY <2>1, <2>2 DEF Links
<1> QED
  BY <1>1, <1>2

\* A window of linked readings stays one.
LEMMA QuotedKept ==
  ASSUME TypeOK, state \in EnteredState, [Next]_vars,
         NEW w \in WindowRecord, Quoted(w)
  PROVE  Quoted(w)'
<1>1. /\ duts' = duts
      /\ \A reading \in Readings : Links(reading) \subseteq Links(reading)'
  BY PlanKept, LinksGrow
<1>2. w.readings \subseteq Readings
  BY DEF WindowRecord
<1> QED
  BY <1>1, <1>2 DEF Quoted

\* A single window is a cover of one point.
LEMMA CoverOfCalculable ==
  ASSUME NEW selected, selected \subseteq WindowRecord, Calculable(selected)
  PROVE  CoverPlan({Point(window.id, window) : window \in Used(selected)})
<1> DEFINE points == {Point(window.id, window) : window \in Used(selected)}
<1> SUFFICES ASSUME NEW dut \in duts, NEW sp \in setpoints
             PROVE  Cardinality({point \in points :
                       point.dut = dut /\ point.setpoint = sp}) = 1
  BY DEF CoverPlan
<1>1. PICK w \in selected : w.dut = dut /\ w.setpoint = sp
  BY DEF Calculable, Covered, Covering
<1>2. \A v \in selected : v.dut = dut /\ v.setpoint = sp => v = w
  BY <1>1 DEF Calculable, Unambiguous
<1>3. {point \in points : point.dut = dut /\ point.setpoint = sp}
        = {Point(w.id, w)}
  BY <1>1, <1>2 DEF Used, Point
<1> QED
  BY <1>3, FS_Singleton

\* What a request in flight has read is still so when it writes.
InStep(q) ==
  /\ q.pc = "transcribing" => state \in EnteredState /\ setpoints # {}
  /\ q.pc = "selecting" => state \in EnteredState
  /\ q.pc = "selected" =>
       state \in EnteredState /\ setpoints # {} /\ Quoted(q.window)
  /\ q.pc = "calculating" => state \in {"windows_selected", "calculated"}
  /\ q.pc = "calculated" =>
       /\ state \in {"windows_selected", "calculated"}
       /\ setpoints # {} /\ CoverPlan(q.points)

\* The inductive invariant: a request admitted under one kind of data entry can
\* only write to a job of that kind, for the kind does not change meanwhile.
EntryInv ==
  /\ EnteredOneWay
  /\ CalculationCoversPlan
  /\ \A r \in Requests : InStep(req[r])

\* Other steps leave what a request has read alone.
LEMMA InStepKept ==
  ASSUME TypeOK, [Next]_vars, NEW q \in Request, InStep(q)
  PROVE  InStep(q)'
<1>1. state \notin EnteredState => q.pc = "idle"
  BY DEF InStep, Request, EnteredState
<1>2. CASE q.pc = "idle"
  BY <1>2 DEF InStep
<1>3. CASE state \in EnteredState
  <2>1. q.pc = "selected" => Quoted(q.window)'
    BY <1>3, RequestFields, QuotedKept DEF InStep
  <2>2. q.pc = "calculated" => CoverPlan(q.points)'
    BY <1>3, PlanKept DEF InStep, CoverPlan
  <2> QED
    BY <1>3, <2>1, <2>2, PlanKept DEF InStep, EnteredState
<1> QED
  BY <1>1, <1>2, <1>3

\* A step replaces the record of at most one request, which is then one of these.
LEMMA RequestSteps ==
  ASSUME TypeOK, [Next]_vars
  PROVE  \/ req' = req
         \/ \E r \in Requests : Become(r, Idle)
         \/ /\ state = "data_entered"
            /\ \E r \in Requests, t \in TranscriptionRecord :
                 Become(r, [pc |-> "transcribing", transcription |-> t])
         \/ /\ state \in {"data_entered", "windows_selected"}
            /\ \E r \in Requests : Become(r, [pc |-> "selecting"])
         \/ /\ UNCHANGED <<job, plan, transcriptions, windows>>
            /\ \E r \in Requests, w \in WindowRecord :
                 /\ req[r].pc = "selecting"
                 /\ Quoted(w)
                 /\ Become(r, [pc |-> "selected", window |-> w])
         \/ /\ state = "windows_selected"
            /\ \E r \in Requests, u \in Users :
                 Become(r, [pc |-> "calculating", user |-> u,
                            windows |-> windows])
         \/ /\ UNCHANGED <<job, plan, transcriptions, windows>>
            /\ \E r \in Requests, u \in Users :
                 /\ req[r].pc = "calculating"
                 /\ Calculable(req[r].windows)
                 /\ Become(r, [pc |-> "calculated", user |-> u,
                               points |-> {Point(window.id, window) :
                                             window \in Used(req[r].windows)}])
<1>1. CASE UNCHANGED vars
  BY <1>1 DEF vars
<1>2. ASSUME NEW u \in Users, CallService(u) PROVE req' = req
  BY <1>2 DEF CallService
<1>3. ASSUME NEW u \in Users, NEW r \in Requests,
             NEW c \in CalibrationFiles, NEW v \in VerificationFiles,
             NEW times \in SUBSET Times,
             BeginTranscription(u, r, Transcription(c, v, times))
      PROVE  /\ state = "data_entered"
             /\ \E t \in TranscriptionRecord :
                  Become(r, [pc |-> "transcribing", transcription |-> t])
  BY <1>3 DEF BeginTranscription, Transcription, TranscriptionRecord
<1>4. ASSUME NEW r \in Requests, NEW id \in WindowIds, NEW dut \in duts,
             NEW sp \in Setpoints, NEW first \in Times, NEW last \in Times,
             ReadLinksForSelection(r, id, dut, sp, first, last)
      PROVE  /\ UNCHANGED <<job, plan, transcriptions, windows>>
             /\ \E w \in WindowRecord :
                  /\ req[r].pc = "selecting"
                  /\ Quoted(w)
                  /\ Become(r, [pc |-> "selected", window |-> w])
  <2> DEFINE selected == {reading \in Readings :
                            /\ Links(reading) # {}
                            /\ reading.channel = dut
                            /\ first <= reading.time /\ reading.time <= last}
             w == Window(id, dut, sp, selected)
  <2>1. /\ w \in WindowRecord
        /\ w.readings = selected
        /\ w.dut = dut
    BY DEF Window, WindowRecord, TypeOK
  <2>2. selected # {} /\ Become(r, [pc |-> "selected", window |-> w])
    BY <1>4 DEF ReadLinksForSelection
  <2>3. Quoted(w)
    BY <2>1, <2>2 DEF Quoted
  <2> HIDE DEF selected, w
  <2> QED
    BY <1>4, <2>1, <2>2, <2>3 DEF ReadLinksForSelection
<1>5. ASSUME NEW r \in Requests, ReadLinksForCalculation(r)
      PROVE  /\ UNCHANGED <<job, plan, transcriptions, windows>>
             /\ \E u \in Users :
                  /\ req[r].pc = "calculating"
                  /\ Calculable(req[r].windows)
                  /\ Become(r, [pc |-> "calculated", user |-> u,
                                points |-> {Point(window.id, window) :
                                              window \in Used(req[r].windows)}])
  BY <1>5, RequestFields DEF ReadLinksForCalculation, TypeOK
<1>6. ASSUME NEW r \in Requests,
             \/ CommitTranscription(r) \/ CommitSelection(r)
             \/ CommitCalculation(r) \/ Fail(r)
      PROVE  Become(r, Idle)
  BY <1>6 DEF CommitTranscription, CommitSelection, CommitCalculation, Fail
<1>7. ASSUME NEW u \in Users, NEW r \in Requests,
             BeginSelection(u, r) \/ BeginCalculation(u, r)
      PROVE  \/ /\ state \in {"data_entered", "windows_selected"}
                /\ Become(r, [pc |-> "selecting"])
             \/ /\ state = "windows_selected"
                /\ Become(r, [pc |-> "calculating", user |-> u,
                              windows |-> windows])
  BY <1>7 DEF BeginSelection, BeginCalculation
<1> QED
  BY <1>1, <1>2, <1>3, <1>4, <1>5, <1>6, <1>7
  DEF Next, BeginRequest, ContinueRequest

\* Requests stay in step with the job.
LEMMA RequestsKept ==
  ASSUME TypeOK, EntryInv, [Next]_vars
  PROVE  \A r \in Requests : InStep(req[r])'
<1> USE DEF EnteredState
<1>1. \A r \in Requests : req[r] \in Request /\ InStep(req[r])
  BY DEF TypeOK, EntryInv
<1>2. \A q \in Request : InStep(q) => InStep(q)'
  BY InStepKept
<1>3. ASSUME NEW r \in Requests, NEW q \in Request, Become(r, q), InStep(q)'
      PROVE  \A p \in Requests : InStep(req[p])'
  <2>1. req'[r] = q /\ \A p \in Requests : p # r => req'[p] = req[p]
    BY <1>3, BecomeType DEF TypeOK
  <2> QED
    BY <1>1, <1>2, <1>3, <2>1 DEF InStep
<1>4. CASE req' = req
  BY <1>1, <1>2, <1>4 DEF InStep
<1>5. ASSUME NEW r \in Requests, Become(r, Idle)
      PROVE  \A p \in Requests : InStep(req[p])'
  <2>1. Idle \in Request /\ InStep(Idle)'
    BY RequestRecords DEF InStep, Idle
  <2> QED
    BY <1>3, <1>5, <2>1
<1>6. ASSUME state = "data_entered",
             NEW r \in Requests, NEW t \in TranscriptionRecord,
             Become(r, [pc |-> "transcribing", transcription |-> t])
      PROVE  \A p \in Requests : InStep(req[p])'
  <2> DEFINE q == [pc |-> "transcribing", transcription |-> t]
  <2>1. setpoints # {}
    BY <1>6 DEF EntryInv, EnteredOneWay
  <2>2. q \in Request /\ InStep(q)'
    BY <1>6, <2>1, RequestRecords, PlanKept DEF InStep
  <2> HIDE DEF q
  <2> QED
    BY <1>3, <1>6, <2>2 DEF q
<1>7. ASSUME state \in {"data_entered", "windows_selected"},
             NEW r \in Requests, Become(r, [pc |-> "selecting"])
      PROVE  \A p \in Requests : InStep(req[p])'
  <2> DEFINE q == [pc |-> "selecting"]
  <2>1. q \in Request /\ InStep(q)'
    BY <1>7, RequestRecords, PlanKept DEF InStep
  <2> HIDE DEF q
  <2> QED
    BY <1>3, <1>7, <2>1 DEF q
<1>8. ASSUME UNCHANGED <<job, plan, transcriptions, windows>>,
             NEW r \in Requests, NEW w \in WindowRecord,
             req[r].pc = "selecting", Quoted(w),
             Become(r, [pc |-> "selected", window |-> w])
      PROVE  \A p \in Requests : InStep(req[p])'
  <2> DEFINE q == [pc |-> "selected", window |-> w]
  <2>1. state \in EnteredState
    BY <1>1, <1>8 DEF InStep
  <2>2. PICK reading \in Readings : Links(reading) # {}
    BY <1>8 DEF Quoted, WindowRecord
  <2>3. transcriptions # <<>>
    BY <2>2 DEF Links
  <2>4. setpoints # {}
    BY <2>1, <2>3 DEF EntryInv, EnteredOneWay
  <2>5. q \in Request
    BY RequestRecords
  <2>6. Quoted(w)'
    BY <1>8, <2>1, QuotedKept
  <2>7. InStep(q)'
    BY <1>8, <2>1, <2>4, <2>6 DEF InStep, job, plan
  <2> HIDE DEF q
  <2> QED
    BY <1>3, <1>8, <2>5, <2>7 DEF q
<1>9. ASSUME state = "windows_selected",
             NEW r \in Requests, NEW u \in Users,
             Become(r, [pc |-> "calculating", user |-> u, windows |-> windows])
      PROVE  \A p \in Requests : InStep(req[p])'
  <2>1. PICK selected \in SUBSET WindowRecord : selected = windows
    BY DEF TypeOK
  <2> DEFINE q == [pc |-> "calculating", user |-> u, windows |-> selected]
  <2>2. q \in Request /\ InStep(q)'
    BY <1>9, RequestRecords, PlanKept DEF InStep
  <2>3. Become(r, q)
    BY <1>9, <2>1
  <2> HIDE DEF q
  <2> QED
    BY <1>3, <2>2, <2>3
<1>10. ASSUME UNCHANGED <<job, plan, transcriptions, windows>>,
              NEW r \in Requests, NEW u \in Users,
              req[r].pc = "calculating", Calculable(req[r].windows),
              Become(r, [pc |-> "calculated", user |-> u,
                         points |-> {Point(window.id, window) :
                                       window \in Used(req[r].windows)}])
       PROVE  \A p \in Requests : InStep(req[p])'
  <2>1. req[r].windows \subseteq WindowRecord
    BY <1>1, <1>10, RequestFields
  <2>2. PICK points \in SUBSET PointRecord :
          points = {Point(window.id, window) : window \in Used(req[r].windows)}
    <3>1. \A window \in Used(req[r].windows) :
            Point(window.id, window) \in PointRecord
      BY <2>1, PointType DEF Used, WindowRecord
    <3> QED
      BY <3>1
  <2> DEFINE q == [pc |-> "calculated", user |-> u, points |-> points]
  <2>3. CoverPlan(points) /\ setpoints # {}
    BY <1>10, <2>1, <2>2, CoverOfCalculable DEF Calculable
  <2>4. CoverPlan(points)'
    BY <1>10, <2>3 DEF CoverPlan, plan
  <2>5. state \in {"windows_selected", "calculated"}
    BY <1>1, <1>10 DEF InStep
  <2>6. q \in Request
    BY RequestRecords
  <2>7. InStep(q)'
    BY <1>10, <2>3, <2>4, <2>5 DEF InStep, job, plan
  <2>8. Become(r, q)
    BY <1>10, <2>2
  <2> HIDE DEF q
  <2> QED
    BY <1>3, <2>6, <2>7, <2>8
<1> QED
  BY <1>4, <1>5, <1>6, <1>7, <1>8, <1>9, <1>10, RequestSteps

\* Windows and transcriptions are added to a job with setpoints alone.
LEMMA Added ==
  ASSUME TypeOK, EntryInv, state \in EnteredState, [Next]_vars
  PROVE  /\ \/ windows' = windows
            \/ \E w \in WindowRecord :
                 setpoints # {} /\ Quoted(w) /\ windows' = windows \cup {w}
         /\ transcriptions' = transcriptions \/ setpoints # {}
<1> USE DEF EnteredState
<1>1. CASE UNCHANGED vars
  BY <1>1 DEF vars
<1>2. ASSUME NEW u \in Users, CallService(u)
      PROVE  UNCHANGED <<transcriptions, windows>>
  BY <1>2 DEF CallService, CaptureMetadata, SelectEquipment,
     PrepareTemperatureDataEntry, EnterPressure, CompleteWindowSelection,
     CalculatePressure
<1>3. ASSUME NEW u \in Users, NEW r \in Requests, BeginRequest(u, r)
      PROVE  UNCHANGED <<transcriptions, windows>>
  BY <1>3 DEF BeginRequest, BeginTranscription, BeginSelection, BeginCalculation
<1>4. ASSUME NEW r \in Requests, CommitTranscription(r)
      PROVE  windows' = windows /\ setpoints # {}
  BY <1>4 DEF CommitTranscription, EntryInv, InStep
<1>5. ASSUME NEW r \in Requests, CommitSelection(r)
      PROVE  /\ transcriptions' = transcriptions
             /\ \E w \in WindowRecord :
                  setpoints # {} /\ Quoted(w) /\ windows' = windows \cup {w}
  BY <1>5, RequestFields DEF CommitSelection, EntryInv, InStep, TypeOK
<1>6. ASSUME NEW r \in Requests, ContinueRequest(r),
             ~ CommitTranscription(r), ~ CommitSelection(r)
      PROVE  UNCHANGED <<transcriptions, windows>>
  BY <1>6 DEF ContinueRequest, ReadLinksForSelection,
     ReadLinksForCalculation, CommitCalculation, Fail
<1> QED
  BY <1>1, <1>2, <1>3, <1>4, <1>5, <1>6 DEF Next

\* A job is entered one way.
LEMMA EntryKept ==
  ASSUME TypeOK, EntryInv, [Next]_vars
  PROVE  EnteredOneWay'
<1> DEFINE Fresh ==
             /\ state \in {"draft", "metadata_complete", "equipment_selected"}
             /\ duts = {} /\ setpoints = {} /\ transcriptions = <<>>
             /\ windows = {}
<1>1. ASSUME Fresh, UNCHANGED vars PROVE EnteredOneWay'
  BY <1>1 DEF vars, job, plan, EnteredOneWay
<1>2. ASSUME Fresh, NEW u \in Users, CallService(u) PROVE EnteredOneWay'
  <2>1. ASSUME NEW c \in CalibrationFiles, NEW planned \in SUBSET Setpoints,
               PrepareTemperatureDataEntry(u, c, planned)
        PROVE  EnteredOneWay'
    BY <1>2, <2>1
    DEF PrepareTemperatureDataEntry, CalibrationFiles, Move, EnteredOneWay
  <2>2. ASSUME NEW dut \in Channels, NEW id \in WindowIds, NEW sp \in Setpoints,
               EnterPressure(u, dut, Window(id, dut, sp, {}))
        PROVE  EnteredOneWay'
    <3>1. Window(id, dut, sp, {}).dut = dut
      BY DEF Window
    <3> QED
      BY <1>2, <2>2, <3>1 DEF EnterPressure, EnteredOneWay
  <2>3. ASSUME CaptureMetadata(u) \/ SelectEquipment(u) PROVE EnteredOneWay'
    BY <1>2, <2>3 DEF CaptureMetadata, SelectEquipment, Move, plan, EnteredOneWay
  <2> QED
    BY <1>2, <2>1, <2>2, <2>3
    DEF CallService, CompleteWindowSelection, CalculatePressure
<1>3. ASSUME Fresh, NEW u \in Users, NEW r \in Requests, BeginRequest(u, r)
      PROVE  EnteredOneWay'
  BY <1>3 DEF BeginRequest, BeginTranscription, BeginSelection,
     BeginCalculation, job, plan, EnteredOneWay
<1>4. ASSUME Fresh, NEW r \in Requests, ContinueRequest(r) PROVE FALSE
  <2>1. req[r] \in Request /\ InStep(req[r])
    BY DEF TypeOK, EntryInv
  <2>2. req[r].pc = "idle"
    BY <1>4, <2>1 DEF InStep, EnteredState, Request
  <2>3. req[r] = Idle
    BY <2>1, <2>2, RequestFields
  <2> QED
    BY <1>4, <2>2, <2>3 DEF ContinueRequest, CommitTranscription,
       ReadLinksForSelection, CommitSelection, ReadLinksForCalculation,
       CommitCalculation, Fail
<1>5. CASE /\ state \in EnteredState
           /\ duts # {} /\ setpoints # {}
           /\ \A window \in windows : Quoted(window)
  <2>1. /\ duts' # {} /\ setpoints' # {}
        /\ state' \in EnteredState
    BY <1>5, PlanKept
  <2>2. \A w \in WindowRecord : Quoted(w) => Quoted(w)'
    BY <1>5, QuotedKept
  <2>3. \A w \in windows' : w \in WindowRecord /\ Quoted(w)
    BY <1>5, Added DEF TypeOK
  <2>4. \A w \in windows' : Quoted(w)'
    BY <2>2, <2>3
  <2> QED
    BY <2>1, <2>4 DEF EnteredOneWay, EnteredState
<1>6. CASE /\ state \in {"windows_selected", "calculated"}
           /\ discipline = "pressure"
           /\ setpoints = {} /\ transcriptions = <<>>
           /\ \E window \in windows : windows = {window} /\ duts = {window.dut}
  <2>1. windows' = windows /\ transcriptions' = transcriptions
    BY <1>6, Added DEF EnteredState
  <2> QED
    BY <1>6, <2>1, PlanKept DEF EnteredOneWay, EnteredState
<1> HIDE DEF Fresh
<1>7. CASE Fresh
  BY <1>1, <1>2, <1>3, <1>4, <1>7 DEF Next
<1> QED
  BY <1>5, <1>6, <1>7 DEF Fresh, EntryInv, EnteredOneWay, EnteredState

\* The points of a calculation cover the plan.
LEMMA CoverageKept ==
  ASSUME TypeOK, EntryInv, [Next]_vars
  PROVE  CalculationCoversPlan'
<1> SUFFICES ASSUME discipline' = "temperature", state' = "calculated"
             PROVE  CoverPlan(summaries)'
  BY DEF CalculationCoversPlan
<1>1. CASE UNCHANGED vars
  BY <1>1 DEF vars, job, plan, EntryInv, CalculationCoversPlan, CoverPlan
<1>2. ASSUME NEW u \in Users, CallService(u) PROVE FALSE
  BY <1>2 DEF CallService, CaptureMetadata, SelectEquipment, Move,
     PrepareTemperatureDataEntry, EnterPressure, CompleteWindowSelection,
     CalculatePressure
<1>3. ASSUME NEW r \in Requests, CommitCalculation(r)
      PROVE  CoverPlan(summaries)'
  <2>1. CoverPlan(req[r].points)
    BY <1>3 DEF EntryInv, InStep, CommitCalculation
  <2> QED
    BY <1>3, <2>1 DEF CommitCalculation, CoverPlan, plan
<1>4. ASSUME NEW u \in Users, NEW r \in Requests, BeginRequest(u, r)
      PROVE  UNCHANGED <<job, plan, summaries>>
  BY <1>4 DEF BeginRequest, BeginTranscription, BeginSelection, BeginCalculation
<1>5. ASSUME NEW r \in Requests, ContinueRequest(r), ~ CommitCalculation(r)
      PROVE  UNCHANGED <<job, plan, summaries>>
  BY <1>5 DEF ContinueRequest, CommitTranscription, ReadLinksForSelection,
     CommitSelection, ReadLinksForCalculation, Fail
<1>6. CASE UNCHANGED <<job, plan, summaries>>
  BY <1>6 DEF job, plan, EntryInv, CalculationCoversPlan, CoverPlan
<1> QED
  BY <1>1, <1>2, <1>3, <1>4, <1>5, <1>6 DEF Next

\* The inductive invariant holds.
LEMMA EntryInvariant == Spec => []EntryInv
<1>1. Init => EntryInv
  BY DEF Init, EntryInv, EnteredOneWay, CalculationCoversPlan, InStep, Idle
<1>2. TypeOK /\ EntryInv /\ [Next]_vars => EntryInv'
  <2> SUFFICES ASSUME TypeOK, EntryInv, [Next]_vars PROVE EntryInv'
    OBVIOUS
  <2>1. Requests' = Requests
    OBVIOUS
  <2> QED
    BY RequestsKept, EntryKept, CoverageKept DEF EntryInv
<1> QED
  BY <1>1, <1>2, TypeCorrect, PTL DEF Spec

\* Every job is entered one way, however late a request writes to it.
THEOREM OneWayIn == Spec => []EnteredOneWay
<1>1. EntryInv => EnteredOneWay
  BY DEF EntryInv
<1> QED
  BY <1>1, EntryInvariant, PTL

\* A calculated temperature job has one point for each DUT and planned setpoint.
THEOREM PlanCovered == Spec => []CalculationCoversPlan
<1>1. EntryInv => CalculationCoversPlan
  BY DEF EntryInv
<1> QED
  BY <1>1, EntryInvariant, PTL

(***************************************************************************)
(* While requests do not overlap                                           *)
(***************************************************************************)

\* What the only request in flight has read is all there is.
InTurn(q) ==
  /\ q.pc = "transcribing" => state = "data_entered" /\ transcriptions = <<>>
  /\ q.pc \in {"selecting", "selected"} =>
       state \in {"data_entered", "windows_selected"}
  /\ q.pc = "calculating" => state = "windows_selected" /\ q.windows = windows
  /\ q.pc = "calculated" =>
       /\ state = "windows_selected"
       /\ \A window \in Used(windows) : Point(window.id, window) \in q.points

\* The inductive invariant of a job whose requests take turns.
TurnInv ==
  /\ \A r, p \in Requests : req[r] # Idle /\ req[p] # Idle => r = p
  /\ \A r \in Requests : InTurn(req[r])
  /\ Len(transcriptions) <= 1
  /\ discipline = "temperature" /\ state = "calculated" =>
       \A window \in Used(windows) : Point(window.id, window) \in summaries

SerialInv == ~ overlapped => TurnInv

\* Idle asks for nothing.
LEMMA IdleInTurn == InTurn(Idle) /\ InTurn(Idle)'
  BY DEF InTurn, Idle

\* A step that overlaps no request keeps the turns: a service or a request that
\* begins found none in flight, and one that continues is alone.
LEMMA TurnKept ==
  ASSUME TypeOK, TurnInv, ~ overlapped', Next
  PROVE  TurnInv'
<1>0. /\ \A r \in Requests : req[r] \in Request /\ InTurn(req[r])
      /\ req \in [Requests -> Request]
      /\ Len(transcriptions) \in Nat
      /\ Len(transcriptions) <= 1
  BY DEF TurnInv, TypeOK
<1>1. ASSUME NEW u \in Users, CallService(u) PROVE TurnInv'
  <2>1. req' = req /\ \A r \in Requests : req[r] = Idle
    BY <1>1 DEF CallService, NoteOverlap
  <2>2. /\ transcriptions' = transcriptions
        /\ state' = "calculated" => discipline' = "pressure"
    BY <1>1 DEF CallService, CaptureMetadata, SelectEquipment, Move,
       PrepareTemperatureDataEntry, EnterPressure, CompleteWindowSelection,
       CalculatePressure
  <2>3. \A r \in Requests : InTurn(req[r])'
    BY <2>1, IdleInTurn DEF InTurn
  <2> QED
    BY <1>0, <2>1, <2>2, <2>3 DEF TurnInv
<1>2. ASSUME NEW u \in Users, NEW r \in Requests, BeginRequest(u, r)
      PROVE  TurnInv'
  <2>1. \A p \in Requests : req[p] = Idle
    BY <1>2 DEF BeginRequest, NoteOverlap
  <2>2. UNCHANGED <<job, plan, transcriptions, windows, summaries>>
    BY <1>2 DEF BeginRequest, BeginTranscription, BeginSelection,
       BeginCalculation
  <2>3. \A p \in Requests : p # r => req'[p] = Idle
    BY <1>0, <1>2, <2>1 DEF BeginRequest, BeginTranscription, BeginSelection,
       BeginCalculation, Become
  <2>4. InTurn(req[r])'
    <3>1. ASSUME NEW t, BeginTranscription(u, r, t) PROVE InTurn(req[r])'
      <4>1. /\ req'[r] = [pc |-> "transcribing", transcription |-> t]
            /\ state' = "data_entered" /\ transcriptions' = <<>>
        BY <1>0, <2>2, <3>1 DEF BeginTranscription, Become, job
      <4> QED
        BY <4>1 DEF InTurn
    <3>2. ASSUME BeginSelection(u, r) PROVE InTurn(req[r])'
      <4>1. /\ req'[r] = [pc |-> "selecting"]
            /\ state' \in {"data_entered", "windows_selected"}
        BY <1>0, <2>2, <3>2 DEF BeginSelection, Become, job
      <4> QED
        BY <4>1 DEF InTurn
    <3>3. ASSUME BeginCalculation(u, r) PROVE InTurn(req[r])'
      <4>1. /\ req'[r] = [pc |-> "calculating", user |-> u, windows |-> windows]
            /\ state' = "windows_selected" /\ windows' = windows
        BY <1>0, <2>2, <3>3 DEF BeginCalculation, Become, job
      <4> QED
        BY <4>1 DEF InTurn
    <3> QED
      BY <1>2, <3>1, <3>2, <3>3 DEF BeginRequest
  <2>5. \A p \in Requests : InTurn(req[p])'
    BY <2>3, <2>4, IdleInTurn DEF InTurn
  <2>6. /\ Len(transcriptions') <= 1
        /\ discipline' = "temperature" /\ state' = "calculated" =>
             \A window \in Used(windows)' : Point(window.id, window) \in summaries'
    BY <2>2 DEF TurnInv, Used, job, plan
  <2> QED
    BY <2>3, <2>5, <2>6 DEF TurnInv
<1>3. ASSUME NEW r \in Requests, ContinueRequest(r) PROVE TurnInv'
  <2>1. req[r] # Idle
    <3>1. Fail(r) => req[r] # Idle
      BY DEF Fail
    <3>2. ~ Fail(r) => req[r].pc # "idle"
      BY <1>3 DEF ContinueRequest, CommitTranscription, ReadLinksForSelection,
         CommitSelection, ReadLinksForCalculation, CommitCalculation
    <3> QED
      BY <3>1, <3>2 DEF Idle
  <2>2. \A p \in Requests : p # r => req[p] = Idle
    BY <2>1 DEF TurnInv
  <2>3. \E q : Become(r, q)
    BY <1>3 DEF ContinueRequest, CommitTranscription, ReadLinksForSelection,
       CommitSelection, ReadLinksForCalculation, CommitCalculation, Fail
  <2>4. \A p \in Requests : p # r => req'[p] = Idle
    BY <1>0, <2>2, <2>3 DEF Become
  <2>5. \A p \in Requests : p # r => InTurn(req[p])'
    BY <2>4, IdleInTurn DEF InTurn
  <2>6. ASSUME InTurn(req[r])', Len(transcriptions') <= 1,
               discipline' = "temperature" /\ state' = "calculated" =>
                 \A window \in Used(windows)' :
                   Point(window.id, window) \in summaries'
        PROVE  TurnInv'
    BY <2>4, <2>5, <2>6 DEF TurnInv
  <2>7. ASSUME Become(r, Idle) PROVE InTurn(req[r])'
    <3>1. req'[r] = Idle
      BY <1>0, <2>7 DEF Become
    <3> QED
      BY <3>1, IdleInTurn DEF InTurn
  <2>8. ASSUME CommitTranscription(r) PROVE TurnInv'
    <3>1. transcriptions = <<>> /\ state = "data_entered"
      BY <1>0, <2>8 DEF CommitTranscription, InTurn
    <3>2. Len(transcriptions') <= 1
      BY <2>8, <3>1 DEF CommitTranscription
    <3> QED
      BY <2>6, <2>7, <2>8, <3>1, <3>2 DEF CommitTranscription, job
  <2>9. ASSUME NEW id, NEW dut, NEW sp, NEW first, NEW last,
               ReadLinksForSelection(r, id, dut, sp, first, last)
        PROVE  TurnInv'
    <3>1. PICK w : Become(r, [pc |-> "selected", window |-> w])
      BY <2>9 DEF ReadLinksForSelection
    <3>2. UNCHANGED <<job, plan, transcriptions, windows, summaries>>
      BY <2>9 DEF ReadLinksForSelection
    <3>3. /\ state \in {"data_entered", "windows_selected"}
          /\ req'[r] = [pc |-> "selected", window |-> w]
      BY <1>0, <2>9, <3>1 DEF ReadLinksForSelection, InTurn, Become
    <3>4. InTurn(req[r])'
      BY <3>2, <3>3 DEF InTurn, job
    <3> QED
      BY <2>6, <3>2, <3>3, <3>4, <1>0 DEF job
  <2>10. ASSUME CommitSelection(r) PROVE TurnInv'
    <3>1. state \in {"data_entered", "windows_selected"}
      BY <1>0, <2>10 DEF CommitSelection, InTurn
    <3> QED
      BY <1>0, <2>6, <2>7, <2>10, <3>1 DEF CommitSelection, job
  <2>11. ASSUME ReadLinksForCalculation(r) PROVE TurnInv'
    <3>1. PICK points : points = {Point(window.id, window) :
                                    window \in Used(req[r].windows)}
      OBVIOUS
    <3>2. PICK u : Become(r, [pc |-> "calculated", user |-> u,
                              points |-> points])
      BY <2>11, <3>1 DEF ReadLinksForCalculation
    <3>3. UNCHANGED <<job, plan, transcriptions, windows, summaries>>
      BY <2>11 DEF ReadLinksForCalculation
    <3>4. /\ state = "windows_selected" /\ req[r].windows = windows
          /\ req'[r] = [pc |-> "calculated", user |-> u, points |-> points]
      BY <1>0, <2>11, <3>2 DEF ReadLinksForCalculation, InTurn, Become
    <3>5. \A window \in Used(windows)' : Point(window.id, window) \in points
      BY <3>1, <3>3, <3>4 DEF Used, plan
    <3>6. InTurn(req[r])'
      BY <3>3, <3>4, <3>5 DEF InTurn, job
    <3> QED
      BY <2>6, <3>3, <3>4, <3>6, <1>0 DEF job
  <2>12. ASSUME CommitCalculation(r) PROVE TurnInv'
    <3>1. \A window \in Used(windows) :
            Point(window.id, window) \in req[r].points
      BY <1>0, <2>12 DEF CommitCalculation, InTurn
    <3>2. \A window \in Used(windows)' :
            Point(window.id, window) \in summaries'
      BY <2>12, <3>1 DEF CommitCalculation, Used, plan
    <3> QED
      BY <1>0, <2>6, <2>7, <2>12, <3>2 DEF CommitCalculation
  <2>13. ASSUME Fail(r) PROVE TurnInv'
    <3>1. Used(windows)' = Used(windows)
      BY <2>13 DEF Fail, Used, plan
    <3> QED
      BY <1>0, <2>6, <2>7, <2>13, <3>1 DEF Fail, job, TurnInv
  <2> QED
    BY <1>3, <2>8, <2>9, <2>10, <2>11, <2>12, <2>13 DEF ContinueRequest
<1> QED
  BY <1>1, <1>2, <1>3 DEF Next

\* Requests that have taken turns still do, until one does not.
LEMMA SerialInvariant == Spec => []SerialInv
<1>1. Init => SerialInv
  BY IdleInTurn DEF Init, SerialInv, TurnInv
<1>2. TypeOK /\ SerialInv /\ [Next]_vars => SerialInv'
  <2> SUFFICES ASSUME TypeOK, SerialInv, [Next]_vars, ~ overlapped'
               PROVE  TurnInv'
    BY DEF SerialInv
  <2>1. ~ overlapped
    BY DEF Next, CallService, BeginRequest, ContinueRequest, NoteOverlap, vars
  <2>2. TurnInv
    BY <2>1 DEF SerialInv
  <2>3. CASE UNCHANGED vars
    BY <2>2, <2>3 DEF TurnInv, InTurn, Used, vars, job, plan
  <2> QED
    BY <2>2, <2>3, TurnKept
<1> QED
  BY <1>1, <1>2, TypeCorrect, PTL DEF Spec

\* No reading has two references, while requests do not overlap.
THEOREM LinkedOnceWhileInTurn == Spec => []LinkedOnceInTurn
<1>1. TypeOK /\ SerialInv => LinkedOnceInTurn
  <2> SUFFICES ASSUME TypeOK, SerialInv, ~ overlapped, NEW reading \in Readings
               PROVE  Cardinality(Links(reading)) <= 1
    BY DEF LinkedOnceInTurn, LinkedOnce
  <2>1. Len(transcriptions) \in Nat /\ Len(transcriptions) <= 1
    BY DEF TypeOK, SerialInv, TurnInv
  <2>2. Links(reading) = {} \/ Links(reading) = {1}
    BY <2>1 DEF Links
  <2>3. Cardinality({}) = 0 /\ Cardinality({1}) = 1
    BY FS_EmptySet, FS_Singleton
  <2> QED
    BY <2>2, <2>3
<1> QED
  BY <1>1, TypeCorrect, SerialInvariant, PTL

\* Every window at a planned setpoint is in the calculation of a temperature job,
\* while requests do not overlap.
THEOREM CalculatedFromAllWindows == Spec => []CalculatedFromAllWindowsInTurn
<1>1. SerialInv => CalculatedFromAllWindowsInTurn
  BY DEF SerialInv, TurnInv, CalculatedFromAllWindowsInTurn
<1> QED
  BY <1>1, SerialInvariant, PTL

\* Windows that were complete stay so: none is taken back and the plan is fixed.
CompletedIsCovered ==
  state = "windows_selected" /\ setpoints # {} => Covered(windows)

LEMMA CompletedInvariant == Spec => []CompletedIsCovered
<1>1. Init => CompletedIsCovered
  BY DEF Init, CompletedIsCovered
<1>2. TypeOK /\ EntryInv /\ CompletedIsCovered /\ [Next]_vars
        => CompletedIsCovered'
  <2> SUFFICES ASSUME TypeOK, EntryInv, CompletedIsCovered, [Next]_vars,
                      state' = "windows_selected", setpoints' # {}
               PROVE  Covered(windows)'
    BY DEF CompletedIsCovered
  <2>1. CASE state = "windows_selected"
    <3>1. duts' = duts /\ setpoints' = setpoints /\ windows \subseteq windows'
      BY <2>1, PlanKept DEF EnteredState
    <3>2. Covered(windows)
      BY <2>1, <3>1 DEF CompletedIsCovered
    <3> QED
      BY <3>1, <3>2 DEF Covered, Covering
  <2>2. CASE state # "windows_selected"
    <3>1. PICK u \in Users : CallService(u)
      BY <2>2, ZenonT(30) DEF Next, BeginRequest, BeginTranscription, BeginSelection,
         BeginCalculation, ContinueRequest, CommitTranscription,
         ReadLinksForSelection, CommitSelection, ReadLinksForCalculation,
         CommitCalculation, Fail, vars, job
    <3>2. ASSUME state = "equipment_selected" PROVE FALSE
      <4>1. setpoints = {}
        BY <3>2 DEF EntryInv, EnteredOneWay
      <4> QED
        BY <3>1, <3>2, <4>1 DEF CallService, CaptureMetadata, SelectEquipment,
           Move, PrepareTemperatureDataEntry, EnterPressure,
           CompleteWindowSelection, CalculatePressure
    <3>3. CompleteWindowSelection(u)
      BY <3>1, <3>2 DEF CallService, CaptureMetadata, SelectEquipment, Move,
         PrepareTemperatureDataEntry, EnterPressure, CalculatePressure
    <3> QED
      BY <3>3 DEF CompleteWindowSelection, plan, Covered, Covering
  <2> QED
    BY <2>1, <2>2
<1> QED
  BY <1>1, <1>2, TypeCorrect, EntryInvariant, PTL DEF Spec

\* A job whose windows are complete can be calculated, unless the operator
\* selected two windows for one point or one of a single reading.
THEOREM CompletedIsCalculable == Spec => []CompletedIsCalculableInTurn
<1>1. TypeOK /\ EntryInv /\ SerialInv /\ CompletedIsCovered
        => CompletedIsCalculableInTurn
  <2> SUFFICES ASSUME TypeOK, EntryInv, SerialInv, CompletedIsCovered,
                      ~ overlapped,
                      state = "windows_selected", setpoints # {},
                      Unambiguous(windows),
                      \A window \in windows : Cardinality(window.readings) >= 2
               PROVE  Calculable(windows)
    BY DEF CompletedIsCalculableInTurn
  <2>1. /\ duts # {}
        /\ \A window \in windows : Quoted(window)
    BY DEF EntryInv, EnteredOneWay
  <2>2. Len(transcriptions) \in Nat /\ Len(transcriptions) <= 1
    BY DEF TypeOK, SerialInv, TurnInv
  <2>3. ASSUME NEW reading, Links(reading) # {}
        PROVE  Cardinality(Links(reading)) = 1
    <3>1. Links(reading) = {1}
      BY <2>2, <2>3 DEF Links
    <3> QED
      BY <3>1, FS_Singleton
  <2>4. \A window \in windows : Referenced(window)
    BY <2>1, <2>3 DEF Quoted, Referenced
  <2>5. Covered(windows)
    BY DEF CompletedIsCovered
  <2> QED
    BY <2>1, <2>4, <2>5 DEF Calculable, Used
<1> QED
  BY <1>1, TypeCorrect, EntryInvariant, SerialInvariant, CompletedInvariant, PTL
================================================================================
