--------------------------- MODULE Certificates_proofs ---------------------------
(***************************************************************************)
(* What stands behind a certificate: the life of its job (JobLifecycle),   *)
(* its number (CertificateNumbers) and what it says (CertificateContent).  *)
(*                                                                         *)
(* The job: for any users, a job that began as a draft is released after   *)
(* its calculation and every review.                                       *)
(*                                                                         *)
(* The numbers: for any set of requests, values, paddings and typed        *)
(* numbers, first whatever overlaps, then for requests that come one at a  *)
(* time.                                                                   *)
(*                                                                         *)
(* The content: for any jobs, plans of points, devices, texts, page        *)
(* lengths and line lengths, and every unit of the numbers. What is        *)
(* recursive (totals, the order of rows, the flat sequence of pages) is    *)
(* taken apart by UpTo: the steps that a claim holds for, as a set.        *)
(***************************************************************************)
EXTENDS JobLifecycle, CertificateNumbers, CertificateContent, SequenceTheorems,
        WellFoundedInduction, TLAPS

(***************************************************************************)
(* The life of the job                                                     *)
(***************************************************************************)

\* The state and the trail of a job keep their types.
LEMMA JobTypesStay == TypeOK /\ [Next]_vars => TypeOK'
<1> SUFFICES ASSUME TypeOK, [Next]_vars
             PROVE  TypeOK'
  OBVIOUS
<1>1. ASSUME NEW user \in Users, NEW target \in WorkflowState, Move(user, target)
      PROVE  TypeOK'
  <2>1. Transition(state, target, user) \in TransitionEvent
    BY DEF TypeOK, Transition, TransitionEvent
  <2> QED
    BY <1>1, <2>1 DEF TypeOK, Move
<1>2. ASSUME NEW user \in Users, state = "equipment_selected",
             MoveThrough(user, "data_entered", "windows_selected")
      PROVE  TypeOK'
  <2>1. /\ Transition(state, "data_entered", user) \in TransitionEvent
        /\ Transition("data_entered", "windows_selected", user) \in TransitionEvent
    BY DEF TypeOK, Transition, TransitionEvent, WorkflowState
  <2> QED
    BY <1>2, <2>1 DEF TypeOK, MoveThrough, WorkflowState
<1>3. CASE UNCHANGED vars
  BY <1>3 DEF vars, TypeOK
<1> QED
  BY <1>1, <1>2, <1>3 DEF Next

\* What was entered stays entered, and a step enters the states it moves to.
LEMMA EntriesMade ==
  ASSUME TypeOK, [Next]_vars
  PROVE  /\ state \in WorkflowState
         /\ \A s : Entered(s) => Entered(s)'
         /\ \A s : Entered(s)' => Entered(s) \/ s = state' \/ s = "data_entered"
         /\ \/ state' = state
            \/ state' = "windows_selected"
            \/ CanTransition(state, state') /\ Entered(state)'
<1> USE DEF TypeOK
<1>1. ASSUME NEW user \in Users, NEW target \in WorkflowState, Move(user, target)
      PROVE  /\ \A s : Entered(s) => Entered(s)'
             /\ \A s : Entered(s)' => Entered(s) \/ s = state'
             /\ CanTransition(state, state') /\ Entered(state)'
  <2>1. /\ Len(trail') = Len(trail) + 1
        /\ \A i \in 1..Len(trail) : trail'[i] = trail[i]
        /\ trail'[Len(trail) + 1].to = target
    BY <1>1 DEF Move, Transition
  <2>2. /\ \A i \in 1..Len(trail') : i \in 1..Len(trail) \/ i = Len(trail) + 1
        /\ 1..Len(trail) \subseteq 1..Len(trail')
        /\ Len(trail) + 1 \in 1..Len(trail')
    BY <2>1
  <2>3. state' = target /\ CanTransition(state, target)
    BY <1>1 DEF Move
  <2> QED
    BY <2>1, <2>2, <2>3 DEF Entered
<1>2. ASSUME NEW user \in Users, MoveThrough(user, "data_entered", "windows_selected")
      PROVE  /\ \A s : Entered(s) => Entered(s)'
             /\ \A s : Entered(s)' =>
                  Entered(s) \/ s = state' \/ s = "data_entered"
             /\ state' = "windows_selected"
  <2>1. /\ Len(trail') = Len(trail) + 2
        /\ \A i \in 1..Len(trail) : trail'[i] = trail[i]
        /\ trail'[Len(trail) + 1].to = "data_entered"
        /\ trail'[Len(trail) + 2].to = "windows_selected"
        /\ state' = "windows_selected"
    BY <1>2 DEF MoveThrough, Transition
  <2>2. /\ \A i \in 1..Len(trail') :
             i \in 1..Len(trail) \/ i = Len(trail) + 1 \/ i = Len(trail) + 2
        /\ 1..Len(trail) \subseteq 1..Len(trail')
    BY <2>1
  <2> QED
    BY <2>1, <2>2 DEF Entered
<1>3. CASE UNCHANGED vars
  BY <1>3 DEF vars, Entered
<1> QED
  BY <1>1, <1>2, <1>3 DEF Next

\* What the table says of the states from the calculation on: each has one
\* before it, unless the job is voided.
LEMMA Before ==
  ASSUME NEW a \in WorkflowState, NEW b, CanTransition(a, b)
  PROVE  /\ b \in WorkflowState
         /\ b = "technical_review" => a = "calculated"
         /\ b = "qa_review" => a = "technical_review"
         /\ b = "approved" => a = "qa_review"
         /\ b = "released" => a = "approved"
         /\ b = "revised" => a = "released"
  BY DEF WorkflowState, CanTransition, AllowedTransitions

\* A job has climbed the rungs below the one it stands on.
Behind ==
  /\ state \in { "calculated", "technical_review", "qa_review", "approved",
                 "released", "revised" } => Entered("calculated")
  /\ state \in { "technical_review", "qa_review", "approved", "released",
                 "revised" } => Entered("technical_review")
  /\ state \in {"qa_review", "approved", "released", "revised"} =>
       Entered("qa_review")
  /\ state \in {"approved", "released", "revised"} => Entered("approved")
  /\ state \in {"released", "revised"} => Entered("released")

\* And so has one that stood on a rung above it before.
Evidenced ==
  /\ Entered("released") =>
       /\ Entered("calculated") /\ Entered("technical_review")
       /\ Entered("qa_review") /\ Entered("approved")
  /\ Entered("revised") => Entered("released")

LEMMA ClimbStays ==
  ASSUME TypeOK, Behind, Evidenced, [Next]_vars
  PROVE  Behind' /\ Evidenced'
<1>1. Behind'
  <2>1. CASE state' = state
    BY <2>1, EntriesMade DEF Behind
  <2>2. CASE state' = "windows_selected"
    BY <2>2 DEF Behind
  <2>3. CASE CanTransition(state, state') /\ Entered(state)'
    BY <2>3, EntriesMade, Before DEF Behind
  <2> QED
    BY <2>1, <2>2, <2>3, EntriesMade
<1>2. Evidenced'
  <2>1. /\ Entered("released")' => Entered("released") \/ state' = "released"
        /\ Entered("revised")' => Entered("revised") \/ state' = "revised"
    BY EntriesMade
  <2>2. \A s : Entered(s) => Entered(s)'
    BY EntriesMade
  <2> QED
    BY <1>1, <2>1, <2>2 DEF Behind, Evidenced
<1> QED
  BY <1>1, <1>2

\* A job that began as a draft is released only after it was calculated and
\* both reviews, and revised only after its release.
THEOREM ReleasedAfterReviews == Spec => []ReleasedOnlyAfterReviews
<1> DEFINE Inv == StartState = "draft" => TypeOK /\ Behind /\ Evidenced
<1>1. Init => Inv
  BY DEF Init, TypeOK, WorkflowState, Behind, Evidenced, Entered
<1>2. Inv /\ [Next]_vars => Inv'
  BY JobTypesStay, ClimbStays
<1>3. Inv => ReleasedOnlyAfterReviews
  BY DEF ReleasedOnlyAfterReviews, Evidenced
<1> QED
  BY <1>1, <1>2, <1>3, PTL DEF Spec

(***************************************************************************)
(* The numbers                                                             *)
(***************************************************************************)


\* The text of a number is a value and a width.
LEMMA NumberType ==
  ASSUME NEW value \in Nat, NEW padding \in Paddings
  PROVE  /\ Number(value, padding) \in NumberText
         /\ Number(value, padding)[1] = value
  BY NumbersAssumption DEF Number, NumberText

\* What a request in flight holds.
LEMMA RequestFields ==
  ASSUME NEW q \in Request
  PROVE  /\ q.pc = "allocating" => /\ q.next \in Nat
                                   /\ q.padding \in Paddings
                                   /\ q.kind \in Kinds
         /\ q.pc = "retiring" => q.next \in Nat
  BY DEF Request

\* Every step is one of these changes to the row, the log and the releases.
LEMMA Steps ==
  ASSUME CNTypeOK, [CNNext]_CNVars
  PROVE  \/ /\ sequence.status = "absent"
            /\ \E first \in FirstValues : sequence' = SequenceRow("active", first)
            /\ UNCHANGED <<log, released>>
         \/ /\ UNCHANGED <<sequence, log>>
            /\ \E number \in TypedNumbers : InsertCertificate(number, "typed")
         \/ \E r \in Requests :
              /\ req[r].pc = "allocating"
              /\ Allocate(req[r])
              /\ \/ UNCHANGED released
                 \/ InsertCertificate(Number(req[r].next, req[r].padding),
                                      "allocated")
         \/ \E r \in Requests :
              /\ req[r].pc = "retiring"
              /\ sequence.status = "active"
              /\ sequence' = [sequence EXCEPT !.status = "retired"]
              /\ log' = Append(log, Retired(req[r].next))
              /\ UNCHANGED released
         \/ UNCHANGED <<sequence, log, released>>
<1>1. ASSUME NEW r \in Requests, CommitAllocation(r) \/ CommitRelease(r)
      PROVE  /\ req[r].pc = "allocating"
             /\ Allocate(req[r])
             /\ \/ UNCHANGED released
                \/ InsertCertificate(Number(req[r].next, req[r].padding),
                                     "allocated")
  BY <1>1 DEF CommitAllocation, CommitRelease
<1>2. ASSUME NEW r \in Requests, CommitRetirement(r)
      PROVE  /\ req[r].pc = "retiring"
             /\ sequence.status = "active"
             /\ sequence' = [sequence EXCEPT !.status = "retired"]
             /\ log' = Append(log, Retired(req[r].next))
             /\ UNCHANGED released
  BY <1>2 DEF CommitRetirement
<1>3. ASSUME NEW first \in FirstValues, CreateSequence(first)
      PROVE  /\ sequence.status = "absent"
             /\ sequence' = SequenceRow("active", first)
             /\ UNCHANGED <<log, released>>
  BY <1>3 DEF CreateSequence
<1>4. ASSUME NEW number \in TypedNumbers, ReleaseTyped(number)
      PROVE  /\ UNCHANGED <<sequence, log>>
             /\ InsertCertificate(number, "typed")
  BY <1>4 DEF ReleaseTyped
<1>5. ASSUME NEW r \in Requests,
             \/ \E kind \in Kinds, padding \in Paddings :
                  ReadSequence(r, kind, padding)
             \/ ReadForRetirement(r)
             \/ Fail(r)
      PROVE  UNCHANGED <<sequence, log, released>>
  BY <1>5 DEF ReadSequence, ReadForRetirement, Fail
<1>6. CASE UNCHANGED CNVars
  BY <1>6 DEF CNVars
<1> QED
  BY <1>1, <1>2, <1>3, <1>4, <1>5, <1>6 DEF CNNext

\* The requests keep their type.
LEMMA RequestTypeStep ==
  ASSUME CNTypeOK, [CNNext]_CNVars
  PROVE  req' \in [Requests -> Request]
<1> USE DEF CNTypeOK
<1>1. ASSUME NEW r \in Requests, NEW q \in Request, Become(r, q)
      PROVE  req' \in [Requests -> Request]
  BY <1>1 DEF Become
<1>2. sequence.next \in Nat
  OBVIOUS
<1>3. ASSUME NEW r \in Requests, NEW kind \in Kinds, NEW padding \in Paddings,
             ReadSequence(r, kind, padding)
      PROVE  req' \in [Requests -> Request]
  <2>1. Allocating(kind, sequence.next, padding) \in Request
    BY <1>2 DEF Allocating, Request
  <2> QED
    BY <1>1, <1>3, <2>1 DEF ReadSequence, Begin
<1>4. ASSUME NEW r \in Requests, ReadForRetirement(r)
      PROVE  req' \in [Requests -> Request]
  <2>1. Retiring(sequence.next) \in Request
    BY <1>2 DEF Retiring, Request
  <2> QED
    BY <1>1, <1>4, <2>1 DEF ReadForRetirement, Begin
<1>5. ASSUME NEW r \in Requests,
             \/ CommitAllocation(r) \/ CommitRelease(r)
             \/ CommitRetirement(r) \/ Fail(r)
      PROVE  req' \in [Requests -> Request]
  <2>1. Become(r, Idle)
    BY <1>5 DEF CommitAllocation, CommitRelease, CommitRetirement, Fail
  <2>2. Idle \in Request
    BY DEF Idle, Request
  <2> QED
    BY <1>1, <2>1, <2>2
<1>6. ASSUME UNCHANGED req PROVE req' \in [Requests -> Request]
  BY <1>6
<1> QED
  BY <1>3, <1>4, <1>5, <1>6 DEF CNNext, CreateSequence, ReleaseTyped, CNVars

\* What an allocation and a retirement append are events.
LEMMA EventTypes ==
  /\ \A value \in Nat, padding \in Paddings :
       Allocated(Number(value, padding)) \in LoggedEvent
  /\ \A next \in Nat : Retired(next) \in LoggedEvent
  BY NumberType DEF Allocated, Retired, LoggedEvent

\* Requests that have overlapped once have.
LEMMA OverlapStep ==
  ASSUME CNTypeOK, [CNNext]_CNVars
  PROVE  overlapped' \in BOOLEAN /\ (overlapped => overlapped')
<1>1. ASSUME NEW r \in Requests, NEW record, Begin(r, record)
      PROVE  overlapped' \in BOOLEAN /\ (overlapped => overlapped')
  BY <1>1 DEF Begin
<1>2. ASSUME UNCHANGED overlapped
      PROVE  overlapped' \in BOOLEAN /\ (overlapped => overlapped')
  BY <1>2 DEF CNTypeOK
<1> QED
  BY <1>1, <1>2
     DEF CNNext, CNVars, CreateSequence, ReleaseTyped, ReadSequence,
         ReadForRetirement, CommitAllocation, CommitRelease, CommitRetirement,
         Fail

\* Every variable keeps its type.
THEOREM NumbersTypeCorrect == CNSpec => []CNTypeOK
<1>1. CNInit => CNTypeOK
  <2> SUFFICES ASSUME CNInit PROVE CNTypeOK
    OBVIOUS
  <2>1. req \in [Requests -> Request]
    BY DEF CNInit, Idle, Request
  <2>2. sequence \in [status : {"absent", "active", "retired"}, next : Nat]
    BY DEF CNInit, Absent
  <2>3. log \in Seq(LoggedEvent)
    BY DEF CNInit
  <2>4. released \in Seq([number : NumberText, route : {"allocated", "typed"}])
    BY DEF CNInit
  <2>5. overlapped \in BOOLEAN
    BY DEF CNInit
  <2> QED
    BY <2>1, <2>2, <2>3, <2>4, <2>5 DEF CNTypeOK
<1>2. CNTypeOK /\ [CNNext]_CNVars => CNTypeOK'
  <2> SUFFICES ASSUME CNTypeOK, [CNNext]_CNVars PROVE CNTypeOK'
    OBVIOUS
  <2> DEFINE RowOK(s) ==
        s \in [status : {"absent", "active", "retired"}, next : Nat]
             ReleasedOK(l) ==
        l \in Seq([number : NumberText, route : {"allocated", "typed"}])
  <2>1. ASSUME NEW number \in NumberText, NEW route \in {"allocated", "typed"},
               InsertCertificate(number, route)
        PROVE  ReleasedOK(released')
    BY <2>1 DEF InsertCertificate, CNTypeOK
  <2>2. ASSUME sequence.status = "absent", NEW first \in FirstValues,
               sequence' = SequenceRow("active", first), UNCHANGED <<log, released>>
        PROVE  RowOK(sequence') /\ log' \in Seq(LoggedEvent) /\ ReleasedOK(released')
    BY <2>2, NumbersAssumption DEF SequenceRow, Absent, CNTypeOK
  <2>3. ASSUME NEW r \in Requests, req[r].pc = "allocating", Allocate(req[r]),
               \/ UNCHANGED released
               \/ InsertCertificate(Number(req[r].next, req[r].padding),
                                    "allocated")
        PROVE  RowOK(sequence') /\ log' \in Seq(LoggedEvent) /\ ReleasedOK(released')
    <3>1. req[r].next \in Nat /\ req[r].padding \in Paddings
      BY <2>3, RequestFields DEF CNTypeOK
    <3>2. log' \in Seq(LoggedEvent)
      BY <2>3, <3>1, EventTypes DEF Allocate, CNTypeOK
    <3>3. ReleasedOK(released')
      BY <2>1, <2>3, <3>1, NumberType DEF CNTypeOK
    <3>4. RowOK(sequence')
      BY <2>3, <3>1 DEF Allocate, CNTypeOK
    <3> HIDE DEF RowOK, ReleasedOK
    <3> QED
      BY <3>2, <3>3, <3>4
  <2>4. ASSUME NEW r \in Requests, req[r].pc = "retiring",
               sequence.status = "active",
               sequence' = [sequence EXCEPT !.status = "retired"],
               log' = Append(log, Retired(req[r].next)), UNCHANGED released
        PROVE  RowOK(sequence') /\ log' \in Seq(LoggedEvent) /\ ReleasedOK(released')
    <3>1. req[r].next \in Nat
      BY <2>4, RequestFields DEF CNTypeOK
    <3>2. RowOK(sequence')
      BY <2>4 DEF CNTypeOK
    <3>3. log' \in Seq(LoggedEvent)
      BY <2>4, <3>1, EventTypes DEF CNTypeOK
    <3>4. ReleasedOK(released')
      BY <2>4 DEF CNTypeOK
    <3> HIDE DEF RowOK, ReleasedOK
    <3> QED
      BY <3>2, <3>3, <3>4
  <2>5. ASSUME UNCHANGED <<sequence, log>>, NEW number \in TypedNumbers,
               InsertCertificate(number, "typed")
        PROVE  RowOK(sequence') /\ log' \in Seq(LoggedEvent) /\ ReleasedOK(released')
    BY <2>1, <2>5, NumbersAssumption DEF CNTypeOK, NumberText
  <2>6. RowOK(sequence') /\ log' \in Seq(LoggedEvent) /\ ReleasedOK(released')
    <3>1. ASSUME UNCHANGED <<sequence, log, released>>
          PROVE  RowOK(sequence') /\ log' \in Seq(LoggedEvent) /\ ReleasedOK(released')
      BY <3>1 DEF CNTypeOK
    <3> HIDE DEF RowOK, ReleasedOK
    <3> QED
      BY <2>2, <2>3, <2>4, <2>5, <3>1, Steps
  <2> QED
    BY <2>6, RequestTypeStep, OverlapStep DEF CNTypeOK
<1> QED
  BY <1>1, <1>2, PTL DEF CNSpec

(***************************************************************************)
(* Whatever overlaps                                                       *)
(***************************************************************************)

\* A retirement in the log means that the sequence is retired.
RetirementTakesEffect ==
  \A i \in 1..Len(log) : log[i].event = "retired" => sequence.status = "retired"

\* What an appended event is.
LEMMA EventKinds ==
  /\ \A number : /\ Allocated(number).event = "allocated"
                 /\ Allocated(number).number = number
  /\ \A next : Retired(next).event = "retired"
  BY DEF Allocated, Retired

\* A sequence is retired once.
THEOREM RetirementIsOnce == CNSpec => [](RetirementTakesEffect /\ RetiredOnce)
<1>1. CNInit => RetirementTakesEffect /\ RetiredOnce
  BY DEF CNInit, RetirementTakesEffect, RetiredOnce
<1>2. CNTypeOK /\ RetirementTakesEffect /\ RetiredOnce /\ [CNNext]_CNVars
        => RetirementTakesEffect' /\ RetiredOnce'
  <2> SUFFICES ASSUME CNTypeOK, RetirementTakesEffect, RetiredOnce, [CNNext]_CNVars
               PROVE  RetirementTakesEffect' /\ RetiredOnce'
    OBVIOUS
  <2> USE DEF CNTypeOK
  <2>1. ASSUME sequence.status = "absent", NEW first \in FirstValues,
               sequence' = SequenceRow("active", first), UNCHANGED <<log, released>>
        PROVE  RetirementTakesEffect' /\ RetiredOnce'
    BY <2>1 DEF RetirementTakesEffect, RetiredOnce
  <2>2. ASSUME NEW r \in Requests, req[r].pc = "allocating", Allocate(req[r])
        PROVE  RetirementTakesEffect' /\ RetiredOnce'
    <3>1. PICK n : n = Number(req[r].next, req[r].padding)
      OBVIOUS
    <3>2. /\ Len(log') = Len(log) + 1
          /\ \A i \in 1..Len(log) : log'[i] = log[i]
          /\ log'[Len(log) + 1].event = "allocated"
      BY <2>2, <3>1, EventKinds DEF Allocate
    <3>3. sequence'.status = sequence.status
      BY <2>2 DEF Allocate
    <3>4. \A i \in 1..Len(log') :
            log'[i].event = "retired" => i \in 1..Len(log) /\ log'[i] = log[i]
      BY <3>2
    <3> QED
      BY <3>3, <3>4 DEF RetirementTakesEffect, RetiredOnce
  <2>3. ASSUME NEW r \in Requests, req[r].pc = "retiring",
               sequence.status = "active",
               sequence' = [sequence EXCEPT !.status = "retired"],
               log' = Append(log, Retired(req[r].next))
        PROVE  RetirementTakesEffect' /\ RetiredOnce'
    <3>1. /\ Len(log') = Len(log) + 1
          /\ \A i \in 1..Len(log) : log'[i] = log[i]
      BY <2>3
    <3>2. \A i \in 1..Len(log) : log[i].event # "retired"
      BY <2>3 DEF RetirementTakesEffect
    <3>3. \A i \in 1..Len(log') :
            log'[i].event = "retired" => i = Len(log) + 1
      BY <3>1, <3>2
    <3>4. sequence'.status = "retired"
      BY <2>3
    <3> QED
      BY <3>3, <3>4 DEF RetirementTakesEffect, RetiredOnce
  <2>4. ASSUME UNCHANGED <<sequence, log>>
        PROVE  RetirementTakesEffect' /\ RetiredOnce'
    BY <2>4 DEF RetirementTakesEffect, RetiredOnce
  <2> QED
    BY <2>1, <2>2, <2>3, <2>4, Steps
<1> QED
  BY <1>1, <1>2, NumbersTypeCorrect, PTL DEF CNSpec

\* No step, not even of an allocation that read the row before, brings a
\* retired sequence back.
THEOREM RetirementIsForever == CNSpec => RetiredForever
<1>1. CNTypeOK /\ [CNNext]_CNVars
        => [sequence.status = "retired" => sequence'.status = "retired"]_CNVars
  <2> SUFFICES ASSUME CNTypeOK, [CNNext]_CNVars, sequence.status = "retired"
               PROVE  sequence'.status = "retired"
    OBVIOUS
  <2>1. ASSUME NEW r \in Requests, Allocate(req[r])
        PROVE  sequence'.status = "retired"
    BY <2>1 DEF Allocate, CNTypeOK
  <2> QED
    BY <2>1, Steps
<1> QED
  BY <1>1, NumbersTypeCorrect, PTL DEF CNSpec, RetiredForever

\* The log only grows.
LEMMA LogGrows ==
  ASSUME CNTypeOK, [CNNext]_CNVars, NEW number, IsAllocated(number)
  PROVE  IsAllocated(number)'
<1> USE DEF CNTypeOK
<1>1. ASSUME NEW event, log' = Append(log, event)
      PROVE  IsAllocated(number)'
  BY <1>1 DEF IsAllocated
<1>2. ASSUME UNCHANGED log PROVE IsAllocated(number)'
  BY <1>2 DEF IsAllocated
<1> QED
  BY <1>1, <1>2, Steps DEF Allocate

\* The UNIQUE constraint, and where the released numbers come from.
ReleasesSettled ==
  /\ \A i, j \in 1..Len(released) :
       released[i].number = released[j].number => i = j
  /\ \A i \in 1..Len(released) :
       released[i].route = "allocated" => IsAllocated(released[i].number)

\* Both survive every step: an insert is checked, and logged if it allocated.
LEMMA ReleasesStep ==
  ASSUME CNTypeOK, ReleasesSettled, [CNNext]_CNVars
  PROVE  ReleasesSettled'
<1> USE DEF CNTypeOK
<1>1. ASSUME UNCHANGED released PROVE ReleasesSettled'
  <2>1. ASSUME NEW i \in 1..Len(released), released[i].route = "allocated"
        PROVE  IsAllocated(released[i].number)'
    <3>1. PICK n : n = released[i].number
      OBVIOUS
    <3>2. IsAllocated(n)
      BY <2>1, <3>1 DEF ReleasesSettled
    <3>3. IsAllocated(n)'
      BY <3>2, LogGrows
    <3> QED
      BY <1>1, <3>1, <3>3 DEF IsAllocated
  <2> QED
    BY <1>1, <2>1 DEF ReleasesSettled
<1>2. ASSUME NEW n, NEW route, InsertCertificate(n, route),
             route = "allocated" => IsAllocated(n)'
      PROVE  ReleasesSettled'
  <2>1. /\ Len(released') = Len(released) + 1
        /\ \A i \in 1..Len(released) :
             released'[i] = released[i] /\ released[i].number # n
        /\ released'[Len(released) + 1].number = n
        /\ released'[Len(released) + 1].route = route
    BY <1>2 DEF InsertCertificate, IsReleased
  <2>2. ASSUME NEW i \in 1..Len(released'), released'[i].route = "allocated"
        PROVE  IsAllocated(released[i].number)'
    <3>1. PICK m : m = released'[i].number
      OBVIOUS
    <3>2. CASE i \in 1..Len(released)
      <4>1. IsAllocated(m)
        BY <2>1, <2>2, <3>1, <3>2 DEF ReleasesSettled
      <4>2. IsAllocated(m)'
        BY <4>1, LogGrows
      <4> QED
        BY <3>1, <4>2 DEF IsAllocated
    <3>3. CASE i = Len(released) + 1
      <4>1. m = n /\ IsAllocated(n)'
        BY <1>2, <2>1, <2>2, <3>1, <3>3
      <4> QED
        BY <3>1, <4>1 DEF IsAllocated
    <3>4. i \in 1..Len(released) \/ i = Len(released) + 1
      <4>1. Len(released) \in Nat /\ Len(released') = Len(released) + 1
        BY <2>1
      <4> QED
        BY <4>1
    <3> QED
      BY <3>2, <3>3, <3>4
  <2>3. \A i, j \in 1..Len(released') :
          released'[i].number = released'[j].number => i = j
    BY <2>1 DEF ReleasesSettled
  <2> QED
    BY <2>2, <2>3 DEF ReleasesSettled
<1>3. ASSUME NEW number \in TypedNumbers, ReleaseTyped(number)
      PROVE  ReleasesSettled'
  BY <1>2, <1>3 DEF ReleaseTyped
<1>4. ASSUME NEW r \in Requests, CommitRelease(r)
      PROVE  ReleasesSettled'
  <2>1. PICK n : n = Number(req[r].next, req[r].padding)
    OBVIOUS
  <2>2. InsertCertificate(n, "allocated") /\ log' = Append(log, Allocated(n))
    BY <1>4, <2>1 DEF CommitRelease, Allocate
  <2>3. IsAllocated(n)'
    BY <2>2 DEF IsAllocated
  <2> QED
    BY <1>2, <2>2, <2>3
<1> QED
  BY <1>1, <1>3, <1>4
     DEF CNNext, CNVars, CreateSequence, ReadSequence, ReadForRetirement,
         CommitAllocation, CommitRetirement, Fail

\* A certificate whose number was allocated for it is in the audit trail, and
\* no other certificate has its number.
THEOREM ReleasesAreLogged == CNSpec => [](ReleasesSettled /\ AllocatedReleasesLogged)
<1>1. CNInit => ReleasesSettled
  BY DEF CNInit, ReleasesSettled
<1>2. CNTypeOK /\ ReleasesSettled /\ [CNNext]_CNVars => ReleasesSettled'
  BY ReleasesStep
<1>3. ReleasesSettled => AllocatedReleasesLogged
  BY DEF ReleasesSettled, AllocatedReleasesLogged
<1> QED
  BY <1>1, <1>2, <1>3, NumbersTypeCorrect, PTL DEF CNSpec

(***************************************************************************)
(* Requests that come one at a time                                        *)
(***************************************************************************)

\* One request is in flight, and the row has not changed since it read it.
ReadsAreFresh ==
  ~ overlapped =>
    /\ \A q, r \in Requests : req[q] # Idle /\ req[r] # Idle => q = r
    /\ \A r \in Requests : req[r].pc = "allocating" =>
         sequence.status = "active" /\ req[r].next = sequence.next

\* As long as each request waits for the last one, nothing changes under it.
LEMMA FreshStep ==
  ASSUME CNTypeOK, ReadsAreFresh, [CNNext]_CNVars
  PROVE  ReadsAreFresh'
<1> SUFFICES ASSUME ~ overlapped' PROVE ReadsAreFresh'
  BY DEF ReadsAreFresh
<1> USE DEF CNTypeOK
<1>0. ~ overlapped
  BY OverlapStep
<1>1. ASSUME NEW r \in Requests, UNCHANGED sequence, NEW record,
             Begin(r, record),
             record.pc = "allocating" =>
               sequence.status = "active" /\ record.next = sequence.next
      PROVE  ReadsAreFresh'
  <2>1. \A q \in Requests : req[q] = Idle
    BY <1>1 DEF Begin
  <2> QED
    BY <1>1, <2>1 DEF Begin, Become, ReadsAreFresh, Idle
<1>2. ASSUME NEW r \in Requests, NEW kind \in Kinds, NEW padding \in Paddings,
             ReadSequence(r, kind, padding)
      PROVE  ReadsAreFresh'
  BY <1>1, <1>2 DEF ReadSequence, Allocating
<1>3. ASSUME NEW r \in Requests, ReadForRetirement(r)
      PROVE  ReadsAreFresh'
  BY <1>1, <1>3 DEF ReadForRetirement, Retiring
<1>4. ASSUME NEW r \in Requests, req[r] # Idle, Become(r, Idle)
      PROVE  ReadsAreFresh'
  BY <1>0, <1>4 DEF Become, ReadsAreFresh, Idle
<1>5. ASSUME NEW r \in Requests,
             \/ CommitAllocation(r) \/ CommitRelease(r)
             \/ CommitRetirement(r) \/ Fail(r)
      PROVE  ReadsAreFresh'
  BY <1>4, <1>5 DEF CommitAllocation, CommitRelease, CommitRetirement, Fail,
                    Idle
<1>6. ASSUME NEW first \in FirstValues, CreateSequence(first)
      PROVE  ReadsAreFresh'
  BY <1>0, <1>6 DEF CreateSequence, ReadsAreFresh, Idle
<1>7. ASSUME NEW number \in TypedNumbers, ReleaseTyped(number)
      PROVE  ReadsAreFresh'
  BY <1>0, <1>7 DEF ReleaseTyped, ReadsAreFresh
<1>8. CASE UNCHANGED CNVars
  BY <1>0, <1>8 DEF CNVars, ReadsAreFresh
<1> QED
  BY <1>2, <1>3, <1>5, <1>6, <1>7, <1>8 DEF CNNext

\* The counter is past every number in the log; an unused prefix has no log.
IssuedBelow ==
  /\ sequence.status = "absent" => log = <<>>
  /\ \A i \in 1..Len(log) :
       log[i].event = "allocated" => log[i].number[1] < sequence.next

\* What a serial history of the sequence satisfies.
Serial == IssuedBelow /\ IssuedOnce /\ NothingIssuedAfterRetirement

SerialSoFar == ~ overlapped => Serial

\* A fresh allocation takes the counter's value, from an active sequence.
LEMMA SerialStep ==
  ASSUME CNTypeOK, RetirementTakesEffect, ReadsAreFresh, Serial, ~ overlapped,
         [CNNext]_CNVars
  PROVE  Serial'
<1> USE DEF CNTypeOK, Serial
<1>1. ASSUME sequence.status = "absent", NEW first \in FirstValues,
             sequence' = SequenceRow("active", first), UNCHANGED log
      PROVE  Serial'
  BY <1>1 DEF IssuedBelow, IssuedOnce, NothingIssuedAfterRetirement, SequenceRow
<1>2. ASSUME NEW r \in Requests, req[r].pc = "allocating", Allocate(req[r])
      PROVE  Serial'
  <2>1. /\ sequence.status = "active"
        /\ req[r].next = sequence.next
        /\ req[r].padding \in Paddings
    BY <1>2, RequestFields DEF ReadsAreFresh
  <2>2. PICK n : n = Number(req[r].next, req[r].padding)
    OBVIOUS
  <2>3. n[1] = sequence.next
    BY <2>1, <2>2, NumberType
  <2>4. /\ Len(log') = Len(log) + 1
        /\ \A i \in 1..Len(log) : log'[i] = log[i]
        /\ log'[Len(log) + 1].event = "allocated"
        /\ log'[Len(log) + 1].number = n
    BY <1>2, <2>2, EventKinds DEF Allocate
  <2>5. /\ sequence.next \in Nat
        /\ sequence'.next = sequence.next + 1
        /\ sequence'.status = "active"
    BY <1>2, <2>1 DEF Allocate
  <2>6. \A i \in 1..Len(log) : log[i].event # "retired"
    BY <2>1 DEF RetirementTakesEffect
  <2>7. \A i \in 1..Len(log) : log[i].event = "allocated" =>
          log[i].number[1] \in Nat /\ log[i].number[1] < sequence.next
    BY DEF IssuedBelow, LoggedEvent, NumberText
  <2>8. IssuedBelow'
    <3>1. ASSUME NEW i \in 1..Len(log'), log'[i].event = "allocated"
          PROVE  log'[i].number[1] < sequence'.next
      <4>1. CASE i \in 1..Len(log)
        <5>1. /\ log'[i].number = log[i].number
              /\ log[i].number[1] \in Nat
              /\ log[i].number[1] < sequence.next
          BY <2>4, <2>7, <3>1, <4>1
        <5> QED
          BY <2>5, <5>1
      <4>2. CASE i = Len(log) + 1
        BY <2>3, <2>4, <2>5, <4>2
      <4> QED
        BY <2>4, <4>1, <4>2
    <3> QED
      BY <2>5, <3>1 DEF IssuedBelow
  <2>9. IssuedOnce'
    BY <2>3, <2>4, <2>7, SMTT(30) DEF IssuedOnce
  <2>10. NothingIssuedAfterRetirement'
    BY <2>4, <2>6 DEF NothingIssuedAfterRetirement
  <2> QED
    BY <2>8, <2>9, <2>10
<1>3. ASSUME NEW r \in Requests, req[r].pc = "retiring",
             sequence.status = "active",
             sequence' = [sequence EXCEPT !.status = "retired"],
             log' = Append(log, Retired(req[r].next))
      PROVE  Serial'
  <2>1. /\ Len(log') = Len(log) + 1
        /\ \A i \in 1..Len(log) : log'[i] = log[i]
        /\ log'[Len(log) + 1].event = "retired"
    BY <1>3, EventKinds
  <2>2. sequence'.next = sequence.next /\ sequence'.status = "retired"
    BY <1>3
  <2>3. IssuedBelow'
    BY <2>1, <2>2 DEF IssuedBelow
  <2>4. IssuedOnce'
    BY <2>1 DEF IssuedOnce
  <2>5. NothingIssuedAfterRetirement'
    <3>1. ASSUME NEW i \in 1..Len(log'), NEW j \in 1..Len(log'), i < j,
                 log'[i].event = "retired"
          PROVE  log'[j].event # "allocated"
      <4>1. CASE j = Len(log) + 1
        BY <2>1, <4>1
      <4>2. CASE j # Len(log) + 1
        <5>1. i \in 1..Len(log) /\ j \in 1..Len(log)
          BY <2>1, <3>1, <4>2, SMTT(30)
        <5> QED
          BY <2>1, <3>1, <5>1 DEF NothingIssuedAfterRetirement
      <4> QED
        BY <4>1, <4>2
    <3> QED
      BY <3>1 DEF NothingIssuedAfterRetirement
  <2> QED
    BY <2>3, <2>4, <2>5
<1>4. ASSUME UNCHANGED <<sequence, log>> PROVE Serial'
  BY <1>4 DEF IssuedBelow, IssuedOnce, NothingIssuedAfterRetirement
<1> QED
  BY <1>1, <1>2, <1>3, <1>4, Steps

\* The inductive invariant of a serial history.
THEOREM SerialInvariant == CNSpec => [](ReadsAreFresh /\ SerialSoFar)
<1>1. CNInit => ReadsAreFresh /\ SerialSoFar
  BY DEF CNInit, ReadsAreFresh, SerialSoFar, Serial, IssuedBelow, IssuedOnce,
         NothingIssuedAfterRetirement, Idle, Absent
<1>2. /\ CNTypeOK /\ RetirementTakesEffect /\ ReadsAreFresh /\ SerialSoFar
      /\ [CNNext]_CNVars
      => ReadsAreFresh' /\ SerialSoFar'
  BY FreshStep, SerialStep, OverlapStep DEF SerialSoFar
<1> QED
  BY <1>1, <1>2, NumbersTypeCorrect, RetirementIsOnce, PTL DEF CNSpec

\* Requests that do not overlap never get a sequence value twice.
THEOREM SerialIssue == CNSpec => []IssuedOnceInTurn
<1>1. SerialSoFar => IssuedOnceInTurn
  BY DEF SerialSoFar, Serial, IssuedOnceInTurn
<1> QED
  BY <1>1, SerialInvariant, PTL

\* Requests that do not overlap never get a number from a retired sequence.
THEOREM SerialRetirement == CNSpec => []NothingIssuedAfterRetirementInTurn
<1>1. SerialSoFar => NothingIssuedAfterRetirementInTurn
  BY DEF SerialSoFar, Serial, NothingIssuedAfterRetirementInTurn
<1> QED
  BY <1>1, SerialInvariant, PTL

\* Every released number is in the log, where each typed one is.
LEMMA ReleasedAreAllocated ==
  ASSUME CNTypeOK, ReleasesSettled, TypedFromSequence,
         NEW i \in 1..Len(released)
  PROVE  IsAllocated(released[i].number)
<1> DEFINE Releases == [number : NumberText, route : {"allocated", "typed"}]
<1>1. released \in Seq(Releases)
  BY DEF CNTypeOK
<1>2. released[i] \in Releases
  <2> HIDE DEF Releases
  <2> QED
    BY <1>1
<1>3. released[i].route = "allocated" \/ released[i].route = "typed"
  BY <1>2
<1> QED
  BY <1>3 DEF ReleasesSettled, TypedFromSequence

\* As long as requests do not overlap and clients only typed numbers that they
\* were allocated, the next allocation for a release does not collide.
THEOREM SerialNextIsFree == CNSpec => []NextIsFree
<1>1. CNTypeOK /\ SerialSoFar /\ ReleasesSettled => NextIsFree
  <2> SUFFICES ASSUME CNTypeOK, ~ overlapped, Serial, ReleasesSettled,
                      TypedFromSequence, NEW i \in 1..Len(released)
               PROVE  released[i].number[1] < sequence.next
    BY DEF NextIsFree, SerialSoFar
  <2>1. PICK k \in 1..Len(log) : log[k] = Allocated(released[i].number)
    BY ReleasedAreAllocated DEF IsAllocated
  <2> QED
    BY <2>1, EventKinds DEF Serial, IssuedBelow
<1> QED
  BY <1>1, SerialInvariant, ReleasesAreLogged, NumbersTypeCorrect, PTL

\* Under the same conditions no value of the sequence is on two certificates,
\* at whatever paddings they were allocated.
THEOREM SerialCertificates == CNSpec => []OneCertificatePerValue
<1>1. CNTypeOK /\ SerialSoFar /\ ReleasesSettled => OneCertificatePerValue
  <2> SUFFICES ASSUME CNTypeOK, Serial, ReleasesSettled, TypedFromSequence,
                      NEW i \in 1..Len(released), NEW j \in 1..Len(released),
                      released[i].number[1] = released[j].number[1]
               PROVE  i = j
    BY DEF OneCertificatePerValue, SerialSoFar
  <2>1. PICK k \in 1..Len(log) : log[k] = Allocated(released[i].number)
    BY ReleasedAreAllocated DEF IsAllocated
  <2>2. PICK l \in 1..Len(log) : log[l] = Allocated(released[j].number)
    BY ReleasedAreAllocated DEF IsAllocated
  <2>3. k = l
    BY <2>1, <2>2, EventKinds DEF Serial, IssuedOnce
  <2>4. released[i].number = released[j].number
    BY <2>1, <2>2, <2>3, EventKinds
  <2> QED
    BY <2>4 DEF ReleasesSettled
<1> QED
  BY <1>1, SerialInvariant, ReleasesAreLogged, NumbersTypeCorrect, PTL

(***************************************************************************)
(* Least numbers, roots and sums                                           *)
(***************************************************************************)

\* Every set of numbers that is not empty has a least one.
LEMMA LeastNumber ==
  ASSUME NEW T, T \subseteq Nat, T # {}
  PROVE  \E n \in T : \A m \in T : n <= m
<1>1. PICK n \in T : \A m \in T : ~ (<<m, n>> \in OpToRel(<, Nat))
  BY NatLessThanWellFounded, WFMin
<1>2. \A m \in T : n <= m
  <2> TAKE m \in T
  <2>1. <<m, n>> \in Nat \X Nat /\ ~ (<<m, n>>[1] < <<m, n>>[2])
    BY <1>1 DEF OpToRel
  <2> QED
    BY <2>1
<1> QED
  BY <1>2

\* Induction up to N, with a set in place of a predicate.
LEMMA UpTo ==
  ASSUME NEW N \in Nat, NEW S, 0 \in S,
         \A n \in 0..(N - 1) : n \in S => n + 1 \in S
  PROVE  0..N \subseteq S
<1> DEFINE T == {n \in 0..N : n \notin S}
<1>1. ASSUME T # {}
      PROVE  FALSE
  <2>1. T \subseteq Nat
    OBVIOUS
  <2>2. PICK n \in T : \A m \in T : n <= m
    BY <1>1, <2>1, LeastNumber
  <2>3. n \in 0..N /\ n # 0
    OBVIOUS
  <2>4. n - 1 \in 0..(N - 1) /\ (n - 1) + 1 = n
    BY <2>3
  <2>5. n - 1 \in S
    BY <2>2, <2>4
  <2> QED
    BY <2>4, <2>5
<1> QED
  BY <1>1

\* The root is the greatest number whose square is not above.
LEMMA RootExists ==
  ASSUME NEW s \in Nat
  PROVE  /\ Root(s) \in Nat
         /\ Root(s) * Root(s) <= s
         /\ s < (Root(s) + 1) * (Root(s) + 1)
<1> DEFINE T == {r \in Nat : s < (r + 1) * (r + 1)}
<1>1. s \in T
  <2>1. (s + 1) * (s + 1) = s * s + 2 * s + 1 /\ s * s \in Nat
    OBVIOUS
  <2> QED
    BY <2>1
<1>2. PICK r \in T : \A m \in T : r <= m
  <2>1. T \subseteq Nat
    OBVIOUS
  <2> HIDE DEF T
  <2> QED
    BY <1>1, <2>1, LeastNumber
<1>3. r * r <= s
  <2>1. CASE r = 0
    BY <2>1
  <2>2. CASE r # 0
    <3>1. r - 1 \in Nat /\ r - 1 \notin T
      BY <1>2, <2>2
    <3> QED
      BY <3>1
  <2> QED
    BY <2>1, <2>2
<1>4. r \in 0..s
  <2>1. r <= s
    BY <1>1, <1>2
  <2> QED
    BY <2>1
<1>5. \E n \in 0..s : n * n <= s /\ s < (n + 1) * (n + 1)
  BY <1>3, <1>4
<1>6. /\ Root(s) \in 0..s
      /\ Root(s) * Root(s) <= s /\ s < (Root(s) + 1) * (Root(s) + 1)
  BY <1>5, Zenon DEF Root
<1> QED
  BY <1>6

\* A larger square has no smaller root.
LEMMA RootMonotone ==
  ASSUME NEW s \in Nat, NEW t \in Nat, s <= t
  PROVE  Root(s) <= Root(t)
<1>1. \A a, b \in Nat : a * a <= s /\ t < (b + 1) * (b + 1) => a <= b
  <2> SUFFICES ASSUME NEW a \in Nat, NEW b \in Nat, a * a <= s,
                      t < (b + 1) * (b + 1), b + 1 <= a
               PROVE  FALSE
    OBVIOUS
  <2>1. (b + 1) * (b + 1) <= a * a
    <3>1. (b + 1) * (b + 1) <= a * (b + 1) /\ a * (b + 1) <= a * a
      OBVIOUS
    <3> QED
      BY <3>1
  <2> QED
    BY <2>1
<1> QED
  BY <1>1, RootExists

\* The prefix sums that Total counts up.
LEMMA PrefixSums ==
  ASSUME NEW v, Len(v) \in Nat
  PROVE  \E g : /\ g[0] = 0
                /\ \A n \in 1..Len(v) : g[n] = g[n - 1] + v[n]
                /\ Total(v) = g[Len(v)]
<1> DEFINE Sums(n, g) == g = [i \in 0..n |-> IF i = 0 THEN 0 ELSE g[i - 1] + v[i]]
           S == {n \in 0..Len(v) : \E g : Sums(n, g)}
<1>1. 0 \in S
  <2>1. \E g : Sums(0, g)
    <3> WITNESS [i \in 0..0 |-> 0]
    <3> QED
      OBVIOUS
  <2> HIDE DEF Sums
  <2> QED
    BY <2>1
<1>2. ASSUME NEW n \in 0..(Len(v) - 1), n \in S
      PROVE  n + 1 \in S
  <2>1. PICK g : Sums(n, g)
    BY <1>2
  <2> DEFINE h == [i \in 0..(n + 1) |-> IF i = n + 1 THEN g[n] + v[n + 1] ELSE g[i]]
  <2>2. Sums(n + 1, h)
    <3>1. \A i \in 0..n : h[i] = g[i]
      OBVIOUS
    <3>2. \A i \in 0..n : g[i] = IF i = 0 THEN 0 ELSE g[i - 1] + v[i]
      BY <2>1
    <3>3. \A i \in 0..(n + 1) : h[i] = IF i = 0 THEN 0 ELSE h[i - 1] + v[i]
      <4> TAKE i \in 0..(n + 1)
      <4>1. CASE i = n + 1
        BY <4>1, <3>1
      <4>2. CASE i \in 1..n
        <5>1. i - 1 \in 0..n
          BY <4>2
        <5> HIDE DEF h
        <5> QED
          BY <4>2, <5>1, <3>1, <3>2
      <4>3. CASE i = 0
        BY <4>3, <3>1, <3>2
      <4> QED
        BY <4>1, <4>2, <4>3
    <3>4. h = [i \in 0..(n + 1) |-> h[i]]
      OBVIOUS
    <3> HIDE DEF h
    <3> QED
      BY <3>3, <3>4
  <2> HIDE DEF Sums, h
  <2> QED
    BY <2>2
<1>3. Len(v) \in S
  <2> HIDE DEF S
  <2>1. 0..Len(v) \subseteq S
    BY <1>1, <1>2, UpTo
  <2> QED
    BY <2>1
<1>4. PICK g : Sums(Len(v), g) /\ Total(v) = g[Len(v)]
  BY <1>3 DEF Total
<1> QED
  BY <1>4

\* A total of integers is an integer, of naturals a natural.
LEMMA TotalType ==
  ASSUME NEW v \in Seq(Int)
  PROVE  /\ Total(v) \in Int
         /\ (\A i \in 1..Len(v) : v[i] >= 0) => Total(v) >= 0
<1>1. PICK g : /\ g[0] = 0
               /\ \A n \in 1..Len(v) : g[n] = g[n - 1] + v[n]
               /\ Total(v) = g[Len(v)]
  BY PrefixSums
<1>0. Len(v) \in Nat
  OBVIOUS
<1> DEFINE S == {n \in 0..Len(v) :
                   /\ g[n] \in Int
                   /\ (\A i \in 1..Len(v) : v[i] >= 0) => g[n] >= 0}
<1>2. 0 \in S
  BY <1>1
<1>3. ASSUME NEW n \in 0..(Len(v) - 1), n \in S
      PROVE  n + 1 \in S
  <2>1. n + 1 \in 1..Len(v) /\ (n + 1) - 1 = n
    OBVIOUS
  <2>2. v[n + 1] \in Int /\ g[n + 1] = g[n] + v[n + 1]
    BY <1>1, <2>1
  <2> QED
    BY <1>3, <2>1, <2>2
<1>4. Len(v) \in S
  <2> HIDE DEF S
  <2>1. 0..Len(v) \subseteq S
    BY <1>0, <1>2, <1>3, UpTo
  <2> QED
    BY <2>1
<1> QED
  BY <1>1, <1>4

\* Larger terms have a larger total.
LEMMA TotalMonotone ==
  ASSUME NEW v \in Seq(Int), NEW w \in Seq(Int), Len(v) = Len(w),
         \A i \in 1..Len(v) : v[i] <= w[i]
  PROVE  Total(v) <= Total(w)
<1>1. PICK g : /\ g[0] = 0
               /\ \A n \in 1..Len(v) : g[n] = g[n - 1] + v[n]
               /\ Total(v) = g[Len(v)]
  BY PrefixSums
<1>0. Len(v) \in Nat /\ Len(w) \in Nat
  OBVIOUS
<1>2. PICK h : /\ h[0] = 0
               /\ \A n \in 1..Len(w) : h[n] = h[n - 1] + w[n]
               /\ Total(w) = h[Len(w)]
  BY <1>0, PrefixSums
<1> DEFINE S == {n \in 0..Len(v) : g[n] \in Int /\ h[n] \in Int /\ g[n] <= h[n]}
<1>3. 0 \in S
  BY <1>1, <1>2
<1>4. ASSUME NEW n \in 0..(Len(v) - 1), n \in S
      PROVE  n + 1 \in S
  <2>1. n + 1 \in 1..Len(v) /\ (n + 1) - 1 = n
    OBVIOUS
  <2>2. /\ v[n + 1] \in Int /\ g[n + 1] = g[n] + v[n + 1]
        /\ w[n + 1] \in Int /\ h[n + 1] = h[n] + w[n + 1]
        /\ v[n + 1] <= w[n + 1]
    BY <1>1, <1>2, <2>1
  <2>3. g[n] \in Int /\ h[n] \in Int /\ g[n] <= h[n]
    BY <1>4
  <2>4. g[n + 1] \in Int /\ h[n + 1] \in Int /\ g[n + 1] <= h[n + 1]
    BY <2>2, <2>3
  <2> QED
    BY <2>1, <2>4
<1>5. Len(v) \in S
  <2> HIDE DEF S
  <2>1. 0..Len(v) \subseteq S
    BY <1>0, <1>3, <1>4, UpTo
  <2> QED
    BY <2>1
<1> QED
  BY <1>1, <1>2, <1>5

\* What one more value x adds to n times the sum of squares less the square
\* of the sum is itself a sum of squares.
LEMMA SquaresOfDistances ==
  ASSUME NEW v \in Seq(Int), NEW q, NEW s, NEW x \in Int,
         q[0] = 0, s[0] = 0,
         \A n \in 1..Len(v) : /\ q[n] = q[n - 1] + v[n] * v[n]
                              /\ s[n] = s[n - 1] + v[n]
  PROVE  \A n \in 0..Len(v) :
           /\ q[n] \in Int /\ s[n] \in Int
           /\ q[n] - 2 * x * s[n] + n * x * x >= 0
<1>0. Len(v) \in Nat
  OBVIOUS
<1> DEFINE S == {n \in 0..Len(v) :
                   /\ q[n] \in Int /\ s[n] \in Int
                   /\ q[n] - 2 * x * s[n] + n * x * x >= 0}
<1>1. 0 \in S
  OBVIOUS
<1>2. ASSUME NEW n \in 0..(Len(v) - 1), n \in S
      PROVE  n + 1 \in S
  <2>1. n + 1 \in 1..Len(v) /\ (n + 1) - 1 = n
    OBVIOUS
  <2>2. PICK y \in Int : y = v[n + 1]
    BY <2>1
  <2>3. q[n + 1] = q[n] + y * y /\ s[n + 1] = s[n] + y
    BY <2>1, <2>2
  <2>4. \A a, b \in Int :
          a - 2 * x * b + n * x * x >= 0
          => (a + y * y) - 2 * x * (b + y) + (n + 1) * x * x >= 0
    <3> TAKE a, b \in Int
    <3>1. (a + y * y) - 2 * x * (b + y) + (n + 1) * x * x
            = (a - 2 * x * b + n * x * x) + (x - y) * (x - y)
      OBVIOUS
    <3>2. (x - y) * (x - y) >= 0
      OBVIOUS
    <3> QED
      BY <3>1, <3>2
  <2>5. q[n] \in Int /\ s[n] \in Int /\ q[n] - 2 * x * s[n] + n * x * x >= 0
    BY <1>2
  <2>6. q[n + 1] - 2 * x * s[n + 1] + (n + 1) * x * x >= 0
    BY <2>3, <2>4, <2>5, Zenon
  <2>7. q[n + 1] \in Int /\ s[n + 1] \in Int /\ n + 1 \in 0..Len(v)
    BY <2>1, <2>3, <2>5, SMTT(30)
  <2> QED
    BY <2>6, <2>7
<1>3. 0..Len(v) \subseteq S
  <2> HIDE DEF S
  <2> QED
    BY <1>0, <1>1, <1>2, UpTo
<1> QED
  BY <1>3

\* A sum of squares is never below the square of the sum over the count.
LEMMA VarianceNotNegative ==
  ASSUME NEW v \in Seq(Int)
  PROVE  Total(v) * Total(v)
           <= Len(v) * Total([i \in 1..Len(v) |-> v[i] * v[i]])
<1> DEFINE w == [i \in 1..Len(v) |-> v[i] * v[i]]
<1>0. Len(v) \in Nat
  OBVIOUS
<1>1. Len(w) = Len(v)
  OBVIOUS
<1>2. PICK s : /\ s[0] = 0
               /\ \A n \in 1..Len(v) : s[n] = s[n - 1] + v[n]
               /\ Total(v) = s[Len(v)]
  BY PrefixSums
<1>3. PICK q : /\ q[0] = 0
               /\ \A n \in 1..Len(v) : q[n] = q[n - 1] + v[n] * v[n]
               /\ Total(w) = q[Len(v)]
  <2>1. PICK q : /\ q[0] = 0
                 /\ \A n \in 1..Len(w) : q[n] = q[n - 1] + w[n]
                 /\ Total(w) = q[Len(w)]
    <3>1. Len(w) \in Nat
      BY <1>1
    <3> HIDE DEF w
    <3> QED
      BY <3>1, PrefixSums
  <2> QED
    BY <1>1, <2>1
<1> DEFINE S == {n \in 0..Len(v) : s[n] * s[n] <= n * q[n]}
<1>4. 0 \in S
  BY <1>2, <1>3
<1>5. ASSUME NEW n \in 0..(Len(v) - 1), n \in S
      PROVE  n + 1 \in S
  <2>1. n + 1 \in 1..Len(v) /\ (n + 1) - 1 = n
    OBVIOUS
  <2>2. PICK y \in Int : y = v[n + 1]
    BY <2>1
  <2>3. q[n + 1] = q[n] + y * y /\ s[n + 1] = s[n] + y
    BY <1>2, <1>3, <2>1, <2>2
  <2>4. /\ q[n] \in Int /\ s[n] \in Int
        /\ q[n] - 2 * y * s[n] + n * y * y >= 0
    <3>1. \A m \in 0..Len(v) : /\ q[m] \in Int /\ s[m] \in Int
                               /\ q[m] - 2 * y * s[m] + m * y * y >= 0
      BY <1>2, <1>3, SquaresOfDistances, Zenon
    <3>2. n \in 0..Len(v)
      OBVIOUS
    <3> QED
      BY <3>1, <3>2, Zenon
  <2>5. \A a, b \in Int :
          a - 2 * y * b + n * y * y >= 0 /\ b * b <= n * a
          => (b + y) * (b + y) <= (n + 1) * (a + y * y)
    <3> TAKE a, b \in Int
    <3>1. (n + 1) * (a + y * y) - (b + y) * (b + y)
            = (n * a - b * b) + (a - 2 * y * b + n * y * y)
      OBVIOUS
    <3> QED
      BY <3>1
  <2>6. s[n] * s[n] <= n * q[n]
    BY <1>5
  <2>7. s[n + 1] * s[n + 1] <= (n + 1) * q[n + 1]
    BY <2>3, <2>4, <2>5, <2>6, Zenon
  <2> QED
    BY <2>1, <2>7
<1>6. Len(v) \in S
  <2> HIDE DEF S
  <2>1. 0..Len(v) \subseteq S
    BY <1>0, <1>4, <1>5, UpTo
  <2> QED
    BY <2>1
<1> QED
  BY <1>2, <1>3, <1>6

\* The cut-off quotient by a positive number.
LEMMA Division ==
  ASSUME NEW a \in Int, NEW d \in Nat \ {0}
  PROVE  /\ a \div d \in Int
         /\ d * (a \div d) <= a
         /\ a < d * (a \div d) + d
         /\ a >= 0 => a \div d >= 0
  OBVIOUS

\* Division keeps the order.
LEMMA DivisionMonotone ==
  ASSUME NEW a \in Int, NEW b \in Int, a <= b, NEW d \in Nat \ {0}
  PROVE  a \div d <= b \div d
  OBVIOUS

\* A Type A contribution is a natural number: the variance is not negative.
LEMMA TypeAType ==
  ASSUME NEW v \in Seq(Int), Len(v) >= 2
  PROVE  TypeA(v) \in Nat
<1> DEFINE n == Len(v)
           w == [i \in 1..n |-> v[i] * v[i]]
           a == Total(v)
           b == Total(w)
<1>1. n \in Nat /\ n >= 2
  OBVIOUS
<1>2. a \in Int
  BY TotalType
<1>3. b \in Int
  <2>1. w \in Seq(Int)
    OBVIOUS
  <2> HIDE DEF w
  <2> QED
    BY <2>1, TotalType
<1>4. a * a <= n * b
  BY VarianceNotNegative
<1>5. TypeA(v) = (12 * (n * b - a * a)) \div (n * n * (n - 1))
  BY DEF TypeA
<1> HIDE DEF n, a, b
<1>6. n * n * (n - 1) \in Nat \ {0}
  <2>1. n * n \in Nat \ {0} /\ n - 1 \in Nat \ {0}
    BY <1>1
  <2>2. \A c, d \in Nat \ {0} : c * d \in Nat \ {0}
    OBVIOUS
  <2> QED
    BY <2>1, <2>2
<1>7. 12 * (n * b - a * a) \in Int /\ 12 * (n * b - a * a) >= 0
  BY <1>1, <1>2, <1>3, <1>4
<1> QED
  BY <1>5, <1>6, <1>7, Division

(***************************************************************************)
(* Digits and rounding                                                     *)
(***************************************************************************)

\* A power of ten, hidden from the provers.
Ten(n) == 10^n

\* The powers of ten of a number of nine digits.
LEMMA PowersOfTen ==
  /\ \A n \in 0..8 : Ten(n) \in Nat \ {0}
  /\ \A n \in 0..7 : Ten(n + 1) = 10 * Ten(n)
  /\ Ten(0) = 1
<1>1. /\ Ten(0) = 1 /\ Ten(1) = 10 /\ Ten(2) = 100 /\ Ten(3) = 1000
      /\ Ten(4) = 10000 /\ Ten(5) = 100000 /\ Ten(6) = 1000000
      /\ Ten(7) = 10000000 /\ Ten(8) = 100000000
  BY DEF Ten
<1> QED
  BY <1>1

\* A higher power of ten is not smaller.
LEMMA PowersInOrder ==
  ASSUME NEW m \in 0..8, NEW n \in 0..8, m <= n
  PROVE  Ten(m) <= Ten(n)
<1> DEFINE S == {k \in 0..(8 - m) : Ten(m) <= Ten(m + k)}
<1>1. 0 \in S
  <2>1. Ten(m) \in Nat /\ m + 0 = m /\ 0 \in 0..(8 - m)
    BY PowersOfTen
  <2> QED
    BY <2>1
<1>2. ASSUME NEW k \in 0..((8 - m) - 1), k \in S
      PROVE  k + 1 \in S
  <2>1. m + k \in 0..7 /\ m + (k + 1) = (m + k) + 1 /\ m + k \in 0..8
    OBVIOUS
  <2>2. Ten(m + (k + 1)) = 10 * Ten(m + k) /\ Ten(m + k) \in Nat /\ Ten(m) \in Nat
    BY <2>1, PowersOfTen
  <2>3. Ten(m) <= Ten(m + k)
    BY <1>2
  <2> QED
    BY <2>2, <2>3
<1>3. 0..(8 - m) \subseteq S
  <2>1. 8 - m \in Nat
    OBVIOUS
  <2> HIDE DEF S
  <2> QED
    BY <1>1, <1>2, <2>1, UpTo
<1>4. n - m \in 0..(8 - m) /\ m + (n - m) = n
  OBVIOUS
<1> QED
  BY <1>3, <1>4

\* A number has the digits its powers of ten say.
LEMMA DigitsExist ==
  ASSUME NEW v \in Nat \ {0}
  PROVE  /\ Digits(v) \in 1..9
         /\ Ten(Digits(v) - 1) <= v
         /\ Digits(v) = 9 \/ v < Ten(Digits(v))
<1> DEFINE T == {n \in 1..9 : n = 9 \/ v < Ten(n)}
<1>1. PICK n \in T : \A m \in T : n <= m
  <2>1. T \subseteq Nat /\ T # {}
    OBVIOUS
  <2> HIDE DEF T
  <2> QED
    BY <2>1, LeastNumber
<1>2. Ten(n - 1) <= v
  <2>1. CASE n = 1
    BY <2>1, PowersOfTen
  <2>2. CASE n # 1
    <3>1. n - 1 \in 1..8 /\ n - 1 \notin T
      BY <1>1, <2>2
    <3>2. Ten(n - 1) \in Nat
      BY <3>1, PowersOfTen
    <3> QED
      BY <3>1, <3>2
  <2> QED
    BY <2>1, <2>2
<1>3. \E m \in 1..9 : Ten(m - 1) <= v /\ (m = 9 \/ v < Ten(m))
  BY <1>1, <1>2
<1> QED
  BY <1>3, Zenon DEF Digits, Ten

\* The multiples of q next to a number.
Nearest(v, q) == q * ((2 * v + q) \div (2 * q))
Above(v, q) == q * ((v + q - 1) \div q)

\* Both are multiples, less than a step apart, with the number between or near.
LEMMA Nearby ==
  ASSUME NEW v \in Nat, NEW q \in Nat \ {0}
  PROVE  \E m, c \in Nat :
           /\ Nearest(v, q) = q * m /\ Above(v, q) = q * c
           /\ 2 * (q * m) <= 2 * v + q /\ 2 * v < 2 * (q * m) + q
           /\ v <= q * c /\ q * c < v + q
           /\ m = c \/ m + 1 = c
<1> DEFINE m == (2 * v + q) \div (2 * q)
           c == (v + q - 1) \div q
<1>1. m \in Nat /\ (2 * q) * m <= 2 * v + q /\ 2 * v + q < (2 * q) * m + 2 * q
  <2>1. PICK a \in Nat, d \in Nat \ {0} : a = 2 * v + q /\ d = 2 * q
    OBVIOUS
  <2>2. a \div d \in Int /\ d * (a \div d) <= a /\ a < d * (a \div d) + d /\ a \div d >= 0
    BY Division
  <2>3. m = a \div d
    BY <2>1
  <2> HIDE DEF m
  <2> QED
    BY <2>1, <2>2, <2>3
<1>2. c \in Nat /\ q * c <= v + q - 1 /\ v + q - 1 < q * c + q
  <2>1. v + q - 1 \in Int /\ v + q - 1 >= 0
    OBVIOUS
  <2> QED
    BY <2>1, Division
<1>3. Nearest(v, q) = q * m /\ Above(v, q) = q * c
  BY DEF Nearest, Above
<1> HIDE DEF m, c
<1>4. q * m \in Nat /\ q * c \in Nat /\ (2 * q) * m = 2 * (q * m)
  BY <1>1, <1>2
<1>5. /\ 2 * (q * m) <= 2 * v + q /\ 2 * v < 2 * (q * m) + q
      /\ v <= q * c /\ q * c < v + q
  BY <1>1, <1>2, <1>4
<1>6. m <= c
  <2> SUFFICES ASSUME c + 1 <= m
               PROVE  FALSE
    BY <1>1, <1>2
  <2>1. q * c + q <= q * m
    <3>1. q * (c + 1) <= q * m
      BY <1>1, <1>2
    <3> QED
      BY <1>2, <3>1
  <2> QED
    BY <1>4, <1>5, <2>1
<1>7. c <= m + 1
  <2> SUFFICES ASSUME m + 2 <= c
               PROVE  FALSE
    BY <1>1, <1>2
  <2>1. q * m + 2 * q <= q * c
    <3>1. q * (m + 2) <= q * c
      BY <1>1, <1>2
    <3> QED
      BY <1>1, <3>1
  <2> QED
    BY <1>4, <1>5, <2>1
<1> QED
  BY <1>1, <1>2, <1>3, <1>5, <1>6, <1>7

\* Rounding keeps the order.
LEMMA NearbyMonotone ==
  ASSUME NEW u \in Nat, NEW v \in Nat, u <= v, NEW q \in Nat \ {0}
  PROVE  Nearest(u, q) <= Nearest(v, q) /\ Above(u, q) <= Above(v, q)
<1>1. \A a, b \in Int : a <= b => q * a <= q * b
  OBVIOUS
<1>2. (2 * u + q) \div (2 * q) <= (2 * v + q) \div (2 * q)
  BY DivisionMonotone
<1>3. (u + q - 1) \div q <= (v + q - 1) \div q
  BY DivisionMonotone
<1>4. /\ (2 * u + q) \div (2 * q) \in Int /\ (2 * v + q) \div (2 * q) \in Int
      /\ (u + q - 1) \div q \in Int /\ (v + q - 1) \div q \in Int
  OBVIOUS
<1> QED
  BY <1>1, <1>2, <1>3, <1>4 DEF Nearest, Above

\* A multiple is rounded to itself.
LEMMA NearbyMultiple ==
  ASSUME NEW k \in Nat, NEW q \in Nat \ {0}
  PROVE  Nearest(q * k, q) = q * k /\ Above(q * k, q) = q * k
<1>1. q * k \in Nat
  OBVIOUS
<1>2. PICK m, c \in Nat :
           /\ Nearest(q * k, q) = q * m /\ Above(q * k, q) = q * c
           /\ 2 * (q * m) <= 2 * (q * k) + q /\ 2 * (q * k) < 2 * (q * m) + q
           /\ q * k <= q * c /\ q * c < q * k + q
  BY <1>1, Nearby
<1>3. m = k
  <2>1. ASSUME m + 1 <= k PROVE FALSE
    <3>1. q * (m + 1) <= q * k /\ q * (m + 1) = q * m + q
      BY <2>1
    <3> QED
      BY <1>2, <3>1
  <2>2. ASSUME k + 1 <= m PROVE FALSE
    <3>1. q * (k + 1) <= q * m /\ q * (k + 1) = q * k + q
      BY <2>2
    <3> QED
      BY <1>2, <3>1
  <2> QED
    BY <2>1, <2>2
<1>4. c = k
  <2>1. ASSUME c + 1 <= k PROVE FALSE
    <3>1. q * (c + 1) <= q * k /\ q * (c + 1) = q * c + q
      BY <2>1
    <3> QED
      BY <1>2, <3>1
  <2>2. ASSUME k + 1 <= c PROVE FALSE
    <3>1. q * (k + 1) <= q * c /\ q * (k + 1) = q * k + q
      BY <2>2
    <3> QED
      BY <1>2, <3>1
  <2> QED
    BY <2>1, <2>2
<1> QED
  BY <1>2, <1>3, <1>4

\* The place a number is rounded at, as a multiple of the unit.
Quantum(v) == 10^Larger(Place(v), 0)

\* A place is between tenths of the unit and the seventh power of ten.
LEMMA PlaceType ==
  ASSUME NEW v \in Nat
  PROVE  /\ Place(v) \in -1..7
         /\ v # 0 => Place(v) = Digits(v) - 2
         /\ Larger(Place(v), 0) \in 0..7
         /\ Quantum(v) = Ten(Larger(Place(v), 0))
         /\ Quantum(v) \in Nat \ {0}
<1>1. v # 0 => Digits(v) \in 1..9
  BY DigitsExist
<1>2. Place(v) \in -1..7 /\ (v # 0 => Place(v) = Digits(v) - 2)
  BY <1>1, ReportingAssumption DEF Place
<1>3. Larger(Place(v), 0) \in 0..7
  BY <1>2 DEF Larger
<1>4. Quantum(v) = Ten(Larger(Place(v), 0))
  BY DEF Quantum, Ten
<1>5. Ten(Larger(Place(v), 0)) \in Nat \ {0}
  BY <1>3, PowersOfTen
<1> QED
  BY <1>2, <1>3, <1>4, <1>5

\* At every place, what is kept is a multiple of the power of ten there, and
\* of one where nothing changes.
LEMMA RoundingIs ==
  ASSUME NEW v \in Nat, NEW place \in -1..8
  PROVE  /\ HalfUp(v, place) = Nearest(v, Ten(Larger(place, 0)))
         /\ Ceiling(v, place) = Above(v, Ten(Larger(place, 0)))
<1>1. CASE place <= 0
  <2>1. Ten(Larger(place, 0)) = 1
    <3>1. Larger(place, 0) = 0
      BY <1>1 DEF Larger
    <3> QED
      BY <3>1, PowersOfTen
  <2>2. Nearest(v, 1) = v /\ Above(v, 1) = v
    BY DEF Nearest, Above
  <2> QED
    BY <1>1, <2>1, <2>2 DEF HalfUp, Ceiling
<1>2. CASE place > 0
  <2>1. Larger(place, 0) = place
    BY <1>2 DEF Larger
  <2>2. Magnitude(v) = v /\ ~ (v < 0) /\ ~ (place <= 0)
    BY <1>2 DEF Magnitude
  <2>3. HalfUp(v, place) = Nearest(v, 10^place)
    BY <2>2, Zenon DEF HalfUp, Nearest
  <2>4. Ceiling(v, place) = Above(v, 10^place)
    BY <2>2, Zenon DEF Ceiling, Above
  <2> QED
    BY <2>1, <2>3, <2>4 DEF Ten
<1> QED
  BY <1>1, <1>2

\* The numbers of one length lie between two multiples of their quantum, and
\* so do the numbers they are rounded to.
LEMMA Decade ==
  ASSUME NEW v \in Nat \ {0}
  PROVE  /\ \E k \in Nat : Ten(Digits(v) - 1) = Quantum(v) * k
         /\ Digits(v) # 9 => \E k \in Nat : Ten(Digits(v)) = Quantum(v) * k
<1> DEFINE n == Digits(v)
           q == Quantum(v)
<1>1. n \in 1..9 /\ q = Ten(Larger(n - 2, 0))
  BY PlaceType, DigitsExist
<1> HIDE DEF n, q
<1>2. CASE n = 1
  <2>1. q = 1 /\ Ten(n - 1) \in Nat /\ Ten(n) \in Nat
    BY <1>1, <1>2, PowersOfTen DEF Larger
  <2> QED
    BY <2>1 DEF n, q
<1>3. CASE n \in 2..9
  <2>1. q = Ten(n - 2) /\ n - 2 \in 0..7
    BY <1>1, <1>3 DEF Larger
  <2>2. Ten(n - 1) = 10 * q /\ q \in Nat
    <3>1. n - 1 = (n - 2) + 1
      BY <1>3
    <3> QED
      BY <2>1, <3>1, PowersOfTen
  <2>3. n # 9 => Ten(n) = 100 * q
    <3>1. n # 9 => n - 1 \in 0..7 /\ n = (n - 1) + 1
      BY <1>3
    <3>2. n # 9 => Ten(n) = 10 * Ten(n - 1)
      BY <3>1, PowersOfTen
    <3> QED
      BY <2>2, <3>2
  <2> QED
    BY <2>2, <2>3 DEF n, q
<1> QED
  BY <1>1, <1>2, <1>3

\* Rounding does not leave the decade, up to the next power of ten.
LEMMA RoundedDecade ==
  ASSUME NEW v \in Nat \ {0}
  PROVE  /\ Nearest(v, Quantum(v)) \in Nat /\ Above(v, Quantum(v)) \in Nat
         /\ Ten(Digits(v) - 1) <= Nearest(v, Quantum(v))
         /\ Nearest(v, Quantum(v)) <= Above(v, Quantum(v))
         /\ Digits(v) # 9 => Above(v, Quantum(v)) <= Ten(Digits(v))
<1> DEFINE n == Digits(v)
           q == Quantum(v)
<1>1. q \in Nat \ {0} /\ n \in 1..9 /\ Ten(n - 1) <= v /\ (n = 9 \/ v < Ten(n))
  BY PlaceType, DigitsExist
<1>2. /\ \E k \in Nat : Ten(n - 1) = q * k
      /\ n # 9 => \E k \in Nat : Ten(n) = q * k
  BY Decade
<1> HIDE DEF n, q
<1>3. PICK m, c \in Nat :
           /\ Nearest(v, q) = q * m /\ Above(v, q) = q * c
           /\ m = c \/ m + 1 = c
  BY <1>1, Nearby
<1>4. q * m \in Nat /\ q * c \in Nat /\ q * m <= q * c
  <2>1. \A a, b \in Nat : a <= b => q * a \in Nat /\ q * b \in Nat /\ q * a <= q * b
    BY <1>1
  <2>2. m <= c
    BY <1>3
  <2> QED
    BY <2>1, <2>2
<1>5. Ten(n - 1) <= Nearest(v, q)
  <2>1. PICK k \in Nat : Ten(n - 1) = q * k
    BY <1>2
  <2>2. q * k \in Nat /\ q * k <= v
    BY <1>1, <2>1
  <2> QED
    BY <1>1, <2>1, <2>2, NearbyMonotone, NearbyMultiple
<1>6. ASSUME n # 9
      PROVE  Above(v, q) <= Ten(n)
  <2>1. PICK k \in Nat : Ten(n) = q * k
    BY <1>2, <1>6
  <2>2. q * k \in Nat /\ v <= q * k
    BY <1>1, <1>6, <2>1
  <2> QED
    BY <1>1, <2>1, <2>2, NearbyMonotone, NearbyMultiple
<1> QED
  BY <1>3, <1>4, <1>5, <1>6 DEF n, q

\* What is reported: the nearest number of two digits, or the next one above
\* where the floor asks for it.
LEMMA RoundedUncertaintyIs ==
  ASSUME NEW u \in Nat, NEW floor \in Nat
  PROVE  RoundedUncertainty(u, floor) =
           IF Nearest(u, Quantum(u)) < floor THEN Above(u, Quantum(u))
           ELSE Nearest(u, Quantum(u))
<1>1. /\ Place(u) \in -1..8
      /\ Quantum(u) = Ten(Larger(Place(u), 0))
  BY PlaceType
<1>2. /\ HalfUp(u, Place(u)) = Nearest(u, Quantum(u))
      /\ Ceiling(u, Place(u)) = Above(u, Quantum(u))
  BY <1>1, RoundingIs
<1> QED
  BY <1>2, Zenon DEF RoundedUncertainty

\* A reported uncertainty is not below the floor, and is as near to the
\* floored one as two digits allow.
LEMMA ReportedIsSound ==
  ASSUME NEW u \in Nat, NEW floor \in Nat, floor <= u
  PROVE  LET r == RoundedUncertainty(u, floor)
         IN /\ r \in Nat
            /\ r >= floor
            /\ \/ 2 * Magnitude(r - u) <= Quantum(u)
               \/ r \in u..(u + Quantum(u) - 1) /\ r - Quantum(u) < floor
            /\ r % Quantum(u) = 0
<1> DEFINE r == RoundedUncertainty(u, floor)
           q == Quantum(u)
<1>1. q \in Nat \ {0}
  BY PlaceType
<1>2. r = IF Nearest(u, q) < floor THEN Above(u, q) ELSE Nearest(u, q)
  BY RoundedUncertaintyIs
<1>3. PICK m, c \in Nat :
           /\ Nearest(u, q) = q * m /\ Above(u, q) = q * c
           /\ 2 * (q * m) <= 2 * u + q /\ 2 * u < 2 * (q * m) + q
           /\ u <= q * c /\ q * c < u + q
           /\ m = c \/ m + 1 = c
  <2> HIDE DEF q
  <2> QED
    BY <1>1, Nearby
<1>4. \E k \in Nat : r = q * k
  BY <1>2, <1>3, Zenon
<1>5. q * m \in Nat /\ q * c \in Nat /\ (m + 1 = c => q * c = q * m + q)
  <2> HIDE DEF q
  <2>1. q * m \in Nat /\ q * c \in Nat /\ q * (m + 1) = q * m + q
    BY <1>1
  <2> QED
    BY <2>1
<1>6. r % q = 0
  <2>1. ASSUME NEW p \in Nat \ {0}, NEW k \in Nat
        PROVE  (p * k) % p = 0
    OBVIOUS
  <2> HIDE DEF r, q
  <2> QED
    BY <1>1, <1>4, <2>1
<1> HIDE DEF r, q
<1>7. CASE Nearest(u, q) < floor
  <2>1. r = q * c /\ m + 1 = c
    BY <1>1, <1>2, <1>3, <1>5, <1>7
  <2>2. r \in Nat /\ r >= floor /\ r \in u..(u + q - 1) /\ r - q < floor
    BY <1>1, <1>3, <1>5, <1>7, <2>1
  <2> QED
    BY <1>6, <2>2 DEF r, q
<1>8. CASE ~ (Nearest(u, q) < floor)
  <2>1. r = q * m
    BY <1>2, <1>3, <1>8
  <2>2. r \in Nat /\ r >= floor
    BY <1>3, <1>5, <1>8, <2>1
  <2>3. 2 * Magnitude(r - u) <= q
    BY <1>1, <1>3, <1>5, <2>1 DEF Magnitude
  <2> QED
    BY <1>6, <2>2, <2>3 DEF r, q
<1> QED
  BY <1>7, <1>8

\* More uncertainty, or a higher floor, is never reported as less: within one
\* power of ten rounding keeps the order, and across powers of ten the power
\* lies between.
LEMMA ReportedMonotone ==
  ASSUME NEW u \in Nat, NEW floor \in Nat, floor <= u,
         NEW w \in Nat, NEW higher \in Nat, higher <= w,
         u <= w, floor <= higher
  PROVE  RoundedUncertainty(u, floor) <= RoundedUncertainty(w, higher)
<1> DEFINE q == Quantum(u)
           p == Quantum(w)
<1>1. /\ RoundedUncertainty(u, floor) =
           IF Nearest(u, q) < floor THEN Above(u, q) ELSE Nearest(u, q)
      /\ RoundedUncertainty(w, higher) =
           IF Nearest(w, p) < higher THEN Above(w, p) ELSE Nearest(w, p)
  BY RoundedUncertaintyIs
<1>2. q \in Nat \ {0} /\ p \in Nat \ {0}
  BY PlaceType
<1>3. PICK m, c \in Nat :
           /\ Nearest(u, q) = q * m /\ Above(u, q) = q * c
           /\ 2 * (q * m) <= 2 * u + q /\ 2 * u < 2 * (q * m) + q
           /\ u <= q * c /\ q * c < u + q
           /\ m = c \/ m + 1 = c
  <2> HIDE DEF q
  <2> QED
    BY <1>2, Nearby
<1>4. PICK k, d \in Nat :
           /\ Nearest(w, p) = p * k /\ Above(w, p) = p * d
           /\ k = d \/ k + 1 = d
  <2> HIDE DEF p, q
  <2>1. \E k, d \in Nat :
           /\ Nearest(w, p) = p * k /\ Above(w, p) = p * d
           /\ 2 * (p * k) <= 2 * w + p /\ 2 * w < 2 * (p * k) + p
           /\ w <= p * d /\ p * d < w + p
           /\ k = d \/ k + 1 = d
    BY <1>2, Nearby
  <2> QED
    BY <2>1
<1>5. /\ q * m \in Nat /\ q * c \in Nat /\ q * m <= q * c
      /\ p * k \in Nat /\ p * d \in Nat /\ p * k <= p * d
  <2> HIDE DEF q, p
  <2>1. \A z \in Nat \ {0}, a, b \in Nat :
          a <= b => z * a \in Nat /\ z * b \in Nat /\ z * a <= z * b
    OBVIOUS
  <2>2. m <= c /\ k <= d
    BY <1>3, <1>4
  <2> QED
    BY <1>2, <2>1, <2>2
<1>6. CASE q = p
  <2>1. Nearest(u, q) <= Nearest(w, q) /\ Above(u, q) <= Above(w, q)
    BY <1>2, NearbyMonotone
  <2> HIDE DEF q, p
  <2>2. CASE Nearest(u, q) < floor /\ ~ (Nearest(w, p) < higher)
    <3>1. q * m < q * k
      BY <1>3, <1>4, <1>5, <1>6, <2>2
    <3>2. m + 1 <= k
      <4> SUFFICES ASSUME k <= m
                   PROVE  FALSE
        OBVIOUS
      <4>1. q * k <= q * m
        BY <1>2
      <4> QED
        BY <1>5, <1>6, <3>1, <4>1
    <3>3. q * c <= q * k
      <4>1. c <= k
        BY <1>3, <3>2
      <4> QED
        BY <1>2, <4>1
    <3> QED
      BY <1>1, <1>3, <1>4, <1>6, <2>2, <3>3
  <2>3. CASE ~ (Nearest(u, q) < floor /\ ~ (Nearest(w, p) < higher))
    BY <1>1, <1>3, <1>4, <1>5, <1>6, <2>1, <2>3
  <2> QED
    BY <2>2, <2>3
<1>7. CASE u # 0 /\ Digits(u) # Digits(w)
  <2>1. u \in Nat \ {0} /\ w \in Nat \ {0}
    BY <1>7
  <2>2. /\ Digits(u) \in 1..9 /\ Ten(Digits(u) - 1) <= u
        /\ Digits(u) = 9 \/ u < Ten(Digits(u))
        /\ Digits(w) \in 1..9 /\ Ten(Digits(w) - 1) <= w
        /\ Digits(w) = 9 \/ w < Ten(Digits(w))
    BY <2>1, DigitsExist
  <2>3. Digits(u) < Digits(w)
    <3> SUFFICES ASSUME Digits(w) < Digits(u)
                 PROVE  FALSE
      BY <1>7, <2>2
    <3>1. Digits(w) \in 0..8 /\ Digits(u) - 1 \in 0..8 /\ Digits(w) <= Digits(u) - 1
      BY <2>2
    <3>2. /\ Ten(Digits(w)) <= Ten(Digits(u) - 1)
          /\ Ten(Digits(w)) \in Nat /\ Ten(Digits(u) - 1) \in Nat
      BY <3>1, PowersInOrder, PowersOfTen
    <3> QED
      BY <2>2, <3>1, <3>2
  <2>4. /\ Digits(u) \in 0..8 /\ Digits(w) - 1 \in 0..8
        /\ Digits(u) <= Digits(w) - 1 /\ Digits(u) # 9
    BY <2>2, <2>3
  <2>5. /\ Ten(Digits(u)) <= Ten(Digits(w) - 1)
        /\ Ten(Digits(u)) \in Nat /\ Ten(Digits(w) - 1) \in Nat
    BY <2>4, PowersInOrder, PowersOfTen
  <2>6. /\ Above(u, q) <= Ten(Digits(u)) /\ Nearest(u, q) <= Above(u, q)
        /\ Ten(Digits(w) - 1) <= Nearest(w, p) /\ Nearest(w, p) <= Above(w, p)
    BY <2>1, <2>4, RoundedDecade
  <2> HIDE DEF q, p
  <2> QED
    BY <1>1, <1>3, <1>4, <1>5, <2>5, <2>6
<1>8. CASE u = 0
  <2>1. floor = 0
    BY <1>8
  <2>2. Nearest(u, q) = 0
    <3> HIDE DEF q
    <3>1. m = 0
      <4> SUFFICES ASSUME m >= 1
                   PROVE  FALSE
        OBVIOUS
      <4>1. q * 1 <= q * m
        BY <1>2
      <4> QED
        BY <1>2, <1>3, <1>5, <1>8, <4>1
    <3> QED
      BY <1>2, <1>3, <3>1
  <2> HIDE DEF q, p
  <2> QED
    BY <1>1, <1>4, <1>5, <2>1, <2>2
<1>9. CASE u # 0 /\ Digits(u) = Digits(w)
  <2>1. w # 0
    BY <1>9
  <2>2. Place(u) = Place(w)
    BY <1>9, <2>1, PlaceType
  <2>3. q = p
    BY <2>2 DEF Quantum
  <2> QED
    BY <1>6, <2>3
<1> QED
  BY <1>7, <1>8, <1>9

\* A result is given to the last digit of its uncertainty, or to units.
LEMMA ResultIsSound ==
  ASSUME NEW v \in Int, NEW u \in Nat
  PROVE  LET step == 10^Larger(IF Place(u) < Decimals THEN Place(u) ELSE Decimals, 0)
             e == RoundedResult(v, u)
         IN /\ e \in Int
            /\ e % step = 0
            /\ 2 * Magnitude(e - v) <= step
<1> DEFINE place == IF Place(u) < Decimals THEN Place(u) ELSE Decimals
           step == 10^Larger(place, 0)
           e == RoundedResult(v, u)
<1>1. place \in -1..8 /\ Decimals - DecimalPlaces(u) = place
  <2>1. Place(u) \in -1..7
    BY PlaceType
  <2> QED
    BY <2>1, ReportingAssumption DEF DecimalPlaces, Larger
<1>2. step = Ten(Larger(place, 0)) /\ step \in Nat \ {0}
  <2>1. Larger(place, 0) \in 0..8
    BY <1>1 DEF Larger
  <2>2. Ten(Larger(place, 0)) \in Nat \ {0}
    BY <2>1, PowersOfTen
  <2> HIDE DEF place
  <2> QED
    BY <2>2 DEF Ten
<1>3. e = HalfUp(v, place)
  BY <1>1, Zenon DEF RoundedResult
<1> HIDE DEF e
<1>4. PICK a \in Nat : a = Magnitude(v)
  BY DEF Magnitude
<1>5. e = IF v < 0 THEN - Nearest(a, step) ELSE Nearest(a, step)
  <2>1. CASE place > 0
    <3>1. ~ (place <= 0) /\ step = 10^place
      <4> HIDE DEF place
      <4>1. Larger(place, 0) = place
        BY <1>1, <2>1 DEF Larger
      <4> QED
        BY <1>1, <2>1, <4>1
    <3> HIDE DEF place, step
    <3> QED
      BY <1>3, <1>4, <3>1, Zenon DEF HalfUp, Nearest
  <2>2. CASE place <= 0
    <3>1. step = 1
      <4>1. Larger(place, 0) = 0
        BY <1>1, <2>2 DEF Larger
      <4> HIDE DEF place
      <4> QED
        BY <1>2, <4>1, PowersOfTen
    <3>2. Nearest(a, 1) = a
      BY DEF Nearest
    <3>3. v = IF v < 0 THEN -a ELSE a
      BY <1>4 DEF Magnitude
    <3>4. e = v
      BY <1>3, <2>2, Zenon DEF HalfUp
    <3> HIDE DEF place, step
    <3> QED
      BY <3>1, <3>2, <3>3, <3>4
  <2> QED
    BY <1>1, <2>1, <2>2
<1> HIDE DEF step, place
<1>6. PICK m \in Nat :
           /\ Nearest(a, step) = step * m
           /\ 2 * (step * m) <= 2 * a + step /\ 2 * a < 2 * (step * m) + step
  <2>1. \E m, c \in Nat :
           /\ Nearest(a, step) = step * m /\ Above(a, step) = step * c
           /\ 2 * (step * m) <= 2 * a + step /\ 2 * a < 2 * (step * m) + step
           /\ a <= step * c /\ step * c < a + step
           /\ m = c \/ m + 1 = c
    BY <1>2, Nearby
  <2> QED
    BY <2>1
<1>7. step * m \in Nat /\ (step * m) % step = 0 /\ (- (step * m)) % step = 0
  <2>1. step * m \in Nat /\ (step * m) % step = 0
    <3>1. \A z \in Nat \ {0}, i \in Nat : z * i \in Nat /\ (z * i) % z = 0
      OBVIOUS
    <3> QED
      BY <1>2, <3>1
  <2>2. - (step * m) = step * (- m)
    BY <1>2
  <2>3. (step * (- m)) % step = 0
    BY <1>2
  <2> QED
    BY <2>1, <2>2, <2>3
<1>8. e \in Int /\ e % step = 0 /\ 2 * Magnitude(e - v) <= step
  <2>1. CASE v < 0
    <3>1. e = - (step * m) /\ v = - a
      BY <1>4, <1>5, <1>6, <2>1 DEF Magnitude
    <3>2. 2 * Magnitude(e - v) <= step
      BY <1>2, <1>6, <1>7, <3>1 DEF Magnitude
    <3> QED
      BY <1>7, <3>1, <3>2
  <2>2. CASE ~ (v < 0)
    <3>1. e = step * m /\ v = a
      BY <1>4, <1>5, <1>6, <2>2 DEF Magnitude
    <3>2. 2 * Magnitude(e - v) <= step
      BY <1>2, <1>6, <1>7, <3>1 DEF Magnitude
    <3> QED
      BY <1>7, <3>1, <3>2
  <2> QED
    BY <2>1, <2>2
<1> QED
  BY <1>8 DEF e, step, place

\* So it is within half of the last digit of the uncertainty, and given to that
\* digit unless it is above the units.
LEMMA ResultFollows ==
  ASSUME NEW v \in Int, NEW u \in Nat
  PROVE  LET e == RoundedResult(v, u)
         IN /\ 2 * Magnitude(e - v) <= Quantum(u)
            /\ Place(u) <= Decimals => e % Quantum(u) = 0
<1> DEFINE place == IF Place(u) < Decimals THEN Place(u) ELSE Decimals
           step == 10^Larger(place, 0)
           e == RoundedResult(v, u)
<1>1. e \in Int /\ e % step = 0 /\ 2 * Magnitude(e - v) <= step
  BY ResultIsSound
<1>2. /\ Larger(place, 0) \in 0..8 /\ Larger(Place(u), 0) \in 0..7
      /\ Larger(place, 0) <= Larger(Place(u), 0)
      /\ Place(u) <= Decimals => Larger(place, 0) = Larger(Place(u), 0)
  <2>1. Place(u) \in -1..7
    BY PlaceType
  <2> QED
    BY <2>1, ReportingAssumption DEF Larger
<1>3. Quantum(u) = Ten(Larger(Place(u), 0)) /\ step = Ten(Larger(place, 0))
  BY PlaceType DEF Ten
<1> HIDE DEF place, e, step
<1>4. step <= Quantum(u) /\ step \in Nat /\ Quantum(u) \in Nat
  <2>1. Larger(Place(u), 0) \in 0..8
    BY <1>2
  <2> QED
    BY <1>2, <1>3, <2>1, PowersInOrder, PowersOfTen
<1>5. Place(u) <= Decimals => step = Quantum(u)
  BY <1>2, <1>3
<1>6. Magnitude(e - v) \in Int
  BY <1>1 DEF Magnitude
<1> QED
  BY <1>1, <1>4, <1>5, <1>6 DEF e

(***************************************************************************)
(* Contributions                                                           *)
(***************************************************************************)

\* A larger number has a larger square.
LEMMA SquareMonotone ==
  ASSUME NEW a \in Nat, NEW b \in Nat, a <= b
  PROVE  a * a \in Nat /\ b * b \in Nat /\ a * a <= b * b
<1>1. a * a <= a * b /\ a * b <= b * b
  OBVIOUS
<1> QED
  BY <1>1

\* Squares of standard uncertainties.
LEMMA ContributionTypes ==
  ASSUME NEW setup \in SetupType
  PROVE  /\ FromExpanded(setup.reference, setup.factor) \in Nat
         /\ FromExpanded(setup.ambient, setup.factor) \in Nat
         /\ FromResolution(setup.resolution) \in Nat
         /\ FromAdditional(setup.additional) \in Nat
<1>1. /\ setup.reference \in Nat /\ setup.ambient \in Nat /\ setup.resolution \in Nat
      /\ setup.factor \in Nat \ {0}
      /\ setup.additional.uncertainty \in Nat /\ setup.additional.sensitivity \in Int
  BY DEF SetupType
<1>2. ASSUME NEW u \in Nat, NEW k \in Nat \ {0}
      PROVE  FromExpanded(u, k) \in Nat
  <2>1. 12 * u * u \in Int /\ 12 * u * u >= 0 /\ k * k \in Nat \ {0}
    OBVIOUS
  <2> QED
    BY <2>1, Division DEF FromExpanded
<1>3. ASSUME NEW u \in Nat, NEW c \in Int
      PROVE  12 * (c * u) * (c * u) \in Nat
  <2>1. c * u \in Int
    OBVIOUS
  <2>2. \A z \in Int : 12 * z * z \in Nat
    OBVIOUS
  <2> QED
    BY <2>1, <2>2
<1>4. FromResolution(setup.resolution) \in Nat
  BY <1>1 DEF FromResolution
<1>5. FromAdditional(setup.additional) \in Nat
  BY <1>1, <1>3 DEF FromAdditional
<1> QED
  BY <1>1, <1>2, <1>4, <1>5

\* A larger input is a larger contribution.
LEMMA ContributionsMonotone ==
  ASSUME NEW u \in Nat, NEW w \in Nat, u <= w, NEW k \in Nat \ {0}
  PROVE  /\ FromExpanded(u, k) <= FromExpanded(w, k)
         /\ FromResolution(u) <= FromResolution(w)
<1>1. u * u \in Nat /\ w * w \in Nat /\ u * u <= w * w
  BY SquareMonotone
<1>2. 12 * u * u \in Int /\ 12 * w * w \in Int /\ 12 * u * u <= 12 * w * w
  BY <1>1
<1>3. k * k \in Nat \ {0}
  OBVIOUS
<1>4. (12 * u * u) \div (k * k) <= (12 * w * w) \div (k * k)
  BY <1>2, <1>3, DivisionMonotone
<1> QED
  BY <1>1, <1>4 DEF FromExpanded, FromResolution

\* So does an additional one, whatever the sign of its sensitivity.
LEMMA AdditionalMonotone ==
  ASSUME NEW a \in [uncertainty : Nat, sensitivity : Int],
         NEW b \in [uncertainty : Nat, sensitivity : Int],
         a.uncertainty <= b.uncertainty,
         Magnitude(a.sensitivity) <= Magnitude(b.sensitivity)
  PROVE  FromAdditional(a) <= FromAdditional(b)
<1>1. ASSUME NEW z \in [uncertainty : Nat, sensitivity : Int]
      PROVE  /\ Magnitude(z.sensitivity) * z.uncertainty \in Nat
             /\ FromAdditional(z) = 12 * ((Magnitude(z.sensitivity) * z.uncertainty)
                                           * (Magnitude(z.sensitivity) * z.uncertainty))
  <2>1. PICK c \in Int, u \in Nat : c = z.sensitivity /\ u = z.uncertainty
    OBVIOUS
  <2>2. /\ Magnitude(c) * u \in Nat
        /\ 12 * (c * u) * (c * u) = 12 * ((Magnitude(c) * u) * (Magnitude(c) * u))
    BY DEF Magnitude
  <2> QED
    BY <2>1, <2>2 DEF FromAdditional
<1>2. Magnitude(a.sensitivity) * a.uncertainty <= Magnitude(b.sensitivity) * b.uncertainty
  <2>1. \A c, d, u, w \in Nat : c <= d /\ u <= w => c * u <= d * w
    <3> TAKE c, d, u, w \in Nat
    <3>1. c <= d /\ u <= w => c * u <= d * u /\ d * u <= d * w
      OBVIOUS
    <3> QED
      BY <3>1
  <2>2. Magnitude(a.sensitivity) \in Nat /\ Magnitude(b.sensitivity) \in Nat
    BY DEF Magnitude
  <2> QED
    BY <2>1, <2>2
<1> DEFINE x == Magnitude(a.sensitivity) * a.uncertainty
           y == Magnitude(b.sensitivity) * b.uncertainty
<1>3. x \in Nat /\ y \in Nat /\ x <= y
  BY <1>1, <1>2
<1>4. FromAdditional(a) = 12 * (x * x) /\ FromAdditional(b) = 12 * (y * y)
  BY <1>1
<1> HIDE DEF x, y
<1>5. x * x \in Nat /\ y * y \in Nat /\ x * x <= y * y
  BY <1>3, SquareMonotone
<1> QED
  BY <1>4, <1>5

\* The spread of the readings of a point that is accepted.
LEMMA RepeatabilityType ==
  ASSUME NEW p \in PointType, Accepted(p)
  PROVE  Repeatability(p) \in Seq(Nat)
<1>1. /\ p.references \in Seq(Int) /\ p.indications \in Seq(Int)
      /\ p.kind \in {"temperature", "manual", "automatic"}
      /\ p.setup.paired \in BOOLEAN
  BY DEF PointType, SetupType
<1>2. CASE p.kind = "manual"
  <2>1. Repeatability(p) = << >>
    BY <1>2 DEF Repeatability
  <2> QED
    BY <2>1
<1>3. CASE p.kind # "manual"
  <2>1. Len(p.references) >= 2 /\ Len(p.indications) = Len(p.references)
    BY <1>3 DEF Accepted
  <2>2. TypeA(p.references) \in Nat /\ TypeA(p.indications) \in Nat
    BY <1>1, <2>1, TypeAType
  <2>3. TypeA(Differences(p)) \in Nat
    <3>1. PICK v \in Seq(Int), w \in Seq(Int) :
             v = p.references /\ w = p.indications /\ Len(w) = Len(v)
      BY <1>1, <2>1
    <3>2. DOMAIN v = 1..Len(v) /\ \A i \in 1..Len(v) : w[i] - v[i] \in Int
      BY <3>1
    <3>3. Differences(p) = [i \in 1..Len(v) |-> w[i] - v[i]]
      BY <3>1, <3>2 DEF Differences
    <3>4. Differences(p) \in Seq(Int) /\ Len(Differences(p)) = Len(p.references)
      BY <3>1, <3>2, <3>3
    <3> QED
      BY <2>1, <3>4, TypeAType
  <2>4. Repeatability(p) = IF p.setup.paired THEN << TypeA(Differences(p)) >>
                           ELSE << TypeA(p.references), TypeA(p.indications) >>
    BY <1>3 DEF Repeatability
  <2> QED
    BY <2>2, <2>3, <2>4
<1> QED
  BY <1>2, <1>3

\* The parts around the repeatability, term by term.
LEMMA PartsAround ==
  ASSUME NEW s \in Seq(Nat), NEW a \in Nat, NEW b \in Nat, NEW c \in Nat, NEW d \in Nat
  PROVE  LET v == << a >> \o s \o << b, c, d >>
         IN /\ v \in Seq(Nat) /\ Len(v) = Len(s) + 4
            /\ v[1] = a /\ v[Len(s) + 2] = b /\ v[Len(s) + 3] = c
            /\ v[Len(s) + 4] = d
            /\ \A i \in 1..Len(s) : v[i + 1] = s[i]
<1> DEFINE x == << a >> \o s
           y == << b, c, d >>
           v == x \o y
<1>1. /\ x \in Seq(Nat) /\ Len(x) = Len(s) + 1 /\ x[1] = a
      /\ \A i \in 1..Len(s) : x[i + 1] = s[i]
  OBVIOUS
<1>2. y \in Seq(Nat) /\ Len(y) = 3 /\ y[1] = b /\ y[2] = c /\ y[3] = d
  OBVIOUS
<1> HIDE DEF x, y
<1>3. /\ v \in Seq(Nat) /\ Len(v) = Len(x) + Len(y)
      /\ \A i \in 1..(Len(x) + Len(y)) :
           v[i] = IF i <= Len(x) THEN x[i] ELSE y[i - Len(x)]
  BY <1>1, <1>2, ConcatProperties
<1> HIDE DEF v
<1>4. PICK n \in Nat : n = Len(s)
  OBVIOUS
<1>5. ASSUME NEW i \in 1..(n + 1)
      PROVE  v[i] = x[i]
  BY <1>1, <1>2, <1>3, <1>4
<1>6. ASSUME NEW j \in 1..3
      PROVE  v[n + 1 + j] = y[j]
  <2>1. n + 1 + j \in 1..(Len(x) + Len(y)) /\ ~ (n + 1 + j <= Len(x))
        /\ (n + 1 + j) - Len(x) = j
    BY <1>1, <1>2, <1>4
  <2> QED
    BY <1>3, <2>1
<1>7. v[1] = a
  BY <1>1, <1>5
<1>8. v[n + 2] = b /\ v[n + 3] = c /\ v[n + 4] = d
  <2>1. n + 1 + 1 = n + 2 /\ n + 1 + 2 = n + 3 /\ n + 1 + 3 = n + 4
    OBVIOUS
  <2> QED
    BY <1>2, <1>6, <2>1
<1>9. ASSUME NEW i \in 1..Len(s)
      PROVE  v[i + 1] = s[i]
  <2>1. i + 1 \in 1..(n + 1)
    BY <1>4
  <2> QED
    BY <1>1, <1>5, <2>1
<1>10. v \in Seq(Nat) /\ Len(v) = n + 4
  BY <1>1, <1>2, <1>3, <1>4
<1> QED
  BY <1>4, <1>7, <1>8, <1>9, <1>10 DEF v, x, y

\* Four contributions may grow around the repeatability.
LEMMA PartsMonotone ==
  ASSUME NEW s \in Seq(Nat),
         NEW a \in Nat, NEW b \in Nat, NEW c \in Nat, NEW d \in Nat,
         NEW e \in Nat, NEW f \in Nat, NEW g \in Nat, NEW h \in Nat,
         a <= e, b <= f, c <= g, d <= h
  PROVE  /\ Total(<< a >> \o s \o << b, c, d >>) \in Nat
         /\ Total(<< e >> \o s \o << f, g, h >>) \in Nat
         /\ Total(<< a >> \o s \o << b, c, d >>) <= Total(<< e >> \o s \o << f, g, h >>)
<1> DEFINE v == << a >> \o s \o << b, c, d >>
           w == << e >> \o s \o << f, g, h >>
<1>1. /\ v \in Seq(Nat) /\ Len(v) = Len(s) + 4
      /\ v[1] = a /\ v[Len(s) + 2] = b /\ v[Len(s) + 3] = c
      /\ v[Len(s) + 4] = d
      /\ \A i \in 1..Len(s) : v[i + 1] = s[i]
  BY PartsAround
<1>2. /\ w \in Seq(Nat) /\ Len(w) = Len(s) + 4
      /\ w[1] = e /\ w[Len(s) + 2] = f /\ w[Len(s) + 3] = g
      /\ w[Len(s) + 4] = h
      /\ \A i \in 1..Len(s) : w[i + 1] = s[i]
  BY PartsAround
<1> HIDE DEF v, w
<1>3. v \in Seq(Int) /\ w \in Seq(Int) /\ Len(v) = Len(w)
  BY <1>1, <1>2, SMTT(30)
<1>4. ASSUME NEW i \in 1..Len(v)
      PROVE  v[i] <= w[i]
  <2>0. Len(s) \in Nat
    OBVIOUS
  <2>1. CASE i \in {1, Len(s) + 2, Len(s) + 3, Len(s) + 4}
    BY <1>1, <1>2, <2>1
  <2>2. CASE i \in 2..(Len(s) + 1)
    <3>1. i - 1 \in 1..Len(s) /\ (i - 1) + 1 = i
      BY <2>0, <2>2
    <3>2. PICK j \in 1..Len(s) : j = i - 1 /\ j + 1 = i
      BY <3>1
    <3>3. v[j + 1] = s[j] /\ w[j + 1] = s[j]
      BY <1>1, <1>2
    <3>4. s[j] \in Nat
      OBVIOUS
    <3> QED
      BY <3>2, <3>3, <3>4
  <2>3. i \in 1..(Len(s) + 4)
    BY <1>1
  <2> QED
    BY <2>0, <2>1, <2>2, <2>3
<1>5. /\ \A i \in 1..Len(v) : v[i] >= 0
      /\ \A i \in 1..Len(w) : w[i] >= 0
  <2>1. \A z \in Seq(Nat) : \A i \in 1..Len(z) : z[i] >= 0
    OBVIOUS
  <2> QED
    BY <1>1, <1>2, <2>1
<1>6. Total(v) \in Nat /\ Total(w) \in Nat
  BY <1>3, <1>5, TotalType
<1>7. Total(v) <= Total(w)
  BY <1>3, <1>4, TotalMonotone
<1> QED
  BY <1>6, <1>7 DEF v, w

\* The expanded uncertainty is a natural number, and grows with its parts.
LEMMA ExpandedMonotone ==
  ASSUME NEW v, NEW w, Total(v) \in Nat, Total(w) \in Nat, Total(v) <= Total(w),
         NEW k \in Nat, NEW l \in Nat, k <= l
  PROVE  Expanded(v, k) \in Nat /\ Expanded(v, k) <= Expanded(w, l)
<1> DEFINE t == Total(v)
           u == Total(w)
<1>1. t \in Nat /\ u \in Nat /\ t <= u
  OBVIOUS
<1>2. Expanded(v, k) = Root((k * k * t) \div 12) /\ Expanded(w, l) = Root((l * l * u) \div 12)
  BY DEF Expanded
<1> HIDE DEF t, u
<1>3. k * k \in Nat /\ l * l \in Nat /\ k * k <= l * l
  BY SquareMonotone
<1>4. PICK a, b \in Nat : a = k * k /\ b = l * l /\ a <= b
  BY <1>3
<1>5. a * t \in Nat /\ b * u \in Nat /\ a * t <= b * u
  <2>1. a * t <= b * t /\ b * t <= b * u /\ a * t \in Nat /\ b * t \in Nat /\ b * u \in Nat
    BY <1>1, <1>4
  <2> QED
    BY <2>1
<1>6. (a * t) \div 12 \in Nat /\ (b * u) \div 12 \in Nat /\ (a * t) \div 12 <= (b * u) \div 12
  BY <1>5
<1> QED
  BY <1>2, <1>4, <1>6, RootExists, RootMonotone

(***************************************************************************)
(* Rows                                                                    *)
(***************************************************************************)

\* The fields of a point and of its setup.
LEMMA PointFields ==
  ASSUME NEW p \in PointType
  PROVE  /\ p.references \in Seq(Int) /\ p.indications \in Seq(Int)
         /\ p.kind \in {"temperature", "manual", "automatic"}
         /\ p.kind = "manual" => Len(p.references) = 1
         /\ p.setup \in SetupType
         /\ p.setup.floor \in Nat /\ p.setup.coverage \in Nat
         /\ p.setup.factor \in Nat \ {0}
         /\ p.setup.reference \in Nat /\ p.setup.ambient \in Nat
         /\ p.setup.resolution \in Nat
         /\ p.setup.additional \in [uncertainty : Nat, sensitivity : Int]
  BY DEF PointType, SetupType

\* A mean of readings is an integer.
LEMMA MeanType ==
  ASSUME NEW v \in Seq(Int), Len(v) >= 1
  PROVE  Mean(v) \in Int
<1>1. Total(v) \in Int
  BY TotalType
<1>2. Len(v) \in Nat \ {0}
  OBVIOUS
<1> QED
  BY <1>1, <1>2, Division DEF Mean

\* A calculated uncertainty is a natural number.
LEMMA CalculatedType ==
  ASSUME NEW p \in PointType, Accepted(p)
  PROVE  Expanded(Parts(p), p.setup.coverage) \in Nat
<1>1. /\ FromExpanded(p.setup.reference, p.setup.factor) \in Nat
      /\ FromExpanded(p.setup.ambient, p.setup.factor) \in Nat
      /\ FromResolution(p.setup.resolution) \in Nat
      /\ FromAdditional(p.setup.additional) \in Nat
  BY PointFields, ContributionTypes
<1>2. Repeatability(p) \in Seq(Nat)
  BY RepeatabilityType
<1>3. Total(Parts(p)) \in Nat
  <2> DEFINE a == FromExpanded(p.setup.reference, p.setup.factor)
             b == FromExpanded(p.setup.ambient, p.setup.factor)
             c == FromResolution(p.setup.resolution)
             d == FromAdditional(p.setup.additional)
  <2>1. a \in Nat /\ b \in Nat /\ c \in Nat /\ d \in Nat
    BY <1>1
  <2>2. Parts(p) = << a >> \o Repeatability(p) \o << b, c, d >>
    BY DEF Parts
  <2> HIDE DEF a, b, c, d
  <2>3. a <= a /\ b <= b /\ c <= c /\ d <= d
    BY <2>1
  <2> QED
    BY <1>2, <2>1, <2>2, <2>3, PartsMonotone
<1>4. p.setup.coverage \in Nat /\ p.setup.coverage <= p.setup.coverage
  BY PointFields
<1> QED
  BY <1>3, <1>4, ExpandedMonotone

\* What the row of an accepted point holds.
LEMMA RowIs ==
  ASSUME NEW p \in PointType, Accepted(p)
  PROVE  /\ Row(p).dut = p.dut
         /\ Row(p).calculated = Expanded(Parts(p), p.setup.coverage)
         /\ Row(p).calculated \in Nat
         /\ Row(p).floor = p.setup.floor /\ Row(p).floor \in Nat
         /\ Row(p).reference \in Int /\ Row(p).indication \in Int
         /\ Row(p).reported = RoundedUncertainty(Larger(Row(p).calculated, Row(p).floor),
                                                 Row(p).floor)
         /\ Row(p).error = RoundedResult(Row(p).indication - Row(p).reference,
                                         Larger(Row(p).calculated, Row(p).floor))
<1> DEFINE c == Expanded(Parts(p), p.setup.coverage)
           f == p.setup.floor
           r == Mean(p.references)
           n == Mean(p.indications)
<1>1. c \in Nat /\ f \in Nat
  BY CalculatedType, PointFields
<1>2. r \in Int /\ n \in Int
  <2>1. Len(p.references) >= 1 /\ Len(p.indications) >= 1
    <3>1. Len(p.references) \in Nat /\ Len(p.indications) \in Nat
      BY PointFields
    <3>2. p.kind # "manual" => Len(p.references) >= 2 /\ Len(p.indications) = Len(p.references)
      BY DEF Accepted
    <3>3. p.kind = "manual" => Len(p.references) = 1 /\ Len(p.indications) >= 1
      BY PointFields DEF Accepted
    <3> QED
      BY <3>1, <3>2, <3>3
  <2> QED
    BY <2>1, PointFields, MeanType
<1>3. Row(p) = [dut |-> p.dut, reference |-> r, indication |-> n, calculated |-> c,
                floor |-> f, reported |-> RoundedUncertainty(Larger(c, f), f),
                error |-> RoundedResult(n - r, Larger(c, f))]
  BY DEF Row
<1> HIDE DEF c, f, r, n
<1>4. /\ Row(p).dut = p.dut /\ Row(p).reference = r /\ Row(p).indication = n
      /\ Row(p).calculated = c /\ Row(p).floor = f
      /\ Row(p).reported = RoundedUncertainty(Larger(c, f), f)
      /\ Row(p).error = RoundedResult(n - r, Larger(c, f))
  BY <1>3
<1> QED
  BY <1>1, <1>2, <1>4 DEF c, f

\* The rows are those of accepted points.
RowsOfPoints ==
  /\ points \in Seq(PointType)
  /\ \A i \in DOMAIN points : Accepted(points[i])
  /\ rows = [i \in DOMAIN points |-> Row(points[i])]

\* Before the calculation there is nothing to preview.
NothingYet ==
  /\ jobState \in {"windows_selected", "calculated", "approved", "released"}
  /\ jobState = "windows_selected" => previews = {} /\ document = << >>

\* There is nothing at first.
LEMMA RowsOfPointsInit == CCInit => RowsOfPoints /\ NothingYet
<1> SUFFICES ASSUME CCInit
             PROVE  RowsOfPoints /\ NothingYet
  OBVIOUS
<1>1. points = << >> /\ rows = << >> /\ DOMAIN points = {}
  BY DEF CCInit
<1>2. rows = [i \in {} |-> Row(points[i])]
  BY <1>1
<1>3. points \in Seq(PointType)
  BY <1>1
<1> QED
  BY <1>1, <1>2, <1>3 DEF CCInit, RowsOfPoints, NothingYet

\* Only a calculation changes points and rows, both at once.
LEMMA RowsOfPointsStep ==
  ASSUME RowsOfPoints, NothingYet, [CCNext]_CCVars
  PROVE  RowsOfPoints' /\ NothingYet'
<1>1. ASSUME NEW plan \in Plans, Calculate(plan)
      PROVE  RowsOfPoints' /\ NothingYet'
  <2>1. plan \in Seq(PointType)
    BY PlansAssumption
  <2> QED
    BY <1>1, <2>1 DEF Calculate, RowsOfPoints, NothingYet
<1>2. ASSUME NEW template \in Templates, NEW accredited \in BOOLEAN,
             GeneratePreview(template, accredited)
      PROVE  RowsOfPoints' /\ NothingYet'
  BY <1>2 DEF GeneratePreview, RowsOfPoints, NothingYet
<1>3. CASE Approve
  BY <1>3 DEF Approve, RowsOfPoints, NothingYet
<1>4. ASSUME NEW number \in Numbers, NEW template \in Templates, NEW accredited \in BOOLEAN,
             Release(number, template, accredited)
      PROVE  RowsOfPoints' /\ NothingYet'
  BY <1>4 DEF Release, RowsOfPoints, NothingYet
<1>5. CASE UNCHANGED CCVars
  BY <1>5 DEF CCVars, RowsOfPoints, NothingYet
<1> QED
  BY <1>1, <1>2, <1>3, <1>4, <1>5 DEF CCNext

\* The row of an accepted point is rounded soundly.
LEMMA RowSound ==
  ASSUME RowsOfPoints
  PROVE  UncertaintyIsSound
<1> SUFFICES ASSUME NEW i \in DOMAIN rows
             PROVE  LET row == rows[i]
                        u == Floored(row)
                        q == LastDigit(row)
                    IN /\ row.reported >= row.floor
                       /\ row.reported % q = 0
                       /\ \/ 2 * Magnitude(row.reported - u) <= q
                          \/ row.reported \in u..(u + q - 1) /\ row.reported - q < row.floor
                       /\ 2 * Magnitude(row.error - (row.indication - row.reference)) <= q
                       /\ Place(u) <= Decimals => row.error % q = 0
  BY DEF UncertaintyIsSound
<1>1. PICK p \in PointType : Accepted(p) /\ rows[i] = Row(p)
  <2>1. /\ i \in DOMAIN points /\ rows[i] = Row(points[i])
        /\ points[i] \in PointType /\ Accepted(points[i])
    BY DEF RowsOfPoints
  <2> QED
    BY <2>1
<1> DEFINE row == rows[i]
           u == Floored(row)
           v == row.indication - row.reference
<1>2. /\ row.calculated \in Nat /\ row.floor \in Nat
      /\ row.reference \in Int /\ row.indication \in Int
      /\ row.reported = RoundedUncertainty(u, row.floor)
      /\ row.error = RoundedResult(v, u)
  BY <1>1, RowIs DEF Floored
<1>3. u \in Nat /\ row.floor <= u /\ v \in Int
  BY <1>2 DEF Floored, Larger
<1>4. LastDigit(row) = Quantum(u)
  BY DEF LastDigit, Quantum
<1> HIDE DEF row, u, v
<1>5. /\ row.reported >= row.floor
      /\ \/ 2 * Magnitude(row.reported - u) <= Quantum(u)
         \/ row.reported \in u..(u + Quantum(u) - 1)
            /\ row.reported - Quantum(u) < row.floor
      /\ row.reported % Quantum(u) = 0
  BY <1>2, <1>3, ReportedIsSound
<1>6. /\ 2 * Magnitude(row.error - v) <= Quantum(u)
      /\ Place(u) <= Decimals => row.error % Quantum(u) = 0
  BY <1>2, <1>3, ResultFollows
<1> QED
  BY <1>4, <1>5, <1>6, Zenon DEF row, u, v

\* The rows of two points with the same readings, one above the other.
LEMMA RowsGrow ==
  ASSUME NEW p \in PointType, Accepted(p), NEW q \in PointType, Accepted(q),
         p.kind = q.kind, p.references = q.references, p.indications = q.indications,
         p.setup.paired = q.setup.paired, p.setup.factor = q.setup.factor,
         p.setup.coverage <= q.setup.coverage,
         Magnitude(p.setup.additional.sensitivity)
           <= Magnitude(q.setup.additional.sensitivity),
         p.setup.additional.uncertainty <= q.setup.additional.uncertainty,
         p.setup.floor <= q.setup.floor, p.setup.reference <= q.setup.reference,
         p.setup.ambient <= q.setup.ambient, p.setup.resolution <= q.setup.resolution
  PROVE  Row(p).reported <= Row(q).reported
<1>1. Repeatability(p) = Repeatability(q)
  <2>1. Differences(p) = Differences(q)
    BY DEF Differences
  <2> QED
    BY <2>1 DEF Repeatability
<1> DEFINE s == Repeatability(p)
           a == FromExpanded(p.setup.reference, p.setup.factor)
           b == FromExpanded(p.setup.ambient, p.setup.factor)
           c == FromResolution(p.setup.resolution)
           d == FromAdditional(p.setup.additional)
           e == FromExpanded(q.setup.reference, q.setup.factor)
           f == FromExpanded(q.setup.ambient, q.setup.factor)
           g == FromResolution(q.setup.resolution)
           h == FromAdditional(q.setup.additional)
<1>2. s \in Seq(Nat)
  BY RepeatabilityType
<1>3. /\ a \in Nat /\ b \in Nat /\ c \in Nat /\ d \in Nat
      /\ e \in Nat /\ f \in Nat /\ g \in Nat /\ h \in Nat
  BY PointFields, ContributionTypes
<1>4. a <= e /\ b <= f /\ c <= g /\ d <= h
  <2>1. a <= e
    BY PointFields, ContributionsMonotone
  <2>2. b <= f
    BY PointFields, ContributionsMonotone
  <2>3. c <= g
    BY PointFields, ContributionsMonotone
  <2>4. d <= h
    BY PointFields, AdditionalMonotone
  <2> QED
    BY <2>1, <2>2, <2>3, <2>4
<1>5. Parts(p) = << a >> \o s \o << b, c, d >> /\ Parts(q) = << e >> \o s \o << f, g, h >>
  BY <1>1 DEF Parts
<1> HIDE DEF a, b, c, d, e, f, g, h, s
<1>6. /\ Total(Parts(p)) \in Nat /\ Total(Parts(q)) \in Nat
      /\ Total(Parts(p)) <= Total(Parts(q))
  <2>1. /\ Total(<< a >> \o s \o << b, c, d >>) \in Nat
        /\ Total(<< e >> \o s \o << f, g, h >>) \in Nat
        /\ Total(<< a >> \o s \o << b, c, d >>) <= Total(<< e >> \o s \o << f, g, h >>)
    BY <1>2, <1>3, <1>4, PartsMonotone
  <2> QED
    BY <1>5, <2>1
<1>7. p.setup.coverage \in Nat /\ q.setup.coverage \in Nat
  BY PointFields
<1>8. Expanded(Parts(p), p.setup.coverage) <= Expanded(Parts(q), q.setup.coverage)
  BY <1>6, <1>7, ExpandedMonotone
<1>9. /\ Row(p).calculated <= Row(q).calculated /\ Row(p).floor <= Row(q).floor
      /\ Row(p).calculated \in Nat /\ Row(q).calculated \in Nat
      /\ Row(p).floor \in Nat /\ Row(q).floor \in Nat
  BY <1>8, RowIs
<1>10. /\ Row(p).reported = RoundedUncertainty(Larger(Row(p).calculated, Row(p).floor),
                                               Row(p).floor)
       /\ Row(q).reported = RoundedUncertainty(Larger(Row(q).calculated, Row(q).floor),
                                               Row(q).floor)
  BY RowIs
<1> DEFINE u == Larger(Row(p).calculated, Row(p).floor)
           w == Larger(Row(q).calculated, Row(q).floor)
<1>11. u \in Nat /\ w \in Nat /\ u <= w /\ Row(p).floor <= u /\ Row(q).floor <= w
  BY <1>9 DEF Larger
<1> HIDE DEF u, w
<1>12. RoundedUncertainty(u, Row(p).floor) <= RoundedUncertainty(w, Row(q).floor)
  BY <1>9, <1>11, ReportedMonotone
<1> QED
  BY <1>10, <1>12 DEF u, w

\* So for all rows.
LEMMA AllRowsGrow ==
  ASSUME RowsOfPoints
  PROVE  UncertaintyGrows
<1> SUFFICES ASSUME NEW i \in DOMAIN points, NEW j \in DOMAIN points,
                    LET p == points[i]  q == points[j]
                    IN /\ p.kind = q.kind /\ p.references = q.references
                       /\ p.indications = q.indications
                       /\ p.setup.paired = q.setup.paired
                       /\ p.setup.factor = q.setup.factor
                       /\ p.setup.coverage <= q.setup.coverage
                       /\ Magnitude(p.setup.additional.sensitivity)
                            <= Magnitude(q.setup.additional.sensitivity)
                       /\ p.setup.additional.uncertainty <= q.setup.additional.uncertainty
                       /\ \A part \in {"floor", "reference", "ambient", "resolution"} :
                            p.setup[part] <= q.setup[part]
             PROVE  rows[i].reported <= rows[j].reported
  BY Zenon DEF UncertaintyGrows
<1> DEFINE p == points[i]
           q == points[j]
<1>1. p \in PointType /\ q \in PointType /\ Accepted(p) /\ Accepted(q)
  BY DEF RowsOfPoints
<1>2. rows[i] = Row(p) /\ rows[j] = Row(q)
  BY DEF RowsOfPoints
<1>3. /\ p.setup.floor <= q.setup.floor /\ p.setup.reference <= q.setup.reference
      /\ p.setup.ambient <= q.setup.ambient /\ p.setup.resolution <= q.setup.resolution
  <2>1. p.setup \in SetupType /\ q.setup \in SetupType
    BY <1>1, PointFields
  <2> QED
    BY <2>1 DEF SetupType
<1>4. Row(p).reported <= Row(q).reported
  <2> HIDE DEF p, q
  <2>1. /\ p.kind = q.kind /\ p.references = q.references /\ p.indications = q.indications
        /\ p.setup.paired = q.setup.paired /\ p.setup.factor = q.setup.factor
        /\ p.setup.coverage <= q.setup.coverage
        /\ Magnitude(p.setup.additional.sensitivity)
             <= Magnitude(q.setup.additional.sensitivity)
        /\ p.setup.additional.uncertainty <= q.setup.additional.uncertainty
    BY DEF p, q
  <2> QED
    BY <1>1, <1>3, <2>1, RowsGrow
<1> QED
  BY <1>2, <1>4

(***************************************************************************)
(* Sequences built one element after the other                             *)
(***************************************************************************)

\* The lists that InOrder builds up.
LEMMA InOrderSteps ==
  ASSUME NEW N \in Nat, Len(rows) = N, NEW numbers
  PROVE  \E g : /\ g[0] = << >>
                /\ \A n \in 1..N : g[n] = IF n \in numbers THEN Append(g[n - 1], n)
                                          ELSE g[n - 1]
                /\ InOrder(numbers) = g[N]
<1> DEFINE Lists(n, g) ==
             g = [i \in 0..n |-> IF i = 0 THEN << >>
                                 ELSE IF i \in numbers THEN Append(g[i - 1], i)
                                      ELSE g[i - 1]]
           S == {n \in 0..N : \E g : Lists(n, g)}
<1>1. 0 \in S
  <2>1. \E g : Lists(0, g)
    <3> WITNESS [i \in 0..0 |-> << >>]
    <3> QED
      OBVIOUS
  <2> HIDE DEF Lists
  <2> QED
    BY <2>1
<1>2. ASSUME NEW n \in 0..(N - 1), n \in S
      PROVE  n + 1 \in S
  <2>1. PICK g : Lists(n, g)
    BY <1>2
  <2> DEFINE h == [i \in 0..(n + 1) |->
                     IF i = n + 1 THEN IF n + 1 \in numbers THEN Append(g[n], n + 1)
                                       ELSE g[n]
                     ELSE g[i]]
  <2>2. Lists(n + 1, h)
    <3>1. \A i \in 0..n : h[i] = g[i]
      OBVIOUS
    <3>2. \A i \in 0..n : g[i] = IF i = 0 THEN << >>
                                 ELSE IF i \in numbers THEN Append(g[i - 1], i)
                                      ELSE g[i - 1]
      BY <2>1
    <3>3. \A i \in 0..(n + 1) : h[i] = IF i = 0 THEN << >>
                                       ELSE IF i \in numbers THEN Append(h[i - 1], i)
                                            ELSE h[i - 1]
      <4> TAKE i \in 0..(n + 1)
      <4>1. CASE i = n + 1
        BY <4>1, <3>1
      <4>2. CASE i \in 1..n
        <5>1. i - 1 \in 0..n
          BY <4>2
        <5> HIDE DEF h
        <5> QED
          BY <4>2, <5>1, <3>1, <3>2
      <4>3. CASE i = 0
        BY <4>3, <3>1, <3>2
      <4> QED
        BY <4>1, <4>2, <4>3
    <3>4. h = [i \in 0..(n + 1) |-> h[i]]
      OBVIOUS
    <3> HIDE DEF h
    <3> QED
      BY <3>3, <3>4
  <2> HIDE DEF Lists, h
  <2> QED
    BY <2>2
<1>3. N \in S
  <2> HIDE DEF S
  <2>1. 0..N \subseteq S
    BY <1>1, <1>2, UpTo
  <2> QED
    BY <2>1
<1>4. PICK g : Lists(N, g) /\ InOrder(numbers) = g[N]
  BY <1>3 DEF InOrder
<1>5. \A i \in 0..N : g[i] = IF i = 0 THEN << >>
                             ELSE IF i \in numbers THEN Append(g[i - 1], i)
                                  ELSE g[i - 1]
  BY <1>4
<1>6. g[0] = << >>
  BY <1>5
<1>7. ASSUME NEW n \in 1..N
      PROVE  g[n] = IF n \in numbers THEN Append(g[n - 1], n) ELSE g[n - 1]
  BY <1>5
<1> QED
  BY <1>4, <1>6, <1>7

\* InOrder lists the given rows, each once, in ascending order.
LEMMA InOrderIs ==
  ASSUME NEW N \in Nat, Len(rows) = N, NEW numbers
  PROVE  LET s == InOrder(numbers)
         IN /\ s \in Seq(1..N)
            /\ \A k \in 1..Len(s) : s[k] \in numbers
            /\ \A k, l \in 1..Len(s) : k < l => s[k] < s[l]
            /\ \A i \in 1..N : i \in numbers => \E k \in 1..Len(s) : s[k] = i
<1>1. PICK g : /\ g[0] = << >>
               /\ \A n \in 1..N : g[n] = IF n \in numbers THEN Append(g[n - 1], n)
                                         ELSE g[n - 1]
               /\ InOrder(numbers) = g[N]
  BY InOrderSteps
<1> DEFINE Good(s, n) == /\ s \in Seq(1..N)
                         /\ \A k \in 1..Len(s) : s[k] <= n /\ s[k] \in numbers
                         /\ \A k, l \in 1..Len(s) : k < l => s[k] < s[l]
                         /\ \A i \in 1..n : i \in numbers =>
                              \E k \in 1..Len(s) : s[k] = i
           S == {n \in 0..N : Good(g[n], n)}
<1>2. 0 \in S
  <2>1. Good(<< >>, 0)
    OBVIOUS
  <2> HIDE DEF Good
  <2> QED
    BY <1>1, <2>1
<1>3. ASSUME NEW n \in 0..(N - 1), n \in S
      PROVE  n + 1 \in S
  <2>1. n + 1 \in 1..N /\ (n + 1) - 1 = n /\ n + 1 \in 0..N
    OBVIOUS
  <2>2. g[n + 1] = IF n + 1 \in numbers THEN Append(g[n], n + 1) ELSE g[n]
    BY <1>1, <2>1
  <2> DEFINE s == g[n]
             t == g[n + 1]
  <2>3. Good(s, n)
    BY <1>3
  <2>4. CASE n + 1 \notin numbers
    <3>1. t = s
      BY <2>2, <2>4
    <3> HIDE DEF s, t
    <3>2. Good(t, n + 1)
      <4>1. \A i \in 1..(n + 1) : i \in numbers => i \in 1..n
        BY <2>4
      <4>2. \A k \in 1..Len(s) : s[k] <= n + 1
        <5> TAKE k \in 1..Len(s)
        <5>1. s[k] <= n /\ s[k] \in 1..N
          BY <2>3
        <5> QED
          BY <5>1
      <4> QED
        BY <2>3, <3>1, <4>1, <4>2
    <3> QED
      BY <2>1, <3>2 DEF t
  <2>5. CASE n + 1 \in numbers
    <3>1. t = Append(s, n + 1) /\ s \in Seq(1..N)
      BY <2>2, <2>3, <2>5
    <3> HIDE DEF s, t
    <3>2. /\ t \in Seq(1..N) /\ Len(t) = Len(s) + 1 /\ t[Len(s) + 1] = n + 1
          /\ \A k \in 1..Len(s) : t[k] = s[k]
          /\ Len(s) \in Nat
      BY <2>1, <3>1
    <3>3. ASSUME NEW k \in 1..Len(t)
          PROVE  t[k] <= n + 1 /\ t[k] \in numbers /\ (k \in 1..Len(s) => t[k] <= n)
      <4>1. CASE k = Len(s) + 1
        BY <2>5, <3>2, <4>1
      <4>2. CASE k \in 1..Len(s)
        <5>1. s[k] <= n /\ s[k] \in 1..N /\ s[k] \in numbers
          BY <2>3, <3>1, <4>2
        <5> QED
          BY <3>2, <4>2, <5>1
      <4> QED
        BY <3>2, <4>1, <4>2
    <3>4. ASSUME NEW k \in 1..Len(t), NEW l \in 1..Len(t), k < l
          PROVE  t[k] < t[l]
      <4>1. k \in 1..Len(s)
        BY <3>2, <3>4
      <4>2. CASE l = Len(s) + 1
        <5>1. t[k] <= n /\ t[k] \in 1..N
          BY <3>2, <3>3, <4>1
        <5> QED
          BY <3>2, <4>2, <5>1
      <4>3. CASE l \in 1..Len(s)
        <5>1. s[k] < s[l]
          BY <2>3, <3>4, <4>1, <4>3
        <5> QED
          BY <3>2, <4>1, <4>3, <5>1
      <4> QED
        BY <3>2, <4>2, <4>3
    <3>5. ASSUME NEW i \in 1..(n + 1), i \in numbers
          PROVE  \E k \in 1..Len(t) : t[k] = i
      <4>1. CASE i = n + 1
        <5>1. Len(s) + 1 \in 1..Len(t)
          BY <3>2
        <5> QED
          BY <3>2, <4>1, <5>1
      <4>2. CASE i \in 1..n
        <5>1. PICK k \in 1..Len(s) : s[k] = i
          BY <2>3, <3>5, <4>2
        <5>2. k \in 1..Len(t)
          BY <3>2
        <5> QED
          BY <3>2, <5>1, <5>2
      <4> QED
        BY <4>1, <4>2
    <3>6. Good(t, n + 1)
      BY <3>2, <3>3, <3>4, <3>5
    <3> QED
      BY <2>1, <3>6 DEF t
  <2> QED
    BY <2>4, <2>5
<1>4. N \in S
  <2> HIDE DEF S
  <2>1. 0..N \subseteq S
    BY <1>2, <1>3, UpTo
  <2> QED
    BY <2>1
<1> QED
  BY <1>1, <1>4

\* The sequences that FlattenSeq strings together, and where each begins.
LEMMA FlattenSteps ==
  ASSUME NEW K \in Nat, NEW S, Len(S) = K, K = 0 => S = << >>
  PROVE  \E g : /\ g[0] = << >>
                /\ K > 0 => g[1] = S[1]
                /\ \A k \in 2..K : g[k] = g[k - 1] \o S[k]
                /\ FlattenSeq(S) = g[K]
<1> DEFINE Lists(n, g) == g = [i \in 1..n |-> IF i = 1 THEN S[i] ELSE g[i - 1] \o S[i]]
           T == {n \in 0..K : \E g : Lists(n, g)}
<1>1. 0 \in T
  <2>1. \E g : Lists(0, g)
    <3> WITNESS [i \in 1..0 |-> 0]
    <3> QED
      OBVIOUS
  <2> HIDE DEF Lists
  <2> QED
    BY <2>1
<1>2. ASSUME NEW n \in 0..(K - 1), n \in T
      PROVE  n + 1 \in T
  <2>1. PICK g : Lists(n, g)
    BY <1>2
  <2> DEFINE h == [i \in 1..(n + 1) |->
                     IF i = n + 1 THEN IF i = 1 THEN S[i] ELSE g[n] \o S[n + 1]
                     ELSE g[i]]
  <2>2. Lists(n + 1, h)
    <3>1. \A i \in 1..n : h[i] = g[i]
      OBVIOUS
    <3>2. \A i \in 1..n : g[i] = IF i = 1 THEN S[i] ELSE g[i - 1] \o S[i]
      BY <2>1
    <3>3. \A i \in 1..(n + 1) : h[i] = IF i = 1 THEN S[i] ELSE h[i - 1] \o S[i]
      <4> TAKE i \in 1..(n + 1)
      <4>1. CASE i = n + 1 /\ i # 1
        <5>1. n \in 1..n /\ i - 1 = n
          BY <4>1
        <5>3. h[i] = g[n] \o S[n + 1]
          BY <4>1
        <5>2. h[i - 1] = g[n]
          BY <3>1, <5>1
        <5> HIDE DEF h
        <5> QED
          BY <4>1, <5>1, <5>2, <5>3
      <4>2. CASE i = n + 1 /\ i = 1
        BY <4>2
      <4>3. CASE i \in 1..n
        <5>1. i # 1 => i - 1 \in 1..n
          BY <4>3
        <5> HIDE DEF h
        <5> QED
          BY <4>3, <5>1, <3>1, <3>2
      <4> QED
        BY <4>1, <4>2, <4>3
    <3>4. h = [i \in 1..(n + 1) |-> h[i]]
      OBVIOUS
    <3> HIDE DEF h
    <3> QED
      BY <3>3, <3>4
  <2> HIDE DEF Lists, h
  <2> QED
    BY <2>2
<1>3. K \in T
  <2> HIDE DEF T
  <2>1. 0..K \subseteq T
    BY <1>1, <1>2, UpTo
  <2> QED
    BY <2>1
<1>4. PICK g : Lists(K, g) /\ FlattenSeq(S) = IF K = 0 THEN << >> ELSE g[K]
  BY <1>3 DEF FlattenSeq
<1> DEFINE h == [i \in 0..K |-> IF i = 0 THEN << >> ELSE g[i]]
<1>5. \A i \in 1..K : g[i] = IF i = 1 THEN S[i] ELSE g[i - 1] \o S[i]
  BY <1>4
<1>6. h[0] = << >> /\ (\A i \in 1..K : h[i] = g[i]) /\ FlattenSeq(S) = h[K]
  BY <1>4
<1> HIDE DEF h
<1>7. K > 0 => h[1] = S[1]
  BY <1>5, <1>6
<1>8. ASSUME NEW k \in 2..K
      PROVE  h[k] = h[k - 1] \o S[k]
  <2>1. k \in 1..K /\ k - 1 \in 1..K /\ k # 1
    OBVIOUS
  <2> QED
    BY <1>5, <1>6, <2>1
<1> QED
  BY <1>6, <1>7, <1>8

\* Where each of the sequences is in the flat one.
Flattened(flat, S, K, X, off) ==
  /\ off \in [0..K -> Nat] /\ off[0] = 0
  /\ \A k \in 1..K : off[k] = off[k - 1] + Len(S[k])
  /\ flat \in Seq(X) /\ Len(flat) = off[K]
  /\ \A k \in 1..K : \A j \in 1..Len(S[k]) : flat[off[k - 1] + j] = S[k][j]

\* FlattenSeq puts each sequence at its offset.
LEMMA FlattenIs ==
  ASSUME NEW K \in Nat, NEW X, NEW S, Len(S) = K, K = 0 => S = << >>,
         \A k \in 1..K : S[k] \in Seq(X)
  PROVE  \E off : Flattened(FlattenSeq(S), S, K, X, off)
<1>1. PICK g : /\ g[0] = << >>
               /\ K > 0 => g[1] = S[1]
               /\ \A k \in 2..K : g[k] = g[k - 1] \o S[k]
               /\ FlattenSeq(S) = g[K]
  BY FlattenSteps
<1>2. ASSUME NEW k \in 1..K, g[k - 1] \in Seq(X)
      PROVE  g[k] = g[k - 1] \o S[k]
  <2>1. CASE k = 1
    <3>1. g[1] = S[1] /\ g[0] = << >> /\ S[1] \in Seq(X) /\ k - 1 = 0
      BY <1>1, <2>1
    <3>2. << >> \o S[1] = S[1]
      BY <3>1, ConcatEmptySeq
    <3> QED
      BY <2>1, <3>1, <3>2
  <2>2. CASE k # 1
    <3>1. k \in 2..K
      BY <2>2
    <3> QED
      BY <1>1, <3>1
  <2> QED
    BY <2>1, <2>2
<1> DEFINE Placed(n) == \A k \in 1..n : \A j \in 1..Len(S[k]) :
                          /\ Len(g[k - 1]) + j \in 1..Len(g[n])
                          /\ g[n][Len(g[k - 1]) + j] = S[k][j]
           T == {n \in 0..K : /\ \A k \in 0..n : g[k] \in Seq(X)
                              /\ \A k \in 1..n : Len(g[k]) = Len(g[k - 1]) + Len(S[k])
                              /\ Placed(n)}
<1>3. 0 \in T
  <2>1. \A k \in 0..0 : g[k] \in Seq(X)
    <3>1. << >> \in Seq(X)
      OBVIOUS
    <3>2. \A k \in 0..0 : k = 0
      OBVIOUS
    <3> QED
      BY <1>1, <3>1, <3>2
  <2>2. /\ \A k \in 1..0 : Len(g[k]) = Len(g[k - 1]) + Len(S[k])
        /\ Placed(0)
    <3>1. \A k \in 1..0 : FALSE
      OBVIOUS
    <3> QED
      BY <3>1
  <2>3. 0 \in 0..K
    OBVIOUS
  <2> HIDE DEF Placed
  <2> QED
    BY <2>1, <2>2, <2>3
<1>4. ASSUME NEW n \in 0..(K - 1), n \in T
      PROVE  n + 1 \in T
  <2>1. n + 1 \in 1..K /\ (n + 1) - 1 = n /\ n + 1 \in 0..K
    OBVIOUS
  <2>2. /\ \A k \in 0..n : g[k] \in Seq(X)
        /\ \A k \in 1..n : Len(g[k]) = Len(g[k - 1]) + Len(S[k])
        /\ Placed(n)
    BY <1>4
  <2> DEFINE s == g[n]
             t == g[n + 1]
             u == S[n + 1]
  <2>3. s \in Seq(X) /\ u \in Seq(X) /\ t = s \o u
    <3>1. s \in Seq(X)
      BY <2>2
    <3> QED
      BY <1>2, <2>1, <3>1
  <2> HIDE DEF s, t, u, Placed
  <2>4. /\ t \in Seq(X) /\ Len(t) = Len(s) + Len(u)
        /\ Len(s) \in Nat /\ Len(u) \in Nat
        /\ \A i \in 1..Len(s) : t[i] = s[i]
        /\ \A j \in 1..Len(u) : Len(s) + j \in 1..Len(t) /\ t[Len(s) + j] = u[j]
    <3>1. /\ t \in Seq(X) /\ Len(t) = Len(s) + Len(u)
          /\ \A i \in 1..(Len(s) + Len(u)) :
               t[i] = IF i <= Len(s) THEN s[i] ELSE u[i - Len(s)]
      BY <2>3, ConcatProperties
    <3>2. Len(s) \in Nat /\ Len(u) \in Nat
      BY <2>3
    <3>3. ASSUME NEW j \in 1..Len(u)
          PROVE  Len(s) + j \in 1..Len(t) /\ t[Len(s) + j] = u[j]
      <4>1. /\ Len(s) + j \in 1..(Len(s) + Len(u)) /\ ~ (Len(s) + j <= Len(s))
            /\ (Len(s) + j) - Len(s) = j
        BY <3>2
      <4> QED
        BY <3>1, <4>1
    <3>4. ASSUME NEW i \in 1..Len(s)
          PROVE  t[i] = s[i]
      BY <3>1, <3>2
    <3> QED
      BY <3>1, <3>2, <3>3, <3>4
  <2>5. ASSUME NEW k \in 0..(n + 1)
        PROVE  g[k] \in Seq(X)
    <3>1. CASE k = n + 1
      BY <2>4, <3>1 DEF t
    <3>2. CASE k \in 0..n
      BY <2>2, <3>2
    <3>3. k = n + 1 \/ k \in 0..n
      OBVIOUS
    <3> QED
      BY <3>1, <3>2, <3>3
  <2>6. ASSUME NEW k \in 1..(n + 1)
        PROVE  Len(g[k]) = Len(g[k - 1]) + Len(S[k])
    <3>1. CASE k = n + 1
      BY <2>1, <2>4, <3>1 DEF s, t, u
    <3>2. CASE k \in 1..n
      BY <2>2, <3>2
    <3>3. k = n + 1 \/ k \in 1..n
      OBVIOUS
    <3> QED
      BY <3>1, <3>2, <3>3
  <2>7. Placed(n + 1)
    <3> SUFFICES ASSUME NEW k \in 1..(n + 1), NEW j \in 1..Len(S[k])
                 PROVE  /\ Len(g[k - 1]) + j \in 1..Len(g[n + 1])
                        /\ g[n + 1][Len(g[k - 1]) + j] = S[k][j]
      BY DEF Placed
    <3>1. CASE k = n + 1
      BY <2>1, <2>4, <3>1 DEF s, t, u
    <3>2. CASE k \in 1..n
      <4>1. Len(g[k - 1]) + j \in 1..Len(s) /\ s[Len(g[k - 1]) + j] = S[k][j]
        BY <2>2, <3>2 DEF Placed, s
      <4>2. Len(g[k - 1]) + j \in 1..Len(t) /\ t[Len(g[k - 1]) + j] = S[k][j]
        BY <2>4, <4>1
      <4> QED
        BY <4>2 DEF t
    <3> QED
      BY <3>1, <3>2
  <2> QED
    BY <2>1, <2>5, <2>6, <2>7
<1>5. K \in T
  <2> HIDE DEF T
  <2>1. 0..K \subseteq T
    BY <1>3, <1>4, UpTo
  <2> QED
    BY <2>1
<1> DEFINE off == [k \in 0..K |-> Len(g[k])]
<1>6. /\ \A k \in 0..K : g[k] \in Seq(X)
      /\ \A k \in 1..K : Len(g[k]) = Len(g[k - 1]) + Len(S[k])
      /\ \A k \in 1..K : \A j \in 1..Len(S[k]) : g[K][Len(g[k - 1]) + j] = S[k][j]
  BY <1>5
<1>7. off \in [0..K -> Nat] /\ \A k \in 0..K : off[k] = Len(g[k])
  <2>1. \A k \in 0..K : Len(g[k]) \in Nat
    BY <1>6
  <2> QED
    BY <2>1
<1> HIDE DEF off
<1>8. off[0] = 0
  BY <1>1, <1>7
<1>9. \A k \in 1..K : k \in 0..K /\ k - 1 \in 0..K
  OBVIOUS
<1>10. \A k \in 1..K : off[k] = off[k - 1] + Len(S[k])
  BY <1>6, <1>7, <1>9
<1>11. ASSUME NEW k \in 1..K, NEW j \in 1..Len(S[k])
       PROVE  FlattenSeq(S)[off[k - 1] + j] = S[k][j]
  <2>1. off[k - 1] = Len(g[k - 1]) /\ FlattenSeq(S) = g[K]
    BY <1>1, <1>7, <1>9
  <2> QED
    BY <1>6, <2>1
<1>12. FlattenSeq(S) \in Seq(X) /\ Len(FlattenSeq(S)) = off[K]
  BY <1>1, <1>6, <1>7
<1>13. Flattened(FlattenSeq(S), S, K, X, off)
  BY <1>7, <1>8, <1>10, <1>11, <1>12, Zenon DEF Flattened
<1> QED
  BY <1>13

(***************************************************************************)
(* The pages                                                               *)
(***************************************************************************)

\* Each device once, and every row's.
LEMMA DutsInOrderIs ==
  ASSUME NEW N \in Nat, Len(rows) = N, DOMAIN rows = 1..N
  PROVE  LET D == DutsInOrder
         IN /\ Len(D) \in Nat /\ DOMAIN D = 1..Len(D)
            /\ Len(D) = 0 => D = << >>
            /\ \A k, l \in 1..Len(D) : D[k] = D[l] => k = l
            /\ \A k \in 1..Len(D) : \E i \in 1..N : rows[i].dut = D[k]
            /\ \A i \in 1..N : \E k \in 1..Len(D) : rows[i].dut = D[k]
<1> DEFINE numbers == {i \in DOMAIN rows : \A j \in 1..(i - 1) : rows[j].dut # rows[i].dut}
           first == InOrder(numbers)
           D == DutsInOrder
<1>1. numbers = {i \in 1..N : \A j \in 1..(i - 1) : rows[j].dut # rows[i].dut}
  OBVIOUS
<1>2. D = [k \in DOMAIN first |-> rows[first[k]].dut]
  BY DEF DutsInOrder
<1> HIDE DEF numbers, D
<1>3. /\ first \in Seq(1..N)
      /\ \A k \in 1..Len(first) : first[k] \in numbers
      /\ \A k, l \in 1..Len(first) : k < l => first[k] < first[l]
      /\ \A i \in 1..N : i \in numbers => \E k \in 1..Len(first) : first[k] = i
  BY InOrderIs
<1> HIDE DEF first
<1>4. Len(first) \in Nat /\ DOMAIN first = 1..Len(first)
  BY <1>3
<1>5. Len(D) = Len(first) /\ DOMAIN D = 1..Len(first)
  BY <1>2, <1>4
<1>6. \A k \in 1..Len(first) : D[k] = rows[first[k]].dut /\ first[k] \in 1..N
  BY <1>2, <1>3, <1>4
<1>7. ASSUME NEW k \in 1..Len(first), NEW l \in 1..Len(first), k < l
      PROVE  D[k] # D[l]
  <2>1. first[k] < first[l] /\ first[l] \in numbers
    BY <1>3, <1>7
  <2>2. first[k] \in 1..(first[l] - 1)
    BY <1>6, <2>1
  <2>3. rows[first[k]].dut # rows[first[l]].dut
    BY <1>1, <2>1, <2>2
  <2> QED
    BY <1>6, <2>3
<1>8. ASSUME NEW k \in 1..Len(D), NEW l \in 1..Len(D), D[k] = D[l]
      PROVE  k = l
  <2>1. k < l \/ l < k \/ k = l
    OBVIOUS
  <2> QED
    BY <1>5, <1>7, <1>8, <2>1
<1>9. ASSUME NEW i \in 1..N
      PROVE  \E k \in 1..Len(D) : rows[i].dut = D[k]
  <2> DEFINE T == {j \in 1..N : rows[j].dut = rows[i].dut}
  <2>1. PICK n \in T : \A m \in T : n <= m
    <3>1. T \subseteq Nat /\ i \in T
      OBVIOUS
    <3> HIDE DEF T
    <3> QED
      BY <3>1, LeastNumber
  <2>2. n \in numbers
    <3>1. ASSUME NEW j \in 1..(n - 1), rows[j].dut = rows[n].dut
          PROVE  FALSE
      <4>1. j \in T /\ j < n
        BY <3>1
      <4> QED
        BY <2>1, <4>1
    <3> QED
      BY <1>1, <3>1
  <2>3. PICK k \in 1..Len(first) : first[k] = n
    BY <1>3, <2>2
  <2> QED
    BY <1>5, <1>6, <2>3
<1>10. Len(D) = 0 => D = << >>
  <2>1. ASSUME Len(first) = 0
        PROVE  D = << >>
    <3>1. D = [k \in 1..0 |-> rows[first[k]].dut]
      BY <1>2, <1>4, <2>1
    <3>2. 1..0 = {}
      OBVIOUS
    <3> QED
      BY <3>1, <3>2
  <2> QED
    BY <1>5, <2>1
<1>11. \A k \in 1..Len(D) : \E i \in 1..N : rows[i].dut = D[k]
  BY <1>5, <1>6
<1>12. /\ Len(D) \in Nat /\ DOMAIN D = 1..Len(D)
       /\ \A k, l \in 1..Len(D) : D[k] = D[l] => k = l
       /\ \A i \in 1..N : \E k \in 1..Len(D) : rows[i].dut = D[k]
  BY <1>4, <1>5, <1>8, <1>9
<1> QED
  BY <1>10, <1>11, <1>12 DEF D

\* A device's rows, ascending.
LEMMA IndicesOfIs ==
  ASSUME NEW N \in Nat, Len(rows) = N, DOMAIN rows = 1..N, NEW dut
  PROVE  LET s == IndicesOf(dut)
         IN /\ s \in Seq(1..N) /\ Len(s) \in Nat
            /\ \A k \in 1..Len(s) : s[k] \in 1..N /\ rows[s[k]].dut = dut
            /\ \A k, l \in 1..Len(s) : k < l => s[k] < s[l]
            /\ \A i \in 1..N : rows[i].dut = dut => \E k \in 1..Len(s) : s[k] = i
<1> DEFINE numbers == {i \in DOMAIN rows : rows[i].dut = dut}
           s == InOrder(numbers)
<1>1. \A i : i \in numbers <=> i \in 1..N /\ rows[i].dut = dut
  OBVIOUS
<1> HIDE DEF numbers
<1>2. /\ s \in Seq(1..N)
      /\ \A k \in 1..Len(s) : s[k] \in numbers
      /\ \A k, l \in 1..Len(s) : k < l => s[k] < s[l]
      /\ \A i \in 1..N : i \in numbers => \E k \in 1..Len(s) : s[k] = i
  BY InOrderIs
<1> HIDE DEF s
<1>3. Len(s) \in Nat
  BY <1>2
<1>4. IndicesOf(dut) = s
  BY DEF IndicesOf, s, numbers
<1> QED
  BY <1>1, <1>2, <1>3, <1>4

\* The pages of n rows hold them all, and the last is not empty.
LEMMA PageTotalIs ==
  ASSUME NEW n \in Nat
  PROVE  /\ PageTotal(n) \in Nat
         /\ n <= PageTotal(n) * RowsPerPage
         /\ PageTotal(n) * RowsPerPage < n + RowsPerPage
<1> DEFINE R == RowsPerPage
           p == PageTotal(n)
<1>1. R \in Nat \ {0} /\ n + R - 1 \in Nat
  BY ContentAssumption
<1>2. p = (n + R - 1) \div R
  BY DEF PageTotal
<1> HIDE DEF R, p
<1>3. p \in Int /\ R * p <= n + R - 1 /\ n + R - 1 < R * p + R /\ p >= 0
  BY <1>1, <1>2, Division
<1>4. R * p = p * R /\ p * R \in Int
  BY <1>1, <1>3
<1>5. n <= p * R /\ p * R < n + R /\ p \in Nat
  BY <1>1, <1>3, <1>4
<1> QED
  BY <1>5 DEF R, p

\* Which rows a page shows.
LEMMA ChunkIs ==
  ASSUME NEW X, NEW s \in Seq(X), NEW k \in 1..PageTotal(Len(s))
  PROVE  LET c == Chunk(s, k)
             before == (k - 1) * RowsPerPage
         IN /\ c \in Seq(X) /\ before \in Nat
            /\ Len(c) \in 1..RowsPerPage
            /\ before + Len(c) =
                 IF k * RowsPerPage < Len(s) THEN k * RowsPerPage ELSE Len(s)
            /\ \A n \in 1..Len(c) : before + n \in 1..Len(s) /\ c[n] = s[before + n]
<1> DEFINE R == RowsPerPage
           L == Len(s)
           p == PageTotal(L)
           before == (k - 1) * R
           upTo == IF k * R < L THEN k * R ELSE L
           c == Chunk(s, k)
<1>1. R \in Nat \ {0} /\ L \in Nat
  BY ContentAssumption
<1>2. p \in Nat /\ L <= p * R /\ p * R < L + R
  BY <1>1, PageTotalIs
<1>3. c = SubSeq(s, before + 1, upTo)
  BY DEF Chunk
<1> HIDE DEF R, L, p, c
<1>4. k \in Nat /\ k >= 1 /\ k <= p
  BY <1>2 DEF p, L
<1>5. /\ k * R \in Nat /\ (k - 1) * R \in Nat /\ p * R \in Nat
      /\ k * R = (k - 1) * R + R /\ k * R <= p * R
  <2>1. \A a, b, r \in Nat : a <= b => a * r \in Nat /\ b * r \in Nat /\ a * r <= b * r
    OBVIOUS
  <2>2. \A a, r \in Int : (a - 1) * r = a * r - r
    OBVIOUS
  <2>3. k - 1 \in Nat
    BY <1>4
  <2> QED
    BY <1>1, <1>2, <1>4, <2>1, <2>2, <2>3
<1>6. before < L /\ before \in Nat
  BY <1>1, <1>2, <1>5
<1>7. /\ upTo \in Nat /\ before + 1 <= upTo /\ upTo <= L /\ upTo - before <= R
  BY <1>1, <1>5, <1>6
<1> HIDE DEF before, upTo
<1>8. ASSUME NEW i \in (before + 1)..upTo
      PROVE  s[i] \in X
  <2>1. i \in 1..L
    BY <1>1, <1>6, <1>7
  <2> QED
    BY <2>1 DEF L
<1>9. /\ c \in Seq(X)
      /\ Len(c) = upTo - (before + 1) + 1
      /\ \A i \in 1..(upTo - (before + 1) + 1) : c[i] = s[before + 1 + i - 1]
  <2>1. before + 1 \in Int /\ upTo \in Int
    BY <1>6, <1>7
  <2> QED
    BY <1>3, <1>7, <1>8, <2>1, SubSeqProperties
<1>10. Len(c) = upTo - before /\ Len(c) \in 1..R /\ before + Len(c) = upTo
  BY <1>1, <1>6, <1>7, <1>9
<1>11. ASSUME NEW n \in 1..Len(c)
       PROVE  before + n \in 1..L /\ c[n] = s[before + n]
  <2>1. /\ n \in 1..(upTo - (before + 1) + 1) /\ before + 1 + n - 1 = before + n
        /\ before + n \in 1..L
    BY <1>1, <1>6, <1>7, <1>10
  <2> QED
    BY <1>9, <2>1
<1> QED
  BY <1>6, <1>9, <1>10, <1>11 DEF R, L, c, before, upTo

\* Every row of a device is on one of its pages.
LEMMA ChunksCover ==
  ASSUME NEW X, NEW s \in Seq(X), NEW i \in 1..Len(s)
  PROVE  \E k \in 1..PageTotal(Len(s)) : \E n \in 1..Len(Chunk(s, k)) :
           Chunk(s, k)[n] = s[i]
<1> DEFINE R == RowsPerPage
           L == Len(s)
           p == PageTotal(L)
           d == (i - 1) \div R
           k == d + 1
<1>1. R \in Nat \ {0} /\ L \in Nat
  BY ContentAssumption
<1>2. p \in Nat /\ L <= p * R /\ p * R < L + R
  BY <1>1, PageTotalIs
<1> HIDE DEF R, L, p
<1>3. i \in Nat /\ i >= 1 /\ i <= L
  BY <1>1 DEF L
<1>4. d \in Int /\ R * d <= i - 1 /\ i - 1 < R * d + R /\ d >= 0
  BY <1>1, <1>3, Division
<1> HIDE DEF d
<1>5. d < p
  <2>1. ASSUME p <= d
        PROVE  FALSE
    <3>1. \A a, b, r \in Nat : a <= b => a * r <= r * b /\ a * r \in Nat /\ r * b \in Nat
      OBVIOUS
    <3>2. p * R <= R * d /\ p * R \in Nat /\ R * d \in Nat
      BY <1>1, <1>2, <1>4, <2>1, <3>1
    <3> QED
      BY <1>1, <1>2, <1>3, <1>4, <3>2
  <2> QED
    BY <1>2, <1>4, <2>1
<1>6. k \in 1..p /\ k - 1 = d
  BY <1>2, <1>4, <1>5
<1> DEFINE c == Chunk(s, k)
           before == (k - 1) * R
           n == i - before
<1>7. /\ before \in Nat /\ Len(c) \in Nat
      /\ before + Len(c) = IF k * R < L THEN k * R ELSE L
      /\ \A m \in 1..Len(c) : before + m \in 1..L /\ c[m] = s[before + m]
  <2> HIDE DEF c, before, k
  <2>1. k \in 1..PageTotal(Len(s))
    BY <1>6 DEF p, L
  <2>2. /\ (k - 1) * RowsPerPage \in Nat
        /\ Len(Chunk(s, k)) \in 1..RowsPerPage
        /\ (k - 1) * RowsPerPage + Len(Chunk(s, k)) =
             IF k * RowsPerPage < Len(s) THEN k * RowsPerPage ELSE Len(s)
        /\ \A m \in 1..Len(Chunk(s, k)) :
             /\ (k - 1) * RowsPerPage + m \in 1..Len(s)
             /\ Chunk(s, k)[m] = s[(k - 1) * RowsPerPage + m]
    BY <2>1, ChunkIs
  <2>3. Len(Chunk(s, k)) \in Nat
    BY <2>2
  <2> QED
    BY <2>2, <2>3 DEF R, L, c, before
<1>8. before = R * d /\ k * R = R * d + R /\ R * d \in Int
  <2>1. \A a, b \in Int : ((a + 1) - 1) * b = b * a /\ (a + 1) * b = b * a + b /\ b * a \in Int
    OBVIOUS
  <2> QED
    BY <1>1, <1>4, <2>1
<1> HIDE DEF c, before, k
<1>9. n \in 1..Len(c) /\ before + n = i
  <2>1. before <= i - 1 /\ i <= before + R
    BY <1>1, <1>3, <1>4, <1>8
  <2>2. i <= before + Len(c)
    <3>1. k * R = before + R
      BY <1>8
    <3> QED
      BY <1>1, <1>3, <1>7, <2>1, <3>1
  <2> QED
    BY <1>3, <1>7, <2>1, <2>2
<1>10. c[n] = s[i]
  BY <1>7, <1>9
<1> QED
  BY <1>6, <1>9, <1>10 DEF p, L, c

\* Consecutive blocks: their ends ascend, and every position is in one.
LEMMA Blocks ==
  ASSUME NEW K \in Nat, NEW off \in [0..K -> Nat], off[0] = 0,
         \A k \in 1..K : off[k - 1] <= off[k]
  PROVE  /\ \A l \in 0..K : \A k \in 0..l : off[k] <= off[l]
         /\ \A m \in 1..off[K] : \E k \in 1..K : m \in (off[k - 1] + 1)..off[k]
<1> DEFINE S == {n \in 0..K : \A k \in 0..n : off[k] <= off[n]}
<1>0. \A k \in 0..K : off[k] \in Nat
  OBVIOUS
<1>1. 0 \in S
  OBVIOUS
<1>2. ASSUME NEW n \in 0..(K - 1), n \in S
      PROVE  n + 1 \in S
  <2>1. n + 1 \in 1..K /\ n + 1 \in 0..K /\ (n + 1) - 1 = n /\ n \in 0..K
    OBVIOUS
  <2>2. off[n] <= off[n + 1] /\ off[n] \in Nat /\ off[n + 1] \in Nat
    BY <1>0, <2>1
  <2>3. ASSUME NEW k \in 0..(n + 1)
        PROVE  off[k] <= off[n + 1]
    <3>1. CASE k = n + 1
      BY <2>2, <3>1
    <3>2. CASE k \in 0..n
      <4>1. off[k] <= off[n] /\ off[k] \in Nat
        BY <1>0, <1>2, <3>2
      <4> QED
        BY <2>2, <4>1
    <3> QED
      BY <3>1, <3>2
  <2> QED
    BY <2>1, <2>3
<1>3. 0..K \subseteq S
  <2> HIDE DEF S
  <2> QED
    BY <1>1, <1>2, UpTo
<1>4. ASSUME NEW m \in 1..off[K]
      PROVE  \E k \in 1..K : m \in (off[k - 1] + 1)..off[k]
  <2> DEFINE T == {k \in 0..K : m <= off[k]}
  <2>1. PICK k \in T : \A l \in T : k <= l
    <3>1. T \subseteq Nat /\ K \in T
      BY <1>0
    <3> HIDE DEF T
    <3> QED
      BY <3>1, LeastNumber
  <2>2. k \in 1..K /\ k - 1 \in 0..K
    OBVIOUS
  <2>3. k - 1 \notin T
    BY <2>1, <2>2
  <2>4. ~ (m <= off[k - 1]) /\ off[k - 1] \in Nat /\ off[k] \in Nat /\ m <= off[k]
    BY <1>0, <2>1, <2>2, <2>3
  <2>5. m \in (off[k - 1] + 1)..off[k]
    BY <2>4
  <2> QED
    BY <2>2, <2>5
<1> QED
  BY <1>3, <1>4

\* The pages of a certificate: the cover, each device's pages at their offset,
\* the equipment page.
PagesPlaced(doc, number, template, accredited, D, off) ==
  LET K == Len(D)
  IN /\ off \in [0..K -> Nat] /\ off[0] = 0
     /\ \A k \in 1..K : off[k] = off[k - 1] + PageTotal(Len(IndicesOf(D[k])))
     /\ Len(doc) = off[K] + 2
     /\ DOMAIN doc = 1..Len(doc)
     /\ doc[1] = [lines |-> Cover(number, template, accredited), dut |-> "none",
                  rows |-> << >>]
     /\ \A k \in 1..K : \A j \in 1..PageTotal(Len(IndicesOf(D[k]))) :
          doc[1 + off[k - 1] + j] =
            ResultPage(number, D[k], Chunk(IndicesOf(D[k]), j))
     /\ doc[off[K] + 2] = EquipmentPage(number)

\* Three parts, one after the other.
LEMMA Between ==
  ASSUME NEW X, NEW a \in X, NEW s \in Seq(X), NEW b \in X
  PROVE  LET t == << a >> \o s \o << b >>
         IN /\ Len(t) = Len(s) + 2 /\ DOMAIN t = 1..Len(t)
            /\ t[1] = a /\ t[Len(s) + 2] = b
            /\ \A i \in 1..Len(s) : t[1 + i] = s[i]
<1> DEFINE u == << a >> \o s
           t == u \o << b >>
<1>1. << a >> \in Seq(X) /\ Len(<< a >>) = 1 /\ << a >>[1] = a
  OBVIOUS
<1>2. << b >> \in Seq(X) /\ Len(<< b >>) = 1 /\ << b >>[1] = b
  OBVIOUS
<1>3. Len(s) \in Nat
  OBVIOUS
<1>4. /\ u \in Seq(X) /\ Len(u) = 1 + Len(s)
      /\ \A i \in 1..(1 + Len(s)) : u[i] = IF i <= 1 THEN << a >>[i] ELSE s[i - 1]
  BY <1>1, ConcatProperties
<1> HIDE DEF u
<1>5. /\ t \in Seq(X) /\ Len(t) = Len(u) + 1
      /\ \A i \in 1..(Len(u) + 1) : t[i] = IF i <= Len(u) THEN u[i] ELSE << b >>[i - Len(u)]
  BY <1>2, <1>4, ConcatProperties
<1> HIDE DEF t
<1>6. Len(t) = Len(s) + 2 /\ DOMAIN t = 1..Len(t)
  BY <1>3, <1>4, <1>5
<1>7. t[1] = a
  BY <1>1, <1>3, <1>4, <1>5
<1>8. t[Len(s) + 2] = b
  <2>1. /\ Len(s) + 2 \in 1..(Len(u) + 1) /\ ~ (Len(s) + 2 <= Len(u))
        /\ (Len(s) + 2) - Len(u) = 1
    BY <1>3, <1>4
  <2> QED
    BY <1>2, <1>5, <2>1
<1>9. ASSUME NEW i \in 1..Len(s)
      PROVE  t[1 + i] = s[i]
  <2>1. /\ 1 + i \in 1..(Len(u) + 1) /\ 1 + i <= Len(u) /\ 1 + i \in 1..(1 + Len(s))
        /\ ~ (1 + i <= 1) /\ (1 + i) - 1 = i
    BY <1>3, <1>4
  <2> QED
    BY <1>4, <1>5, <2>1
<1> QED
  BY <1>6, <1>7, <1>8, <1>9 DEF t, u

\* Pages puts them there.
LEMMA PagesArePlaced ==
  ASSUME NEW N \in Nat, Len(rows) = N, DOMAIN rows = 1..N,
         NEW number, NEW template, NEW accredited
  PROVE  \E off : PagesPlaced(Pages(number, template, accredited), number, template,
                              accredited, DutsInOrder, off)
<1> DEFINE D == DutsInOrder
           K == Len(D)
           S == [k \in DOMAIN D |-> ResultPagesOf(number, D[k])]
           cover == [lines |-> Cover(number, template, accredited), dut |-> "none",
                     rows |-> << >>]
           X == {ResultPage(number, D[k], Chunk(IndicesOf(D[k]), j)) :
                   k \in 1..K, j \in Nat}
                  \union {cover, EquipmentPage(number)}
           s == FlattenSeq(S)
           doc == Pages(number, template, accredited)
<1>1. K \in Nat /\ DOMAIN D = 1..K /\ (K = 0 => D = << >>)
  BY DutsInOrderIs
<1>2. doc = << cover >> \o s \o << EquipmentPage(number) >>
  BY DEF Pages
<1>3. cover \in X /\ EquipmentPage(number) \in X
  OBVIOUS
<1> HIDE DEF D, cover, doc
<1>4. Len(S) = K /\ DOMAIN S = 1..K /\ (K = 0 => S = << >>)
  <2>1. S = [k \in 1..K |-> ResultPagesOf(number, D[k])]
    BY <1>1
  <2>2. Len(S) = K
    BY <1>1, <2>1
  <2>3. ASSUME K = 0
        PROVE  S = << >>
    <3>1. 1..0 = {}
      OBVIOUS
    <3> QED
      BY <2>1, <2>3, <3>1
  <2> QED
    BY <2>1, <2>2, <2>3
<1>5. ASSUME NEW k \in 1..K
      PROVE  /\ S[k] \in Seq(X) /\ Len(S[k]) = PageTotal(Len(IndicesOf(D[k])))
             /\ \A j \in 1..PageTotal(Len(IndicesOf(D[k]))) :
                  S[k][j] = ResultPage(number, D[k], Chunk(IndicesOf(D[k]), j))
  <2> DEFINE p == PageTotal(Len(IndicesOf(D[k])))
  <2>1. p \in Nat
    BY IndicesOfIs, PageTotalIs
  <2>2. S[k] = [j \in 1..p |-> ResultPage(number, D[k], Chunk(IndicesOf(D[k]), j))]
    BY <1>1 DEF ResultPagesOf
  <2> HIDE DEF p, S
  <2>3. ASSUME NEW j \in 1..p
        PROVE  ResultPage(number, D[k], Chunk(IndicesOf(D[k]), j)) \in X
    OBVIOUS
  <2> HIDE DEF X
  <2>4. S[k] \in Seq(X) /\ Len(S[k]) = p
    BY <2>1, <2>2, <2>3
  <2> QED
    BY <2>2, <2>4 DEF p
<1> HIDE DEF S, X
<1>6. PICK off : Flattened(FlattenSeq(S), S, K, X, off)
  <2>1. /\ K \in Nat /\ Len(S) = K /\ (K = 0 => S = << >>)
        /\ \A k \in 1..K : S[k] \in Seq(X)
    BY <1>1, <1>4, <1>5
  <2> HIDE DEF K
  <2> QED
    BY <2>1, FlattenIs
<1>7. /\ s \in Seq(X) /\ Len(s) = off[K]
      /\ \A k \in 1..K : \A j \in 1..Len(S[k]) : s[off[k - 1] + j] = S[k][j]
  BY <1>6 DEF Flattened
<1> HIDE DEF s
<1>8. /\ off \in [0..K -> Nat] /\ off[0] = 0
       /\ \A k \in 1..K : off[k] = off[k - 1] + Len(S[k])
  BY <1>6 DEF Flattened
<1>9. /\ Len(doc) = Len(s) + 2 /\ DOMAIN doc = 1..Len(doc)
      /\ doc[1] = cover /\ doc[Len(s) + 2] = EquipmentPage(number)
      /\ \A i \in 1..Len(s) : doc[1 + i] = s[i]
  BY <1>2, <1>3, <1>7, Between, SMTT(30)
<1>10. ASSUME NEW k \in 1..K, NEW j \in 1..Len(S[k])
      PROVE  doc[1 + off[k - 1] + j] = S[k][j]
  <2>1. off[k - 1] \in Nat /\ off[k] \in Nat /\ off[K] \in Nat /\ off[k] <= off[K]
    <3>1. k - 1 \in 0..K /\ k \in 0..K /\ K \in 0..K
      BY <1>1
    <3>2. \A l \in 1..K : off[l - 1] <= off[l]
      <4> TAKE l \in 1..K
      <4>1. off[l] = off[l - 1] + Len(S[l]) /\ Len(S[l]) \in Nat
        BY <1>5, <1>8
      <4>2. l - 1 \in 0..K
        BY <1>1
      <4>3. off[l - 1] \in Nat
        BY <1>8, <4>2
      <4> QED
        BY <4>1, <4>3
    <3>3. off[k] <= off[K]
      BY <1>1, <1>8, <3>1, <3>2, Blocks
    <3> QED
      BY <1>8, <3>1, <3>3
  <2>2. off[k] = off[k - 1] + Len(S[k]) /\ Len(S[k]) \in Nat
    BY <1>5, <1>8
  <2>3. off[k - 1] + j \in 1..Len(s) /\ 1 + (off[k - 1] + j) = 1 + off[k - 1] + j
    <3>1. j \in Nat /\ j >= 1 /\ j <= Len(S[k])
      BY <2>2
    <3>2. off[k - 1] + j \in Nat /\ off[k - 1] + j >= 1 /\ off[k - 1] + j <= off[K]
      BY <2>1, <2>2, <3>1
    <3> QED
      BY <1>7, <2>1, <3>1, <3>2
  <2>4. doc[1 + (off[k - 1] + j)] = s[off[k - 1] + j]
    BY <1>9, <2>3
  <2> QED
    BY <1>7, <2>3, <2>4
<1>11. PagesPlaced(doc, number, template, accredited, D, off)
  <2>1. \A k \in 1..K : off[k] = off[k - 1] + PageTotal(Len(IndicesOf(D[k])))
    BY <1>5, <1>8
  <2>2. ASSUME NEW k \in 1..K, NEW j \in 1..PageTotal(Len(IndicesOf(D[k])))
        PROVE  doc[1 + off[k - 1] + j] =
                 ResultPage(number, D[k], Chunk(IndicesOf(D[k]), j))
    BY <1>5, <1>10
  <2>3. /\ off \in [0..K -> Nat] /\ off[0] = 0
        /\ Len(doc) = off[K] + 2 /\ DOMAIN doc = 1..Len(doc)
        /\ doc[1] = cover /\ doc[off[K] + 2] = EquipmentPage(number)
    BY <1>7, <1>8, <1>9
  <2> QED
    BY <2>1, <2>2, <2>3, Zenon DEF PagesPlaced, cover
<1> QED
  BY <1>11 DEF D, doc

\* Every page between the first and the last is one of a device's.
PagesLocated(doc, number, D, off) ==
  LET P(k) == PageTotal(Len(IndicesOf(D[k])))
  IN /\ Len(doc) \in Nat /\ Len(doc) >= 2
     /\ \A k \in 0..Len(D) : off[k] \in Nat
     /\ \A k \in 1..Len(D) : P(k) \in Nat
     /\ \A k \in 1..Len(D) : \A j \in 1..P(k) :
          /\ 1 + off[k - 1] + j \in 2..(Len(doc) - 1)
          /\ doc[1 + off[k - 1] + j] = ResultPage(number, D[k], Chunk(IndicesOf(D[k]), j))
     /\ \A m \in 2..(Len(doc) - 1) :
          \E k \in 1..Len(D) : \E j \in 1..P(k) : m = 1 + off[k - 1] + j

\* No page is in two places, and none is elsewhere.
LEMMA PagesAreLocated ==
  ASSUME NEW N \in Nat, Len(rows) = N, DOMAIN rows = 1..N,
         NEW doc, NEW number, NEW template, NEW accredited, NEW off,
         PagesPlaced(doc, number, template, accredited, DutsInOrder, off)
  PROVE  PagesLocated(doc, number, DutsInOrder, off)
<1> DEFINE D == DutsInOrder
           K == Len(D)
           P(k) == PageTotal(Len(IndicesOf(D[k])))
<1>1. K \in Nat
  BY DutsInOrderIs
<1>2. /\ off \in [0..K -> Nat] /\ off[0] = 0
      /\ \A k \in 1..K : off[k] = off[k - 1] + P(k)
      /\ Len(doc) = off[K] + 2
      /\ \A k \in 1..K : \A j \in 1..P(k) :
           doc[1 + off[k - 1] + j] = ResultPage(number, D[k], Chunk(IndicesOf(D[k]), j))
  BY Zenon DEF PagesPlaced
<1>3. \A k \in 1..K : P(k) \in Nat
  BY IndicesOfIs, PageTotalIs
<1> HIDE DEF P, K, D
<1>4. \A k \in 0..K : off[k] \in Nat
  BY <1>2
<1>5. Len(doc) \in Nat /\ Len(doc) >= 2
  BY <1>1, <1>2, <1>4
<1>6. \A k \in 1..K : k - 1 \in 0..K /\ k \in 0..K
  BY <1>1
<1>7. \A k \in 1..K : off[k - 1] <= off[k]
  BY <1>2, <1>3, <1>4, <1>6
<1>8. /\ \A l \in 0..K : \A k \in 0..l : off[k] <= off[l]
      /\ \A m \in 1..off[K] : \E k \in 1..K : m \in (off[k - 1] + 1)..off[k]
  BY <1>1, <1>2, <1>7, Blocks
<1>9. ASSUME NEW k \in 1..K, NEW j \in 1..P(k)
      PROVE  1 + off[k - 1] + j \in 2..(Len(doc) - 1)
  <2>1. off[k] <= off[K] /\ off[k - 1] \in Nat /\ off[k] \in Nat /\ off[K] \in Nat
    <3>1. K \in 0..K /\ k \in 0..K
      BY <1>1
    <3> QED
      BY <1>4, <1>6, <1>8, <3>1
  <2>2. off[k] = off[k - 1] + P(k) /\ P(k) \in Nat
    BY <1>2, <1>3
  <2>3. j \in Nat /\ j >= 1 /\ j <= P(k)
    BY <2>2
  <2>4. off[k - 1] + j \in Nat /\ off[k - 1] + j >= 1 /\ off[k - 1] + j <= off[K]
    BY <2>1, <2>2, <2>3, SMTT(30)
  <2>5. Len(doc) = off[K] + 2
    BY <1>2
  <2> QED
    BY <2>1, <2>3, <2>4, <2>5, SMTT(30)
<1>10. ASSUME NEW m \in 2..(Len(doc) - 1)
       PROVE  \E k \in 1..K : \E j \in 1..P(k) : m = 1 + off[k - 1] + j
  <2>1. m - 1 \in 1..off[K]
    BY <1>1, <1>2, <1>4
  <2>2. PICK k \in 1..K : m - 1 \in (off[k - 1] + 1)..off[k]
    BY <1>8, <2>1
  <2>3. off[k] = off[k - 1] + P(k) /\ P(k) \in Nat /\ off[k - 1] \in Nat
    BY <1>2, <1>3, <1>4, <1>6
  <2> DEFINE j == m - 1 - off[k - 1]
  <2>4. j \in 1..P(k) /\ m = 1 + off[k - 1] + j
    BY <2>2, <2>3, SMTT(30)
  <2> QED
    BY <2>4
<1>11. /\ Len(doc) \in Nat /\ Len(doc) >= 2
       /\ \A k \in 0..K : off[k] \in Nat
       /\ \A k \in 1..K : P(k) \in Nat
       /\ \A k \in 1..K : \A j \in 1..P(k) :
            /\ 1 + off[k - 1] + j \in 2..(Len(doc) - 1)
            /\ doc[1 + off[k - 1] + j] = ResultPage(number, D[k], Chunk(IndicesOf(D[k]), j))
       /\ \A m \in 2..(Len(doc) - 1) :
            \E k \in 1..K : \E j \in 1..P(k) : m = 1 + off[k - 1] + j
  BY <1>2, <1>3, <1>4, <1>5, <1>9, <1>10
<1> QED
  BY <1>11, Zenon DEF PagesLocated, P, K, D

\* What EveryRowOnItsPage says of a document and a table of rows.
ShowsEveryRow(doc, table) ==
  LET last == Len(doc)
      results == 2..(last - 1)
      Follows(m, o, k, n) == k < m \/ (k = m /\ n < o)
  IN /\ doc[1].rows = << >> /\ doc[last].rows = << >>
     /\ \A k \in results : Len(doc[k].rows) \in 1..RowsPerPage
     /\ \A i \in DOMAIN table :
          \E k \in results : \E n \in DOMAIN doc[k].rows : doc[k].rows[n] = i
     /\ \A k \in results : \A n \in DOMAIN doc[k].rows :
          LET i == doc[k].rows[n]
          IN i \in DOMAIN table /\ table[i].dut = doc[k].dut
     /\ \A k, m \in results : doc[k].dut = doc[m].dut =>
          /\ \A n \in DOMAIN doc[k].rows, o \in DOMAIN doc[m].rows :
               Follows(m, o, k, n) => doc[k].rows[n] < doc[m].rows[o]
          /\ \A n \in k..m : doc[n].dut = doc[k].dut

\* So the pages show every row, in order, device by device.
LEMMA PagesShowEveryRow ==
  ASSUME NEW N \in Nat, Len(rows) = N, DOMAIN rows = 1..N,
         NEW doc, NEW number, NEW template, NEW accredited, NEW off,
         PagesPlaced(doc, number, template, accredited, DutsInOrder, off)
  PROVE  ShowsEveryRow(doc, rows)
<1> DEFINE D == DutsInOrder
           K == Len(D)
           s(k) == IndicesOf(D[k])
           P(k) == PageTotal(Len(s(k)))
           R == RowsPerPage
           results == 2..(Len(doc) - 1)
           At(m, k, j) == /\ k \in 1..K /\ j \in 1..P(k) /\ m = 1 + off[k - 1] + j
                          /\ doc[m].dut = D[k] /\ doc[m].rows = Chunk(s(k), j)
<1>1. /\ Len(doc) \in Nat /\ Len(doc) >= 2
      /\ \A k \in 0..K : off[k] \in Nat
      /\ \A k \in 1..K : P(k) \in Nat
      /\ \A k \in 1..K : \A j \in 1..P(k) :
           /\ 1 + off[k - 1] + j \in results
           /\ doc[1 + off[k - 1] + j] = ResultPage(number, D[k], Chunk(s(k), j))
      /\ \A m \in results : \E k \in 1..K : \E j \in 1..P(k) : m = 1 + off[k - 1] + j
  <2>1. PagesLocated(doc, number, D, off)
    BY PagesAreLocated
  <2> QED
    BY <2>1, Zenon DEF PagesLocated
<1>2. doc[1].rows = << >> /\ doc[Len(doc)].rows = << >>
  <2>1. /\ Len(doc) = off[K] + 2
        /\ doc[1] = [lines |-> Cover(number, template, accredited), dut |-> "none",
                     rows |-> << >>]
        /\ doc[off[K] + 2] = EquipmentPage(number)
    BY Zenon DEF PagesPlaced
  <2>2. EquipmentPage(number).rows = << >>
    BY DEF EquipmentPage
  <2> QED
    BY <2>1, <2>2
<1>3. /\ K \in Nat
      /\ \A k, l \in 1..K : D[k] = D[l] => k = l
      /\ \A i \in 1..N : \E k \in 1..K : rows[i].dut = D[k]
  BY DutsInOrderIs
<1>4. ASSUME NEW k
      PROVE  /\ s(k) \in Seq(1..N) /\ Len(s(k)) \in Nat
             /\ \A n \in 1..Len(s(k)) : s(k)[n] \in 1..N /\ rows[s(k)[n]].dut = D[k]
             /\ \A n, o \in 1..Len(s(k)) : n < o => s(k)[n] < s(k)[o]
             /\ \A i \in 1..N : rows[i].dut = D[k] => \E n \in 1..Len(s(k)) : s(k)[n] = i
  BY IndicesOfIs
<1>5. R \in Nat \ {0}
  BY ContentAssumption
<1> HIDE DEF D, s
<1>6. ASSUME NEW k \in 1..K, NEW j \in 1..P(k)
      PROVE  LET c == Chunk(s(k), j)
             IN /\ c \in Seq(1..N) /\ (j - 1) * R \in Nat
                /\ Len(c) \in 1..R /\ DOMAIN c = 1..Len(c)
                /\ \A n \in 1..Len(c) : /\ (j - 1) * R + n \in 1..Len(s(k))
                                        /\ c[n] = s(k)[(j - 1) * R + n]
  <2> DEFINE c == Chunk(s(k), j)
  <2>1. /\ c \in Seq(1..N) /\ (j - 1) * R \in Nat
        /\ Len(c) \in 1..R
        /\ \A n \in 1..Len(c) : /\ (j - 1) * R + n \in 1..Len(s(k))
                                /\ c[n] = s(k)[(j - 1) * R + n]
    BY <1>4, ChunkIs
  <2> HIDE DEF c
  <2>2. DOMAIN c = 1..Len(c)
    BY <2>1
  <2> QED
    BY <2>1, <2>2 DEF c
<1>7. ASSUME NEW k \in 1..K, NEW j \in 1..P(k)
      PROVE  1 + off[k - 1] + j \in results /\ At(1 + off[k - 1] + j, k, j)
  <2>1. /\ 1 + off[k - 1] + j \in results
        /\ doc[1 + off[k - 1] + j] = ResultPage(number, D[k], Chunk(s(k), j))
    BY <1>1
  <2>2. /\ ResultPage(number, D[k], Chunk(s(k), j)).dut = D[k]
        /\ ResultPage(number, D[k], Chunk(s(k), j)).rows = Chunk(s(k), j)
    BY DEF ResultPage
  <2> HIDE DEF results, P, K
  <2> QED
    BY <2>1, <2>2 DEF results, P, K
<1>8. ASSUME NEW m \in results
      PROVE  \E k, j : At(m, k, j)
  <2>1. PICK k \in 1..K : \E j \in 1..P(k) : m = 1 + off[k - 1] + j
    BY <1>1
  <2>2. PICK j \in 1..P(k) : m = 1 + off[k - 1] + j
    BY <2>1
  <2> HIDE DEF At
  <2> QED
    BY <1>7, <2>2
<1> HIDE DEF K, P, R, results
<1>9. ASSUME NEW m \in results
      PROVE  Len(doc[m].rows) \in 1..R
  <2>1. PICK k, j : At(m, k, j)
    BY <1>8
  <2> QED
    BY <1>6, <2>1
<1>10. ASSUME NEW i \in DOMAIN rows
       PROVE  \E m \in results : \E n \in DOMAIN doc[m].rows : doc[m].rows[n] = i
  <2>1. PICK k \in 1..K : rows[i].dut = D[k]
    BY <1>3
  <2>2. PICK x \in 1..Len(s(k)) : s(k)[x] = i
    BY <1>4, <2>1
  <2>3. PICK j \in 1..P(k) : \E n \in 1..Len(Chunk(s(k), j)) : Chunk(s(k), j)[n] = i
    <3>1. s(k) \in Seq(1..N)
      BY <1>4
    <3>2. \E j \in 1..PageTotal(Len(s(k))) : \E n \in 1..Len(Chunk(s(k), j)) :
            Chunk(s(k), j)[n] = s(k)[x]
      BY <3>1, ChunksCover
    <3> QED
      BY <2>2, <3>2 DEF P
  <2>4. PICK n \in 1..Len(Chunk(s(k), j)) : Chunk(s(k), j)[n] = i
    BY <2>3
  <2> DEFINE m == 1 + off[k - 1] + j
  <2>5. m \in results /\ doc[m].rows = Chunk(s(k), j)
    BY <1>7
  <2>6. n \in DOMAIN doc[m].rows
    BY <1>6, <2>5
  <2> HIDE DEF m
  <2> QED
    BY <2>4, <2>5, <2>6
<1>11. ASSUME NEW m \in results, NEW n \in DOMAIN doc[m].rows
       PROVE  doc[m].rows[n] \in DOMAIN rows /\ rows[doc[m].rows[n]].dut = doc[m].dut
  <2>1. PICK k, j : At(m, k, j)
    BY <1>8
  <2>2. /\ n \in 1..Len(Chunk(s(k), j)) /\ doc[m].rows[n] = Chunk(s(k), j)[n]
        /\ doc[m].dut = D[k]
    BY <1>6, <2>1
  <2>3. /\ (j - 1) * R + n \in 1..Len(s(k))
        /\ Chunk(s(k), j)[n] = s(k)[(j - 1) * R + n]
    BY <1>6, <2>1, <2>2
  <2> QED
    BY <1>4, <2>2, <2>3
<1>12. ASSUME NEW m \in results, NEW q \in results, doc[m].dut = doc[q].dut
       PROVE  /\ \A n \in DOMAIN doc[m].rows, o \in DOMAIN doc[q].rows :
                   m < q \/ (m = q /\ n < o) => doc[m].rows[n] < doc[q].rows[o]
              /\ \A n \in m..q : doc[n].dut = doc[m].dut
  <2>1. PICK k, j : At(m, k, j)
    BY <1>8
  <2>2. PICK l, h : At(q, l, h)
    BY <1>8
  <2>3. l = k
    BY <1>3, <1>12, <2>1, <2>2
  <2>4. At(q, k, h)
    BY <2>2, <2>3
  <2>5. off[k - 1] \in Nat /\ P(k) \in Nat /\ j \in Nat /\ h \in Nat /\ j >= 1 /\ h <= P(k)
    <3>1. k - 1 \in 0..K /\ k \in 1..K
      BY <1>3, <2>1
    <3>2. P(k) \in Nat /\ off[k - 1] \in Nat
      BY <1>1, <3>1
    <3> QED
      BY <2>1, <2>4, <3>2
  <2>6. ASSUME NEW n \in m..q
        PROVE  doc[n].dut = doc[m].dut
    <3> DEFINE i == n - 1 - off[k - 1]
    <3>1. i \in 1..P(k) /\ n = 1 + off[k - 1] + i
      <4>1. m = 1 + off[k - 1] + j /\ q = 1 + off[k - 1] + h
        BY <2>1, <2>4
      <4>2. n \in Int /\ m <= n /\ n <= q
        BY <2>5, <4>1
      <4> QED
        BY <2>5, <4>1, <4>2, SMTT(30)
    <3> HIDE DEF i
    <3>2. doc[n].dut = D[k]
      BY <1>7, <2>1, <3>1
    <3> QED
      BY <2>1, <3>2
  <2>7. ASSUME NEW n \in DOMAIN doc[m].rows, NEW o \in DOMAIN doc[q].rows,
               m < q \/ (m = q /\ n < o)
        PROVE  doc[m].rows[n] < doc[q].rows[o]
    <3> DEFINE a == (j - 1) * R
               b == (h - 1) * R
    <3>1. /\ n \in 1..Len(Chunk(s(k), j)) /\ doc[m].rows[n] = Chunk(s(k), j)[n]
          /\ o \in 1..Len(Chunk(s(k), h)) /\ doc[q].rows[o] = Chunk(s(k), h)[o]
      BY <1>6, <2>1, <2>4
    <3>2. /\ a \in Nat /\ a + n \in 1..Len(s(k)) /\ Chunk(s(k), j)[n] = s(k)[a + n]
          /\ b \in Nat /\ b + o \in 1..Len(s(k)) /\ Chunk(s(k), h)[o] = s(k)[b + o]
          /\ n \in 1..R /\ o \in 1..R
      <4>1. Len(Chunk(s(k), j)) \in 1..R /\ Len(Chunk(s(k), h)) \in 1..R
        BY <1>6, <2>1, <2>4
      <4>2. /\ a \in Nat /\ a + n \in 1..Len(s(k)) /\ Chunk(s(k), j)[n] = s(k)[a + n]
        BY <1>6, <2>1, <3>1
      <4>3. /\ b \in Nat /\ b + o \in 1..Len(s(k)) /\ Chunk(s(k), h)[o] = s(k)[b + o]
        BY <1>6, <2>4, <3>1
      <4>4. n \in 1..R /\ o \in 1..R
        BY <1>5, <3>1, <4>1
      <4> QED
        BY <4>2, <4>3, <4>4
    <3>3. a + n < b + o
      <4>1. CASE m < q
        <5>1. j <= h - 1
          BY <2>1, <2>4, <2>5, <4>1
        <5>2. \A x, y, r \in Nat : x <= y => x * r <= y * r /\ x * r \in Nat /\ y * r \in Nat
          OBVIOUS
        <5>3. j * R <= b /\ j * R \in Nat
          BY <1>5, <2>5, <5>1, <5>2
        <5>4. \A x, r \in Nat : (x - 1) * r = x * r - r
          OBVIOUS
        <5>5. a = j * R - R
          BY <1>5, <2>5, <5>4
        <5> HIDE DEF a, b
        <5> QED
          BY <1>5, <3>2, <5>3, <5>5
      <4>2. CASE m = q /\ n < o
        <5>1. j = h
          BY <2>1, <2>4, <2>5, <4>2
        <5> QED
          BY <3>1, <3>2, <4>2, <5>1
      <4> QED
        BY <2>7, <4>1, <4>2
    <3> HIDE DEF a, b
    <3>4. s(k)[a + n] < s(k)[b + o]
      BY <1>4, <3>2, <3>3
    <3> QED
      BY <3>1, <3>2, <3>4
  <2> QED
    BY <2>6, <2>7
<1> QED
  BY <1>2, <1>9, <1>10, <1>11, <1>12, Zenon DEF ShowsEveryRow, results, R

(***************************************************************************)
(* The lines of the pages, and the contract                                *)
(***************************************************************************)

\* The line of the cover that tells the mark.
Mark(accredited) == Fixed(IF accredited THEN "accredited" ELSE "notAccredited")

\* The cover, line by line.
LEMMA CoverLines ==
  ASSUME NEW number, NEW template, NEW accredited
  PROVE  LET c == Cover(number, template, accredited)
         IN /\ DOMAIN c = 1..9
            /\ c[1] = Fixed("cover") /\ c[2] = Mark(accredited)
            /\ c[3] = Line("number", number) /\ c[4] = Customer
            /\ \A i \in 1..5 : c[4 + i] = Versions(template)[i]
<1> DEFINE f == Fixed("cover")
           m == Mark(accredited)
           n == Line("number", number)
           a == << f, m, n, Customer >>
           v == Versions(template)
           X == {f, m, n, Customer} \union {v[i] : i \in 1..5}
           c == a \o v
<1>1. v = [i \in 1..5 |-> v[i]]
  BY DEF Versions
<1>2. Cover(number, template, accredited) = c
  BY DEF Cover, Mark
<1> HIDE DEF f, m, n, v
<1>3. /\ a \in Seq(X) /\ Len(a) = 4
      /\ a[1] = f /\ a[2] = m /\ a[3] = n /\ a[4] = Customer
  OBVIOUS
<1>4. v \in Seq(X) /\ Len(v) = 5
  BY <1>1
<1> HIDE DEF a, X
<1>5. /\ c \in Seq(X) /\ Len(c) = 9
      /\ \A i \in 1..9 : c[i] = IF i <= 4 THEN a[i] ELSE v[i - 4]
  <2>1. a \in Seq(X) /\ v \in Seq(X) /\ Len(a) = 4 /\ Len(v) = 5
    BY <1>3, <1>4
  <2>2. /\ c \in Seq(X) /\ Len(c) = Len(a) + Len(v)
        /\ \A i \in 1..(Len(a) + Len(v)) : c[i] = IF i <= Len(a) THEN a[i]
                                                  ELSE v[i - Len(a)]
    BY <2>1, ConcatProperties
  <2> HIDE DEF c
  <2> QED
    BY <2>1, <2>2
<1> HIDE DEF c
<1>6. DOMAIN c = 1..9
  BY <1>5
<1>7. c[1] = f /\ c[2] = m /\ c[3] = n /\ c[4] = Customer
  BY <1>3, <1>5
<1>8. ASSUME NEW i \in 1..5
      PROVE  c[4 + i] = v[i]
  <2>1. 4 + i \in 1..9 /\ ~ (4 + i <= 4) /\ (4 + i) - 4 = i
    OBVIOUS
  <2> QED
    BY <1>5, <2>1
<1> QED
  BY <1>2, <1>6, <1>7, <1>8 DEF f, m, n, v

\* The equipment page, line by line.
LEMMA EquipmentLines ==
  ASSUME NEW number
  PROVE  LET e == EquipmentPage(number).lines
         IN /\ DOMAIN e = 1..6
            /\ e[1] = Line("number", number)
            /\ e[2] = Fixed("equipment") /\ e[3] = Fixed("evidence")
            /\ \A i \in 4..6 : e[i] = Versions(NoText)[i - 1]
<1> DEFINE n == Line("number", number)
           f == Fixed("equipment")
           g == Fixed("evidence")
           a == << n, f, g >>
           w == Versions(NoText)
           v == SubSeq(w, 3, 5)
           X == {n, f, g} \union {w[i] : i \in 1..5}
           c == a \o v
<1>1. EquipmentPage(number).lines = c
  BY DEF EquipmentPage
<1> HIDE DEF f, g, n, w
<1>3. /\ a \in Seq(X) /\ Len(a) = 3
      /\ a[1] = n /\ a[2] = f /\ a[3] = g
  OBVIOUS
<1>4. /\ v \in Seq(X) /\ Len(v) = 3
      /\ \A i \in 1..3 : v[i] = w[3 + i - 1]
  <2>1. \A i \in 3..5 : w[i] \in X
    OBVIOUS
  <2> HIDE DEF X
  <2>2. /\ v \in Seq(X)
        /\ Len(v) = IF 3 <= 5 THEN 5 - 3 + 1 ELSE 0
        /\ \A i \in 1..(5 - 3 + 1) : v[i] = w[3 + i - 1]
    BY <2>1, SubSeqProperties
  <2> HIDE DEF v
  <2> QED
    BY <2>2
<1> HIDE DEF a, X, v
<1>5. /\ c \in Seq(X) /\ Len(c) = 6
      /\ \A i \in 1..6 : c[i] = IF i <= 3 THEN a[i] ELSE v[i - 3]
  <2>1. a \in Seq(X) /\ v \in Seq(X) /\ Len(a) = 3 /\ Len(v) = 3
    BY <1>3, <1>4
  <2>2. /\ c \in Seq(X) /\ Len(c) = Len(a) + Len(v)
        /\ \A i \in 1..(Len(a) + Len(v)) : c[i] = IF i <= Len(a) THEN a[i]
                                                  ELSE v[i - Len(a)]
    BY <2>1, ConcatProperties
  <2> HIDE DEF c
  <2> QED
    BY <2>1, <2>2
<1> HIDE DEF c
<1>6. DOMAIN c = 1..6
  BY <1>5
<1>7. c[1] = n /\ c[2] = f /\ c[3] = g
  BY <1>3, <1>5
<1>8. ASSUME NEW i \in 4..6
      PROVE  c[i] = w[i - 1]
  <2>1. /\ i \in 1..6 /\ ~ (i <= 3) /\ i - 3 \in 1..3 /\ 3 + (i - 3) - 1 = i - 1
    OBVIOUS
  <2>2. c[i] = v[i - 3]
    BY <1>5, <2>1
  <2> QED
    BY <1>4, <2>1, <2>2
<1> QED
  BY <1>1, <1>6, <1>7, <1>8 DEF f, g, n, w

\* The contract counts the pages that are rendered.
LEMMA PagesCounted ==
  ASSUME NEW N \in Nat, Len(rows) = N, DOMAIN rows = 1..N,
         NEW doc, NEW number, NEW template, NEW accredited, NEW off,
         PagesPlaced(doc, number, template, accredited, DutsInOrder, off)
  PROVE  ExpectedPages = Len(doc) /\ CountFound(ExpectedPages, Len(doc))
<1> DEFINE D == DutsInOrder
           K == Len(D)
           P(k) == PageTotal(Len(IndicesOf(D[k])))
           v == [k \in DOMAIN D |-> P(k)]
<1>1. K \in Nat /\ DOMAIN D = 1..K
  BY DutsInOrderIs
<1>2. /\ off[0] = 0
      /\ \A k \in 1..K : off[k] = off[k - 1] + P(k)
      /\ Len(doc) = off[K] + 2
  BY Zenon DEF PagesPlaced
<1>3. Len(doc) \in Nat
  <2>1. PagesLocated(doc, number, D, off)
    BY PagesAreLocated
  <2> QED
    BY <2>1, Zenon DEF PagesLocated
<1>4. off[K] \in Nat
  <2>1. off \in [0..K -> Nat]
    BY Zenon DEF PagesPlaced
  <2> HIDE DEF K
  <2> QED
    BY <1>1, <2>1
<1>5. ExpectedPages = 2 + Total(v)
  BY DEF ExpectedPages, PageTotal
<1> HIDE DEF D, P
<1>6. v = [k \in 1..K |-> P(k)]
  BY <1>1
<1>7. Len(v) = K
  BY <1>1, <1>6
<1>8. \A k \in 1..K : v[k] = P(k)
  BY <1>6
<1> HIDE DEF v, K
<1>9. PICK g : /\ g[0] = 0
               /\ \A k \in 1..K : g[k] = g[k - 1] + v[k]
               /\ Total(v) = g[K]
  <2>1. \E g : /\ g[0] = 0
               /\ \A n \in 1..Len(v) : g[n] = g[n - 1] + v[n]
               /\ Total(v) = g[Len(v)]
    BY <1>1, <1>7, PrefixSums
  <2> QED
    BY <1>7, <2>1
<1> DEFINE S == {k \in 0..K : g[k] = off[k]}
<1>10. 0 \in S
  BY <1>1, <1>2, <1>9
<1>11. ASSUME NEW k \in 0..(K - 1), k \in S
       PROVE  k + 1 \in S
  <2>1. k + 1 \in 1..K /\ k + 1 \in 0..K /\ (k + 1) - 1 = k
    BY <1>1
  <2> QED
    BY <1>2, <1>8, <1>9, <1>11, <2>1
<1>12. K \in S
  <2> HIDE DEF S
  <2>1. 0..K \subseteq S
    BY <1>1, <1>10, <1>11, UpTo
  <2> QED
    BY <1>1, <2>1
<1>13. ExpectedPages = Len(doc)
  BY <1>2, <1>4, <1>5, <1>9, <1>12
<1>14. CountFound(ExpectedPages, Len(doc))
  <2>1. 0 \in 0..3 /\ 10^0 = 1 /\ Len(doc) \div 1 = Len(doc)
    BY <1>3
  <2> QED
    BY <1>13, <2>1 DEF CountFound
<1> QED
  BY <1>13, <1>14

\* A fixed line is shown as it is.
LEMMA FixedLines ==
  ASSUME NEW label
  PROVE  Shown(Fixed(label)) /\ ~ Fixed(label).text.placeholder
BY DEF Shown, Fixed, Line, NoText

\* So is a tidy text.
LEMMA TidyLines ==
  ASSUME NEW label, NEW text, TidyText(label, text)
  PROVE  Shown(Line(label, text)) /\ ~ Line(label, text).text.placeholder
<1>1. Line(label, text).label = label /\ Line(label, text).text = text
  BY DEF Line
<1> QED
  BY <1>1, Zenon DEF TidyText, Shown

\* The five version lines.
LEMMA VersionLines ==
  ASSUME NEW template
  PROVE  /\ Versions(template)[1] = Line("template", template)
         /\ Versions(template)[2] = Line("software", job.software)
         /\ Versions(template)[3] = Line("engine", job.engine)
         /\ Versions(template)[4] = Line("constants", job.constants)
         /\ Versions(template)[5] = Line("budget", job.budget)
BY DEF Versions

\* The lines the contract looks for, and those it might refuse.
LEMMA LinesRendered ==
  ASSUME NEW N \in Nat, N > 0, Len(rows) = N, DOMAIN rows = 1..N,
         NEW doc, NEW number, NEW template, NEW accredited, NEW off,
         PagesPlaced(doc, number, template, accredited, DutsInOrder, off),
         NEW artifact, artifact.pages = doc
  PROVE  /\ {Line("number", number), Fixed("cover"), Fixed("results"), Fixed("equipment"),
             Fixed("evidence"), Mark(accredited)}
              \union {Versions(template)[i] : i \in 1..5}
              \subseteq LinesOf(artifact)
         /\ \A line \in LinesOf(artifact) :
              \/ \E label : line = Fixed(label)
              \/ line \in {Line("number", number), Customer}
              \/ \E i \in 1..5 : line = Versions(template)[i]
              \/ \E i \in 3..5 : line = Versions(NoText)[i]
<1> DEFINE D == DutsInOrder
           K == Len(D)
           P(k) == PageTotal(Len(IndicesOf(D[k])))
           Result(k, j) == ResultPage(number, D[k], Chunk(IndicesOf(D[k]), j))
           resultLines == << Line("number", number), Customer, Fixed("results") >>
<1>1. /\ Len(doc) \in Nat /\ Len(doc) >= 2
      /\ \A k \in 1..K : \A j \in 1..P(k) :
           /\ 1 + off[k - 1] + j \in 2..(Len(doc) - 1)
           /\ doc[1 + off[k - 1] + j] = Result(k, j)
      /\ \A m \in 2..(Len(doc) - 1) :
           \E k \in 1..K : \E j \in 1..P(k) : m = 1 + off[k - 1] + j
  <2>1. PagesLocated(doc, number, D, off)
    BY PagesAreLocated
  <2> QED
    BY <2>1, Zenon DEF PagesLocated
<1>2. /\ DOMAIN doc = 1..Len(doc)
      /\ doc[1].lines = Cover(number, template, accredited)
      /\ doc[Len(doc)].lines = EquipmentPage(number).lines
  <2>1. /\ Len(doc) = off[K] + 2 /\ DOMAIN doc = 1..Len(doc)
        /\ doc[1] = [lines |-> Cover(number, template, accredited), dut |-> "none",
                     rows |-> << >>]
        /\ doc[off[K] + 2] = EquipmentPage(number)
    BY Zenon DEF PagesPlaced
  <2> QED
    BY <2>1
<1>3. \A line : line \in LinesOf(artifact) <=>
        \E m \in 1..Len(doc) : \E i \in DOMAIN doc[m].lines : line = doc[m].lines[i]
  <2>1. LinesOf(artifact) =
          UNION {{page.lines[i] : i \in DOMAIN page.lines} : page \in
                   {doc[k] : k \in 1..Len(doc)}}
    BY <1>2 DEF LinesOf
  <2> QED
    BY <2>1
<1>4. \A k, j : Result(k, j).lines = resultLines
  BY DEF ResultPage
<1>5. K \in Nat /\ \A i \in 1..N : \E k \in 1..K : rows[i].dut = D[k]
  BY DutsInOrderIs
<1>6. \E m \in 2..(Len(doc) - 1) : TRUE
  <2>1. PICK k \in 1..K : rows[1].dut = D[k]
    BY <1>5
  <2>2. PICK n \in 1..Len(IndicesOf(D[k])) : IndicesOf(D[k])[n] = 1
    BY <2>1, IndicesOfIs
  <2>3. IndicesOf(D[k]) \in Seq(1..N)
    BY IndicesOfIs
  <2>4. \E j \in 1..P(k) : \E o \in 1..Len(Chunk(IndicesOf(D[k]), j)) :
          Chunk(IndicesOf(D[k]), j)[o] = IndicesOf(D[k])[n]
    BY <2>3, ChunksCover
  <2> QED
    BY <1>1, <2>4
<1> HIDE DEF D, K, P
<1>7. ASSUME NEW m \in 2..(Len(doc) - 1)
      PROVE  doc[m].lines = resultLines
  <2>1. PICK k \in 1..K : \E j \in 1..P(k) : m = 1 + off[k - 1] + j
    BY <1>1
  <2>2. PICK j \in 1..P(k) : m = 1 + off[k - 1] + j
    BY <2>1
  <2>3. doc[m] = Result(k, j)
    BY <1>1, <2>2
  <2> HIDE DEF Result, resultLines
  <2> QED
    BY <1>4, <2>3
<1> HIDE DEF Result
<1>8. /\ DOMAIN resultLines = 1..3
      /\ resultLines[1] = Line("number", number) /\ resultLines[2] = Customer
      /\ resultLines[3] = Fixed("results")
  OBVIOUS
<1> HIDE DEF resultLines
<1> DEFINE c == Cover(number, template, accredited)
           e == EquipmentPage(number).lines
<1>9. /\ DOMAIN c = 1..9 /\ c[1] = Fixed("cover") /\ c[2] = Mark(accredited)
      /\ c[3] = Line("number", number) /\ c[4] = Customer
      /\ \A i \in 1..5 : c[4 + i] = Versions(template)[i]
  BY CoverLines
<1>10. /\ DOMAIN e = 1..6 /\ e[1] = Line("number", number)
       /\ e[2] = Fixed("equipment") /\ e[3] = Fixed("evidence")
       /\ \A i \in 4..6 : e[i] = Versions(NoText)[i - 1]
  BY EquipmentLines
<1> HIDE DEF c, e
<1>11. doc[1].lines = c /\ doc[Len(doc)].lines = e
  BY <1>2 DEF c, e
<1>12. 1 \in 1..Len(doc) /\ Len(doc) \in 1..Len(doc)
  BY <1>1
<1>13. \A i \in 1..9 : c[i] \in LinesOf(artifact)
  BY <1>3, <1>9, <1>11, <1>12
<1>14. \A i \in 1..6 : e[i] \in LinesOf(artifact)
  BY <1>3, <1>10, <1>11, <1>12
<1>15. Fixed("results") \in LinesOf(artifact)
  <2>1. PICK m \in 2..(Len(doc) - 1) : TRUE
    BY <1>6
  <2>2. m \in 1..Len(doc) /\ 3 \in DOMAIN doc[m].lines /\ doc[m].lines[3] = Fixed("results")
    BY <1>1, <1>7, <1>8
  <2> QED
    BY <1>3, <2>2
<1>16. \A i \in 1..5 : Versions(template)[i] \in LinesOf(artifact)
  <2> TAKE i \in 1..5
  <2>1. 4 + i \in 1..9
    OBVIOUS
  <2> QED
    BY <1>9, <1>13, <2>1
<1>17. /\ Line("number", number) \in LinesOf(artifact)
       /\ Fixed("cover") \in LinesOf(artifact) /\ Mark(accredited) \in LinesOf(artifact)
       /\ Fixed("equipment") \in LinesOf(artifact) /\ Fixed("evidence") \in LinesOf(artifact)
  <2>1. 1 \in 1..9 /\ 2 \in 1..9 /\ 3 \in 1..9 /\ 2 \in 1..6 /\ 3 \in 1..6
    OBVIOUS
  <2> QED
    BY <1>9, <1>10, <1>13, <1>14, <2>1
<1>18. ASSUME NEW line \in LinesOf(artifact)
       PROVE  \/ \E label : line = Fixed(label)
              \/ line \in {Line("number", number), Customer}
              \/ \E i \in 1..5 : line = Versions(template)[i]
              \/ \E i \in 3..5 : line = Versions(NoText)[i]
  <2>1. PICK m \in 1..Len(doc) : \E i \in DOMAIN doc[m].lines : line = doc[m].lines[i]
    BY <1>3
  <2>2. PICK i \in DOMAIN doc[m].lines : line = doc[m].lines[i]
    BY <2>1
  <2>3. CASE m = 1
    <3>1. i \in 1..9 /\ line = c[i]
      BY <1>9, <1>11, <2>2, <2>3
    <3>2. CASE i \in 1..4
      <4>1. i = 1 \/ i = 2 \/ i = 3 \/ i = 4
        BY <3>2
      <4> QED
        BY <1>9, <3>1, <4>1, Zenon DEF Mark
    <3>3. CASE i \in 5..9
      <4>1. i - 4 \in 1..5 /\ 4 + (i - 4) = i
        BY <3>3
      <4>2. line = Versions(template)[i - 4]
        BY <1>9, <3>1, <4>1
      <4> QED
        BY <4>1, <4>2
    <3> QED
      BY <3>1, <3>2, <3>3
  <2>4. CASE m = Len(doc)
    <3>1. i \in 1..6 /\ line = e[i]
      BY <1>10, <1>11, <2>2, <2>4
    <3>2. CASE i \in 1..3
      <4>1. i = 1 \/ i = 2 \/ i = 3
        BY <3>2
      <4> QED
        BY <1>10, <3>1, <4>1, Zenon
    <3>3. CASE i \in 4..6
      <4>1. i - 1 \in 3..5
        BY <3>3
      <4>2. line = Versions(NoText)[i - 1]
        BY <1>10, <3>1, <3>3
      <4> QED
        BY <4>1, <4>2
    <3> QED
      BY <3>1, <3>2, <3>3
  <2>5. CASE m \in 2..(Len(doc) - 1)
    <3>1. i \in 1..3 /\ line = resultLines[i]
      BY <1>7, <1>8, <2>2, <2>5
    <3>2. i = 1 \/ i = 2 \/ i = 3
      BY <3>1
    <3> QED
      BY <1>8, <3>1, <3>2, Zenon
  <2>6. m = 1 \/ m = Len(doc) \/ m \in 2..(Len(doc) - 1)
    BY <1>1
  <2> QED
    BY <2>3, <2>4, <2>5, <2>6
<1> QED
  BY <1>15, <1>16, <1>17, <1>18

\* Rendered under the conditions of PreviewedIsReleasable, a certificate meets
\* the contract.
LEMMA RenderedMeetsContract ==
  ASSUME NEW N \in Nat, N > 0, Len(rows) = N, DOMAIN rows = 1..N,
         NEW number, NEW template, NEW accredited \in BOOLEAN,
         assets.simval = "sound", assets.danak = "sound",
         TidyText("number", number), TidyText("template", template),
         \A label \in {"software", "engine", "constants", "budget"} :
           TidyText(label, job[label]),
         ~ job.customer.placeholder
  PROVE  MeetsContract(Render(number, template, accredited), number, template, accredited)
<1> DEFINE artifact == Render(number, template, accredited)
           doc == Pages(number, template, accredited)
<1>1. artifact.pages = doc /\ artifact.logos = Logos(accredited)
  BY DEF Render
<1> HIDE DEF artifact, doc
<1>2. PICK off : PagesPlaced(doc, number, template, accredited, DutsInOrder, off)
  BY PagesArePlaced DEF doc
<1>3. CountFound(ExpectedPages, Len(artifact.pages))
  BY <1>1, <1>2, PagesCounted
<1> DEFINE wanted == {Line("number", number), Fixed("cover"), Fixed("results"),
                      Fixed("equipment"), Fixed("evidence"), Mark(accredited)}
                       \union {Versions(template)[i] : i \in 1..5}
<1>4. /\ wanted \subseteq LinesOf(artifact)
      /\ \A line \in LinesOf(artifact) :
           \/ \E label : line = Fixed(label)
           \/ line \in {Line("number", number), Customer}
           \/ \E i \in 1..5 : line = Versions(template)[i]
           \/ \E i \in 3..5 : line = Versions(NoText)[i]
  BY <1>1, <1>2, LinesRendered
<1>5. /\ TidyText("software", job.software) /\ TidyText("engine", job.engine)
      /\ TidyText("constants", job.constants) /\ TidyText("budget", job.budget)
  BY Zenon
<1>6. ASSUME NEW i \in 1..5
      PROVE  /\ Shown(Versions(template)[i])
             /\ ~ Versions(template)[i].text.placeholder
             /\ i \in 3..5 => ~ Versions(NoText)[i].text.placeholder
  <2> DEFINE Tidy(line) == Shown(line) /\ ~ line.text.placeholder
  <2>1. /\ Tidy(Line("template", template)) /\ Tidy(Line("software", job.software))
        /\ Tidy(Line("engine", job.engine)) /\ Tidy(Line("constants", job.constants))
        /\ Tidy(Line("budget", job.budget))
    BY <1>5, TidyLines
  <2> HIDE DEF Tidy
  <2>2. /\ Tidy(Versions(template)[1]) /\ Tidy(Versions(template)[2])
        /\ Tidy(Versions(template)[3]) /\ Tidy(Versions(template)[4])
        /\ Tidy(Versions(template)[5])
    BY <2>1, VersionLines
  <2>3. /\ Tidy(Versions(NoText)[3]) /\ Tidy(Versions(NoText)[4])
        /\ Tidy(Versions(NoText)[5])
    BY <2>1, VersionLines
  <2>4. i = 1 \/ i = 2 \/ i = 3 \/ i = 4 \/ i = 5
    OBVIOUS
  <2>5. i \in 3..5 => i = 3 \/ i = 4 \/ i = 5
    OBVIOUS
  <2>6. Tidy(Versions(template)[i])
    BY <2>2, <2>4, Zenon
  <2>7. i \in 3..5 => Tidy(Versions(NoText)[i])
    BY <2>3, <2>5, Zenon
  <2> QED
    BY <2>6, <2>7 DEF Tidy
<1>7. \A line \in wanted : Shown(line)
  <2>1. Shown(Line("number", number))
    BY TidyLines
  <2>2. Shown(Mark(accredited))
    BY FixedLines DEF Mark
  <2> QED
    BY <1>6, <2>1, <2>2, FixedLines
<1>8. ASSUME NEW line \in LinesOf(artifact)
      PROVE  ~ line.text.placeholder
  <2>1. ~ Line("number", number).text.placeholder
    BY TidyLines
  <2>2. ~ Customer.text.placeholder
    BY DEF Customer, Line
  <2>3. \A i \in 3..5 : i \in 1..5
    OBVIOUS
  <2> QED
    BY <1>4, <1>6, <2>1, <2>2, <2>3, FixedLines, Zenon
<1>9. "simval" \in artifact.logos /\ (("danak" \in artifact.logos) <=> accredited)
  BY <1>1 DEF Logos
<1>10. wanted = {Line("number", number), Fixed("cover"), Fixed("results"),
                 Fixed("equipment"), Fixed("evidence"),
                 Fixed(IF accredited THEN "accredited" ELSE "notAccredited")}
                  \union {Versions(template)[i] : i \in 1..5}
  BY DEF Mark
<1> HIDE DEF wanted
<1>11. \A line \in wanted : line \in LinesOf(artifact) /\ Shown(line)
  BY <1>4, <1>7
<1>12. MeetsContract(artifact, number, template, accredited)
  BY <1>3, <1>8, <1>9, <1>10, <1>11, Zenon DEF MeetsContract
<1> QED
  BY <1>12 DEF artifact

(***************************************************************************)
(* The theorems of a certificate's content                                 *)
(***************************************************************************)

\* The rows are a sequence, one for each point.
LEMMA RowsTyped ==
  ASSUME RowsOfPoints
  PROVE  /\ \E N \in Nat : Len(rows) = N /\ Len(points) = N /\ DOMAIN rows = 1..N
         /\ DOMAIN rows = DOMAIN points
         /\ \A i \in DOMAIN rows : /\ rows[i].calculated \in Nat
                                   /\ rows[i].reported \in Nat
                                   /\ rows[i].error \in Int
<1>1. Len(points) \in Nat /\ DOMAIN points = 1..Len(points)
  BY DEF RowsOfPoints
<1>2. rows = [i \in 1..Len(points) |-> Row(points[i])]
  BY <1>1 DEF RowsOfPoints
<1>3. Len(rows) = Len(points) /\ DOMAIN rows = 1..Len(points)
  BY <1>1, <1>2
<1>4. ASSUME NEW i \in DOMAIN rows
      PROVE  /\ rows[i].calculated \in Nat /\ rows[i].reported \in Nat
             /\ rows[i].error \in Int
  <2>1. PICK p \in PointType : Accepted(p) /\ rows[i] = Row(p)
    <3>1. points[i] \in PointType /\ Accepted(points[i]) /\ rows[i] = Row(points[i])
      BY <1>2, <1>3 DEF RowsOfPoints
    <3> QED
      BY <3>1
  <2> DEFINE c == rows[i].calculated
             f == rows[i].floor
             u == Larger(c, f)
             v == rows[i].indication - rows[i].reference
  <2>2. /\ c \in Nat /\ f \in Nat /\ v \in Int
        /\ rows[i].reported = RoundedUncertainty(u, f)
        /\ rows[i].error = RoundedResult(v, u)
    BY <2>1, RowIs
  <2>3. u \in Nat /\ f <= u
    BY <2>2 DEF Larger
  <2> HIDE DEF c, f, u, v
  <2>4. RoundedUncertainty(u, f) \in Nat
    BY <2>2, <2>3, ReportedIsSound
  <2>5. RoundedResult(v, u) \in Int
    BY <2>2, <2>3, ResultIsSound
  <2> QED
    BY <2>2, <2>4, <2>5 DEF c
<1> QED
  BY <1>1, <1>3, <1>4

\* What a release renders shows every row.
LEMMA PagesNotEmpty ==
  ASSUME RowsOfPoints, NEW number, NEW template, NEW accredited
  PROVE  /\ Pages(number, template, accredited) # << >>
         /\ ShowsEveryRow(Pages(number, template, accredited), rows)
<1> DEFINE doc == Pages(number, template, accredited)
<1>1. PICK N \in Nat : Len(rows) = N /\ DOMAIN rows = 1..N
  BY RowsTyped
<1>2. PICK off : PagesPlaced(doc, number, template, accredited, DutsInOrder, off)
  BY <1>1, PagesArePlaced
<1> HIDE DEF doc
<1>3. PagesLocated(doc, number, DutsInOrder, off)
  BY <1>1, <1>2, PagesAreLocated
<1>4. Len(doc) >= 2
  BY <1>3, Zenon DEF PagesLocated
<1>5. doc # << >>
  BY <1>4
<1>6. ShowsEveryRow(doc, rows)
  BY <1>1, <1>2, PagesShowEveryRow
<1> QED
  BY <1>5, <1>6 DEF doc

\* What CCTypeOK says of the rest.
OtherTypes ==
  /\ job \in Jobs
  /\ assets \in Assets
  /\ jobState \in {"windows_selected", "calculated", "approved", "released"}
  /\ previews \subseteq
       [ids : {DOMAIN rows}, template : Templates, accredited : BOOLEAN]
  /\ (document # << >>) <=> (jobState = "released")

\* What a preview has found stays so: the rows are fixed and each is covered.
PreviewsHold ==
  /\ jobState # "windows_selected" => rows # << >>
  /\ previews # {} => Suitable

\* All of it holds at first.
LEMMA OtherTypesInit == CCInit => OtherTypes /\ PreviewsHold /\ EveryRowOnItsPage
<1> SUFFICES ASSUME CCInit
             PROVE  OtherTypes /\ PreviewsHold /\ EveryRowOnItsPage
  OBVIOUS
<1>1. OtherTypes
  BY DEF CCInit, OtherTypes
<1>2. PreviewsHold
  BY DEF CCInit, PreviewsHold
<1>3. EveryRowOnItsPage
  <2>1. document = << >>
    BY DEF CCInit
  <2> QED
    BY <2>1, Zenon DEF EveryRowOnItsPage
<1> QED
  BY <1>1, <1>2, <1>3

\* A job is released exactly when its document is written.
LEMMA OtherTypesStep ==
  ASSUME RowsOfPoints, NothingYet, OtherTypes, [CCNext]_CCVars
  PROVE  OtherTypes'
<1>1. ASSUME NEW plan \in Plans, Calculate(plan)
      PROVE  OtherTypes'
  BY <1>1 DEF Calculate, OtherTypes, NothingYet
<1>2. ASSUME NEW template \in Templates, NEW accredited \in BOOLEAN,
             GeneratePreview(template, accredited)
      PROVE  OtherTypes'
  <2>1. Event(template, accredited) \in
          [ids : {DOMAIN rows}, template : Templates, accredited : BOOLEAN]
    BY DEF Event
  <2> QED
    BY <1>2, <2>1 DEF GeneratePreview, OtherTypes
<1>3. CASE Approve
  BY <1>3 DEF Approve, OtherTypes
<1>4. ASSUME NEW number \in Numbers, NEW template \in Templates, NEW accredited \in BOOLEAN,
             Release(number, template, accredited)
      PROVE  OtherTypes'
  <2>1. Pages(number, template, accredited) # << >>
    BY PagesNotEmpty
  <2> QED
    BY <1>4, <2>1 DEF Release, OtherTypes
<1>5. CASE UNCHANGED CCVars
  BY <1>5 DEF CCVars, OtherTypes
<1> QED
  BY <1>1, <1>2, <1>3, <1>4, <1>5 DEF CCNext

\* Nothing a preview depends on changes after it.
LEMMA PreviewsHoldStep ==
  ASSUME RowsOfPoints, NothingYet, PreviewsHold, [CCNext]_CCVars
  PROVE  PreviewsHold'
<1>1. ASSUME NEW plan \in Plans, Calculate(plan)
      PROVE  PreviewsHold'
  <2>1. previews' = {}
    BY <1>1 DEF Calculate, NothingYet
  <2>2. rows' # << >>
    <3>1. plan # << >> /\ plan \in Seq(PointType)
      BY <1>1, PlansAssumption DEF Calculate
    <3>2. 1 \in DOMAIN plan
      BY <3>1
    <3>3. DOMAIN rows' = DOMAIN plan
      BY <1>1 DEF Calculate
    <3> QED
      BY <3>2, <3>3
  <2> QED
    BY <2>1, <2>2 DEF PreviewsHold
<1>2. ASSUME NEW template \in Templates, NEW accredited \in BOOLEAN,
             GeneratePreview(template, accredited)
      PROVE  PreviewsHold'
  <2>1. Suitable /\ UNCHANGED <<job, jobState, rows>> /\ jobState # "windows_selected"
    BY <1>2 DEF GeneratePreview
  <2> QED
    BY <2>1 DEF PreviewsHold, Suitable, Covers
<1>3. CASE Approve
  BY <1>3 DEF Approve, PreviewsHold, Suitable, Covers
<1>4. ASSUME NEW number \in Numbers, NEW template \in Templates, NEW accredited \in BOOLEAN,
             Release(number, template, accredited)
      PROVE  PreviewsHold'
  <2>1. UNCHANGED <<job, rows, previews>> /\ jobState = "approved"
    BY <1>4 DEF Release
  <2> QED
    BY <2>1 DEF PreviewsHold, Suitable, Covers
<1>5. CASE UNCHANGED CCVars
  BY <1>5 DEF CCVars, PreviewsHold, Suitable, Covers
<1> QED
  BY <1>1, <1>2, <1>3, <1>4, <1>5 DEF CCNext

\* A document is rendered from the rows, which stay.
LEMMA EveryRowOnItsPageStep ==
  ASSUME RowsOfPoints, NothingYet, EveryRowOnItsPage, [CCNext]_CCVars
  PROVE  EveryRowOnItsPage'
<1>1. document # << >> => ShowsEveryRow(document, rows)
  BY Zenon DEF EveryRowOnItsPage, ShowsEveryRow
<1>2. SUFFICES document' # << >> => ShowsEveryRow(document', rows')
  BY <1>2, Zenon DEF EveryRowOnItsPage, ShowsEveryRow
<1>3. ASSUME NEW plan \in Plans, Calculate(plan)
      PROVE  document' = << >>
  BY <1>3 DEF Calculate, NothingYet
<1>4. ASSUME NEW template \in Templates, NEW accredited \in BOOLEAN,
             GeneratePreview(template, accredited)
      PROVE  UNCHANGED <<document, rows>>
  BY <1>4 DEF GeneratePreview
<1>5. CASE Approve
  <2>1. UNCHANGED <<document, rows>>
    BY <1>5 DEF Approve
  <2> QED
    BY <1>1, <2>1
<1>6. ASSUME NEW number \in Numbers, NEW template \in Templates, NEW accredited \in BOOLEAN,
             Release(number, template, accredited)
      PROVE  ShowsEveryRow(document', rows')
  <2>1. ShowsEveryRow(Pages(number, template, accredited), rows)
    BY PagesNotEmpty
  <2>2. document' = Pages(number, template, accredited) /\ rows' = rows
    BY <1>6 DEF Release
  <2> QED
    BY <2>1, <2>2
<1>7. CASE UNCHANGED CCVars
  <2>1. UNCHANGED <<document, rows>>
    BY <1>7 DEF CCVars
  <2> QED
    BY <1>1, <2>1
<1> QED
  BY <1>1, <1>3, <1>4, <1>5, <1>6, <1>7 DEF CCNext

\* What was previewed passes every check of a release.
LEMMA PreviewedCanBeReleased ==
  ASSUME RowsOfPoints, OtherTypes, PreviewsHold
  PROVE  PreviewedIsReleasable
<1> SUFFICES ASSUME NEW event \in previews, NEW number \in Numbers,
                    jobState = "approved",
                    assets.simval = "sound", assets.danak = "sound",
                    TidyText("number", number), TidyText("template", event.template),
                    \A label \in {"software", "engine", "constants", "budget"} :
                      TidyText(label, job[label]),
                    ~ job.customer.placeholder
             PROVE  Releasable(number, event.template, event.accredited)
  BY Zenon DEF PreviewedIsReleasable
<1>1. /\ event.accredited \in BOOLEAN
      /\ event = [ids |-> DOMAIN rows, template |-> event.template,
                  accredited |-> event.accredited]
  <2>1. event \in [ids : {DOMAIN rows}, template : Templates, accredited : BOOLEAN]
    BY DEF OtherTypes
  <2> QED
    BY <2>1
<1>2. Event(event.template, event.accredited) \in previews
  BY <1>1 DEF Event
<1>3. Suitable
  BY DEF PreviewsHold
<1>4. CanRender(event.accredited)
  BY DEF CanRender
<1>5. PICK N \in Nat : Len(rows) = N /\ DOMAIN rows = 1..N
  BY RowsTyped
<1>6. N > 0
  <2>1. rows # << >>
    BY DEF PreviewsHold
  <2>2. rows = [i \in 1..N |-> rows[i]]
    BY <1>5 DEF RowsOfPoints
  <2>3. N = 0 => rows = << >>
    <3>1. 1..0 = {}
      OBVIOUS
    <3> QED
      BY <2>2, <3>1
  <2> QED
    BY <2>1, <2>3
<1>7. MeetsContract(Render(number, event.template, event.accredited), number,
                    event.template, event.accredited)
  BY <1>1, <1>5, <1>6, RenderedMeetsContract
<1> QED
  BY <1>2, <1>3, <1>4, <1>7 DEF Releasable

\* All of it together, an inductive invariant.
Content ==
  RowsOfPoints /\ NothingYet /\ OtherTypes /\ PreviewsHold /\ EveryRowOnItsPage

\* Rows, previews and document agree in every state.
THEOREM ContentHolds == CCSpec => []Content
<1>1. CCInit => Content
  BY RowsOfPointsInit, OtherTypesInit DEF Content
<1>2. Content /\ [CCNext]_CCVars => Content'
  BY RowsOfPointsStep, OtherTypesStep, PreviewsHoldStep, EveryRowOnItsPageStep DEF Content
<1> QED
  BY <1>1, <1>2, PTL DEF CCSpec

\* One row for each point, events of the rows of the calculation, and a
\* document exactly for a released job.
THEOREM ContentTypeCorrect == CCSpec => []CCTypeOK
<1>1. Content => CCTypeOK
  BY RowsTyped DEF Content, OtherTypes, CCTypeOK
<1> QED
  BY <1>1, ContentHolds, PTL

\* No row reports less than its CMC floor, or an uncertainty that is further
\* from the floored one than half of its second significant digit, or than that
\* digit where the floor demands it; and no result is off by more than half of
\* that digit, nor, while the digit is not above the units, shown to another.
THEOREM UncertaintyAlwaysSound == CCSpec => []UncertaintyIsSound
<1>1. Content => UncertaintyIsSound
  BY RowSound DEF Content
<1> QED
  BY <1>1, ContentHolds, PTL

\* No row with larger contributions, coverage factor and floor than another
\* of the same readings ever reports less.
THEOREM UncertaintyAlwaysGrows == CCSpec => []UncertaintyGrows
<1>1. Content => UncertaintyGrows
  BY AllRowsGrow DEF Content
<1> QED
  BY <1>1, ContentHolds, PTL

\* A released document shows every row once, in order, device by device.
THEOREM EveryRowAlwaysOnItsPage == CCSpec => []EveryRowOnItsPage
<1>1. Content => EveryRowOnItsPage
  BY DEF Content
<1> QED
  BY <1>1, ContentHolds, PTL

\* An approved job can be released as it was previewed, its texts allowing.
THEOREM PreviewedIsAlwaysReleasable == CCSpec => []PreviewedIsReleasable
<1>1. Content => PreviewedIsReleasable
  BY PreviewedCanBeReleased DEF Content
<1> QED
  BY <1>1, ContentHolds, PTL

================================================================================
