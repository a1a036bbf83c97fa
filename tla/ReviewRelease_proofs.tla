------------------------ MODULE ReviewRelease_proofs -------------------------
(***************************************************************************)
(* What ReviewRelease guarantees for any number of users, requests,        *)
(* certificate ids and variants, and for any accounts and changes to them. *)
(***************************************************************************)
EXTENDS ReviewRelease, TLAPS

(***************************************************************************)
(* Types                                                                   *)
(***************************************************************************)

\* What the fields of a request in flight can be.
LEMMA RequestFields ==
  ASSUME NEW q \in Request
  PROVE  /\ q.pc # "idle" => q.user \in Users
         /\ q.pc \in {"checked", "read"} =>
              /\ q.step \in {"submit", "technical", "qa"}
              /\ q = Review(q.pc, q.user, q.step)
         /\ q.pc = "previewing" => q.variant \in Variants
         /\ q.pc \in {"accepted", "rendered", "rechecked", "approved"} =>
              /\ q.route \in Routes
              /\ q.id \in CertificateIds
              /\ q.variant \in Variants
              /\ q = Release(q.pc, q.user, q.route, q.id, q.variant)
         /\ q.pc = "evidenced" =>
              /\ q.route \in Routes
              /\ q.id \in CertificateIds
              /\ q.variant \in Variants
              /\ q.approver \in Users
         /\ q.pc = "revising" => q.id \in CertificateIds
         /\ q.pc = "managing" => q.change \in AccountChange
         /\ q.pc = "idle" => q = Idle
  BY DEF Request, ReviewSteps, Review, Release, Idle

\* The records that the actions build are requests.
LEMMA RequestRecords ==
  ASSUME NEW u \in Users
  PROVE  /\ Idle \in Request
         /\ Entry(u) \in Request
         /\ \A pc \in {"checked", "read"}, s \in DOMAIN ReviewSteps :
              Review(pc, u, s) \in Request
         /\ \A v \in Variants :
              [pc |-> "previewing", user |-> u, variant |-> v] \in Request
         /\ \A pc \in {"accepted", "rendered", "rechecked", "approved"},
               route \in Routes, id \in CertificateIds, v \in Variants :
              Release(pc, u, route, id, v) \in Request
         /\ \A id \in CertificateIds :
              [pc |-> "revising", user |-> u, id |-> id] \in Request
         /\ [pc |-> "admitted", user |-> u] \in Request
         /\ \A change \in AccountChange :
              [pc |-> "managing", user |-> u, change |-> change] \in Request
  BY DEF Request, Idle, Entry, Review, Release

\* Moving a request on changes its control point only.
LEMMA Advance ==
  ASSUME NEW q \in Request
  PROVE  /\ q.pc \in {"checked", "read"} =>
              [q EXCEPT !.pc = "read"] = Review("read", q.user, q.step)
         /\ q.pc \in {"accepted", "rendered", "rechecked", "approved"} =>
              \A pc \in {"rendered", "rechecked", "approved"} :
                [q EXCEPT !.pc = pc]
                  = Release(pc, q.user, q.route, q.id, q.variant)
<1>1. CASE q.pc \in {"checked", "read"}
  <2>1. q = Review(q.pc, q.user, q.step)
    BY <1>1, RequestFields
  <2> QED
    BY <1>1, <2>1 DEF Review
<1>2. CASE q.pc \in {"accepted", "rendered", "rechecked", "approved"}
  <2>1. q = Release(q.pc, q.user, q.route, q.id, q.variant)
    BY <1>2, RequestFields
  <2> QED
    BY <1>2, <2>1 DEF Release
<1> QED
  BY <1>1, <1>2

\* Replacing one request by a request keeps their type.
LEMMA BecomeType ==
  ASSUME req \in [Requests -> Request], NEW r \in Requests,
         NEW q \in Request, Become(r, q)
  PROVE  /\ req' \in [Requests -> Request]
         /\ req'[r] = q
         /\ \A p \in Requests : p # r => req'[p] = req[p]
  BY DEF Become

\* Where there is one approval, the evidence is its user.
LEMMA EvidenceIsApprover ==
  ASSUME TypeOK, OneApproval, NEW u \in Users
  PROVE  /\ ApprovalEvidence(u) \in Users
         /\ Approvals # {} =>
              \E i \in Approvals : trail[i].by = ApprovalEvidence(u)
<1>1. CASE Approvals = {}
  BY <1>1 DEF ApprovalEvidence
<1>2. CASE Approvals # {}
  <2> DEFINE latest == CHOOSE i \in Approvals : \A j \in Approvals : j <= i
  <2>1. Approvals \subseteq Nat
    BY DEF Approvals, TypeOK
  <2>2. \E i \in Approvals : \A j \in Approvals : j <= i
    <3>1. PICK i \in Approvals : TRUE
      BY <1>2
    <3>2. \A j \in Approvals : j = i
      BY DEF OneApproval
    <3>3. i <= i
      BY <2>1, <3>1
    <3> QED
      BY <3>1, <3>2, <3>3
  <2>3. latest \in Approvals
    BY <2>2
  <2>4. trail[latest] \in TransitionEvent
    BY <2>3 DEF TypeOK, Approvals
  <2>5. ApprovalEvidence(u) = trail[latest].by
    BY <1>2 DEF ApprovalEvidence
  <2> HIDE DEF latest
  <2> QED
    BY <2>3, <2>4, <2>5 DEF TransitionEvent
<1> QED
  BY <1>1, <1>2

\* What a state update does to the trail and to the approvals.
LEMMA UpdateEffect ==
  ASSUME TypeOK, NEW from \in WorkflowState, NEW to \in WorkflowState,
         NEW u \in Users, UpdateState(from, to, u)
  PROVE  /\ state = from /\ state' = to /\ CanTransition(from, to)
         /\ trail' \in Seq(TransitionEvent)
         /\ Len(trail') = Len(trail) + 1
         /\ \A i \in 1..Len(trail) : trail'[i] = trail[i]
         /\ trail'[Len(trail) + 1] = Transition(from, to, u)
         /\ to # "approved" => Approvals' = Approvals
         /\ to = "approved" => Approvals' = Approvals \cup {Len(trail) + 1}
<1>1. /\ Transition(from, to, u) \in TransitionEvent
      /\ Transition(from, to, u).to = to
  BY DEF Transition, TransitionEvent
<1>2. /\ trail' \in Seq(TransitionEvent)
      /\ Len(trail') = Len(trail) + 1
      /\ \A i \in 1..Len(trail) : trail'[i] = trail[i]
      /\ trail'[Len(trail) + 1] = Transition(from, to, u)
  BY <1>1 DEF TypeOK, UpdateState
<1>3. 1..Len(trail') = (1..Len(trail)) \cup {Len(trail) + 1}
  BY <1>2 DEF TypeOK
<1> QED
  BY <1>1, <1>2, <1>3 DEF UpdateState, Approvals

\* A step leaves state and trail alone or is one of the five transitions of a
\* reviewed job.
LEMMA Moves ==
  ASSUME TypeOK, [Next]_vars
  PROVE  \/ UNCHANGED <<state, trail>>
         \/ \E u \in Users :
              \/ UpdateState("calculated", "technical_review", u)
              \/ UpdateState("technical_review", "qa_review", u)
              \/ UpdateState("qa_review", "approved", u)
              \/ UpdateState("approved", "released", u)
              \/ UpdateState("released", "revised", u)
<1>1. ASSUME NEW r \in Requests, CommitReview(r)
      PROVE  \E u \in Users :
               \/ UpdateState("calculated", "technical_review", u)
               \/ UpdateState("technical_review", "qa_review", u)
               \/ UpdateState("qa_review", "approved", u)
  <2>1. /\ req[r].user \in Users
        /\ req[r].step \in {"submit", "technical", "qa"}
    BY <1>1, RequestFields DEF TypeOK, CommitReview
  <2> QED
    BY <1>1, <2>1 DEF CommitReview, ReviewSteps
<1>2. ASSUME NEW r \in Requests, CommitRelease(r) \/ CommitAllocatedRelease(r)
      PROVE  \E u \in Users : UpdateState("approved", "released", u)
  <2>1. req[r].user \in Users
    BY <1>2, RequestFields DEF TypeOK, CommitRelease, CommitAllocatedRelease
  <2> QED
    BY <1>2, <2>1 DEF CommitRelease, CommitAllocatedRelease
<1>3. ASSUME NEW r \in Requests, CommitRevision(r)
      PROVE  \E u \in Users : UpdateState("released", "revised", u)
  <2>1. req[r].user \in Users
    BY <1>3, RequestFields DEF TypeOK, CommitRevision
  <2> QED
    BY <1>3, <2>1 DEF CommitRevision
<1>4. ASSUME NEW r \in Requests, NEW u \in Users, Arrive(r, u)
      PROVE  UNCHANGED <<state, trail>>
  BY <1>4 DEF Arrive, BeginReview, BeginUpload, BeginPreview, BeginRelease,
              BeginRevision, BeginManaging
<1>5. ASSUME NEW r \in Requests,
             \/ ReadForReview(r) \/ CommitEntry(r) \/ CommitPreview(r)
             \/ RenderForRelease(r) \/ RecheckRelease(r)
             \/ ReadReleaseState(r) \/ ReadReleaseEvidence(r) \/ Fail(r)
             \/ CommitManaging(r)
             \/ \E id \in CertificateIds : ReadForRevision(r, id)
      PROVE  UNCHANGED <<state, trail>>
  BY <1>5 DEF ReadForReview, CommitEntry, CommitPreview, RenderForRelease,
              RecheckRelease, ReadReleaseState, ReadReleaseEvidence, Fail,
              CommitManaging, ReadForRevision
<1>6. CASE UNCHANGED vars
  BY <1>6 DEF vars
<1> QED
  BY <1>1, <1>2, <1>3, <1>4, <1>5, <1>6 DEF Next, Proceed

\* The five transitions keep the approval unique.
LEMMA OneApprovalStep ==
  ASSUME TypeOK, OneApproval, [Next]_vars
  PROVE  OneApproval'
<1> USE DEF OneApproval
<1>1. CASE UNCHANGED <<state, trail>>
  BY <1>1 DEF Approvals
<1>2. ASSUME NEW u \in Users, UpdateState("qa_review", "approved", u)
      PROVE  OneApproval'
  <2>1. state = "qa_review" /\ state' = "approved"
    BY <1>2 DEF UpdateState
  <2>2. Approvals = {}
    BY <2>1
  <2>3. Approvals' = {Len(trail) + 1}
    BY <1>2, <2>2, UpdateEffect DEF WorkflowState
  <2> QED
    BY <2>1, <2>3
<1>3. ASSUME NEW u \in Users,
             \/ UpdateState("calculated", "technical_review", u)
             \/ UpdateState("technical_review", "qa_review", u)
      PROVE  OneApproval'
  <2>1. /\ state \in {"calculated", "technical_review"}
        /\ state' \in {"technical_review", "qa_review"}
    BY <1>3 DEF UpdateState
  <2>2. Approvals' = Approvals
    BY <1>3, UpdateEffect DEF WorkflowState
  <2> QED
    BY <2>1, <2>2
<1>4. ASSUME NEW u \in Users,
             \/ UpdateState("approved", "released", u)
             \/ UpdateState("released", "revised", u)
      PROVE  OneApproval'
  <2>1. /\ state \in {"approved", "released"}
        /\ state' \in {"released", "revised"}
    BY <1>4 DEF UpdateState
  <2>2. Approvals' = Approvals
    BY <1>4, UpdateEffect DEF WorkflowState
  <2> QED
    BY <2>1, <2>2
<1> QED
  BY <1>1, <1>2, <1>3, <1>4, Moves

\* Requests stay requests.
LEMMA RequestTypeStep ==
  ASSUME TypeOK, OneApproval, [Next]_vars
  PROVE  req' \in [Requests -> Request]
<1> USE DEF TypeOK
<1>1. ASSUME NEW r \in Requests, NEW u \in Users, Arrive(r, u)
      PROVE  req' \in [Requests -> Request]
  <2>1. ASSUME NEW step \in DOMAIN ReviewSteps, BeginReview(r, u, step)
        PROVE  req' \in [Requests -> Request]
    BY <2>1, RequestRecords, BecomeType DEF BeginReview
  <2>2. CASE BeginUpload(r, u)
    BY <2>2, RequestRecords, BecomeType DEF BeginUpload
  <2>3. ASSUME NEW v \in Variants, BeginPreview(r, u, v)
        PROVE  req' \in [Requests -> Request]
    BY <2>3, RequestRecords, BecomeType DEF BeginPreview
  <2>4. ASSUME NEW route \in Routes, NEW id \in CertificateIds,
               NEW v \in Variants, BeginRelease(r, u, route, id, v)
        PROVE  req' \in [Requests -> Request]
    BY <2>4, RequestRecords, BecomeType DEF BeginRelease
  <2>5. CASE BeginRevision(r, u)
    BY <2>5, RequestRecords, BecomeType DEF BeginRevision
  <2>6. ASSUME NEW change \in AccountChanges, BeginManaging(r, u, change)
        PROVE  req' \in [Requests -> Request]
    <3>1. change \in AccountChange
      BY AccountsAssumption
    <3> QED
      BY <2>6, <3>1, RequestRecords, BecomeType DEF BeginManaging
  <2> QED
    BY <1>1, <2>1, <2>2, <2>3, <2>4, <2>5, <2>6 DEF Arrive
<1>2. ASSUME NEW r \in Requests, ReadForReview(r)
      PROVE  req' \in [Requests -> Request]
  <2>1. req[r].user \in Users /\ req[r].step \in DOMAIN ReviewSteps
    BY <1>2, RequestFields DEF ReadForReview, ReviewSteps
  <2>2. [req[r] EXCEPT !.pc = "read"] = Review("read", req[r].user, req[r].step)
    BY <1>2, Advance DEF ReadForReview
  <2>3. Review("read", req[r].user, req[r].step) \in Request
    BY <2>1, RequestRecords
  <2> QED
    BY <1>2, <2>2, <2>3, BecomeType DEF ReadForReview
<1>3. ASSUME NEW r \in Requests, NEW pc \in {"rendered", "rechecked", "approved"},
             req[r].pc \in {"accepted", "rendered", "rechecked", "approved"},
             Become(r, [req[r] EXCEPT !.pc = pc])
      PROVE  req' \in [Requests -> Request]
  <2>1. /\ req[r].user \in Users /\ req[r].route \in Routes
        /\ req[r].id \in CertificateIds /\ req[r].variant \in Variants
    BY <1>3, RequestFields
  <2>2. [req[r] EXCEPT !.pc = pc]
          = Release(pc, req[r].user, req[r].route, req[r].id, req[r].variant)
    BY <1>3, Advance
  <2>3. pc \in {"accepted", "rendered", "rechecked", "approved"}
    OBVIOUS
  <2>4. Release(pc, req[r].user, req[r].route, req[r].id, req[r].variant)
          \in Request
    BY <2>1, <2>3, RequestRecords
  <2>5. [req[r] EXCEPT !.pc = pc] \in Request
    BY <2>2, <2>4
  <2> QED
    BY <1>3, <2>5, BecomeType
<1>4. ASSUME NEW r \in Requests, ReadReleaseEvidence(r)
      PROVE  req' \in [Requests -> Request]
  <2>1. /\ req[r].user \in Users /\ req[r].route \in Routes
        /\ req[r].id \in CertificateIds /\ req[r].variant \in Variants
    BY <1>4, RequestFields DEF ReadReleaseEvidence
  <2>2. ApprovalEvidence(req[r].user) \in Users
    BY <2>1, EvidenceIsApprover
  <2>3. Evidenced(req[r], ApprovalEvidence(req[r].user)) \in Request
    BY <2>1, <2>2 DEF Evidenced, Request
  <2> QED
    BY <1>4, <2>3, BecomeType DEF ReadReleaseEvidence
<1>5. ASSUME NEW r \in Requests, Become(r, Idle)
      PROVE  req' \in [Requests -> Request]
  BY <1>5, BecomeType DEF Request, Idle
<1>6. ASSUME NEW r \in Requests, Proceed(r)
      PROVE  req' \in [Requests -> Request]
  <2>1. CASE RenderForRelease(r)
    BY <2>1, <1>3 DEF RenderForRelease
  <2>2. CASE RecheckRelease(r)
    BY <2>2, <1>3 DEF RecheckRelease
  <2>3. CASE ReadReleaseState(r)
    BY <2>3, <1>3 DEF ReadReleaseState
  <2>4. CASE \/ CommitReview(r) \/ CommitEntry(r) \/ CommitPreview(r)
             \/ CommitRelease(r) \/ CommitAllocatedRelease(r)
             \/ CommitRevision(r) \/ CommitManaging(r) \/ Fail(r)
    BY <2>4, <1>5 DEF CommitReview, CommitEntry, CommitPreview, CommitRelease,
                      CommitAllocatedRelease, CommitRevision, Fail,
                      CommitManaging
  <2>5. ASSUME NEW id \in CertificateIds, ReadForRevision(r, id)
        PROVE  req' \in [Requests -> Request]
    <3>1. req[r].user \in Users
      BY <2>5, RequestFields DEF ReadForRevision
    <3> QED
      BY <2>5, <3>1, RequestRecords, BecomeType DEF ReadForRevision
  <2> QED
    BY <1>2, <1>4, <1>6, <2>1, <2>2, <2>3, <2>4, <2>5 DEF Proceed
<1>7. CASE UNCHANGED vars
  BY <1>7 DEF vars
<1> QED
  BY <1>1, <1>6, <1>7 DEF Next

\* The tables that only a commit touches keep their types.
LEMMA TableTypeStep ==
  ASSUME TypeOK, OneApproval, [Next]_vars
  PROVE  /\ prepared' \in SUBSET Users
         /\ windowed' \in SUBSET Users
         /\ previews' \in SUBSET Variants
         /\ certificates' \in SUBSET CertificateRecord
         /\ revisions' \in SUBSET [of : CertificateIds, by : Users]
<1> USE DEF TypeOK
<1> DEFINE Goal == /\ prepared' \in SUBSET Users
                   /\ windowed' \in SUBSET Users
                   /\ previews' \in SUBSET Variants
                   /\ certificates' \in SUBSET CertificateRecord
                   /\ revisions' \in SUBSET [of : CertificateIds, by : Users]
<1>1. ASSUME NEW r \in Requests, NEW u \in Users, Arrive(r, u)
      PROVE  Goal
  BY <1>1 DEF Arrive, BeginReview, BeginUpload, BeginPreview, BeginRelease,
              BeginRevision, BeginManaging
<1>2. ASSUME NEW r \in Requests,
             \/ ReadForReview(r) \/ CommitReview(r) \/ RenderForRelease(r)
             \/ RecheckRelease(r) \/ ReadReleaseState(r)
             \/ ReadReleaseEvidence(r) \/ Fail(r) \/ CommitManaging(r)
             \/ \E id \in CertificateIds : ReadForRevision(r, id)
      PROVE  Goal
  BY <1>2 DEF ReadForReview, CommitReview, RenderForRelease, RecheckRelease,
              ReadReleaseState, ReadReleaseEvidence, Fail,
              CommitManaging, ReadForRevision
<1>3. ASSUME NEW r \in Requests, CommitEntry(r) PROVE Goal
  <2>1. req[r].user \in Users
    BY <1>3, RequestFields DEF CommitEntry
  <2> QED
    BY <1>3, <2>1 DEF CommitEntry
<1>4. ASSUME NEW r \in Requests, CommitPreview(r) PROVE Goal
  <2>1. req[r].variant \in Variants
    BY <1>4, RequestFields DEF CommitPreview
  <2> QED
    BY <1>4, <2>1 DEF CommitPreview
<1>5. ASSUME NEW r \in Requests, NEW approver \in Users,
             req[r].pc \in {"rendered", "evidenced"},
             InsertCertificate(req[r], approver),
             UNCHANGED <<prepared, windowed, previews, revisions>>
      PROVE  Goal
  <2>1. /\ req[r].user \in Users /\ req[r].route \in Routes
        /\ req[r].id \in CertificateIds /\ req[r].variant \in Variants
    BY <1>5, RequestFields
  <2> QED
    BY <1>5, <2>1 DEF InsertCertificate, CertificateRecord
<1>6. ASSUME NEW r \in Requests, CommitRelease(r) PROVE Goal
  <2>1. req[r].approver \in Users
    BY <1>6, RequestFields DEF CommitRelease
  <2> QED
    BY <1>5, <1>6, <2>1 DEF CommitRelease
<1>7. ASSUME NEW r \in Requests, CommitAllocatedRelease(r) PROVE Goal
  <2>1. ApprovalEvidence(req[r].user) \in Users
    BY <1>7, RequestFields, EvidenceIsApprover DEF CommitAllocatedRelease
  <2> QED
    BY <1>5, <1>7, <2>1 DEF CommitAllocatedRelease
<1>8. ASSUME NEW r \in Requests, CommitRevision(r) PROVE Goal
  <2>1. req[r].user \in Users /\ req[r].id \in CertificateIds
    BY <1>8, RequestFields DEF CommitRevision
  <2> QED
    BY <1>8, <2>1 DEF CommitRevision
<1>9. CASE UNCHANGED vars
  BY <1>9 DEF vars
<1> QED
  BY <1>1, <1>2, <1>3, <1>4, <1>6, <1>7, <1>8, <1>9 DEF Next, Proceed

\* A change of an account is made by an administrator's request.
LEMMA AccountsKept ==
  ASSUME [Next]_vars
  PROVE  accounts' = accounts \/ \E r \in Requests : CommitManaging(r)
<1>1. ASSUME NEW r \in Requests, NEW u \in Users, Arrive(r, u)
      PROVE  accounts' = accounts
  BY <1>1 DEF Arrive, BeginReview, BeginUpload, BeginPreview, BeginRelease,
              BeginRevision, BeginManaging
<1>2. ASSUME NEW r \in Requests, Proceed(r), ~ CommitManaging(r)
      PROVE  accounts' = accounts
  BY <1>2 DEF Proceed, ReadForReview, CommitReview, CommitEntry, CommitPreview,
              RenderForRelease, RecheckRelease, ReadReleaseState,
              ReadReleaseEvidence, CommitRelease, CommitAllocatedRelease,
              ReadForRevision, CommitRevision, Fail
<1>3. CASE UNCHANGED vars
  BY <1>3 DEF vars
<1> QED
  BY <1>1, <1>2, <1>3 DEF Next

\* What a change writes is an account.
LEMMA AccountsTypeStep ==
  ASSUME TypeOK, [Next]_vars
  PROVE  accounts' \in [Users -> [roles : SUBSET Role, active : BOOLEAN]]
<1>1. ASSUME NEW r \in Requests, CommitManaging(r)
      PROVE  accounts' \in [Users -> [roles : SUBSET Role, active : BOOLEAN]]
  <2> DEFINE change == req[r].change
             account == ChangedAccount(change)
  <2>1. change \in AccountChange
    BY <1>1, RequestFields DEF CommitManaging, TypeOK
  <2>2. account \in [roles : SUBSET Role, active : BOOLEAN]
    <3> HIDE DEF change
    <3>1. /\ change.target \in Users
          /\ accounts[change.target] \in [roles : SUBSET Role, active : BOOLEAN]
      BY <2>1 DEF AccountChange, TypeOK
    <3>2. CASE change.name = "create_user"
      <4>1. change.roles \in SUBSET Role
        BY <2>1, <3>2 DEF AccountChange
      <4>2. account = [roles |-> change.roles, active |-> TRUE]
        BY <3>2, Zenon DEF ChangedAccount
      <4> QED
        BY <4>1, <4>2
    <3>3. CASE change.name = "change_roles"
      <4>1. change.roles \in SUBSET Role
        BY <2>1, <3>3 DEF AccountChange
      <4>2. account = [accounts[change.target] EXCEPT !.roles = change.roles]
        BY <3>3, Zenon DEF ChangedAccount
      <4> QED
        BY <3>1, <4>1, <4>2
    <3>4. CASE change.name = "deactivate"
      <4>1. account = [accounts[change.target] EXCEPT !.active = FALSE]
        BY <3>4, Zenon DEF ChangedAccount
      <4> QED
        BY <3>1, <4>1
    <3> QED
      BY <2>1, <3>2, <3>3, <3>4 DEF AccountChange
  <2>3. accounts' = [accounts EXCEPT ![change.target] = account]
    BY <1>1 DEF CommitManaging
  <2> HIDE DEF account
  <2> QED
    BY <2>2, <2>3 DEF TypeOK
<1> QED
  BY <1>1, AccountsKept DEF TypeOK

\* Only requests are marked as overlapped.
LEMMA OverlapTypeStep ==
  ASSUME TypeOK, [Next]_vars
  PROVE  overlapped' \in SUBSET Requests
<1>1. ASSUME NEW r \in Requests, NEW u \in Users, NoteArrival(r, u)
      PROVE  overlapped' \in SUBSET Requests
  BY <1>1 DEF NoteArrival, InFlight, TypeOK
<1>2. ASSUME NEW r \in Requests, NoteProgress(r)
      PROVE  overlapped' \in SUBSET Requests
  BY <1>2 DEF NoteProgress, TypeOK
<1> QED
  BY <1>1, <1>2 DEF Next, vars, TypeOK

\* Every variable keeps its type, and the job is approved once.
THEOREM TypeCorrect == Spec => [](TypeOK /\ OneApproval)
<1>1. Init => TypeOK /\ OneApproval
  <2> SUFFICES ASSUME Init PROVE TypeOK /\ OneApproval
    OBVIOUS
  <2>1. req \in [Requests -> Request]
    BY DEF Init, Idle, Entry, Request
  <2>2. Approvals = {}
    BY DEF Init, Approvals
  <2>3. accounts \in [Users -> [roles : SUBSET Role, active : BOOLEAN]]
    BY AccountsAssumption DEF Init
  <2> QED
    BY <2>1, <2>2, <2>3 DEF Init, TypeOK, OneApproval, WorkflowState
<1>2. TypeOK /\ OneApproval /\ [Next]_vars => (TypeOK /\ OneApproval)'
  <2> SUFFICES ASSUME TypeOK, OneApproval, [Next]_vars
               PROVE  TypeOK' /\ OneApproval'
    OBVIOUS
  <2>1. state' \in WorkflowState /\ trail' \in Seq(TransitionEvent)
    BY Moves, UpdateEffect DEF TypeOK, WorkflowState
  <2> QED
    BY <2>1, OneApprovalStep, RequestTypeStep, TableTypeStep, OverlapTypeStep,
       AccountsTypeStep
       DEF TypeOK
<1> QED
  BY <1>1, <1>2, PTL DEF Spec

(***************************************************************************)
(* The certificate and its evidence                                        *)
(***************************************************************************)

\* What only grows: the trail, the approvals, the previews, the certificates.
LEMMA Growth ==
  ASSUME TypeOK, OneApproval, [Next]_vars
  PROVE  /\ Len(trail) <= Len(trail')
         /\ \A i \in 1..Len(trail) : i \in 1..Len(trail') /\ trail'[i] = trail[i]
         /\ Approvals \subseteq Approvals'
         /\ previews \subseteq previews'
         /\ certificates \subseteq certificates'
         /\ prepared \subseteq prepared'
<1>1. /\ Len(trail) <= Len(trail')
      /\ \A i \in 1..Len(trail) : i \in 1..Len(trail') /\ trail'[i] = trail[i]
  <2>1. CASE UNCHANGED <<state, trail>>
    BY <2>1 DEF TypeOK
  <2>2. ASSUME NEW from \in WorkflowState, NEW to \in WorkflowState,
               NEW u \in Users, UpdateState(from, to, u)
        PROVE  /\ Len(trail) <= Len(trail')
               /\ \A i \in 1..Len(trail) :
                    i \in 1..Len(trail') /\ trail'[i] = trail[i]
    BY <2>2, UpdateEffect DEF TypeOK
  <2> QED
    BY <2>1, <2>2, Moves DEF WorkflowState
<1>2. Approvals \subseteq Approvals'
  BY <1>1 DEF Approvals
<1>3. /\ previews \subseteq previews'
      /\ certificates \subseteq certificates'
      /\ prepared \subseteq prepared'
  <2>1. ASSUME NEW r \in Requests, NEW u \in Users, Arrive(r, u)
        PROVE  UNCHANGED <<previews, certificates, prepared>>
    BY <2>1 DEF Arrive, BeginReview, BeginUpload, BeginPreview, BeginRelease,
                BeginRevision, BeginManaging
  <2>2. ASSUME NEW r \in Requests, Proceed(r)
        PROVE  /\ previews \subseteq previews'
               /\ certificates \subseteq certificates'
               /\ prepared \subseteq prepared'
    BY <2>2 DEF Proceed, ReadForReview, CommitReview, RenderForRelease,
                RecheckRelease, ReadReleaseState, ReadReleaseEvidence, Fail,
                CommitManaging, ReadForRevision,
                CommitEntry, CommitPreview, CommitRelease, CommitRevision,
                CommitAllocatedRelease, InsertCertificate
  <2>3. CASE UNCHANGED vars
    BY <2>3 DEF vars
  <2> QED
    BY <2>1, <2>2, <2>3 DEF Next
<1> QED
  BY <1>1, <1>2, <1>3

\* A step changes one request at most.  That request is then idle, or has the
\* record that the action gave it.
LEMMA EvidencedStep ==
  ASSUME TypeOK, OneApproval, RequestsEvidenced, [Next]_vars
  PROVE  RequestsEvidenced'
<1> DEFINE Backed(q) ==
      /\ q.pc = "approved" => Approvals # {}
      /\ q.pc = "evidenced" => /\ \E i \in Approvals : trail[i].by = q.approver
                               /\ q.variant \in previews
      /\ q.pc = "revising" => \E c \in certificates : c.id = q.id
<1>1. ASSUME NEW q \in Request, Backed(q) PROVE Backed(q)'
  BY <1>1, Growth DEF Approvals
<1>2. ASSUME NEW r \in Requests, NEW q, Become(r, q), Backed(q)'
      PROVE  RequestsEvidenced'
  <2>1. \A p \in Requests : p # r => req'[p] = req[p]
    BY <1>2 DEF Become, TypeOK
  <2>2. req'[r] = q
    BY <1>2 DEF Become, TypeOK
  <2>3. \A p \in Requests : p # r => Backed(req[p])'
    BY <1>1, <2>1 DEF RequestsEvidenced, TypeOK
  <2> QED
    BY <1>2, <2>1, <2>2, <2>3 DEF RequestsEvidenced
<1>3. ASSUME NEW r \in Requests, Become(r, Idle) PROVE RequestsEvidenced'
  <2>1. Backed(Idle)'
    BY DEF Idle
  <2> QED
    BY <1>2, <1>3, <2>1
<1>4. ASSUME NEW r \in Requests, NEW q, Become(r, q),
             q.pc \notin {"approved", "evidenced", "revising"}
      PROVE  RequestsEvidenced'
  BY <1>2, <1>4
<1>5. ASSUME NEW r \in Requests, NEW u \in Users, Arrive(r, u)
      PROVE  RequestsEvidenced'
  <2>1. CASE BeginRevision(r, u)
    BY <1>4, <2>1 DEF BeginRevision
  <2>2. ASSUME NEW step \in DOMAIN ReviewSteps, BeginReview(r, u, step)
        PROVE  RequestsEvidenced'
    BY <1>4, <2>2 DEF BeginReview, Review
  <2>3. CASE BeginUpload(r, u)
    BY <1>4, <2>3 DEF BeginUpload, Entry
  <2>4. ASSUME NEW v \in Variants, BeginPreview(r, u, v)
        PROVE  RequestsEvidenced'
    BY <1>4, <2>4 DEF BeginPreview
  <2>5. ASSUME NEW route \in Routes, NEW id \in CertificateIds,
               NEW v \in Variants, BeginRelease(r, u, route, id, v)
        PROVE  RequestsEvidenced'
    BY <1>4, <2>5 DEF BeginRelease, Release
  <2>6. ASSUME NEW change \in AccountChanges, BeginManaging(r, u, change)
        PROVE  RequestsEvidenced'
    BY <1>4, <2>6 DEF BeginManaging
  <2> QED
    BY <1>5, <2>1, <2>2, <2>3, <2>4, <2>5, <2>6 DEF Arrive
<1>6. ASSUME NEW r \in Requests, NEW pc,
             req[r].pc \in {"checked", "accepted", "rendered", "rechecked"},
             Become(r, [req[r] EXCEPT !.pc = pc]),
             pc \notin {"approved", "evidenced", "revising"}
      PROVE  RequestsEvidenced'
  <2>1. [req[r] EXCEPT !.pc = pc].pc = pc
    BY <1>6 DEF TypeOK, Request
  <2> QED
    BY <1>4, <1>6, <2>1
<1>7. ASSUME NEW r \in Requests, ReadReleaseState(r) PROVE RequestsEvidenced'
  <2>1. Approvals # {} /\ Approvals' = Approvals
    BY <1>7 DEF ReadReleaseState, OneApproval, Approvals
  <2>2. [req[r] EXCEPT !.pc = "approved"].pc = "approved"
    BY <1>7 DEF ReadReleaseState, TypeOK, Request
  <2>3. Become(r, [req[r] EXCEPT !.pc = "approved"])
    BY <1>7 DEF ReadReleaseState
  <2> QED
    BY <1>2, <2>1, <2>2, <2>3
<1>8. ASSUME NEW r \in Requests, ReadReleaseEvidence(r)
      PROVE  RequestsEvidenced'
  <2> DEFINE q == Evidenced(req[r], ApprovalEvidence(req[r].user))
  <2>1. /\ req[r].user \in Users
        /\ Approvals # {}
        /\ req[r].variant \in previews
        /\ UNCHANGED <<trail, previews>>
    BY <1>8, RequestFields DEF ReadReleaseEvidence, RequestsEvidenced, TypeOK
  <2>2. PICK i \in Approvals : trail[i].by = ApprovalEvidence(req[r].user)
    BY <2>1, EvidenceIsApprover
  <2>3. /\ q.pc = "evidenced"
        /\ q.approver = ApprovalEvidence(req[r].user)
        /\ q.variant = req[r].variant
    BY DEF Evidenced
  <2>4. Become(r, q)
    BY <1>8 DEF ReadReleaseEvidence
  <2>5. i \in Approvals' /\ trail'[i] = trail[i] /\ previews' = previews
    BY <2>1 DEF Approvals
  <2> HIDE DEF q
  <2> QED
    BY <1>2, <2>1, <2>2, <2>3, <2>4, <2>5
<1>9. ASSUME NEW r \in Requests, Proceed(r) PROVE RequestsEvidenced'
  <2>1. CASE ReadForReview(r)
    BY <1>6, <2>1 DEF ReadForReview
  <2>2. CASE RenderForRelease(r)
    BY <1>6, <2>2 DEF RenderForRelease
  <2>3. CASE RecheckRelease(r)
    BY <1>6, <2>3 DEF RecheckRelease
  <2>4. CASE \/ CommitReview(r) \/ CommitEntry(r) \/ CommitPreview(r)
             \/ CommitRelease(r) \/ CommitAllocatedRelease(r)
             \/ CommitRevision(r) \/ CommitManaging(r) \/ Fail(r)
    BY <1>3, <2>4 DEF CommitReview, CommitEntry, CommitPreview, CommitRelease,
                      CommitAllocatedRelease, CommitRevision, Fail,
                      CommitManaging
  <2>5. ASSUME NEW id \in CertificateIds, ReadForRevision(r, id)
        PROVE  RequestsEvidenced'
    <3> DEFINE q == [pc |-> "revising", user |-> req[r].user, id |-> id]
    <3>1. /\ \E c \in certificates' : c.id = q.id
          /\ q.pc = "revising"
      BY <2>5 DEF ReadForRevision
    <3>2. Become(r, q)
      BY <2>5 DEF ReadForRevision
    <3> QED
      BY <1>2, <3>1, <3>2
  <2> QED
    BY <1>7, <1>8, <1>9, <2>1, <2>2, <2>3, <2>4, <2>5 DEF Proceed
<1>10. CASE UNCHANGED vars
  BY <1>10 DEF vars, RequestsEvidenced, Approvals
<1> QED
  BY <1>5, <1>9, <1>10 DEF Next

\* What a request has read about the release stays true until it commits.
THEOREM EvidenceStands == Spec => []RequestsEvidenced
<1>1. Init => RequestsEvidenced
  BY DEF Init, RequestsEvidenced, Idle, Entry
<1>2. TypeOK /\ OneApproval /\ RequestsEvidenced /\ [Next]_vars
        => RequestsEvidenced'
  BY EvidencedStep
<1> QED
  BY <1>1, <1>2, TypeCorrect, PTL DEF Spec

\* A released job has exactly one certificate, a revised one one revision.
THEOREM OneCertificateEach == Spec => []OneCertificate
<1>1. Init => OneCertificate
  BY DEF Init, OneCertificate
<1>2. TypeOK /\ OneApproval /\ RequestsEvidenced /\ OneCertificate /\ [Next]_vars
        => OneCertificate'
  <2> SUFFICES ASSUME TypeOK, OneApproval, RequestsEvidenced, OneCertificate,
                      [Next]_vars
               PROVE  OneCertificate'
    OBVIOUS
  <2>2. ASSUME NEW q, NEW approver, NEW u, InsertCertificate(q, approver),
               UpdateState("approved", "released", u), UNCHANGED revisions
        PROVE  OneCertificate'
    BY <2>2 DEF OneCertificate, UpdateState, InsertCertificate
  <2>3. ASSUME NEW r \in Requests, CommitRevision(r)
        PROVE  OneCertificate'
    <3>1. \E c \in certificates : c.id = req[r].id
      BY <2>3 DEF CommitRevision, RequestsEvidenced
    <3>2. /\ state = "released" /\ state' = "revised"
          /\ certificates' = certificates
          /\ revisions' = {[of |-> req[r].id, by |-> req[r].user]}
      BY <2>3 DEF CommitRevision, OneCertificate, UpdateState
    <3>3. /\ \A v, w \in revisions' : v = w
          /\ revisions' # {}
          /\ \A v \in revisions' : v.of = req[r].id
      BY <3>2
    <3> QED
      BY <3>1, <3>2, <3>3 DEF OneCertificate
  <2>4. ASSUME NEW r \in Requests,
               CommitRelease(r) \/ CommitAllocatedRelease(r)
        PROVE  OneCertificate'
    BY <2>2, <2>4 DEF CommitRelease, CommitAllocatedRelease
  <2>5. ASSUME NEW r \in Requests, CommitReview(r)
        PROVE  OneCertificate'
    <3>1. req[r].step \in {"submit", "technical", "qa"}
      BY <2>5, RequestFields DEF TypeOK, CommitReview
    <3>2. state' \in {"technical_review", "qa_review", "approved"}
      BY <2>5, <3>1 DEF CommitReview, UpdateState, ReviewSteps
    <3>3. state \in {"calculated", "technical_review", "qa_review"}
      BY <2>5, <3>1 DEF CommitReview, UpdateState, ReviewSteps
    <3> QED
      BY <2>5, <3>2, <3>3 DEF CommitReview, OneCertificate
  <2>6. ASSUME UNCHANGED <<state, certificates, revisions>>
        PROVE  OneCertificate'
    BY <2>6 DEF OneCertificate
  <2>7. ASSUME NEW r \in Requests, NEW u \in Users, Arrive(r, u)
        PROVE  UNCHANGED <<state, certificates, revisions>>
    BY <2>7 DEF Arrive, BeginReview, BeginUpload, BeginPreview, BeginRelease,
                BeginRevision, BeginManaging
  <2>8. ASSUME NEW r \in Requests,
               \/ ReadForReview(r) \/ CommitEntry(r) \/ CommitPreview(r)
               \/ RenderForRelease(r) \/ RecheckRelease(r)
               \/ ReadReleaseState(r) \/ ReadReleaseEvidence(r) \/ Fail(r)
               \/ CommitManaging(r)
               \/ \E id \in CertificateIds : ReadForRevision(r, id)
        PROVE  UNCHANGED <<state, certificates, revisions>>
    BY <2>8 DEF ReadForReview, CommitEntry, CommitPreview, RenderForRelease,
                RecheckRelease, ReadReleaseState, ReadReleaseEvidence, Fail,
                CommitManaging, ReadForRevision
  <2>9. CASE UNCHANGED vars
    BY <2>6, <2>9 DEF vars
  <2> QED
    BY <2>3, <2>4, <2>5, <2>6, <2>7, <2>8, <2>9 DEF Next, Proceed
<1> QED
  BY <1>1, <1>2, TypeCorrect, EvidenceStands, PTL DEF Spec

\* The certificate quotes the real approver, the real releaser and a variant
\* that was previewed.
THEOREM EvidenceIsTrue == Spec => []CertificateEvidence
<1> DEFINE Quoted(c) == /\ MadeTransition(c.approvedBy, "approved")
                        /\ MadeTransition(c.releasedBy, "released")
                        /\ c.variant \in previews
<1>1. Init => CertificateEvidence
  BY DEF Init, CertificateEvidence
<1>2. TypeOK /\ OneApproval /\ RequestsEvidenced /\ CertificateEvidence
        /\ [Next]_vars => CertificateEvidence'
  <2> SUFFICES ASSUME TypeOK, OneApproval, RequestsEvidenced,
                      CertificateEvidence, [Next]_vars
               PROVE  CertificateEvidence'
    OBVIOUS
  <2>1. ASSUME NEW c \in certificates PROVE Quoted(c)'
    <3>1. Quoted(c)
      BY <2>1 DEF CertificateEvidence
    <3> QED
      BY <3>1, Growth DEF MadeTransition
  <2>2. ASSUME NEW r \in Requests, NEW approver \in Users, NEW u \in Users,
               req[r].user = u,
               InsertCertificate(req[r], approver),
               UpdateState("approved", "released", u),
               \E i \in Approvals : trail[i].by = approver,
               req[r].variant \in previews
        PROVE  CertificateEvidence'
    <3> DEFINE new == [ id |-> req[r].id, variant |-> req[r].variant,
                        route |-> req[r].route, approvedBy |-> approver,
                        releasedBy |-> req[r].user ]
    <3>1. certificates' = certificates \cup {new}
      BY <2>2 DEF InsertCertificate
    <3>2. MadeTransition(u, "released")'
      <4>1. /\ Len(trail') = Len(trail) + 1
            /\ trail'[Len(trail) + 1] = Transition("approved", "released", u)
        BY <2>2, UpdateEffect DEF WorkflowState
      <4> QED
        BY <4>1 DEF MadeTransition, Transition, TypeOK
    <3>3. MadeTransition(approver, "approved")'
      BY <2>2, Growth DEF MadeTransition, Approvals
    <3>4. \A v \in previews : v \in previews'
      BY Growth
    <3>5. /\ new.approvedBy = approver
          /\ new.releasedBy = u
          /\ new.variant = req[r].variant
      BY <2>2
    <3> HIDE DEF new
    <3>6. \A c \in certificates' : c \in certificates \/ c = new
      BY <3>1
    <3> QED
      BY <2>1, <2>2, <3>2, <3>3, <3>4, <3>5, <3>6 DEF CertificateEvidence
  <2>3. ASSUME NEW r \in Requests, CommitRelease(r)
        PROVE  CertificateEvidence'
    BY <2>2, <2>3, RequestFields DEF CommitRelease, RequestsEvidenced, TypeOK
  <2>4. ASSUME NEW r \in Requests, CommitAllocatedRelease(r)
        PROVE  CertificateEvidence'
    <3>1. /\ req[r].user \in Users
          /\ Approvals # {}
      BY <2>4, RequestFields
         DEF CommitAllocatedRelease, UpdateState, OneApproval, TypeOK
    <3>2. /\ ApprovalEvidence(req[r].user) \in Users
          /\ \E i \in Approvals : trail[i].by = ApprovalEvidence(req[r].user)
      BY <3>1, EvidenceIsApprover
    <3> QED
      BY <2>2, <2>4, <3>1, <3>2 DEF CommitAllocatedRelease
  <2>5. ASSUME UNCHANGED certificates PROVE CertificateEvidence'
    BY <2>1, <2>5 DEF CertificateEvidence
  <2>6. ASSUME NEW r \in Requests, NEW u \in Users, Arrive(r, u)
        PROVE  UNCHANGED certificates
    BY <2>6 DEF Arrive, BeginReview, BeginUpload, BeginPreview, BeginRelease,
                BeginRevision, BeginManaging
  <2>7. ASSUME NEW r \in Requests,
               \/ ReadForReview(r) \/ CommitReview(r) \/ CommitEntry(r)
               \/ CommitPreview(r) \/ RenderForRelease(r) \/ RecheckRelease(r)
               \/ ReadReleaseState(r) \/ ReadReleaseEvidence(r)
               \/ CommitRevision(r) \/ Fail(r) \/ CommitManaging(r)
               \/ \E id \in CertificateIds : ReadForRevision(r, id)
        PROVE  UNCHANGED certificates
    BY <2>7 DEF ReadForReview, CommitReview, CommitEntry, CommitPreview,
                RenderForRelease, RecheckRelease, ReadReleaseState,
                ReadReleaseEvidence, CommitRevision, Fail,
                CommitManaging, ReadForRevision
  <2>8. CASE UNCHANGED vars
    BY <2>5, <2>8 DEF vars
  <2> QED
    BY <2>3, <2>4, <2>5, <2>6, <2>7, <2>8 DEF Next, Proceed
<1> QED
  BY <1>1, <1>2, TypeCorrect, EvidenceStands, PTL DEF Spec

(***************************************************************************)
(* The abstract life of a job is implemented                               *)
(***************************************************************************)

\* Every step of the reviewed job is a step of its abstract life or a stutter.
THEOREM ImplementsLifecycle == Spec => LifecycleSpec
<1>1. Init => Lifecycle!Init
  BY DEF Init, Lifecycle!Init
<1>2. TypeOK /\ [Next]_vars => [Lifecycle!Next]_(Lifecycle!vars)
  <2> SUFFICES ASSUME TypeOK, [Next]_vars
               PROVE  [Lifecycle!Next]_(Lifecycle!vars)
    OBVIOUS
  <2>1. CASE UNCHANGED <<state, trail>>
    BY <2>1 DEF Lifecycle!vars
  <2>2. ASSUME NEW from \in WorkflowState, NEW to \in WorkflowState,
               NEW u \in Users, UpdateState(from, to, u)
        PROVE  Lifecycle!Next
    <3>1. Lifecycle!Move(u, to)
      BY <2>2 DEF UpdateState, Lifecycle!Move, Lifecycle!CanTransition,
         Lifecycle!AllowedTransitions, CanTransition, AllowedTransitions,
         Lifecycle!Transition, Transition
    <3>2. to \in Lifecycle!WorkflowState
      BY DEF WorkflowState, Lifecycle!WorkflowState
    <3> QED
      BY <3>1, <3>2 DEF Lifecycle!Next
  <2> QED
    BY <2>1, <2>2, Moves DEF WorkflowState
<1> QED
  BY <1>1, <1>2, TypeCorrect, PTL DEF Spec, LifecycleSpec, Lifecycle!Spec

(***************************************************************************)
(* Reviewer independence                                                   *)
(***************************************************************************)

ReviewedStages == {"technical_review", "qa_review", "approved"}

\* The entries of the trail are the stages the job has passed.
StagesPassed ==
  /\ state = "calculated" => Len(trail) = 0
  /\ state = "technical_review" =>
       \A i \in 1..Len(trail) : trail[i].to = "technical_review"
  /\ state = "qa_review" =>
       \A i \in 1..Len(trail) : trail[i].to \in {"technical_review", "qa_review"}
  /\ state = "approved" =>
       \A i \in 1..Len(trail) : trail[i].to \in ReviewedStages

\* The trail holds exactly the stages that the independence check looks for.
LEMMA StagesPassedInvariant == Spec => []StagesPassed
<1>1. Init => StagesPassed
  BY DEF Init, StagesPassed
<1>2. TypeOK /\ StagesPassed /\ [Next]_vars => StagesPassed'
  <2> SUFFICES ASSUME TypeOK, StagesPassed, [Next]_vars PROVE StagesPassed'
    OBVIOUS
  <2>1. CASE UNCHANGED <<state, trail>>
    BY <2>1 DEF StagesPassed
  <2>2. ASSUME NEW from \in WorkflowState, NEW to \in WorkflowState,
               NEW u \in Users, UpdateState(from, to, u)
        PROVE  \A i \in 1..Len(trail') :
                 \/ i \in 1..Len(trail) /\ trail'[i] = trail[i]
                 \/ trail'[i].to = to
    <3>1. /\ Len(trail') = Len(trail) + 1
          /\ \A i \in 1..Len(trail) : trail'[i] = trail[i]
          /\ trail'[Len(trail) + 1] = Transition(from, to, u)
      BY <2>2, UpdateEffect
    <3>2. Transition(from, to, u).to = to
      BY DEF Transition
    <3> QED
      BY <3>1, <3>2 DEF TypeOK
  <2>3. ASSUME NEW u \in Users,
               UpdateState("calculated", "technical_review", u)
        PROVE  StagesPassed'
    <3>1. state = "calculated" /\ state' = "technical_review"
      BY <2>3 DEF UpdateState
    <3> QED
      BY <2>2, <2>3, <3>1 DEF StagesPassed, WorkflowState
  <2>4. ASSUME NEW u \in Users,
               UpdateState("technical_review", "qa_review", u)
        PROVE  StagesPassed'
    <3>1. state = "technical_review" /\ state' = "qa_review"
      BY <2>4 DEF UpdateState
    <3> QED
      BY <2>2, <2>4, <3>1 DEF StagesPassed, WorkflowState
  <2>5. ASSUME NEW u \in Users, UpdateState("qa_review", "approved", u)
        PROVE  StagesPassed'
    <3>1. state = "qa_review" /\ state' = "approved"
      BY <2>5 DEF UpdateState
    <3> QED
      BY <2>2, <2>5, <3>1 DEF StagesPassed, ReviewedStages, WorkflowState
  <2>6. ASSUME NEW u \in Users,
               \/ UpdateState("approved", "released", u)
               \/ UpdateState("released", "revised", u)
        PROVE  StagesPassed'
    BY <2>6 DEF UpdateState, StagesPassed
  <2> QED
    BY <2>1, <2>3, <2>4, <2>5, <2>6, Moves
<1> QED
  BY <1>1, <1>2, TypeCorrect, PTL DEF Spec

\* What a request is when it has arrived.
LEMMA Arrivals ==
  ASSUME NEW r \in Requests, NEW u \in Users, Arrive(r, u)
  PROVE  /\ req[r] = Idle
         /\ UNCHANGED <<state, trail, prepared, certificates>>
         /\ \E q :
              /\ Become(r, q)
              /\ q.user = u
              /\ q.pc \in {"checked", "entering", "previewing", "accepted",
                           "rendered", "admitted", "managing"}
              /\ q.pc = "managing" => Can(u, "manage_users_and_roles")
              /\ \A stage \in ReviewerIndependenceStage :
                   PassedStage(q, stage) =>
                     Independent(u, stage) /\ Can(u, PermissionFor[stage])
<1>1. ASSUME NEW step \in DOMAIN ReviewSteps, BeginReview(r, u, step)
      PROVE  \A stage \in ReviewerIndependenceStage :
               PassedStage(Review("checked", u, step), stage)
                 => Independent(u, stage) /\ Can(u, PermissionFor[stage])
  BY <1>1 DEF BeginReview, PassedStage, Review, StageOf, ReviewSteps,
              PermissionFor
<1>2. ASSUME NEW step \in DOMAIN ReviewSteps, BeginReview(r, u, step)
      PROVE  /\ Become(r, Review("checked", u, step))
             /\ Review("checked", u, step).user = u
             /\ Review("checked", u, step).pc = "checked"
             /\ req[r] = Idle
             /\ UNCHANGED <<state, trail, prepared, certificates>>
  BY <1>2 DEF BeginReview, Review
<1>3. CASE BeginUpload(r, u)
  <2>1. /\ Entry(u).user = u
        /\ Entry(u).pc = "entering"
        /\ \A stage : ~ PassedStage(Entry(u), stage)
    BY DEF Entry, PassedStage
  <2> QED
    BY <1>3, <2>1 DEF BeginUpload
<1>4. ASSUME NEW v \in Variants, BeginPreview(r, u, v)
      PROVE  /\ req[r] = Idle
             /\ UNCHANGED <<state, trail, prepared, certificates>>
             /\ \E q : /\ Become(r, q)
                       /\ q.user = u
                       /\ q.pc = "previewing"
                       /\ \A stage : ~ PassedStage(q, stage)
  <2> DEFINE q == [pc |-> "previewing", user |-> u, variant |-> v]
  <2>1. /\ q.user = u /\ q.pc = "previewing"
        /\ \A stage : ~ PassedStage(q, stage)
    BY DEF PassedStage
  <2>2. Become(r, q)
    BY <1>4 DEF BeginPreview
  <2> HIDE DEF q
  <2> QED
    BY <1>4, <2>1, <2>2 DEF BeginPreview
<1>5. ASSUME NEW route \in Routes, NEW id \in CertificateIds,
             NEW v \in Variants, BeginRelease(r, u, route, id, v)
      PROVE  /\ req[r] = Idle
             /\ UNCHANGED <<state, trail, prepared, certificates>>
             /\ \E q : /\ Become(r, q)
                       /\ q.user = u
                       /\ q.pc \in {"accepted", "rendered"}
                       /\ \A stage : PassedStage(q, stage)
                            => /\ Independent(u, stage)
                               /\ Can(u, PermissionFor[stage])
  <2> DEFINE q == Release(IF route = "register" THEN "rendered" ELSE "accepted",
                          u, route, id, v)
  <2>1. /\ q.user = u /\ q.pc \in {"accepted", "rendered"}
        /\ \A stage : PassedStage(q, stage) => stage = "certificate_release"
    BY DEF PassedStage, Release
  <2>2. Become(r, q)
    BY <1>5 DEF BeginRelease
  <2>3. Can(u, PermissionFor["certificate_release"])
    BY <1>5 DEF BeginRelease, PermissionFor
  <2> HIDE DEF q
  <2> QED
    BY <1>5, <2>1, <2>2, <2>3 DEF BeginRelease
<1>6. CASE BeginRevision(r, u)
  <2> DEFINE q == [pc |-> "admitted", user |-> u]
  <2>1. /\ q.user = u /\ q.pc = "admitted"
        /\ \A stage : ~ PassedStage(q, stage)
    BY DEF PassedStage
  <2>2. Become(r, q)
    BY <1>6 DEF BeginRevision
  <2> HIDE DEF q
  <2> QED
    BY <1>6, <2>1, <2>2 DEF BeginRevision
<1>7. ASSUME NEW change \in AccountChanges, BeginManaging(r, u, change)
      PROVE  /\ req[r] = Idle
             /\ Can(u, "manage_users_and_roles")
             /\ UNCHANGED <<state, trail, prepared, certificates>>
             /\ \E q : /\ Become(r, q)
                       /\ q.user = u
                       /\ q.pc = "managing"
                       /\ \A stage : ~ PassedStage(q, stage)
  <2> DEFINE q == [pc |-> "managing", user |-> u, change |-> change]
  <2>1. /\ q.user = u /\ q.pc = "managing"
        /\ \A stage : ~ PassedStage(q, stage)
    BY DEF PassedStage
  <2>2. Become(r, q)
    BY <1>7 DEF BeginManaging
  <2> HIDE DEF q
  <2> QED
    BY <1>7, <2>1, <2>2 DEF BeginManaging
<1> QED
  BY <1>1, <1>2, <1>3, <1>4, <1>5, <1>6, <1>7 DEF Arrive

\* Only the first two routes reach the reads that are not under the lock.
RoutesApart ==
  \A r \in Requests :
    req[r].pc \in {"rechecked", "approved", "evidenced"} =>
      req[r].route # "allocate"

LEMMA RoutesApartInvariant == Spec => []RoutesApart
<1>1. Init => RoutesApart
  BY DEF Init, RoutesApart, Idle, Entry
<1>2. TypeOK /\ RoutesApart /\ [Next]_vars => RoutesApart'
  <2> SUFFICES ASSUME TypeOK, RoutesApart, [Next]_vars PROVE RoutesApart'
    OBVIOUS
  <2>1. ASSUME NEW r \in Requests, NEW q, Become(r, q),
               q.pc \in {"rechecked", "approved", "evidenced"} =>
                 q.route # "allocate"
        PROVE  RoutesApart'
    BY <2>1 DEF RoutesApart, Become, TypeOK
  <2>2. ASSUME NEW r \in Requests, NEW u \in Users, Arrive(r, u)
        PROVE  RoutesApart'
    <3>1. PICK q : /\ Become(r, q)
                   /\ q.pc \notin {"rechecked", "approved", "evidenced"}
      BY <2>2, Arrivals
    <3> QED
      BY <2>1, <3>1
  <2>3. ASSUME NEW r \in Requests, NEW pc,
               Become(r, [req[r] EXCEPT !.pc = pc]),
               pc \in {"rechecked", "approved"} =>
                 req[r].pc \in {"accepted", "rendered", "rechecked"}
                 /\ req[r].route # "allocate",
               pc # "evidenced",
               req[r].pc \in {"checked", "accepted", "rendered", "rechecked"}
        PROVE  RoutesApart'
    <3>1. /\ [req[r] EXCEPT !.pc = pc].pc = pc
          /\ req[r].pc # "checked" =>
               [req[r] EXCEPT !.pc = pc].route = req[r].route
      BY <2>3 DEF TypeOK, Request
    <3> QED
      BY <2>1, <2>3, <3>1
  <2>4. ASSUME NEW r \in Requests, ReadReleaseEvidence(r) PROVE RoutesApart'
    <3>1. req[r].route # "allocate"
      BY <2>4 DEF ReadReleaseEvidence, RoutesApart
    <3>2. Evidenced(req[r], ApprovalEvidence(req[r].user)).route = req[r].route
      BY DEF Evidenced
    <3> QED
      BY <2>1, <2>4, <3>1, <3>2 DEF ReadReleaseEvidence
  <2>5. ASSUME NEW r \in Requests, Become(r, Idle) PROVE RoutesApart'
    BY <2>1, <2>5 DEF Idle
  <2>6. ASSUME NEW r \in Requests, Proceed(r) PROVE RoutesApart'
    <3>1. CASE ReadForReview(r)
      BY <2>3, <3>1 DEF ReadForReview
    <3>2. CASE RenderForRelease(r)
      BY <2>3, <3>2 DEF RenderForRelease
    <3>3. CASE RecheckRelease(r)
      BY <2>3, <3>3 DEF RecheckRelease
    <3>4. CASE ReadReleaseState(r)
      BY <2>3, <3>4 DEF ReadReleaseState, RoutesApart
    <3>5. CASE \/ CommitReview(r) \/ CommitEntry(r) \/ CommitPreview(r)
               \/ CommitRelease(r) \/ CommitAllocatedRelease(r)
               \/ CommitRevision(r) \/ CommitManaging(r) \/ Fail(r)
      BY <2>5, <3>5 DEF CommitReview, CommitEntry, CommitPreview, CommitRelease,
                        CommitAllocatedRelease, CommitRevision, Fail,
                        CommitManaging
    <3>6. ASSUME NEW id \in CertificateIds, ReadForRevision(r, id)
          PROVE  RoutesApart'
      <4>1. Become(r, [pc |-> "revising", user |-> req[r].user, id |-> id])
        BY <3>6 DEF ReadForRevision
      <4> QED
        BY <2>1, <4>1
    <3> QED
      BY <2>4, <2>6, <3>1, <3>2, <3>3, <3>4, <3>5, <3>6 DEF Proceed
  <2>7. CASE UNCHANGED vars
    BY <2>7 DEF vars, RoutesApart
  <2> QED
    BY <2>2, <2>6, <2>7 DEF Next
<1> QED
  BY <1>1, <1>2, TypeCorrect, PTL DEF Spec

\* A release by the allocating endpoint is independent whatever else its user
\* has in flight.
THEOREM AllocatedIndependence == Spec => AllocatedReleaseIndependent
<1>1. TypeOK /\ StagesPassed /\ RoutesApart /\ [Next]_vars => [AllocatedStep]_vars
  <2> SUFFICES ASSUME TypeOK, StagesPassed, RoutesApart, Next
               PROVE  AllocatedStep
    BY DEF AllocatedStep
  <2>1. ASSUME NEW r \in Requests, CommitAllocatedRelease(r)
        PROVE  AllocatedStep
    <3>1. /\ state = "approved"
          /\ Independent(req[r].user, "certificate_release")
          /\ \A c \in certificates' \ certificates : c.releasedBy = req[r].user
      BY <2>1 DEF CommitAllocatedRelease, UpdateState, InsertCertificate
    <3>2. \A i \in 1..Len(trail) : trail[i].by # req[r].user
      BY <3>1 DEF StagesPassed, ReviewedStages, Independent,
                  WorkflowStateConflicts
    <3> QED
      BY <3>1, <3>2 DEF AllocatedStep, Independent
  <2>2. ASSUME NEW r \in Requests, CommitRelease(r)
        PROVE  AllocatedStep
    <3>1. req[r].route # "allocate"
      BY <2>2 DEF CommitRelease, RoutesApart
    <3>2. \A c \in certificates' \ certificates : c.route = req[r].route
      BY <2>2 DEF CommitRelease, InsertCertificate
    <3> QED
      BY <3>1, <3>2 DEF AllocatedStep
  <2>3. ASSUME NEW r \in Requests, NEW u \in Users, Arrive(r, u)
        PROVE  UNCHANGED certificates
    BY <2>3 DEF Arrive, BeginReview, BeginUpload, BeginPreview, BeginRelease,
                BeginRevision, BeginManaging
  <2>4. ASSUME NEW r \in Requests,
               \/ ReadForReview(r) \/ CommitReview(r) \/ CommitEntry(r)
               \/ CommitPreview(r) \/ RenderForRelease(r) \/ RecheckRelease(r)
               \/ ReadReleaseState(r) \/ ReadReleaseEvidence(r)
               \/ CommitRevision(r) \/ Fail(r) \/ CommitManaging(r)
               \/ \E id \in CertificateIds : ReadForRevision(r, id)
        PROVE  UNCHANGED certificates
    BY <2>4 DEF ReadForReview, CommitReview, CommitEntry, CommitPreview,
                RenderForRelease, RecheckRelease, ReadReleaseState,
                ReadReleaseEvidence, CommitRevision, Fail,
                CommitManaging, ReadForRevision
  <2>5. UNCHANGED certificates => AllocatedStep
    BY DEF AllocatedStep
  <2> QED
    BY <2>1, <2>2, <2>3, <2>4, <2>5 DEF Next, Proceed
<1> QED
  BY <1>1, TypeCorrect, StagesPassedInvariant, RoutesApartInvariant, PTL
     DEF Spec, AllocatedReleaseIndependent

\* What a step of a request does: the request moves on or ends, and what the
\* independence check reads gains its own user's name at most.
LEMMA Proceeds ==
  ASSUME TypeOK, NEW r \in Requests, Proceed(r)
  PROVE  /\ req[r] # Idle
         /\ \E q : /\ Become(r, q)
                   /\ \/ q = Idle
                      \/ /\ q.user = req[r].user
                         /\ UNCHANGED <<trail, prepared>>
                         /\ \A stage : PassedStage(q, stage)
                                         => PassedStage(req[r], stage)
         /\ prepared' \subseteq prepared \cup {req[r].user}
         /\ \A i \in 1..Len(trail') :
              \/ i \in 1..Len(trail) /\ trail'[i] = trail[i]
              \/ trail'[i].by = req[r].user
<1> USE DEF TypeOK
<1>1. req[r] # Idle
  <2>1. CASE Fail(r)
    BY <2>1 DEF Fail
  <2>2. CASE \/ ReadForReview(r) \/ CommitReview(r) \/ CommitEntry(r)
             \/ CommitPreview(r) \/ RenderForRelease(r) \/ RecheckRelease(r)
             \/ ReadReleaseState(r)
    <3>1. req[r].pc # "idle"
      BY <2>2 DEF ReadForReview, CommitReview, CommitEntry, CommitPreview,
                  RenderForRelease, RecheckRelease, ReadReleaseState
    <3> QED
      BY <3>1 DEF Idle
  <2>3. CASE \/ ReadReleaseEvidence(r) \/ CommitRelease(r)
             \/ CommitAllocatedRelease(r) \/ CommitRevision(r)
             \/ CommitManaging(r)
             \/ \E id \in CertificateIds : ReadForRevision(r, id)
    <3>1. req[r].pc # "idle"
      BY <2>3 DEF ReadReleaseEvidence, CommitRelease, CommitAllocatedRelease,
                  CommitRevision, CommitManaging, ReadForRevision
    <3> QED
      BY <3>1 DEF Idle
  <2> QED
    BY <2>1, <2>2, <2>3 DEF Proceed
<1>2. ASSUME NEW pc \in {"read", "rendered", "rechecked", "approved"},
             \/ req[r].pc = "checked" /\ pc = "read"
             \/ /\ req[r].pc \in {"accepted", "rendered", "rechecked"}
                /\ pc # "read",
             Become(r, [req[r] EXCEPT !.pc = pc])
      PROVE  \E q : /\ Become(r, q)
                    /\ q.user = req[r].user
                    /\ \A stage : PassedStage(q, stage)
                                    => PassedStage(req[r], stage)
  <2> DEFINE q == [req[r] EXCEPT !.pc = pc]
  <2>1. /\ q.pc = pc
        /\ q.user = req[r].user
        /\ req[r].pc = "checked" => q.step = req[r].step
    BY <1>2 DEF Request
  <2>2. \A stage : PassedStage(q, stage) => PassedStage(req[r], stage)
    BY <1>2, <2>1 DEF PassedStage
  <2> QED
    BY <1>2, <2>1, <2>2
<1>3. CASE \/ ReadForReview(r) \/ RenderForRelease(r) \/ RecheckRelease(r)
           \/ ReadReleaseState(r)
  <2>1. UNCHANGED <<trail, prepared>>
    BY <1>3 DEF ReadForReview, RenderForRelease, RecheckRelease,
                ReadReleaseState
  <2>2. \E q : /\ Become(r, q)
               /\ q.user = req[r].user
               /\ \A stage : PassedStage(q, stage)
                               => PassedStage(req[r], stage)
    BY <1>2, <1>3 DEF ReadForReview, RenderForRelease, RecheckRelease,
                      ReadReleaseState
  <2> QED
    BY <1>1, <2>1, <2>2
<1>4. CASE ReadReleaseEvidence(r)
  <2> DEFINE q == Evidenced(req[r], ApprovalEvidence(req[r].user))
  <2>1. /\ q.user = req[r].user
        /\ \A stage : PassedStage(q, stage) => PassedStage(req[r], stage)
    BY <1>4 DEF ReadReleaseEvidence, Evidenced, PassedStage
  <2>2. Become(r, q) /\ UNCHANGED <<trail, prepared>>
    BY <1>4 DEF ReadReleaseEvidence
  <2> HIDE DEF q
  <2> QED
    BY <1>1, <2>1, <2>2
<1>5. CASE CommitEntry(r) \/ CommitPreview(r) \/ CommitManaging(r) \/ Fail(r)
  <2>1. /\ Become(r, Idle)
        /\ UNCHANGED trail
        /\ prepared' \subseteq prepared \cup {req[r].user}
    BY <1>5 DEF CommitEntry, CommitPreview, CommitManaging, Fail
  <2> QED
    BY <1>1, <2>1
<1>6. CASE \/ CommitReview(r) \/ CommitRelease(r) \/ CommitAllocatedRelease(r)
           \/ CommitRevision(r)
  <2>1. /\ req[r].user \in Users
        /\ Become(r, Idle)
        /\ UNCHANGED prepared
    BY <1>6, RequestFields DEF CommitReview, CommitRelease,
                               CommitAllocatedRelease, CommitRevision
  <2>2. \E from \in WorkflowState, to \in WorkflowState :
          UpdateState(from, to, req[r].user)
    <3>1. CASE CommitReview(r)
      <4>1. req[r].step \in {"submit", "technical", "qa"}
        BY <3>1, RequestFields DEF CommitReview
      <4> QED
        BY <3>1, <4>1 DEF CommitReview, ReviewSteps, WorkflowState
    <3>2. CASE CommitRelease(r) \/ CommitAllocatedRelease(r)
      BY <3>2 DEF CommitRelease, CommitAllocatedRelease, WorkflowState
    <3>3. CASE CommitRevision(r)
      BY <3>3 DEF CommitRevision, WorkflowState
    <3> QED
      BY <1>6, <3>1, <3>2, <3>3
  <2>3. \E from, to :
          /\ Len(trail') = Len(trail) + 1
          /\ \A i \in 1..Len(trail) : trail'[i] = trail[i]
          /\ trail'[Len(trail) + 1] = Transition(from, to, req[r].user)
    BY <2>1, <2>2, UpdateEffect
  <2>4. \A from, to : Transition(from, to, req[r].user).by = req[r].user
    BY DEF Transition
  <2>5. \A i \in 1..Len(trail') :
          \/ i \in 1..Len(trail) /\ trail'[i] = trail[i]
          \/ trail'[i].by = req[r].user
    BY <2>3, <2>4
  <2> QED
    BY <1>1, <2>1, <2>5
<1>7. ASSUME NEW id \in CertificateIds, ReadForRevision(r, id)
      PROVE  /\ \E q : /\ Become(r, q)
                       /\ q.user = req[r].user
                       /\ \A stage : ~ PassedStage(q, stage)
             /\ UNCHANGED <<trail, prepared>>
  <2> DEFINE q == [pc |-> "revising", user |-> req[r].user, id |-> id]
  <2>1. q.user = req[r].user /\ \A stage : ~ PassedStage(q, stage)
    BY DEF PassedStage
  <2>2. Become(r, q) /\ UNCHANGED <<trail, prepared>>
    BY <1>7 DEF ReadForRevision
  <2> HIDE DEF q
  <2> QED
    BY <2>1, <2>2
<1> QED
  BY <1>1, <1>3, <1>4, <1>5, <1>6, <1>7 DEF Proceed

\* Two requests of one user are marked as long as both are in flight.
OverlapsMarked ==
  \A q, r \in Requests :
    q # r /\ req[q] # Idle /\ req[r] # Idle /\ req[q].user = req[r].user =>
      q \in overlapped

\* As long as its user sends nothing else, a request's check stays true.
THEOREM ChecksStand == Spec => [](OverlapsMarked /\ RequestsIndependent)
<1>1. Init => OverlapsMarked /\ RequestsIndependent
  BY DEF Init, OverlapsMarked, RequestsIndependent, PassedStage, Idle, Entry,
         InFlight
<1>2. TypeOK /\ OverlapsMarked /\ RequestsIndependent /\ [Next]_vars
        => OverlapsMarked' /\ RequestsIndependent'
  <2> SUFFICES ASSUME TypeOK, OverlapsMarked, RequestsIndependent, [Next]_vars
               PROVE  OverlapsMarked' /\ RequestsIndependent'
    OBVIOUS
  <2>1. ASSUME NEW r \in Requests, NEW u \in Users, Arrive(r, u),
               NoteArrival(r, u)
        PROVE  OverlapsMarked' /\ RequestsIndependent'
    <3>1. PICK q :
            /\ Become(r, q)
            /\ q.user = u
            /\ \A stage \in ReviewerIndependenceStage :
                 PassedStage(q, stage) => Independent(u, stage)
      BY <2>1, Arrivals
    <3>2. req[r] = Idle /\ UNCHANGED <<trail, prepared>>
      BY <2>1, Arrivals
    <3>3. /\ req'[r] = q
          /\ \A p \in Requests : p # r => req'[p] = req[p]
      BY <3>1 DEF Become, TypeOK
    <3>4. \A v, stage : Independent(v, stage)' <=> Independent(v, stage)
      BY <3>2 DEF Independent
    <3>5. /\ overlapped \subseteq overlapped'
          /\ \A p \in Requests : req[p] # Idle /\ req[p].user = u =>
               p \in overlapped' /\ r \in overlapped'
      BY <2>1 DEF NoteArrival, InFlight
    <3>6. OverlapsMarked'
      BY <3>1, <3>2, <3>3, <3>5 DEF OverlapsMarked
    <3>7. RequestsIndependent'
      <4> SUFFICES ASSUME NEW p \in Requests, p \notin overlapped',
                          NEW stage \in ReviewerIndependenceStage,
                          PassedStage(req'[p], stage)
                   PROVE  Independent(req[p].user, stage)'
        BY DEF RequestsIndependent, PassedStage
      <4>1. PICK v : v = req'[p].user
        OBVIOUS
      <4>2. Independent(v, stage)
        BY <3>1, <3>3, <3>5, <4>1 DEF RequestsIndependent
      <4>3. Independent(v, stage)'
        BY <3>4, <4>2
      <4> QED
        BY <4>1, <4>3
    <3> QED
      BY <3>6, <3>7
  <2>2. ASSUME NEW r \in Requests, Proceed(r), NoteProgress(r)
        PROVE  OverlapsMarked' /\ RequestsIndependent'
    <3>1. PICK q :
            /\ Become(r, q)
            /\ \/ q = Idle
               \/ /\ q.user = req[r].user
                  /\ UNCHANGED <<trail, prepared>>
                  /\ \A stage : PassedStage(q, stage)
                                  => PassedStage(req[r], stage)
      BY <2>2, Proceeds
    <3>2. req[r] # Idle
      BY <2>2, Proceeds
    <3>3. /\ req'[r] = q
          /\ \A p \in Requests : p # r => req'[p] = req[p]
      BY <3>1 DEF Become, TypeOK
    <3>4. /\ \A p \in Requests : p # r /\ p \in overlapped => p \in overlapped'
          /\ \A p \in Requests : p # r /\ p \in overlapped' => p \in overlapped
          /\ q # Idle => overlapped' = overlapped
      BY <2>2, <3>3 DEF NoteProgress
    <3>5. OverlapsMarked'
      BY <3>1, <3>2, <3>3, <3>4 DEF OverlapsMarked
    <3>6. ASSUME NEW v, v # req[r].user, NEW stage, Independent(v, stage)
          PROVE  Independent(v, stage)'
      <4>1. /\ prepared' \subseteq prepared \cup {req[r].user}
            /\ \A i \in 1..Len(trail') :
                 \/ i \in 1..Len(trail) /\ trail'[i] = trail[i]
                 \/ trail'[i].by = req[r].user
        BY <2>2, Proceeds
      <4> QED
        BY <3>6, <4>1 DEF Independent
    <3>7. ASSUME NEW p \in Requests, p # r, p \notin overlapped',
                 NEW stage \in ReviewerIndependenceStage,
                 PassedStage(req'[p], stage)
          PROVE  Independent(req[p].user, stage)'
      <4>1. PICK v : v = req[p].user
        OBVIOUS
      <4>2. /\ req'[p] = req[p] /\ req[p] # Idle
            /\ p \notin overlapped
        BY <3>3, <3>4, <3>7 DEF PassedStage, Idle
      <4>3. v # req[r].user
        BY <3>2, <3>7, <4>1, <4>2 DEF OverlapsMarked
      <4>4. Independent(v, stage)
        BY <3>7, <4>1, <4>2 DEF RequestsIndependent
      <4>5. Independent(v, stage)'
        BY <3>6, <4>3, <4>4
      <4> QED
        BY <4>1, <4>2, <4>5
    <3>8. ASSUME r \notin overlapped', NEW stage \in ReviewerIndependenceStage,
                 PassedStage(req'[r], stage)
          PROVE  Independent(req[r].user, stage)'
      <4>1. PICK v : v = req[r].user
        OBVIOUS
      <4>2. req'[r] # Idle
        BY <3>8 DEF PassedStage, Idle
      <4>3. /\ req'[r].user = v
            /\ UNCHANGED <<trail, prepared>>
            /\ PassedStage(req[r], stage)
            /\ r \notin overlapped
        BY <3>1, <3>3, <3>4, <3>8, <4>1, <4>2
      <4>4. Independent(v, stage)
        BY <4>1, <4>3 DEF RequestsIndependent
      <4>5. Independent(v, stage)'
        BY <4>3, <4>4 DEF Independent
      <4> QED
        BY <4>3, <4>5
    <3>9. RequestsIndependent'
      BY <3>7, <3>8 DEF RequestsIndependent, PassedStage
    <3> QED
      BY <3>5, <3>9
  <2>3. CASE UNCHANGED vars
    BY <2>3 DEF vars, OverlapsMarked, RequestsIndependent, Independent
  <2> QED
    BY <2>1, <2>2, <2>3 DEF Next
<1> QED
  BY <1>1, <1>2, TypeCorrect, PTL DEF Spec

\* A request that ends in a step that is in turn overlaps no other.
LEMMA InTurn ==
  ASSUME TypeOK, StepIsInTurn, NEW r \in Requests, Become(r, Idle),
         req[r].pc # "idle"
  PROVE  r \notin overlapped
<1>1. req'[r] = Idle /\ req[r] # Idle
  BY DEF Become, TypeOK, Idle
<1> QED
  BY <1>1 DEF StepIsInTurn

\* Every approval and every release by a request that no other request of its
\* user overlaps is made by a user who neither prepared the job nor took an
\* earlier step of its review.
THEOREM ReviewerIndependence ==
  Spec => IndependentReview
<1>1. TypeOK /\ StagesPassed /\ RequestsIndependent /\ [Next]_vars
        => [StepIsInTurn => IndependentStep]_vars
  <2> SUFFICES ASSUME TypeOK, StagesPassed, RequestsIndependent, Next,
                      StepIsInTurn, state' # state,
                      state' \in {"qa_review", "approved", "released"}
               PROVE  LET actor == trail'[Len(trail')].by
                      IN  /\ actor \notin prepared
                          /\ \A i \in 1..Len(trail) : trail[i].by # actor
    BY DEF IndependentStep
  <2>1. ASSUME NEW stage \in ReviewerIndependenceStage, NEW u \in Users,
               Independent(u, stage),
               NEW from \in WorkflowState, NEW to \in WorkflowState,
               UpdateState(from, to, u),
               \A i \in 1..Len(trail) :
                 trail[i].to \in WorkflowStateConflicts[stage]
        PROVE  /\ trail'[Len(trail')].by \notin prepared
               /\ \A i \in 1..Len(trail) :
                    trail[i].by # trail'[Len(trail')].by
    <3>1. trail'[Len(trail')] = Transition(from, to, u)
      BY <2>1, UpdateEffect
    <3>2. Transition(from, to, u).by = u
      BY DEF Transition
    <3> QED
      BY <2>1, <3>1, <3>2 DEF Independent
  <2>2. ASSUME NEW r \in Requests, CommitReview(r)
        PROVE  /\ trail'[Len(trail')].by \notin prepared
               /\ \A i \in 1..Len(trail) :
                    trail[i].by # trail'[Len(trail')].by
    <3>0. r \notin overlapped
      BY <2>2, InTurn DEF CommitReview
    <3>1. /\ req[r].user \in Users
          /\ req[r].step \in {"technical", "qa"}
          /\ req[r].pc = "read"
      BY <2>2, RequestFields DEF CommitReview, UpdateState, ReviewSteps, TypeOK
    <3>2. CASE req[r].step = "technical"
      <4>1. UpdateState("technical_review", "qa_review", req[r].user)
        BY <2>2, <3>2 DEF CommitReview, ReviewSteps
      <4>2. Independent(req[r].user, "technical_review_approval")
        BY <3>0, <3>1, <3>2 DEF RequestsIndependent, PassedStage,
                          ReviewerIndependenceStage
      <4>3. \A i \in 1..Len(trail) :
              trail[i].to
                \in WorkflowStateConflicts["technical_review_approval"]
        BY <4>1 DEF UpdateState, StagesPassed, WorkflowStateConflicts
      <4> QED
        BY <2>1, <3>1, <4>1, <4>2, <4>3
           DEF ReviewerIndependenceStage, WorkflowState
    <3>3. CASE req[r].step = "qa"
      <4>1. UpdateState("qa_review", "approved", req[r].user)
        BY <2>2, <3>3 DEF CommitReview, ReviewSteps
      <4>2. Independent(req[r].user, "qa_release_approval")
        BY <3>0, <3>1, <3>3 DEF RequestsIndependent, PassedStage,
                          ReviewerIndependenceStage
      <4>3. \A i \in 1..Len(trail) :
              trail[i].to \in WorkflowStateConflicts["qa_release_approval"]
        BY <4>1 DEF UpdateState, StagesPassed, WorkflowStateConflicts
      <4> QED
        BY <2>1, <3>1, <4>1, <4>2, <4>3
           DEF ReviewerIndependenceStage, WorkflowState
    <3> QED
      BY <3>1, <3>2, <3>3
  <2>3. ASSUME NEW r \in Requests, CommitRelease(r) \/ CommitAllocatedRelease(r)
        PROVE  /\ trail'[Len(trail')].by \notin prepared
               /\ \A i \in 1..Len(trail) :
                    trail[i].by # trail'[Len(trail')].by
    <3>1. /\ req[r].user \in Users
          /\ UpdateState("approved", "released", req[r].user)
      BY <2>3, RequestFields DEF CommitRelease, CommitAllocatedRelease, TypeOK
    <3>2. Independent(req[r].user, "certificate_release")
      <4>1. r \notin overlapped
        BY <2>3, InTurn DEF CommitRelease, CommitAllocatedRelease
      <4> QED
        BY <2>3, <4>1 DEF CommitRelease, CommitAllocatedRelease,
                          RequestsIndependent, PassedStage,
                          ReviewerIndependenceStage
    <3>3. \A i \in 1..Len(trail) :
            trail[i].to \in WorkflowStateConflicts["certificate_release"]
      BY <3>1 DEF UpdateState, StagesPassed, ReviewedStages,
                  WorkflowStateConflicts
    <3> QED
      BY <2>1, <3>1, <3>2, <3>3 DEF ReviewerIndependenceStage, WorkflowState
  <2>4. ASSUME NEW r \in Requests, CommitRevision(r) PROVE FALSE
    BY <2>4 DEF CommitRevision, UpdateState
  <2>5. ASSUME NEW r \in Requests, NEW u \in Users, Arrive(r, u) PROVE FALSE
    BY <2>5, Arrivals
  <2>6. ASSUME NEW r \in Requests,
               \/ ReadForReview(r) \/ CommitEntry(r) \/ CommitPreview(r)
               \/ RenderForRelease(r) \/ RecheckRelease(r)
               \/ ReadReleaseState(r) \/ ReadReleaseEvidence(r) \/ Fail(r)
               \/ CommitManaging(r)
               \/ \E id \in CertificateIds : ReadForRevision(r, id)
        PROVE  FALSE
    BY <2>6 DEF ReadForReview, CommitEntry, CommitPreview, RenderForRelease,
                RecheckRelease, ReadReleaseState, ReadReleaseEvidence, Fail,
                CommitManaging, ReadForRevision
  <2> QED
    BY <2>2, <2>3, <2>4, <2>5, <2>6 DEF Next, Proceed
<1> QED
  BY <1>1, TypeCorrect, StagesPassedInvariant, ChecksStand, PTL
     DEF Spec, IndependentReview

\* What a request needs to take a job out of a state under review: it has
\* passed the check of that state's stage.
LEMMA LeavingNeedsCheck ==
  ASSUME TypeOK, NEW r \in Requests, Proceed(r),
         state \in DOMAIN StageToLeave,
         ~ PassedStage(req[r], StageToLeave[state])
  PROVE  UNCHANGED state
<1> USE DEF StageToLeave, PassedStage
<1>1. CASE CommitReview(r)
  <2>1. req[r].pc = "read" /\ req[r].step \in {"submit", "technical", "qa"}
    BY <1>1, RequestFields DEF CommitReview, TypeOK
  <2>2. state = ReviewSteps[req[r].step].from
    BY <1>1 DEF CommitReview, UpdateState
  <2> QED
    BY <2>1, <2>2 DEF ReviewSteps
<1>2. CASE CommitRelease(r) \/ CommitAllocatedRelease(r)
  BY <1>2 DEF CommitRelease, CommitAllocatedRelease, UpdateState
<1>3. CASE CommitRevision(r)
  BY <1>3 DEF CommitRevision, UpdateState
<1>4. CASE \/ ReadForReview(r) \/ CommitEntry(r) \/ CommitPreview(r)
           \/ RenderForRelease(r) \/ RecheckRelease(r) \/ ReadReleaseState(r)
           \/ ReadReleaseEvidence(r) \/ Fail(r) \/ CommitManaging(r)
           \/ \E id \in CertificateIds : ReadForRevision(r, id)
  BY <1>4 DEF ReadForReview, CommitEntry, CommitPreview, RenderForRelease,
              RecheckRelease, ReadReleaseState, ReadReleaseEvidence, Fail,
              CommitManaging, ReadForRevision
<1> QED
  BY <1>1, <1>2, <1>3, <1>4 DEF Proceed

\* Where nobody manages users, nobody will: whoever arrives to do so may.
LEMMA NobodyManagesStep ==
  ASSUME TypeOK, NobodyManages, Next
  PROVE  NobodyManages' /\ accounts' = accounts
<1>1. accounts' = accounts
  BY AccountsKept DEF NobodyManages, CommitManaging
<1>2. \A p \in Requests : req'[p].pc # "managing"
  <2>1. ASSUME NEW r \in Requests, NEW q, Become(r, q), q.pc # "managing"
        PROVE  \A p \in Requests : req'[p].pc # "managing"
    BY <2>1 DEF Become, TypeOK, NobodyManages
  <2>2. ASSUME NEW r \in Requests, NEW u \in Users, Arrive(r, u)
        PROVE  \E q : Become(r, q) /\ q.pc # "managing"
    BY <2>2, Arrivals DEF NobodyManages
  <2>3. ASSUME NEW r \in Requests, Proceed(r)
        PROVE  \E q : Become(r, q) /\ q.pc # "managing"
    <3>1. ASSUME NEW pc \in {"read", "rendered", "rechecked", "approved"}
          PROVE  [req[r] EXCEPT !.pc = pc].pc # "managing"
      BY DEF TypeOK, Request
    <3>2. CASE \/ ReadForReview(r) \/ RenderForRelease(r) \/ RecheckRelease(r)
               \/ ReadReleaseState(r)
      BY <3>1, <3>2 DEF ReadForReview, RenderForRelease, RecheckRelease,
                        ReadReleaseState
    <3>3. CASE ReadReleaseEvidence(r)
      <4>1. Evidenced(req[r], ApprovalEvidence(req[r].user)).pc # "managing"
        BY DEF Evidenced
      <4> QED
        BY <3>3, <4>1 DEF ReadReleaseEvidence
    <3>4. ASSUME NEW id \in CertificateIds, ReadForRevision(r, id)
          PROVE  \E q : Become(r, q) /\ q.pc # "managing"
      <4>1. [pc |-> "revising", user |-> req[r].user, id |-> id].pc # "managing"
        OBVIOUS
      <4> QED
        BY <3>4, <4>1, Zenon DEF ReadForRevision
    <3>5. CASE \/ CommitReview(r) \/ CommitEntry(r) \/ CommitPreview(r)
               \/ CommitRelease(r) \/ CommitAllocatedRelease(r)
               \/ CommitRevision(r) \/ CommitManaging(r) \/ Fail(r)
      <4>1. Become(r, Idle) /\ Idle.pc # "managing"
        BY <3>5 DEF CommitReview, CommitEntry, CommitPreview, CommitRelease,
                    CommitAllocatedRelease, CommitRevision, Fail,
                    CommitManaging, Idle
      <4> QED
        BY <4>1
    <3> QED
      BY <2>3, <3>2, <3>3, <3>4, <3>5 DEF Proceed
  <2> QED
    BY <2>1, <2>2, <2>3 DEF Next
<1> QED
  BY <1>1, <1>2 DEF NobodyManages, Can

\* Whoever gains a permission is the one whose account is changed.
LEMMA GainedPermission ==
  ASSUME TypeOK, NEW r \in Requests, CommitManaging(r), NEW u \in Users,
         NEW action, ~ Can(u, action), Can(u, action)'
  PROVE  req[r].change.target = u
<1>1. accounts'[u] # accounts[u]
  BY DEF Can
<1> QED
  BY <1>1 DEF CommitManaging, TypeOK

\* A job whose next step is barred to everybody who may take it, and that no
\* request in flight can still move, stays where it is: no request un-bars a
\* user, and none that arrives passes the check.  A change of accounts frees it
\* only by giving the permission to an independent user, and where nobody may
\* change them nothing does.
THEOREM DeadEndsNeedFreshReviewers == Spec => OnlyAccountsFreeADeadEnd
<1>1. TypeOK /\ OneApproval /\ [Next]_vars
        => [DeadEnd =>
              /\ state' = state
              /\ DeadEnd' \/ \E r \in Requests : FreshReviewer(r)
              /\ NobodyManages => DeadEnd' /\ NobodyManages']_vars
  <2> SUFFICES ASSUME TypeOK, OneApproval, Next, DeadEnd
               PROVE  /\ state' = state
                      /\ DeadEnd' \/ \E r \in Requests : FreshReviewer(r)
                      /\ NobodyManages => DeadEnd' /\ NobodyManages'
    OBVIOUS
  <2> DEFINE stage == StageToLeave[state]
  <2>1. state \in DOMAIN StageToLeave /\ stage \in ReviewerIndependenceStage
    BY DEF DeadEnd, StageToLeave, ReviewerIndependenceStage
  <2>2. PICK s \in ReviewerIndependenceStage : s = stage
    BY <2>1
  <2>3. /\ \A u \in Users : Can(u, PermissionFor[s]) => ~ Independent(u, s)
        /\ \A p \in Requests : ~ PassedStage(req[p], s)
    BY <2>2 DEF DeadEnd
  <2>4. ASSUME NEW r \in Requests, NEW u \in Users, Arrive(r, u)
        PROVE  /\ state' = state
               /\ \A p \in Requests : ~ PassedStage(req'[p], s)
    <3>1. PICK q :
            /\ Become(r, q)
            /\ PassedStage(q, s) => Independent(u, s) /\ Can(u, PermissionFor[s])
      BY <2>4, Arrivals
    <3>2. ~ PassedStage(q, s)
      BY <2>3, <3>1
    <3>3. \A p \in Requests : req'[p] = IF p = r THEN q ELSE req[p]
      BY <3>1 DEF Become, TypeOK
    <3> QED
      BY <2>3, <2>4, <3>2, <3>3, Arrivals
  <2>5. ASSUME NEW r \in Requests, Proceed(r)
        PROVE  /\ state' = state
               /\ \A p \in Requests : ~ PassedStage(req'[p], s)
    <3>1. PICK q :
            /\ Become(r, q)
            /\ q = Idle \/ (PassedStage(q, s) => PassedStage(req[r], s))
      BY <2>5, Proceeds
    <3>2. ~ PassedStage(q, s)
      BY <2>3, <3>1 DEF PassedStage, Idle
    <3>3. \A p \in Requests : req'[p] = IF p = r THEN q ELSE req[p]
      BY <3>1 DEF Become, TypeOK
    <3>4. state' = state
      BY <2>1, <2>2, <2>3, <2>5, LeavingNeedsCheck
    <3> QED
      BY <2>3, <3>2, <3>3, <3>4
  <2>6. \A u \in Users : Independent(u, s)' => Independent(u, s)
    BY Growth DEF Independent
  <2>7. /\ state' = state
        /\ \A p \in Requests : ~ PassedStage(req'[p], s)
    BY <2>4, <2>5 DEF Next
  <2>8. StageToLeave[state'] = s
    BY <2>2, <2>7
  <2>9. ASSUME \A u \in Users : Can(u, PermissionFor[s])' => ~ Independent(u, s)'
        PROVE  DeadEnd'
    BY <2>1, <2>7, <2>8, <2>9 DEF DeadEnd
  <2>10. ASSUME accounts' = accounts
         PROVE  DeadEnd'
    <3>1. \A u \in Users : Can(u, PermissionFor[s])' => Can(u, PermissionFor[s])
      BY <2>10 DEF Can
    <3> QED
      BY <2>3, <2>6, <2>9, <3>1
  <2>11. ASSUME NEW r \in Requests, CommitManaging(r)
         PROVE  DeadEnd' \/ FreshReviewer(r)
    <3> SUFFICES ASSUME NEW u \in Users,
                        Can(u, PermissionFor[s])', Independent(u, s)'
                 PROVE  FreshReviewer(r)
      BY <2>9
    <3>1. Independent(u, s) /\ ~ Can(u, PermissionFor[s])
      BY <2>3, <2>6
    <3>2. req[r].change.target = u
      BY <2>11, <3>1, GainedPermission
    <3>3. req[r].pc = "managing"
      BY <2>11 DEF CommitManaging
    <3> QED
      BY <2>2, <3>1, <3>2, <3>3 DEF FreshReviewer
  <2>12. NobodyManages => DeadEnd' /\ NobodyManages'
    BY <2>10, NobodyManagesStep
  <2>13. DeadEnd' \/ \E r \in Requests : FreshReviewer(r)
    BY <2>10, <2>11, AccountsKept
  <2> QED
    BY <2>7, <2>12, <2>13
<1> QED
  BY <1>1, TypeCorrect, PTL DEF Spec, OnlyAccountsFreeADeadEnd
==============================================================================
