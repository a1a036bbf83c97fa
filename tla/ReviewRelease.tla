---------------------------- MODULE ReviewRelease ----------------------------
(***************************************************************************)
(* One calibration job from the moment it is calculated: the review chain, *)
(* the certificate preview, the three release endpoints and the revision,  *)
(* as the concurrent HTTP requests that carry them out.                    *)
(*                                                                         *)
(* A request runs in a thread with its own SQLite connection.  Under       *)
(* `with connection:` nothing is locked until the first INSERT or UPDATE,  *)
(* so every SELECT before it is a read of whatever is committed then (one  *)
(* action here) and everything from the first write to the commit is one   *)
(* action.  A request may also end without effect at any point.            *)
(*                                                                         *)
(* Accounts change meanwhile; how they are managed is in Accounts.         *)
(***************************************************************************)
EXTENDS WorkflowRules, Sequences

CONSTANTS
  Users,              \* ids that accounts have or may be given
  Requests,           \* the HTTP requests that can be in flight together
  CertificateIds,     \* certificate ids the clients choose
  Variants,           \* what a preview and a release must agree on: the
                      \* template, software and evidence versions, and the mark
  UserRoles,          \* the roles of each account at first, {} if there is none
  AccountChanges      \* what administrators may ask of accounts

AccountChange ==
  [name : {"create_user", "change_roles"}, target : Users,
   roles : (SUBSET Role) \ {{}}]
  \cup [name : {"deactivate"}, target : Users]

ASSUME AccountsAssumption ==
  /\ UserRoles \in [Users -> SUBSET Role]
  /\ AccountChanges \subseteq AccountChange

VARIABLES
  accounts,      \* user_accounts: roles and active flag of each user
  state,         \* calibration_jobs.state
  trail,         \* WORKFLOW_TRANSITIONED events of the job, in order
  prepared,      \* users with a preparation or calculation event on the job
  windowed,      \* users whose MEASUREMENT_WINDOW_CHANGED events recorded the
                 \* windows the job was calculated from
  previews,      \* variants of the job's CERTIFICATE_PREVIEW_GENERATED events
  certificates,  \* rows of certificate_records for the job
  revisions,     \* rows of certificate_revisions for the job
  req,           \* what each request has read so far
  overlapped     \* history: the requests in flight that were in flight together
                 \* with another request of their user

vars == <<accounts, state, trail, prepared, windowed, previews, certificates,
          revisions, req, overlapped>>

(***************************************************************************)
(* Requests                                                                *)
(***************************************************************************)

Idle == [pc |-> "idle"]

\* The three review endpoints: permission, expected state, target state.
ReviewSteps ==
  [ submit    |-> [ action |-> "submit_technical_review",
                    from |-> "calculated", to |-> "technical_review" ],
    technical |-> [ action |-> "approve_technical_review",
                    from |-> "technical_review", to |-> "qa_review" ],
    qa        |-> [ action |-> "approve_qa_release",
                    from |-> "qa_review", to |-> "approved" ] ]

\* Registering an external artifact, rendering under a given number, and
\* rendering under a number allocated in the release transaction.
Routes == {"register", "render", "allocate"}

Review(pc, user, step) == [pc |-> pc, user |-> user, step |-> step]

Release(pc, user, route, id, variant) ==
  [ pc |-> pc, user |-> user, route |-> route, id |-> id,
    variant |-> variant ]

\* A preparation request that may commit while the job is under review.  An
\* upload is admitted in any state, and a transcription of IRTD rows admitted
\* earlier does not look at the state again when it writes.
Entry(user) == [pc |-> "entering", user |-> user]

\* resolve_actor_for_action: the account of the session's user, read once.
Can(user, action) ==
  /\ accounts[user].active
  /\ \E role \in accounts[user].roles : IsAllowed(role, action)

Become(r, record) == req' = [req EXCEPT ![r] = record]

(***************************************************************************)
(* Shared helpers of the services                                          *)
(***************************************************************************)

Transition(from, to, user) == [from |-> from, to |-> to, by |-> user]

\* An independence check that looks at the workflow events only.
IndependentOfTransitions(user, stage) ==
  \A i \in 1..Len(trail) :
    trail[i].by = user => trail[i].to \notin WorkflowStateConflicts[stage]

\* assert_reviewer_independence: the audit events of entity "calibration_job"
\* decide; window events carry the entity "measurement_window".
Independent(user, stage) ==
  /\ user \notin prepared
  /\ \A i \in 1..Len(trail) :
       trail[i].by = user => trail[i].to \notin WorkflowStateConflicts[stage]

\* A state update without the compare-and-set on the state that was read.
UpdateStateBlindly(from, to, user) ==
  /\ state' = to
  /\ trail' = Append(trail, Transition(from, to, user))

\* transition_calibration_job, then update_state ... WHERE state = expected,
\* then the audit event: one write transaction.
UpdateState(from, to, user) ==
  /\ CanTransition(from, to)
  /\ state = from
  /\ state' = to
  /\ trail' = Append(trail, Transition(from, to, user))

Approvals == {i \in 1..Len(trail) : trail[i].to = "approved"}

\* An approval quoted by the position of its event instead of its user.
ApprovalPosition(releaser) ==
  IF Approvals = {} THEN releaser
  ELSE CHOOSE i \in Approvals : \A j \in Approvals : j <= i

\* The latest approval event names the approver; without one the releaser
\* stands in.
ApprovalEvidence(releaser) ==
  IF Approvals = {} THEN releaser
  ELSE trail[CHOOSE i \in Approvals : \A j \in Approvals : j <= i].by

(***************************************************************************)
(* Review transitions                                                      *)
(***************************************************************************)

StageOf(step) ==
  CASE step = "technical" -> "technical_review_approval"
    [] step = "qa" -> "qa_release_approval"

\* A review endpoint that leaves independence to the release.
BeginReviewUnchecked(r, user, step) ==
  /\ req[r] = Idle
  /\ Can(user, ReviewSteps[step].action)
  /\ Become(r, Review("checked", user, step))
  /\ UNCHANGED <<accounts, state, trail, prepared, windowed, previews,
                 certificates, revisions>>

\* Session, permission and independence are checked before the transaction, in
\* reads of their own: since conflicts only grow, whoever passes the last of
\* them would have passed it with the first, so they are one action.
BeginReview(r, user, step) ==
  /\ req[r] = Idle
  /\ Can(user, ReviewSteps[step].action)
  /\ step # "submit" => Independent(user, StageOf(step))
  /\ Become(r, Review("checked", user, step))
  /\ UNCHANGED <<accounts, state, trail, prepared, windowed, previews,
                 certificates, revisions>>

ReadForReview(r) ==
  /\ req[r].pc = "checked"
  /\ state = ReviewSteps[req[r].step].from
  /\ Become(r, [req[r] EXCEPT !.pc = "read"])
  /\ UNCHANGED <<accounts, state, trail, prepared, windowed, previews,
                 certificates, revisions>>

CommitReview(r) ==
  /\ req[r].pc = "read"
  /\ LET step == ReviewSteps[req[r].step]
     IN  UpdateState(step.from, step.to, req[r].user)
  /\ Become(r, Idle)
  /\ UNCHANGED <<accounts, prepared, windowed, previews, certificates,
                 revisions>>

(***************************************************************************)
(* Preparation that commits late                                           *)
(***************************************************************************)

BeginUpload(r, user) ==
  /\ req[r] = Idle
  /\ Can(user, "upload_import_file")
  /\ Become(r, Entry(user))
  /\ UNCHANGED <<accounts, state, trail, prepared, windowed, previews,
                 certificates, revisions>>

CommitEntry(r) ==
  /\ req[r].pc = "entering"
  /\ prepared' = prepared \cup {req[r].user}
  /\ Become(r, Idle)
  /\ UNCHANGED <<accounts, state, trail, windowed, previews, certificates,
                 revisions>>

(***************************************************************************)
(* Certificate preview                                                     *)
(***************************************************************************)

Previewable == {"calculated", "technical_review", "qa_review", "approved"}

BeginPreview(r, user, variant) ==
  /\ req[r] = Idle
  /\ Can(user, "preview_certificate")
  /\ state \in Previewable
  /\ Become(r, [pc |-> "previewing", user |-> user, variant |-> variant])
  /\ UNCHANGED <<accounts, state, trail, prepared, windowed, previews,
                 certificates, revisions>>

\* The preview event is appended without looking at the state again.
CommitPreview(r) ==
  /\ req[r].pc = "previewing"
  /\ previews' = previews \cup {req[r].variant}
  /\ Become(r, Idle)
  /\ UNCHANGED <<accounts, state, trail, prepared, windowed, certificates,
                 revisions>>

(***************************************************************************)
(* Certificate release                                                     *)
(***************************************************************************)

BeginRelease(r, user, route, id, variant) ==
  /\ req[r] = Idle
  /\ Can(user, "release_certificate")
  /\ Independent(user, "certificate_release")
  /\ Become(r, Release(IF route = "register" THEN "rendered" ELSE "accepted",
                       user, route, id, variant))
  /\ UNCHANGED <<accounts, state, trail, prepared, windowed, previews,
                 certificates, revisions>>

\* _preview_for_release_rendering: its reads are not in a transaction.
RenderForRelease(r) ==
  /\ req[r].pc = "accepted"
  /\ state = "approved"
  /\ req[r].variant \in previews
  /\ Become(r, [req[r] EXCEPT !.pc = "rendered"])
  /\ UNCHANGED <<accounts, state, trail, prepared, windowed, previews,
                 certificates, revisions>>

\* The release transaction of the first two routes has not written anything
\* yet when it repeats its checks, so they are three separate reads: the
\* independence check, the state, the audit trail.
RecheckRelease(r) ==
  /\ req[r].pc = "rendered"
  /\ req[r].route # "allocate"
  /\ Independent(req[r].user, "certificate_release")
  /\ Become(r, [req[r] EXCEPT !.pc = "rechecked"])
  /\ UNCHANGED <<accounts, state, trail, prepared, windowed, previews,
                 certificates, revisions>>

\* A release that trusts the recheck and leaves the state to the update.
SkipReleaseState(r) ==
  /\ req[r].pc = "rechecked"
  /\ Become(r, [req[r] EXCEPT !.pc = "approved"])
  /\ UNCHANGED <<accounts, state, trail, prepared, windowed, previews,
                 certificates, revisions>>

ReadReleaseState(r) ==
  /\ req[r].pc = "rechecked"
  /\ state = "approved"
  /\ Become(r, [req[r] EXCEPT !.pc = "approved"])
  /\ UNCHANGED <<accounts, state, trail, prepared, windowed, previews,
                 certificates, revisions>>

Evidenced(request, approver) ==
  [ pc |-> "evidenced", user |-> request.user, route |-> request.route,
    id |-> request.id, variant |-> request.variant, approver |-> approver ]

ReadReleaseEvidence(r) ==
  /\ req[r].pc = "approved"
  /\ req[r].variant \in previews
  /\ Become(r, Evidenced(req[r], ApprovalEvidence(req[r].user)))
  /\ UNCHANGED <<accounts, state, trail, prepared, windowed, previews,
                 certificates, revisions>>

\* certificate_records.certificate_id is the primary key.
InsertCertificate(request, approver) ==
  /\ \A c \in certificates : c.id # request.id
  /\ certificates' = certificates \cup
       {[ id |-> request.id, variant |-> request.variant,
          route |-> request.route, approvedBy |-> approver,
          releasedBy |-> request.user ]}

CommitRelease(r) ==
  /\ req[r].pc = "evidenced"
  /\ InsertCertificate(req[r], req[r].approver)
  /\ UpdateState("approved", "released", req[r].user)
  /\ Become(r, Idle)
  /\ UNCHANGED <<accounts, prepared, windowed, previews, revisions>>

\* A third route whose transaction relies on the check made on arrival.
CommitAllocatedReleaseUnchecked(r) ==
  /\ req[r].pc = "rendered"
  /\ req[r].route = "allocate"
  /\ req[r].variant \in previews
  /\ InsertCertificate(req[r], ApprovalEvidence(req[r].user))
  /\ UpdateState("approved", "released", req[r].user)
  /\ Become(r, Idle)
  /\ UNCHANGED <<accounts, prepared, windowed, previews, revisions>>

\* The third route allocates its number first, and so holds the write lock
\* over the recheck and every read after it.
CommitAllocatedRelease(r) ==
  /\ req[r].pc = "rendered"
  /\ req[r].route = "allocate"
  /\ Independent(req[r].user, "certificate_release")
  /\ req[r].variant \in previews
  /\ InsertCertificate(req[r], ApprovalEvidence(req[r].user))
  /\ UpdateState("approved", "released", req[r].user)
  /\ Become(r, Idle)
  /\ UNCHANGED <<accounts, prepared, windowed, previews, revisions>>

(***************************************************************************)
(* Certificate revision                                                    *)
(***************************************************************************)

\* The permission may be read long before the job is released.
BeginRevision(r, user) ==
  /\ req[r] = Idle
  /\ Can(user, "revise_released_certificate")
  /\ Become(r, [pc |-> "admitted", user |-> user])
  /\ UNCHANGED <<accounts, state, trail, prepared, windowed, previews,
                 certificates, revisions>>

\* The id that the client sent is looked at only now.
ReadForRevision(r, id) ==
  /\ req[r].pc = "admitted"
  /\ \E c \in certificates : c.id = id
  /\ state = "released"
  /\ Become(r, [pc |-> "revising", user |-> req[r].user, id |-> id])
  /\ UNCHANGED <<accounts, state, trail, prepared, windowed, previews,
                 certificates, revisions>>

CommitRevision(r) ==
  /\ req[r].pc = "revising"
  /\ revisions' = revisions \cup {[of |-> req[r].id, by |-> req[r].user]}
  /\ UpdateState("released", "revised", req[r].user)
  /\ Become(r, Idle)
  /\ UNCHANGED <<accounts, prepared, windowed, previews, certificates>>

(***************************************************************************)
(* User management                                                         *)
(***************************************************************************)

BeginManaging(r, user, change) ==
  /\ req[r] = Idle
  /\ Can(user, "manage_users_and_roles")
  /\ Become(r, [pc |-> "managing", user |-> user, change |-> change])
  /\ UNCHANGED <<accounts, state, trail, prepared, windowed, previews,
                 certificates, revisions>>

\* No account has no roles, and none is ever removed or activated again.
HasAccount(user) == accounts[user].roles # {}

ChangedAccount(change) ==
  CASE change.name = "create_user" -> [roles |-> change.roles, active |-> TRUE]
    [] change.name = "change_roles" ->
         [accounts[change.target] EXCEPT !.roles = change.roles]
    [] change.name = "deactivate" ->
         [accounts[change.target] EXCEPT !.active = FALSE]

\* The change is written whatever has become of the administrator's account.
CommitManaging(r) ==
  LET change == req[r].change
  IN /\ req[r].pc = "managing"
     /\ HasAccount(change.target) <=> change.name # "create_user"
     /\ accounts' = [accounts EXCEPT ![change.target] = ChangedAccount(change)]
     /\ Become(r, Idle)
     /\ UNCHANGED <<state, trail, prepared, windowed, previews, certificates,
                    revisions>>

(***************************************************************************)
(* A request ends without effect: a check failed, the compare-and-set or a *)
(* key conflicted, the lock timed out, or the process was restarted.       *)
(***************************************************************************)

Fail(r) ==
  /\ req[r] # Idle
  /\ Become(r, Idle)
  /\ UNCHANGED <<accounts, state, trail, prepared, windowed, previews,
                 certificates, revisions>>

(***************************************************************************)
(* Specification                                                           *)
(***************************************************************************)

InFlight(user) == {q \in Requests : req[q] # Idle /\ req[q].user = user}

\* A job that was just calculated: somebody created, prepared and calculated
\* it, somebody selected its windows, and late entries may still be in flight.
Init ==
  /\ accounts = [u \in Users |->
                   [roles |-> UserRoles[u], active |-> UserRoles[u] # {}]]
  /\ state = "calculated"
  /\ trail = <<>>
  /\ prepared \in SUBSET {u \in Users : HasAccount(u)}
  /\ prepared # {}
  /\ windowed \in SUBSET {u \in Users : HasAccount(u)}
  /\ previews = {}
  /\ certificates = {}
  /\ revisions = {}
  /\ req \in [Requests ->
                {Idle} \cup {Entry(u) : u \in {v \in Users : HasAccount(v)}}]
  /\ overlapped = {r \in Requests :
                     req[r] # Idle /\ InFlight(req[r].user) # {r}}

Arrive(r, user) ==
  \/ \E step \in DOMAIN ReviewSteps : BeginReview(r, user, step)
  \/ BeginUpload(r, user)
  \/ \E variant \in Variants : BeginPreview(r, user, variant)
  \/ \E route \in Routes, id \in CertificateIds, variant \in Variants :
       BeginRelease(r, user, route, id, variant)
  \/ BeginRevision(r, user)
  \/ \E change \in AccountChanges : BeginManaging(r, user, change)

Proceed(r) ==
  \/ ReadForReview(r)
  \/ CommitReview(r)
  \/ CommitEntry(r)
  \/ CommitPreview(r)
  \/ RenderForRelease(r)
  \/ RecheckRelease(r)
  \/ ReadReleaseState(r)
  \/ ReadReleaseEvidence(r)
  \/ CommitRelease(r)
  \/ CommitAllocatedRelease(r)
  \/ \E id \in CertificateIds : ReadForRevision(r, id)
  \/ CommitRevision(r)
  \/ CommitManaging(r)
  \/ Fail(r)

\* A second request of a user marks both as overlapped until they end.
NoteArrival(r, user) ==
  overlapped' = IF InFlight(user) = {} THEN overlapped
                ELSE overlapped \cup InFlight(user) \cup {r}

NoteProgress(r) ==
  overlapped' = IF req'[r] = Idle THEN overlapped \ {r} ELSE overlapped

Next ==
  \E r \in Requests :
    \/ \E user \in Users : Arrive(r, user) /\ NoteArrival(r, user)
    \/ Proceed(r) /\ NoteProgress(r)

Spec == Init /\ [][Next]_vars

(***************************************************************************)
(* Properties                                                              *)
(***************************************************************************)

TransitionEvent == [from : WorkflowState, to : WorkflowState, by : Users]

CertificateRecord ==
  [ id : CertificateIds, variant : Variants, route : Routes,
    approvedBy : Users, releasedBy : Users ]

Request ==
  [pc : {"idle"}]
  \cup [pc : {"entering"}, user : Users]
  \cup [pc : {"checked", "read"}, user : Users, step : DOMAIN ReviewSteps]
  \cup [pc : {"previewing"}, user : Users, variant : Variants]
  \cup [pc : {"accepted", "rendered", "rechecked", "approved"}, user : Users,
        route : Routes, id : CertificateIds, variant : Variants]
  \cup [pc : {"evidenced"}, user : Users, route : Routes,
        id : CertificateIds, variant : Variants, approver : Users]
  \cup [pc : {"admitted"}, user : Users]
  \cup [pc : {"revising"}, user : Users, id : CertificateIds]
  \cup [pc : {"managing"}, user : Users, change : AccountChange]

TypeOK ==
  /\ accounts \in [Users -> [roles : SUBSET Role, active : BOOLEAN]]
  /\ state \in WorkflowState
  /\ trail \in Seq(TransitionEvent)
  /\ prepared \in SUBSET Users
  /\ windowed \in SUBSET Users
  /\ previews \in SUBSET Variants
  /\ certificates \in SUBSET CertificateRecord
  /\ revisions \in SUBSET [of : CertificateIds, by : Users]
  /\ req \in [Requests -> Request]
  /\ overlapped \in SUBSET Requests

\* The stage whose independence check a request in flight has passed.
PassedStage(request, stage) ==
  \/ /\ request.pc \in {"checked", "read"}
     /\ \/ request.step = "technical" /\ stage = "technical_review_approval"
        \/ request.step = "qa" /\ stage = "qa_release_approval"
  \/ /\ request.pc \in {"accepted", "rendered", "rechecked", "approved",
                         "evidenced"}
     /\ stage = "certificate_release"

\* As long as its user sends nothing else, a request's check once passed stays
\* true until it commits, whatever the other users' requests do meanwhile.
RequestsIndependent ==
  \A r \in Requests \ overlapped, stage \in ReviewerIndependenceStage :
    PassedStage(req[r], stage) => Independent(req[r].user, stage)

\* The job is approved once, by the time it is in state approved; so the
\* approval event that the release looks up is there and is unambiguous.
OneApproval ==
  /\ \A i, j \in Approvals : i = j
  /\ Approvals # {} <=> state \in {"approved", "released", "revised"}

\* What the requests in flight have read about the release stays true: the
\* approval, the preview and the certificate they saw are still there.
RequestsEvidenced ==
  \A r \in Requests :
    /\ req[r].pc = "approved" => Approvals # {}
    /\ req[r].pc = "evidenced" =>
         /\ \E i \in Approvals : trail[i].by = req[r].approver
         /\ req[r].variant \in previews
    /\ req[r].pc = "revising" =>
         \E c \in certificates : c.id = req[r].id

MadeTransition(user, target) ==
  \E i \in 1..Len(trail) : trail[i].to = target /\ trail[i].by = user

\* However many release and revision requests race over the three endpoints,
\* a job has exactly one certificate once it is released and none before, and
\* a revision of that certificate exactly when it is revised.  No key of the
\* database limits a job to one certificate: only the compare-and-set does.
OneCertificate ==
  /\ \A c, d \in certificates : c = d
  /\ certificates # {} <=> state \in {"released", "revised"}
  /\ \A v, w \in revisions : v = w
  /\ revisions # {} <=> state = "revised"
  /\ \A v \in revisions : \E c \in certificates : c.id = v.of

\* A released certificate quotes the user who really approved the job and the
\* one who really released it, and was rendered from a variant that somebody
\* previewed.  The fallback that names the releaser as approver never shows.
CertificateEvidence ==
  \A c \in certificates :
    /\ MadeTransition(c.approvedBy, "approved")
    /\ MadeTransition(c.releasedBy, "released")
    /\ c.variant \in previews

\* Each step of the reviewed job implements the abstract life of a job: the
\* state, the compare-and-set and the audit entry move together.
Lifecycle == INSTANCE JobLifecycle WITH StartState <- "calculated"
LifecycleSpec == Lifecycle!Spec

\* The step that approves the technical review, approves the release or
\* releases the certificate is taken by a user who, at that very step, has no
\* preparation event on the job and took no earlier step of the review chain.
\* This is what a request that no other one of its user overlaps guarantees.
IndependentStep ==
  state' # state /\ state' \in {"qa_review", "approved", "released"} =>
    LET actor == trail'[Len(trail')].by
    IN  /\ actor \notin prepared
        /\ \A i \in 1..Len(trail) : trail[i].by # actor

StepIsInTurn == \A r \in Requests : req'[r] # req[r] => r \notin overlapped

IndependentReview == [][StepIsInTurn => IndependentStep]_vars

\* The same for the allocating endpoint alone, whatever else its user sends at
\* the same time: it repeats the check under the write lock.
AllocatedStep ==
  \A c \in certificates' \ certificates :
    c.route = "allocate" =>
      /\ c.releasedBy \notin prepared
      /\ \A i \in 1..Len(trail) : trail[i].by # c.releasedBy

AllocatedReleaseIndependent == [][AllocatedStep]_vars

\* The independence stage of the step that leaves a state.
StageToLeave ==
  [ technical_review |-> "technical_review_approval",
    qa_review |-> "qa_release_approval",
    approved |-> "certificate_release" ]

PermissionFor ==
  [ technical_review_approval |-> "approve_technical_review",
    qa_release_approval |-> "approve_qa_release",
    certificate_release |-> "release_certificate" ]

\* Everybody who may take the job's next step is barred from it, and no request
\* that passed its check earlier is still on its way.
DeadEnd ==
  /\ state \in DOMAIN StageToLeave
  /\ LET stage == StageToLeave[state]
     IN  /\ \A u \in Users :
              Can(u, PermissionFor[stage]) => ~Independent(u, stage)
         /\ \A r \in Requests : ~PassedStage(req[r], stage)

\* Nobody may change an account, and nobody who was allowed to still will.
NobodyManages ==
  /\ \A u \in Users : ~Can(u, "manage_users_and_roles")
  /\ \A r \in Requests : req[r].pc # "managing"

\* An administrator's request gives an independent user the missing permission.
FreshReviewer(r) ==
  \E user \in Users, stage \in ReviewerIndependenceStage :
    /\ StageToLeave[state] = stage
    /\ req[r].pc = "managing"
    /\ req[r].change.target = user
    /\ Independent(user, stage)
    /\ ~Can(user, PermissionFor[stage])
    /\ Can(user, PermissionFor[stage])'

\* A job that has run out of independent people stays where it is, whatever
\* requests race on it: events are never removed, and no endpoint sends a job
\* back or voids it.  Only user management frees it, by giving the permission to
\* an independent user; once nobody may manage users either, it is stuck for
\* good.
OnlyAccountsFreeADeadEnd ==
  [][DeadEnd =>
       /\ state' = state
       /\ DeadEnd' \/ \E r \in Requests : FreshReviewer(r)
       /\ NobodyManages => DeadEnd' /\ NobodyManages']_vars

\* What the implementation log says of reviewer independence: nobody who
\* submitted, reviewed or approved a job takes a later step of its chain.  The
\* code does not keep it: two requests of one user may pass the check together,
\* which is why IndependentReview speaks of requests in turn.
StageActorsDistinct ==
  \A i, j \in 1..Len(trail) :
    i < j /\ trail[j].to \in {"qa_review", "approved", "released"} =>
      trail[i].by # trail[j].by

\* What the list of preparation actions says of window selection: whoever
\* selected the windows a job was calculated from takes no later step of its
\* review chain.
WindowSelectorsStayOut ==
  \A i \in 1..Len(trail) :
    trail[i].to \in {"qa_review", "approved", "released"} =>
      trail[i].by \notin windowed
==============================================================================
