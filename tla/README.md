# A verification project for the SIMVal calibration-certificate application

The application takes a calibration job from its first metadata to a released,
immutable PDF certificate. It is a FastAPI service over one SQLite database and
one directory of artifact files. Its regulated promises are about *evidence*: a
certificate exists only for a job that was reviewed by independent people, it
quotes the people and the versions that are really in the audit trail, its
number is its own, and its PDF can be retrieved unchanged for as long as it is
kept. This project models the parts of the code those promises rest on, checks
them with TLC on small instances and proves the most important ones with TLAPS
for every value of the constants.

Paths below are relative to the repository; `services/`, `persistence/`,
`certificates/`, `api/`, `auth/`, `domain/` are under `app/backend/`.

## 1. The system

### How a request runs

Endpoints are synchronous functions, so FastAPI runs each request in a thread of
its pool; every request opens its own SQLite connection
(`api/database.py`, `sqlite_connection_scope`). Services wrap their work in
`with connection:`. In Python's `sqlite3` that does **not** begin a
transaction: the first `INSERT`, `UPDATE` or `DELETE` does. Therefore

* every `SELECT` before the first write is an autocommit read of whatever is
  committed at that moment, and another request may commit between two of them;
* from the first write to the commit a request holds the database's only write
  lock, so everything in between is atomic against other writers;
* a request that fails, conflicts with a key, or waits longer than the busy
  timeout rolls back.

This is the grain of atomicity of every module here. Where the code defends
itself, it does so with a compare-and-set (`update_state ... WHERE id = ? AND
state = ?`), with primary and unique keys, and with triggers that refuse updates
and deletes on evidence tables.

### Components

| Component | State | Operations | Hard behaviour | What makes it correct |
|---|---|---|---|---|
| Workflow rules (`domain/workflow.py`, `auth/permissions.py`, tables of `services/reviewer_independence.py`) | constants | look-ups | an edit of the table breaks what others rely on | no state entered twice, no review skipped |
| Job state machine (`services/workflow.py`, every service that transitions a job) | `calibration_jobs.state`, `audit_events` | one or two transitions in one transaction | two requests that read the same state | state and trail move together |
| Review workflow (`services/review_workflow.py`, `services/reviewer_independence.py`) | reads the audit trail | submit, approve technically, approve for QA | the check precedes the transaction | reviewers are independent |
| Preview, release, revision (`services/certificates.py`) | `certificates`, `certificate_revisions`, previews in the audit trail | preview, three release routes, revise, history, download | several reads, then one write; three routes with different locking | one certificate per job, quoting true evidence |
| Certificate numbers (`services/certificate_numbers.py`) | `certificate_number_sequences` | create, allocate, retire | read-modify-write without a comparison | numbers unique, retirement final |
| Artifact storage (`certificates/storage.py`, cleanup script) | files `<number>.pdf` and `.<number>.pdf.pending` | stage, finalize, discard, verify, clean up | crash between commit and final file, cleanup beside requests | a released PDF stays retrievable and unchanged |
| Source file uploads and import review (`services/source_file_uploads.py`, `import_review.py`) | stored bytes, `uploaded_files`, `parsed_readings` | upload, review | bytes first, transaction second; a review of several reads | bytes, rows and readings agree |
| Temperature preparation (`services/data_entry.py`, `measurement_windows.py`, `temperature_calculations.py`, `verification_transcription.py`) | DUTs, setpoints, links, windows, summaries | enter, link, select, complete, calculate | a job that can get stuck; duplicates | what is calculated covers every DUT and setpoint once |
| Pressure preparation (`services/pressure_*.py`) | the same tables | enter and complete in one step, calculate | two transitions in one transaction | as above |
| Schema bootstrap and migrations (`persistence/migrations.py`, `schema_bootstrap.py`) | schema, migration history | bootstrap on every connection | concurrent bootstraps, crash inside a migration | a connection that opens has a complete schema |
| Identity and sessions (`services/authentication.py`, `user_management.py`, `entra_authentication.py`, `operations/user_bootstrap.py`) | users, sessions | log in, expire, revoke, change roles, first user | a check that is stale when the write happens | every change was made with authority, and the trail says so |
| Constants and budgets (`services/version_management.py`) | versions and their approval | approve | the same stale check | budgets name approved constants |
| Calculation engine (`app/calculation_engine`) | none | pure arithmetic | rounding at boundaries | reported digits follow the rule |
| Parsers (`imports/`) | none | workbook, pressure CSV, transcribed table | cells that are numbers to one step and not to the next | readings are the file's numbers |
| Rendering and template contract (`certificates/rendering.py`, `template_contract.py`) | none | pages, contract | renderer and contract count and search apart | every row on one page; what was previewed can be released |
| Backup and restore (`operations/backup.py`) | copies of the database | back up, verify, restore | database and files of different moments | restored numbers are not reissued |
| HTTP API (`api/app.py`) | none | 44 endpoints | checks before the user is known; errors no handler names | a table of permissions and errors |
| Operator page (`ui/workflow.py`) | fields, pills, stored session | the one-click script and single buttons | overlapping scripts, lost answers, reloads | what it calls done is stored |
| Readiness, validation reports | none of their own | reports | none that is concurrent | section 7 |

Components interact through the database (the audit trail is the medium of the
independence check and of the approval evidence), through one call chain
(release → number allocation → rendering → staging → record → transition →
finalization) and through the file system, which does not roll back when the
database does. The operator page drives all of it through the API, one awaited
call after another, and every request first bootstraps the schema of its own
connection.

## 2. The modules

| Module | Models | Extends |
|---|---|---|
| `WorkflowRules` | the transition table, roles and permissions, independence tables | |
| `JobLifecycle` | **abstract**: what the application promises of one job's state and trail | `WorkflowRules` |
| `JobPreparation` | **detailed**: requests that enter, transcribe, select windows for and calculate one job | `WorkflowRules`; instantiates `JobLifecycle` |
| `ReviewRelease` | **detailed**: requests that review, preview, release and revise one job, while accounts change | `WorkflowRules`; instantiates `JobLifecycle` |
| `CertificateNumbers` | one number sequence under overlapping requests | |
| `ArtifactStore` | pending and final files against releases, downloads, crashes, cleanup | |
| `HttpApi` | the endpoints: permission, early checks, caught errors, status; the roles the page offers them to | `WorkflowRules` |
| `OperatorConsole` | the browser page and its scripts against the services, one step per service | `HttpApi` |
| `Accounts` | users, sessions, approved versions, under overlapping requests and a clock | `WorkflowRules` |
| `Installation` | the database file: bootstraps, releases of the software, backups, restores, and the PDFs beside it | |
| `SourceFiles` | parsers as operators; uploads, transcription, import review | |
| `Reporting` | rounding and combination of uncertainties, as operators | |
| `CertificateContent` | one job's points, rows, previews, pages and the template contract | `Reporting` |
| `MC*` | values for the constants, symmetry | their module |
| `Certificates_proofs` | theorems about `JobLifecycle`, `CertificateNumbers` and `CertificateContent` | the three, `TLAPS` |
| the other `*_proofs` | theorems | their module and `TLAPS` |

### JobLifecycle

`state` is the job's row, `trail` its `WORKFLOW_TRANSITIONED` events in order.
`Move` is one service call (`transition_calibration_job`, `update_state`, append
the event); `MoveThrough` is the step of the two pressure-entry services, which
cross `data_entered` and `windows_selected` in one transaction. `StartState` is a
parameter, so that the same module serves a job from `draft` and the reviewed
half of its life.

### JobPreparation

One job of either discipline from `draft` to `calculated`. Most services read only
what grows or what belongs to the state they compare again when they write
(`update_state`), so that reading early admits nothing that reading at the commit
would not: they are one action each (`CaptureMetadata`, `SelectEquipment`,
`PrepareTemperatureDataEntry`, `EnterPressure`, `CompleteWindowSelection`,
`CalculatePressure`). Three are not like that. A transcription and a window
selection compare nothing when they write (`CommitTranscription`,
`CommitSelection`); a calculation uses the windows and links it read
(`BeginCalculation`, `ReadLinksForCalculation`), and compares only the state.

A reading is a workbook, a channel and a time. `transcriptions` stands for two
tables that are written together, the reference readings and the links:
`Links(reading)` are the links a reading has. What a reading is worth, and the
arithmetic of a point, do not decide which windows a calculation uses and are left
out; that a point needs two readings is kept (`Referenced`). Uploads can happen in
any state, so a file not uploaded yet is one no request names yet, and the files
are constants. The constants and budget a calculation names are taken as approved.

### ReviewRelease

One job from `calculated` on. A request is a record in `req[r]` with a program
counter and what it has read; each `Begin...` is everything before the first
point where another request can interfere, each `Read...` one autocommit read,
each `Commit...` a write transaction. The three release routes differ exactly as
in the code: registering an external file skips the rendering reads; registering
and rendering repeat their checks before the first write (three separate reads:
`RecheckRelease`, `ReadReleaseState`, `ReadReleaseEvidence`); the allocating
route writes the sequence first and so has the whole check under the lock
(`CommitAllocatedRelease`). `Fail` is any end without effect.

`prepared` is the set of users with a preparation event of entity
`calibration_job`; `windowed` the users who selected windows, whose events have
another entity. Uploads are admitted in any state (`BeginUpload`, `CommitEntry`),
and the initial state has late entries in flight: a manual transcription admitted
earlier does not look at the state again.

`accounts` holds the roles and the active flag of each user, because who may take
the next step of a job changes while the job is under review
(`services/user_management.py`). `BeginManaging` is the check of the
administrator, `CommitManaging` the write of one of the three operations
(`create_user`, `change_roles`, `deactivate`), whatever has become of the
administrator meanwhile. `AccountChanges` are the changes that may be asked for. How accounts are
managed is the subject of `Accounts`; the session of a request and its expiry stay
there.

A request reads its permission once, first, and then its independence. The two
are one action: conflicts are only ever added, so whoever is independent at the
later read was so at the first. The reads of a preview's state are merged for the
same reason (a job does not come back into a state in which it can be previewed),
those of a revision are not: `BeginRevision` has the permission of an account
long before the job is released (`ReadForRevision`).

What a preview and a release must agree on (template, software and evidence
versions, accreditation mark) is one value of `Variants`. Suitability of the
equipment, summaries and metadata do not change after `calculated` and are left
out; `voided` is left out because no endpoint voids a job.

### CertificateNumbers

`sequence` is the row of one prefix, `log` the audit events of the sequence and
its numbers, `released` the certificates in order. `ReadSequence` is the
`SELECT` of `allocate_next`, `CommitAllocation` and `CommitRelease` are the
`UPDATE` (which sets the value *read* plus one) with what commits together.
`Number` is the formatting `f"{value:0{padding}d}"`, kept as what it identifies:
the value, and the width where zeros show. The specification is `CNSpec`, since
its proofs share a module with those of other specifications (`Spec` of
`JobLifecycle`, `CCSpec` of `CertificateContent`).

### ArtifactStore

A file is named after its certificate number, so a number stands for the file and
a job for the bytes of its certificate. Each system call is a step: the existence
check, the exclusive open (the file exists but is `Truncated`), the write, the
commit, the exclusive open of the final file, the copy, the unlink. `writer` is
the database's write lock, which an allocated release holds from its allocation
to its commit. `Fault` is a failed write or unlink, `Crash` kills every request;
files stay, open transactions do not. `PlaceFile` is the administrator who puts a
PDF into the directory for the manual route. `Cleanup` deletes any pending file.

### HttpApi and OperatorConsole

`Endpoints` is a table of constants: what each handler lets its service check,
which error classes it turns into 409 and what it looks at before it opens a
connection. `Status` follows: an error class no handler names is a 500.
`ContractAssumption` says that the page offers no role an operation its
permissions refuse; TLC evaluates it in the `console` run.

`OperatorConsole` composes that table with the page. A script is a sequence of
calls; `Click` computes the identifiers it holds (`Context`), `Answer` is the
service (`Error`, `Serve`), `Receive` what the script does with the answer,
`Lose` a connection that fails before or after the service did its work, `Reload`
a page that starts over while its calls are still answered. Nothing disables a
button, so two scripts may be under way. On localhost each call uses the session
of a laboratory account; elsewhere every call uses the field. A service is one
step, since its inner steps are in `JobPreparation` and `ReviewRelease`. The
one-click script resets the visible fields to their defaults before it reads
them, so `Numbers` are the default and the sample's, never a typed one.

### Accounts

`Begin` takes the time, `ReadSession`, `ReadUser` and `ReadPrevious` are the
autocommit reads of a request (`_resolve_user_for_session`, then the value an
audit event calls previous), and each operation is its write with its event.
Nothing that was read is compared again, except the revocation's
`WHERE revoked_at IS NULL`. `BeginBootstrap` and `CommitBootstrap` are the
command that makes the first user: it counts users before it writes.
`BeginEntraSession` is a token that names the address of exactly one active user;
its verification is outside. `began` and `at` of an event are kept so that
properties can say what its request may have seen; no guard reads `began`.

### Installation

Python's `sqlite3` runs DDL and scripts outside a transaction, so each step of
`bootstrap_sqlite_schema` is an action: the tables, the look for the status
column, `ALTER TABLE`, the marker, the check of the plan, each migration's script
and its history row. `Plan` gives each release of the software its migrations;
the code has one migration, and the runs add a second release with one that
cannot run twice, because the order of script and history row only matters then.
`Issue` is a release with an allocated number, one step here. `BeginBackup` to
`FinishBackup` and `BeginRestore` to `FinishRestore` are the maintenance
commands, which run beside the API; `KillRequest`, `KillCommand` and the `Fail...`
actions are faults; `Restart` starts the API on any release and any file nobody
is restoring to.

### SourceFiles

The parsers are operators of what a file holds: cells are naturals, or one of
`Blank`, `Text`, `NotFinite`. A workbook that breaks the contract fails and is
kept; an exception the upload does not know ends it. `StoreBytes` comes before
the transaction, `CommitUpload` and `FailUpload` end it. A checksum is the content
itself. `CountReadings` and `ReadResult` are the two reads of each file in an
import review. `Transcribe` and `PrepareDataEntry` are one step, since
`JobPreparation` has their interleavings.

### Reporting and CertificateContent

Numbers are integers in units of `10^-Decimals`; squares are held twelvefold so
that a resolution's divisor 12 and a coverage factor 2 are exact. `Total` adds one
value after the other; `Root` is the number whose square is the last one not above
the argument. `SetupType` and `PointType` are what the input classes admit, so that
every plan of such points is covered. `RoundedUncertainty` and `RoundedResult` follow
`common/rounding.py`, `Parts` the contributions of both disciplines.
`CertificateContent` takes one job from its points (`Calculate`) through previews
(`GeneratePreview`) to the pages (`Pages`) that `Release` holds against
`MeetsContract`; `InOrder` is the grouping of rows by device in the order of their
ids. A text is its length, whether it survives PDF escaping and
whether it names a placeholder, because that is all the contract can trip over.

## 3. What the guarantees are conditional on

Some promises hold only while clients behave in a way the code does not enforce.
Where the condition is about the past of a behaviour it is a *history variable*
that the actions record and no guard reads, so that one specification covers both
cases and the property says which one it is about:

* `ReviewRelease.overlapped` — the requests in flight that were in flight
  together with another request of the same user. `RequestsIndependent` and
  `IndependentReview` speak of the others. The API lets a user overlap requests.
* `CertificateNumbers.overlapped` — whether two requests on the sequence have
  been in flight at once. The `...InTurn` properties, `NextIsFree` and
  `OneCertificatePerValue` speak of histories without an overlap.
* `CertificateNumbers!TypedFromSequence` — the clients have only typed numbers
  that the sequence had given out: a condition of the last two.
* `JobPreparation.overlapped` — whether a request has begun, or committed at
  once, while another was in flight. The `...InTurn` properties speak of
  histories without that.
* `SourceFiles.excused` — ids whose upload met a crash, a failed write, or a
  blank parser version, which is refused only after the bytes are written.
* `Installation.copied` — how many backups were begun for each second, and what
  they copied. `PassedDrillRestoresCopy` speaks of seconds with one backup.
* `ArtifactStore.lost` — certificates whose last bytes the cleanup deleted.

One assumption is a constant: `ArtifactStore.PromptRequests`, no request lives
longer than the cutoff of the cleanup (a day in the runbook's example). The
`artifacts` run and the theorems that name it assume it; `artifacts_retry` does
not, so that a stalled request may find its pending file gone.

## 4. The runs

| Run | Checks | Bounds |
|---|---|---|
| `preparation` | each planned point calculated exactly once; refinement of `JobLifecycle`; while requests come in turn, one reference per reading, no window left out, and only the operator's own windows make a job impossible to calculate | 1 user, 2 requests, 2 workbooks, 2 verification files, 2 setpoints, 2 window ids |
| `review_release` | evidence that stays true, refinement of `JobLifecycle`, independence of every step whose user overlaps nothing, and of the allocating route always; a job that ran out of independent people stays where it is until user management gives an independent user the permission, and for good once nobody may manage users | 4 users of separate roles, one of them without an account at first; 3 account changes, 2 requests, 2 certificate ids, 1 variant |
| `review_windows` ✗ | a window selector stays out of the review chain | 4 administrators, no account changes, 2 requests, 2 certificate ids, 1 variant |
| `numbers` | uniqueness, finality of retirement, no wedge and one certificate per value while requests come in turn; one retirement, though administrators race | 3 requests, `MaxEvents` = 4 |
| `artifacts` | downloads and answered releases under faults and cleanup; nothing but the cleanup loses a released PDF | 2 jobs, 2 requests, 2 numbers, 2 faults |
| `artifacts_retry` | a retried release succeeds, however long requests stall | as above, nothing typed or placed by hand |
| `console` | pills backed by what is stored; a finished one-click run did every step itself, with four people at its reviews | 2 jobs, 2 scripts, 2 clicks, 1 edit or reload, 2 windows, 2 setpoints, 5 accounts |
| `accounts` | authority at some moment of each request; a trail that can be replayed; lock-out is final | 2 accounts, 2 sessions, 2 requests, 2 times, 3 events |
| `installation` | an open connection has a complete schema; history follows a plan; no number answered twice, after a restore too; a passed drill restored the copy | 2 connections, 1 operator, 2 files, 2 releases, 2 certificates, 1 restart, 1 fault |
| `source_files` | bytes and rows agree; readings are the file's numbers; a review shows what the file holds | 2 jobs, 3 file ids, 2 requests, 8 kinds of upload, 3 tables |
| `certificate_content` | rounding against its definition; monotone uncertainties; each row on one page; a previewed job can be released | 1137 plans of up to 5 rows, 8 jobs, 2 rows a page |
| `rounding_result` ✗ | the result is rounded to the least significant digit of the uncertainty | as above |

✗ marks the runs whose property the repository states and the code does not keep;
TLC shows the counterexample. Section 6 describes them and the other disagreements.
Type correctness and the auxiliary invariants that the proofs of section 5
establish for `JobPreparation`, `ReviewRelease`, `CertificateNumbers`, `ArtifactStore`
and `Accounts` are not among their runs' properties. `JobLifecycle` has no run of its
own: `preparation` and `review_release` check that the requests implement it, and
what it says of a job by itself (`ReleasedOnlyAfterReviews`) is proved.

*Why these bounds are enough.* Four users are the length of the chain (submit,
technical, QA, release). Two requests suffice for every interference in this
code: a request reads, another commits, the first commits; a third request can
only repeat the second's part. Two certificate ids are needed for two releases
of one job that do not collide on the primary key. The three account changes give
the fourth person an account, then the permission to approve and release, and
deactivate the only administrator: a job meets dead ends at each of its three
review steps, is freed from those at the last two, is stuck for good, or is released
by people in turn. In `JobPreparation` no guard or property
compares users beyond their permission, so one is enough; two windows and two
setpoints give a complete plan, a missing point, a duplicate window and a late
one; three readings give a window of one and of two readings and a workbook whose
channel is not among the DUTs. In `CertificateNumbers` three
requests let two allocations overlap a retirement. Two numbers in `ArtifactStore`
are the one that is blocked and the next one, and only one of them can be placed
by hand, so that a final file under the other can only come from a release. Two
faults are a crash and a second one during the recovery from it. Two scripts of
the page are one and the script that overtakes it; five accounts are the four
laboratory ones and an administrator in the session field. In `Accounts` three
events are a first user, a change and a change that overtakes it, and two times a
session that expires in between. In `Installation` one operator suffices because
two backups of one second are outside what the code promises (section 6), and one
restart reaches the other release, the restored file, or both. The plans of
`certificate_content` pair every setup of a grid around powers of ten and CMC
floors with marks to compare it with, and list every order of two devices in up to
five rows, which is every case of a page break at two rows a page (the code has
34).

*Symmetry and view.* Users, requests, ids, sessions, connections and variants are
permuted only in runs without liveness. In `review_release` the
users differ in their roles and only requests and certificate ids are permuted; in
`review_windows` all are administrators, the weakest separation the permission
matrix allows, which makes them interchangeable. The proofs hold for any roles and
any changes of accounts. `review_release` uses a `VIEW` that drops `windowed`,
which no action reads or writes and no property of this run mentions.

*Fairness.* Only `ArtifactStore.FairSpec` states it: weak fairness of each
request's own steps (`Proceed`: the thread pool keeps running its threads, and
the write lock is always given back) and of the cleanup (it is scheduled).
Nothing obliges a client to send a request or a fault to happen, and the property
it serves is conditional: a job whose release is tried again and again. Releases
of the other modules have no liveness property, because nothing in the code makes
a reviewer act.

*Deadlock* is checked except where the system really stops: a job that is
calculated or can no longer be, an artifact store in which every job is
released, a certificate that is released or refused by the contract, and the bounded runs of the console, the accounts, the installation and
the source files once their bounds are used up.

## 5. What is proved

Each theorem is of the form `Spec => []Inv`, `Spec => [][A]_vars` or, for a
refinement, `Spec => LifecycleSpec`, for any users, roles, requests, ids and
bounds. What the modules assume of their constants is their types, with three
exceptions that say something about the world:

* `ArtifactStore.PromptRequests` (section 3), a hypothesis of the theorems that
  need it;
* `Installation.PlansAssumption`: no plan names a version twice, which
  `_validate_migration_plan` refuses, and the plans of two releases agree as far
  as both go. Nothing checks the second; the migration history counts on it;
* `SourceFiles.UploadsAssumption`: a file has finitely many rows and loggers.

**JobLifecycle.** `ReleasedAfterReviews` is in `Certificates_proofs`; the other
theorems are in `JobPreparation_proofs`, about `Life(Start)`, the instance of
`JobLifecycle` for any starting state, where the requests of `JobPreparation` use
them: `LifeTypeCorrect`, `LifeTrailIsPath`, `LifeEntersOnce`. "No state twice" is
not inductive: the strengthening is `Ranked`, the rank of states increases along
the trail and the current state ranks above every state entered. "Reviews before
release" follows from the predecessor that each state has on a path from `draft`
(`Behind`). `PreparedTrailTellsState` draws the conclusion for the requests of
`JobPreparation`.

**ReviewRelease.** `TypeCorrect` carries `OneApproval` along: the job is approved
once, exactly when its state is `approved` or later. On it rest `EvidenceStands`
(what a request in flight has read stays true), `OneCertificateEach`,
`EvidenceIsTrue` and `ImplementsLifecycle`: `ReviewRelease` implements
`JobLifecycle` step by step, each commit being a `Move` and everything else a
stutter. `AllocatedIndependence` holds however users overlap their requests.
`ChecksStand` carries `OverlapsMarked` along: a request in flight that is not
marked has its user to itself, so that a check once passed is not invalidated by
another request's commit; `ReviewerIndependence` follows for every step of such a
request. `DeadEndsNeedFreshReviewers` needs no more than types: events only
accumulate (`Growth`), what arrives has passed the check at that moment
(`Arrivals`), a state under review is left only by a request that passed its check
(`LeavingNeedsCheck`), and accounts are written by `CommitManaging` alone, so that
a user who may take the step and could not before is the one it changed
(`GainedPermission`). The converse is not claimed: an administrator may give the
permission to a user who is barred as well.

**CertificateNumbers** (in `Certificates_proofs`). Whatever overlaps:
`NumbersTypeCorrect`, `RetirementIsOnce`, `RetirementIsForever`,
`ReleasesAreLogged`. The first invariant behind them is that a logged retirement
means a retired sequence. As long as nothing has overlapped, one inductive
invariant (`SerialInvariant`) says that the request in flight has read the current
row and that every logged value is below `next`; `SerialIssue` and
`SerialRetirement` follow, and with `ReleasesSettled` (every released number that
was not typed is in the log) also `SerialNextIsFree` and `SerialCertificates`.

**JobPreparation.** Every property of its passing run. `TypeCorrect`;
`ImplementsLifecycle`, with pressure entry as the one step that crosses two states.
`OneWayIn` and `PlanCovered` rest on `EntryInv`: what a request in flight has read
(`InStep`) is still so when it writes, because once data are entered the plan is
fixed, windows and links are only added and the state only goes on (`PlanKept`);
so a transcription or a selection admitted for a temperature job cannot meet a
pressure one, and the points a calculation computed cover the plan it commits to.
As long as no requests have overlapped, `SerialInv` says that at most one is in
flight and that what it has read is all there is (`InTurn`), and that at most one
transcription was made; `LinkedOnceWhileInTurn` and `CalculatedFromAllWindows`
follow, and with `CompletedIsCovered` (windows once complete stay complete)
`CompletedIsCalculable`.

**ArtifactStore.** Every property of the `artifacts` run. `TypeCorrect` includes
the write lock: whoever holds it is an allocated release before its commit.
`TargetInv` is about final files: a request that is copying found the file absent
and is the only one to copy into it (`OneCopier`), which gives `FinalsReleased`,
`FinalsImmutable` and `DownloadsFaithful` for any behaviour, however long requests
live. `PdfsKept`, `AnsweredRetrievable` and `NothingLeftPending` assume
`PromptRequests`: the exclusive open leaves one request to each pending file
(`OneStager`) only if the cleanup does not delete a file in use. Their invariant
(`KnowsPending`) says that a request finds in its pending file the bytes it wrote,
and that the certificates which had that file name before it are complete, so that
writing or discarding it costs nobody a PDF.

**Accounts.** Every property of its run, for any accounts, sessions, versions and
requests and any interleaving of them; the bounds `MaxTime` and `MaxEvents` are
arbitrary. `TrailReplays` rests on `TrailInv`: an account's roles are those of the
latest event that gave any (`LatestIsThere`), events name accounts and sessions there are, and what a request read
as the previous value is what the log says for as long as no event has touched it
since the request began (`PreviousKnown`). That last conjunct is why the property
can promise an accurate previous value except where another request overtook the
writer. `ActorsHadAuthority` rests on `AuthorityInv`: whoever is past a check held
what the check asks for at some moment between the beginning of the request and now
(`ChecksHeld`) — not at the write, which the code does not promise. `LockoutStays`
is about steps: from a state without an active administrator and without an
admitted request, no step, the bootstrap command's included, leads out.

**Installation.** Every property of its run, for any connections, operators,
files, plans, restarts and faults. `OpenSchemaIsComplete` and `HistoryIsAPlans`
rest on `SchemaInv`: where a connection's bootstrap has got to (`Progress`: the
column, the marker, the migrations before the one it is at) is in the file it
works on, whoever put it there, because none of it is ever taken back; and each
file and each backup `Follows` some release's plan with at most the next migration
run and not yet recorded, the trace a kill between the script and its history row
leaves. `AnsweredNumbersStand` needs one thing of every file, that a PDF once
answered is never rewritten (`NumbersInv`): uniqueness across restores comes from
the exclusive open of the final file, not from the restored sequence.
`PassedDrillsRestoreCopies` rests on `BackupInv`: in a second in which one backup
was begun there is no evidence of it before it is verified, and then the evidence
is of a copy of the live database that still stands (`Described`).

**SourceFiles.** Every property of its run, for any jobs, uploads, tables and
requests, and workbooks of any size. `IInv` has a part for each table: an upload
in flight has its id to itself, its row is not there yet and its bytes are where
its step says (`BytesInv`); result and readings of a file are what the parser made
of its bytes (`ResultsInv`); the count an import review has read is still the
file's when it reads the result (`ReviewInv`), since readings are written once, with
the row or with the entry; and each line it has collected is right (`LinesInv`).
`BytesStayWithRows`, `ReadingsAreOfTheBytes` and `ReviewsShowTheFiles` are parts of
it. How many readings a workbook has is counted with the lemmas on the cardinality
of finite sets, not by induction over rows.

**OperatorConsole.** Every property of its run, for any jobs, fields, accounts,
setpoints, scripts and clicks. `JobsInv` is what the services keep of each job:
the states entered are those up to its own (`Climbed`) and the people at its
reviews differ (`Independent`). `ScriptsInv` ties a script to it: every call a
script has behind it has had its effect, and the effect stands (`Accomplished`).
The effect is kept by every step of every other script because a job only gains
entries and an id only gains its first owner (`Grows`). A pill is set to Done by a
call that was answered 200, so `PillsAreBacked`; the end of the one-click script
has all nineteen calls behind it, each state entered by its own run, so
`FinishedRunsAreWhole`. That a call is never served twice is part of the same
argument: the second would find the job in another state (`ServedFrom`).

**CertificateContent** (in `Certificates_proofs`). Every property of its run, for
any jobs, plans, devices, texts, page and line lengths and any unit of up to eight
decimals: no bound of the run is left. `ContentHolds` is the inductive invariant: each row is
the one its point gives (`RowsOfPoints`), nothing exists before its step
(`NothingYet`), previews are of the whole calculation (`OtherTypes`) with equipment
that covers each of its rows (`PreviewsHold`), and a released document shows every row
on its page. The rest is about operators:

* *Rounding.* A value is rounded within its decade, up to the next power of ten
  (`RoundedDecade`), so the second significant digit of the floored uncertainty
  divides what is reported; `ReportedIsSound`, `ResultIsSound` and `ResultFollows`
  follow and give `UncertaintyAlwaysSound`. It promises the digit of the result
  only while that digit is not above the units (`rounding_result` refutes the
  rest), and says nothing of how many digits are shown (section 6).
* *Monotony.* `UncertaintyAlwaysGrows` goes along the chain of the computation: each
  contribution, their sum (`TotalMonotone`), the root (`RootMonotone`), the floor, and
  the rounding (`ReportedMonotone`), where a larger value may be rounded at a coarser
  place, or lifted to the floor, and still does not come out below a smaller one.
* *Pages.* `InOrderIs` says which rows a device has and that they are in order,
  `ChunksCover` that its chunks hold each of them once, `FlattenIs` where the pages of
  a device are in the document. `EveryRowAlwaysOnItsPage` follows.
* *Contract.* `PagesCounted`: the number of pages the contract computes from the
  rows of each device is the number the renderer made. `LinesRendered`: the lines
  it looks for are there, and any other is the customer's or a version line
  without text. With tidy texts that is `MeetsContract`, so
  `PreviewedIsAlwaysReleasable`.

What these operators compute is recursive, and an induction theorem takes an operator
as its parameter, which no installed prover can instantiate. The proofs go around it
with two lemmas on *sets* of numbers: `LeastNumber` (a set of naturals that is not
empty has a least one, from the well-foundedness of `<`) and `UpTo` (a set that has 0
and, below n, the successor of each member, has all of 0..n). A claim about a sum or a
sequence of pages is stated of the set of steps it holds for. For that the recursive
definitions are functions on the lengths they run over, and the type A variance needs
`SquaresOfDistances` and `VarianceNotNegative`, so that a root is only taken of a
natural number.

Two definitions changed because a proof failed. `UncertaintyGrows` compared
sensitivity coefficients as they are; the code takes the absolute value of the
contribution, so that a coefficient of -3 weighs more than one of 1, and the property
now compares magnitudes (the run has such a pair). `Repeatability` was a `CASE` whose
arms overlapped for a manual point with a paired setup.

**Only model-checked**: the liveness property (TLAPS proves no liveness under
fairness and no `ENABLED`) and the absence of deadlock. Every invariant and every
action property of the passing runs is proved.

## 6. Where the code and its documents disagree

The first two are the runs marked ✗. The others were met while modelling; the
models have the code's behaviour, and the passing runs say under which condition a
guarantee still holds.

* *Window selection does not count as preparation.*
  `services/reviewer_independence.py:33` lists its action, but its events belong
  to entity `measurement_window` (`services/measurement_windows.py:337`) and the
  check reads entity `calibration_job`. No race is needed: a technical reviewer
  may select windows and then approve the review.
* *The result is not always rounded to the least significant digit of its
  uncertainty* (`calculation_engine/common/rounding.py:64`), as the function's own
  comment (`:62`) and RND-002 (`Docs/P0/Test_Case_Catalog.md:191`) say. The
  uncertainty's decimal places are cut off at 0 (`:53`), so beside an uncertainty of
  120 the result has units. Counterexample of `rounding_result`: readings 3.1 apart
  with a budget of 123.4 are reported as an error of 3 with an uncertainty of 120.
* *Reviewer independence is checked before the transaction*
  (`services/review_workflow.py:123`). A user with two requests in flight passes
  both checks, commits both and has taken two steps of one chain.
  `IndependentReview` is what is left.
* *A reading can be linked twice*
  (`services/verification_transcription.py:142`). Two overlapping transcriptions
  both find the job without links and both link it. The calculation refuses a
  reading with two references, and neither links nor windows can be removed: the
  job is stuck. `LinkedOnceInTurn` shows that it takes an overlap.
* *A number can be issued twice, and from a retired sequence*
  (`persistence/sqlite.py:2042`). The `UPDATE` compares neither the value nor the
  status that were read. `UNIQUE` on the certificate's number keeps two
  *certificates* from sharing a number's text.
* *The cleanup can delete the only PDF of a released certificate*
  (`certificates/storage.py:169`). After a crash between commit and finalization
  the pending file is the only copy; nothing finalizes it later, since the job is
  already released. `OnlyCleanupLosesPdf` says that nothing else does.
* *The button of the operator page never sends the number that was typed*
  (`ui/workflow.py:2586`). The one-click script resets its fields first, the
  certificate number to `SIMVAL-TEMP-0001` (`:1178`) among them, so its second job
  asks for a number already taken: the job is approved and its release refused.
* *An uncertainty can show three significant digits*
  (`calculation_engine/common/rounding.py:42`). The place is chosen before rounding
  and the decimals follow the place, so 0.996 is shown as 1.00, where RND-001
  (`Docs/P0/Test_Case_Catalog.md:190`) and the comment at `rounding.py:28` allow two.
  The uncertainty is still a multiple of the second digit of what was rounded,
  which is what `UncertaintyIsSound` says.
* *Two backups of one second share a file* (`operations/backup.py`). The name has
  a resolution of seconds, and the one that fails removes whichever file has it.

## 7. Not modelled

* *Calculation engine*: the statistics and the uncertainty budgets in floating
  point. What is modelled of it is the contribution of each component in exact
  arithmetic, the combination, the CMC floor and the rounding.
* *Text and layout* of the PDF beyond which row goes to which page; error wording;
  validation of request bodies. A row whose text is longer than the page is not
  checked by the code (CERT-139, `Docs/P0/Test_Case_Catalog.md:328`) and not here.
* *Parsing of cells*: which text is a number or a time. Which cell refuses a file,
  and what becomes of the bytes, is modelled.
* *Readiness and validation reports* beyond the schema check a connection meets:
  sequential programs over finished files.
* *Of the operator page*: drawing; the parts never wired to a button
  (`runFirstPressureCertificate`) or hidden; previews that only read; the free
  requests of the advanced console, which are those of the modules of the
  services.
* *CMC look-up and the uncertainty export*: no service of the application calls
  them.
* *Giving up on a lock*: a writer that waits longer than the default of Python's
  `sqlite3` is refused. In the models it waits until the lock is free.
* The identity provider, SQLite, the browser and the file system, of which only
  the behaviour the code relies on is modelled (marked external in the map).

## 8. Plan

Done:

1. `WorkflowRules`, `JobLifecycle`, `JobPreparation`, `ReviewRelease`,
   `CertificateNumbers`, `ArtifactStore`, and proofs of the safety properties.
2. `SourceFiles`: uploads beside their rows, manual and automatic pressure entry.
3. `Installation`: concurrent bootstraps, killed migrations, backup, restore.
4. `Accounts`: expiry, revocation and role changes against a request in flight.
5. `CertificateContent` and `Reporting`: rounding, pages, the contract.
6. `HttpApi` and `OperatorConsole`: the page against the routes it calls.
7. A retried release that needs no promptness (`artifacts_retry`); jobs that ran
   out of independent people, with accounts that change (`OnlyAccountsFreeADeadEnd`).
8. Proofs of the safety properties of `Accounts`, `Installation`, `SourceFiles` and
   `OperatorConsole`.
9. Proofs of the safety properties of `CertificateContent`, arithmetic and pages
   included.

Left:

1. Sessions of `Accounts` in `ReviewRelease`: one that is revoked between the
   check of a review and its commit, with the job's trail in the same model.
2. `Installation` composed with `ArtifactStore`, with more than one restore.
