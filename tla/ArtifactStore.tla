---------------------------- MODULE ArtifactStore -----------------------------
(***************************************************************************)
(* The certificate PDFs on disk beside the certificate records in the      *)
(* database.  A rendered release writes a pending file, commits, and only  *)
(* then copies the bytes to the final file and deletes the pending one;    *)
(* a manual release registers a file somebody put into the directory.      *)
(* Meanwhile a maintenance command deletes stale pending files, clients    *)
(* download, writes fail and the process is killed.                        *)
(*                                                                         *)
(* A file is named after its certificate number, so a number stands for    *)
(* its file name too, and a job for the bytes of its certificate.          *)
(***************************************************************************)
EXTENDS Naturals, FiniteSets

CONSTANTS
  Jobs,            \* approved jobs
  Requests,        \* requests that can be in flight together
  Numbers,         \* certificate numbers, in the order they are allocated
  TypedNumbers,    \* numbers a client may type into a release
  ManualFiles,     \* file names an administrator may put into the directory
  Absent,          \* there is no such file
  Truncated,       \* a file whose bytes are not (all) written
  Nobody,          \* the write lock of the database is free
  PromptRequests,  \* no request lives longer than the cutoff of the cleanup
  MaxFaults        \* bound: crashes and failed writes

ASSUME ArtifactAssumption ==
  /\ Numbers \subseteq Nat
  /\ TypedNumbers \subseteq Numbers
  /\ ManualFiles \subseteq Numbers
  /\ {Absent, Truncated} \cap Jobs = {}
  /\ Absent # Truncated
  /\ Nobody \notin Requests
  /\ PromptRequests \in BOOLEAN
  /\ MaxFaults \in Nat

VARIABLES
  pending,       \* .<number>.pdf.pending
  target,        \* <number>.pdf
  certificates,  \* rows of certificates with their export artifact
  next,          \* next_value of the sequence, committed
  writer,        \* the request that holds the write lock over several steps
  req,           \* how far each request has come
  answered,      \* certificates whose release was answered with success
  faults,        \* crashes and failed writes so far
  lost           \* history: certificates whose last bytes the cleanup deleted

vars ==
  <<pending, target, certificates, next, writer, req, answered, faults, lost>>
files == <<pending, target>>
database == <<certificates, next>>

Idle == [pc |-> "idle"]

\* The certificate a request is about: whose bytes, under which number, and in
\* which file.
Certificate(job, number, file, bytes) ==
  [job |-> job, number |-> number, file |-> file, bytes |-> bytes]

Request(pc, route, certificate) ==
  [pc |-> pc, route |-> route, c |-> certificate]

Rendered(job, number) == Certificate(job, number, number, job)

Released(job) == \E c \in certificates : c.job = job

At(r, pc) == req[r].pc = pc

Become(r, record) == req' = [req EXCEPT ![r] = record]
MoveOn(r, pc) == req' = [req EXCEPT ![r].pc = pc]

\* Leaving the transaction, by commit or rollback, frees the lock.
Unlock(r) == writer' = IF writer = r THEN Nobody ELSE writer

(***************************************************************************)
(* Release                                                                 *)
(***************************************************************************)

BeginTyped(r, job, number) ==
  /\ req[r] = Idle
  /\ ~ Released(job)
  /\ Become(r, Request("numbered", "typed", Rendered(job, number)))
  /\ UNCHANGED <<files, database, writer, answered, faults>>

\* SELECT next_value comes before the first write, so it takes no lock.
BeginAllocated(r, job) ==
  /\ req[r] = Idle
  /\ ~ Released(job)
  /\ next \in Numbers
  /\ Become(r, Request("allocating", "allocated", Rendered(job, next)))
  /\ UNCHANGED <<files, database, writer, answered, faults>>

\* UPDATE ... SET next_value takes the lock and keeps it until the commit.
Allocate(r) ==
  /\ At(r, "allocating")
  /\ writer = Nobody
  /\ writer' = r
  /\ MoveOn(r, "numbered")
  /\ UNCHANGED <<files, database, answered, faults>>

CheckTarget(r) ==
  /\ At(r, "numbered")
  /\ target[req[r].c.file] = Absent
  /\ MoveOn(r, "checked")
  /\ UNCHANGED <<files, database, writer, answered, faults>>

\* A staging that opens the pending file without the exclusive mode.
OpenPendingShared(r) ==
  /\ At(r, "checked")
  /\ pending' = [pending EXCEPT ![req[r].c.file] = Truncated]
  /\ MoveOn(r, "opened")
  /\ UNCHANGED <<target, database, writer, answered, faults>>

\* open("xb"): fails when the file exists.
OpenPending(r) ==
  /\ At(r, "checked")
  /\ pending[req[r].c.file] = Absent
  /\ pending' = [pending EXCEPT ![req[r].c.file] = Truncated]
  /\ MoveOn(r, "opened")
  /\ UNCHANGED <<target, database, writer, answered, faults>>

WritePending(r) ==
  /\ At(r, "opened")
  /\ pending' = [pending EXCEPT ![req[r].c.file] = req[r].c.bytes]
  /\ MoveOn(r, "staged")
  /\ UNCHANGED <<target, database, writer, answered, faults>>

\* A staging that gives up inside its transaction.
CannotStageInTransaction(r) ==
  /\ \/ At(r, "numbered") /\ target[req[r].c.file] # Absent
     \/ At(r, "checked") /\ pending[req[r].c.file] # Absent
  /\ Become(r, Idle)
  /\ UNCHANGED <<files, database, writer, answered, faults>>

\* Staging fails before the pending file is this request's: nothing to discard.
CannotStage(r) ==
  /\ \/ At(r, "numbered") /\ target[req[r].c.file] # Absent
     \/ At(r, "checked") /\ pending[req[r].c.file] # Absent
  /\ Become(r, Idle)
  /\ Unlock(r)
  /\ UNCHANGED <<files, database, answered, faults>>

\* The certificate number is UNIQUE and the job leaves state approved once.
Acceptable(c) ==
  /\ ~ Released(c.job)
  /\ \A d \in certificates : d.number # c.number

CommitRelease(r) ==
  /\ At(r, "staged")
  /\ writer \in {Nobody, r}
  /\ Acceptable(req[r].c)
  /\ certificates' = certificates \cup {req[r].c}
  /\ next' = IF req[r].route = "allocated" THEN req[r].c.number + 1 ELSE next
  /\ Unlock(r)
  /\ MoveOn(r, "committed")
  /\ UNCHANGED <<files, answered, faults>>

\* The transaction rolls back, and with it the allocation.
RollBackRelease(r) ==
  /\ At(r, "staged")
  /\ writer \in {Nobody, r}
  /\ ~ Acceptable(req[r].c)
  /\ Unlock(r)
  /\ MoveOn(r, "discarding")
  /\ UNCHANGED <<files, database, answered, faults>>

\* A failed release that forgets its pending file.
DiscardNothing(r) ==
  /\ At(r, "discarding")
  /\ Become(r, Idle)
  /\ UNCHANGED <<files, database, writer, answered, faults>>

\* unlink(missing_ok=True), whoever wrote the file.
Discard(r) ==
  /\ At(r, "discarding")
  /\ pending' = [pending EXCEPT ![req[r].c.file] = Absent]
  /\ Become(r, Idle)
  /\ UNCHANGED <<target, database, writer, answered, faults>>

(***************************************************************************)
(* Finalization, after the commit                                          *)
(***************************************************************************)

\* A finalization that does not wait for the commit.
OpenTargetEarly(r) ==
  /\ At(r, "staged") \/ At(r, "committed")
  /\ target[req[r].c.file] = Absent
  /\ target' = [target EXCEPT ![req[r].c.file] = Truncated]
  /\ MoveOn(r, "copying")
  /\ UNCHANGED <<pending, database, writer, answered, faults>>

\* A finalization that overwrites.
OpenTargetShared(r) ==
  /\ At(r, "committed")
  /\ target' = [target EXCEPT ![req[r].c.file] = Truncated]
  /\ MoveOn(r, "copying")
  /\ UNCHANGED <<pending, database, writer, answered, faults>>

\* open("xb") on the final file.
OpenTarget(r) ==
  /\ At(r, "committed")
  /\ target[req[r].c.file] = Absent
  /\ target' = [target EXCEPT ![req[r].c.file] = Truncated]
  /\ MoveOn(r, "copying")
  /\ UNCHANGED <<pending, database, writer, answered, faults>>

Copy(r) ==
  /\ At(r, "copying")
  /\ pending[req[r].c.file] # Absent
  /\ target' = [target EXCEPT ![req[r].c.file] = pending[req[r].c.file]]
  /\ MoveOn(r, "copied")
  /\ UNCHANGED <<pending, database, writer, answered, faults>>

\* The pending file is deleted and the release is answered.
Finish(r) ==
  /\ At(r, "copied")
  /\ pending[req[r].c.file] # Absent
  /\ pending' = [pending EXCEPT ![req[r].c.file] = Absent]
  /\ answered' = answered \cup {req[r].c}
  /\ Become(r, Idle)
  /\ UNCHANGED <<target, database, writer, faults>>

\* The final file exists already, or the pending one is gone: an error is
\* answered, and the release stands.
CannotFinalize(r) ==
  /\ \/ At(r, "committed") /\ target[req[r].c.file] # Absent
     \/ At(r, "copying") /\ pending[req[r].c.file] = Absent
     \/ At(r, "copied") /\ pending[req[r].c.file] = Absent
  /\ Become(r, Idle)
  /\ UNCHANGED <<files, database, writer, answered, faults>>

(***************************************************************************)
(* Manual release                                                          *)
(***************************************************************************)

\* An administrator puts the PDF of a job into the directory.
PlaceFile(file, job) ==
  /\ target[file] = Absent
  /\ target' = [target EXCEPT ![file] = job]
  /\ UNCHANGED <<pending, database, writer, req, answered, faults>>

\* The file is compared with the checksum of the PDF the client has, then the
\* release is a transaction of its own.
BeginManual(r, job, number, file) ==
  /\ req[r] = Idle
  /\ target[file] \in Jobs
  /\ Become(r, Request("verified", "manual",
                       Certificate(job, number, file, target[file])))
  /\ UNCHANGED <<files, database, writer, answered, faults>>

CommitManual(r) ==
  /\ At(r, "verified")
  /\ writer = Nobody
  /\ Acceptable(req[r].c)
  /\ certificates' = certificates \cup {req[r].c}
  /\ answered' = answered \cup {req[r].c}
  /\ Become(r, Idle)
  /\ UNCHANGED <<files, next, writer, faults>>

RefuseManual(r) ==
  /\ At(r, "verified")
  /\ ~ Acceptable(req[r].c)
  /\ Become(r, Idle)
  /\ UNCHANGED <<files, database, writer, answered, faults>>

(***************************************************************************)
(* Download                                                                *)
(***************************************************************************)

\* A download that trusts the record.
BeginDownloadUnverified(r, c) ==
  /\ req[r] = Idle
  /\ c \in certificates
  /\ target[c.file] # Absent
  /\ Become(r, Request("serving", "download", c))
  /\ UNCHANGED <<files, database, writer, answered, faults>>

\* The path is returned once its bytes have the recorded checksum.
BeginDownload(r, c) ==
  /\ req[r] = Idle
  /\ c \in certificates
  /\ target[c.file] = c.bytes
  /\ Become(r, Request("serving", "download", c))
  /\ UNCHANGED <<files, database, writer, answered, faults>>

\* FileResponse reads the path again to send it.
Serve(r) ==
  /\ At(r, "serving")
  /\ Become(r, Idle)
  /\ UNCHANGED <<files, database, writer, answered, faults>>

(***************************************************************************)
(* Maintenance and faults                                                  *)
(***************************************************************************)

Staged == {"opened", "staged", "discarding", "committed", "copying", "copied"}

\* A request in flight that wrote the pending file and still needs it.
InUse(file) ==
  \E r \in Requests : req[r].pc \in Staged /\ req[r].c.file = file

\* The certificates whose bytes are in a pending file and nowhere else.
LastCopies(file) ==
  {c \in certificates :
     c.file = file /\ pending[file] = c.bytes /\ target[file] # c.bytes}

\* A cleanup that only tidies up after releases.
CleanupReleased(file) ==
  /\ pending[file] # Absent
  /\ PromptRequests => ~ InUse(file)
  /\ \E c \in certificates : c.number = file
  /\ pending' = [pending EXCEPT ![file] = Absent]
  /\ lost' = lost \cup LastCopies(file)
  /\ UNCHANGED <<target, database, writer, req, answered, faults>>

\* Any .pending file older than the cutoff goes, whatever the database says.
Cleanup(file) ==
  /\ pending[file] # Absent
  /\ PromptRequests => ~ InUse(file)
  /\ pending' = [pending EXCEPT ![file] = Absent]
  /\ lost' = lost \cup LastCopies(file)
  /\ UNCHANGED <<target, database, writer, req, answered, faults>>

\* A write or an unlink fails, or the lock is not free in time.  Only a failure
\* in the release transaction discards the pending file.
Fault(r) ==
  /\ faults < MaxFaults
  /\ faults' = faults + 1
  /\ req[r] # Idle
  /\ IF At(r, "staged") THEN MoveOn(r, "discarding") ELSE Become(r, Idle)
  /\ Unlock(r)
  /\ UNCHANGED <<files, database, answered>>

\* The process is killed: files stay as they are, open transactions do not.
Crash ==
  /\ faults < MaxFaults
  /\ faults' = faults + 1
  /\ req' = [r \in Requests |-> Idle]
  /\ writer' = Nobody
  /\ UNCHANGED <<files, database, answered>>

(***************************************************************************)
(* Specification                                                           *)
(***************************************************************************)

Init ==
  /\ pending = [n \in Numbers |-> Absent]
  /\ target = [n \in Numbers |-> Absent]
  /\ certificates = {}
  /\ next \in Numbers /\ \A n \in Numbers : next <= n
  /\ writer = Nobody
  /\ req = [r \in Requests |-> Idle]
  /\ answered = {}
  /\ faults = 0
  /\ lost = {}

Arrive(r) ==
  \/ \E job \in Jobs : BeginAllocated(r, job)
  \/ \E job \in Jobs, number \in TypedNumbers :
       \/ BeginTyped(r, job, number)
       \/ \E file \in ManualFiles : BeginManual(r, job, number, file)
  \/ \E c \in certificates : BeginDownload(r, c)

Proceed(r) ==
  \/ Allocate(r) \/ CheckTarget(r) \/ OpenPending(r) \/ WritePending(r)
  \/ CannotStage(r) \/ CommitRelease(r) \/ RollBackRelease(r) \/ Discard(r)
  \/ OpenTarget(r) \/ Copy(r) \/ Finish(r) \/ CannotFinalize(r)
  \/ CommitManual(r) \/ RefuseManual(r) \/ Serve(r)

Next ==
  \/ /\ \/ \E r \in Requests : Arrive(r) \/ Proceed(r) \/ Fault(r)
        \/ \E file \in ManualFiles, job \in Jobs : PlaceFile(file, job)
        \/ Crash
     /\ UNCHANGED lost
  \/ \E file \in Numbers : Cleanup(file)

Spec == Init /\ [][Next]_vars

\* Threads of the pool keep running, and the cleanup is scheduled.  Nothing
\* makes clients send requests, and nothing makes faults happen.
FairSpec ==
  /\ Spec
  /\ \A r \in Requests : WF_vars(Proceed(r) /\ UNCHANGED lost)
  /\ \A file \in Numbers : WF_vars(Cleanup(file))

(***************************************************************************)
(* Properties                                                              *)
(***************************************************************************)

Bytes == Jobs \cup {Absent, Truncated}

CertificateRecord ==
  [job : Jobs, number : Numbers, file : Numbers, bytes : Jobs]

ReleasePc == {"allocating", "numbered", "checked"} \cup Staged

RequestType ==
  {Idle} \cup
  [ pc : ReleasePc \cup {"verified", "serving"},
    route : {"typed", "allocated", "manual", "download"},
    c : CertificateRecord ]

\* The lock is never left behind: whoever holds it is an allocated release
\* between its allocation and its commit.
LockHeld ==
  writer # Nobody =>
    /\ req[writer].pc \in {"numbered", "checked", "opened", "staged"}
    /\ req[writer].route = "allocated"

TypeOK ==
  /\ pending \in [Numbers -> Bytes]
  /\ target \in [Numbers -> Bytes]
  /\ certificates \subseteq CertificateRecord
  /\ next \in Nat
  /\ writer \in Requests \cup {Nobody}
  /\ req \in [Requests -> RequestType]
  /\ answered \subseteq certificates
  /\ faults \in 0..MaxFaults
  /\ lost \subseteq certificates
  /\ LockHeld

\* A final file that nobody put there by hand belongs to a committed
\* certificate of that number: a release that fails or is killed before its
\* commit leaves no final PDF behind.
FinalsAreReleased ==
  \A n \in Numbers \ ManualFiles : target[n] # Absent =>
    \E c \in certificates : c.number = n

\* The bytes of a released certificate are on disk, in the final file or, after
\* a crash or a failed write during finalization, still in the pending one.  Of
\* every certificate this does not hold: the cleanup deletes pending files.
Kept(c) == c.bytes \in {target[c.file], pending[c.file]}

ReleasedPdfKept == \A c \in certificates : Kept(c)

\* Crashes, failed writes and other requests lose no released PDF: only the
\* cleanup takes the last copy of one away.
OnlyCleanupLosesPdf == \A c \in certificates \ lost : Kept(c)

\* A release that was answered with success can be downloaded.
AnsweredIsRetrievable ==
  \A c \in answered : target[c.file] = c.bytes

\* What a download sends is what was released, though the file is read again
\* after it was verified.
DownloadsServeReleased ==
  \A r \in Requests : req[r].pc = "serving" =>
    /\ req[r].c \in certificates
    /\ target[req[r].c.file] = req[r].c.bytes

\* Without crashes and failed writes no pending file outlives its request,
\* however many releases failed.  (A file put into the directory by hand between
\* staging and finalization does leave one behind, and the release committed.)
PendingIsTransient ==
  faults = 0 =>
    \A n \in Numbers \ ManualFiles : pending[n] # Absent => InUse(n)

\* A complete final file never changes again.
FinalsAreImmutable ==
  [][\A n \in Numbers : target[n] \in Jobs => target'[n] = target[n]]_vars

\* A job whose allocated release is tried again and again is released in the
\* end: the pending file a crash left under the next number blocks every
\* allocated release of the sequence, but only until the cleanup.
RetriedReleaseSucceeds ==
  \A job \in Jobs :
    []<><<\E r \in Requests : BeginAllocated(r, job)>>_req => <>Released(job)
==============================================================================
