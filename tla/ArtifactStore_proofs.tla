------------------------- MODULE ArtifactStore_proofs -------------------------
(***************************************************************************)
(* What ArtifactStore guarantees for any jobs, requests, numbers, files    *)
(* placed by hand and number of faults.                                    *)
(***************************************************************************)
EXTENDS ArtifactStore, TLAPS

(***************************************************************************)
(* Types and the write lock                                                *)
(***************************************************************************)

BusyPc == ReleasePc \cup {"verified", "serving"}

\* A request in flight is about a certificate.
LEMMA RequestFields ==
  ASSUME NEW q \in RequestType
  PROVE  /\ q.pc \in BusyPc \cup {"idle"}
         /\ q.pc # "idle" =>
              /\ q.c \in CertificateRecord
              /\ q.route \in {"typed", "allocated", "manual", "download"}
         /\ q.pc = "idle" => q = Idle
         /\ q = Idle => q.pc = "idle"
  BY DEF RequestType, Idle, BusyPc, ReleasePc, Staged

\* The parts of a certificate record.
LEMMA RecordFields ==
  ASSUME NEW c \in CertificateRecord
  PROVE  /\ c.job \in Jobs /\ c.number \in Numbers
         /\ c.file \in Numbers /\ c.bytes \in Jobs
         /\ c.number \in Nat
         /\ c.bytes # Absent /\ c.bytes # Truncated
  BY ArtifactAssumption DEF CertificateRecord

\* A request that moves on keeps its certificate and its route.
LEMMA MoveOnEffect ==
  ASSUME req \in [Requests -> RequestType], NEW r \in Requests,
         NEW pc \in BusyPc, req[r].pc # "idle", MoveOn(r, pc)
  PROVE  /\ req' \in [Requests -> RequestType]
         /\ req'[r].pc = pc
         /\ req'[r].c = req[r].c
         /\ req'[r].route = req[r].route
         /\ \A p \in Requests : p # r => req'[p] = req[p]
<1>1. req[r] \in [pc : BusyPc,
                  route : {"typed", "allocated", "manual", "download"},
                  c : CertificateRecord]
  BY DEF RequestType, Idle, BusyPc
<1>2. req'[r] = [req[r] EXCEPT !.pc = pc]
  BY DEF MoveOn
<1>3. [req[r] EXCEPT !.pc = pc]
        \in [pc : BusyPc,
             route : {"typed", "allocated", "manual", "download"},
             c : CertificateRecord]
  BY <1>1
<1>4. req'[r] \in RequestType
  BY <1>2, <1>3 DEF RequestType, BusyPc
<1>5. \A p \in Requests : p # r => req'[p] = req[p]
  BY DEF MoveOn
<1>6. req' = [p \in Requests |-> IF p = r THEN [req[r] EXCEPT !.pc = pc]
                                          ELSE req[p]]
  BY DEF MoveOn
<1>7. req' \in [Requests -> RequestType]
  BY <1>2, <1>4, <1>6
<1> QED
  BY <1>1, <1>2, <1>5, <1>7

\* A request that becomes another record.
LEMMA BecomeEffect ==
  ASSUME req \in [Requests -> RequestType], NEW r \in Requests,
         NEW q \in RequestType, Become(r, q)
  PROVE  /\ req' \in [Requests -> RequestType]
         /\ req'[r] = q
         /\ \A p \in Requests : p # r => req'[p] = req[p]
  BY DEF Become

\* The records that requests begin with.
LEMMA RequestRecords ==
  /\ Idle \in RequestType
  /\ \A pc \in BusyPc,
        route \in {"typed", "allocated", "manual", "download"},
        c \in CertificateRecord :
       /\ Request(pc, route, c) \in RequestType
       /\ Request(pc, route, c).pc = pc
       /\ Request(pc, route, c).route = route
       /\ Request(pc, route, c).c = c
  BY DEF RequestType, Idle, Request, BusyPc

\* The records that certificates are made of.
LEMMA CertificateRecords ==
  ASSUME NEW job \in Jobs, NEW number \in Numbers, NEW file \in Numbers,
         NEW bytes \in Jobs
  PROVE  LET c == Certificate(job, number, file, bytes)
         IN  /\ c \in CertificateRecord
             /\ c.job = job /\ c.number = number
             /\ c.file = file /\ c.bytes = bytes
  BY DEF Certificate, CertificateRecord

\* The lock is free after a request has left its transaction.
LEMMA UnlockEffect ==
  ASSUME TypeOK, NEW r \in Requests, Unlock(r)
  PROVE  /\ writer' \in Requests \cup {Nobody}
         /\ writer' # Nobody => writer' = writer /\ writer' # r
  BY DEF TypeOK, Unlock

\* Only an allocated release comes to wait for the lock.
AllocatedRoute ==
  \A r \in Requests : req[r].pc = "allocating" => req[r].route = "allocated"

CommittedPc == {"committed", "copying", "copied"}

\* A release that is past its commit is on record.
CommittedRecorded ==
  \A r \in Requests : req[r].pc \in CommittedPc => req[r].c \in certificates

TypeInv == TypeOK /\ AllocatedRoute /\ CommittedRecorded

\* What a request may be when it arrives.
Admitted(q) ==
  /\ q.pc = "allocating" => q.route = "allocated"
  /\ q.pc \notin CommittedPc

\* Arriving requests hold no lock.
LEMMA ArriveTypes ==
  ASSUME TypeInv, NEW r \in Requests, Arrive(r), UNCHANGED lost
  PROVE  TypeInv'
<1>1. req \in [Requests -> RequestType]
  BY DEF TypeInv, TypeOK
<1>2. /\ req[r] = Idle
      /\ UNCHANGED <<files, database, writer, answered, faults>>
      /\ \E q \in RequestType :
           Become(r, q) /\ Admitted(q)
  <2>1. ASSUME NEW job \in Jobs, NEW number \in TypedNumbers,
               BeginTyped(r, job, number)
        PROVE  \E q \in RequestType : Become(r, q) /\ Admitted(q)
    BY <2>1, ArtifactAssumption, RequestRecords, CertificateRecords
    DEF BeginTyped, Rendered, BusyPc, ReleasePc, Admitted, CommittedPc
  <2>2. ASSUME NEW job \in Jobs, BeginAllocated(r, job)
        PROVE  \E q \in RequestType : Become(r, q) /\ Admitted(q)
    BY <2>2, RequestRecords, CertificateRecords
    DEF BeginAllocated, Rendered, BusyPc, ReleasePc, Admitted, CommittedPc
  <2>3. ASSUME NEW job \in Jobs, NEW number \in TypedNumbers,
               NEW file \in ManualFiles, BeginManual(r, job, number, file)
        PROVE  \E q \in RequestType : Become(r, q) /\ Admitted(q)
    <3> DEFINE c == Certificate(job, number, file, target[file])
               q == Request("verified", "manual", c)
    <3>1. c \in CertificateRecord
      BY <2>3, ArtifactAssumption, CertificateRecords DEF BeginManual
    <3> HIDE DEF c
    <3>2. q \in RequestType /\ Admitted(q)
      BY <3>1, RequestRecords DEF BusyPc, Admitted, CommittedPc
    <3>3. Become(r, q)
      BY <2>3 DEF BeginManual, c
    <3> HIDE DEF q
    <3> QED
      BY <3>2, <3>3
  <2>4. ASSUME NEW c \in certificates, BeginDownload(r, c)
        PROVE  \E q \in RequestType : Become(r, q) /\ Admitted(q)
    <3> DEFINE q == Request("serving", "download", c)
    <3>1. c \in CertificateRecord
      BY DEF TypeInv, TypeOK
    <3>2. q \in RequestType /\ Admitted(q)
      BY <3>1, RequestRecords DEF BusyPc, Admitted, CommittedPc
    <3>3. Become(r, q)
      BY <2>4 DEF BeginDownload
    <3> HIDE DEF q
    <3> QED
      BY <3>2, <3>3
  <2>5. \E q \in RequestType :
          Become(r, q) /\ Admitted(q)
    BY <2>1, <2>2, <2>3, <2>4 DEF Arrive
  <2>6. /\ req[r] = Idle
        /\ UNCHANGED <<files, database, writer, answered, faults>>
    BY DEF Arrive, BeginTyped, BeginAllocated, BeginManual, BeginDownload
  <2> QED
    BY <2>5, <2>6
<1>3. /\ req' \in [Requests -> RequestType]
      /\ \A p \in Requests : p # r => req'[p] = req[p]
      /\ Admitted(req'[r])
  BY <1>1, <1>2, BecomeEffect
<1>4. AllocatedRoute' /\ CommittedRecorded'
  BY <1>2, <1>3
  DEF AllocatedRoute, CommittedRecorded, Admitted, TypeInv, database
<1>5. writer # r
  BY <1>1, <1>2, ArtifactAssumption, RequestFields
  DEF TypeInv, TypeOK, LockHeld
<1>6. LockHeld'
  BY <1>2, <1>3, <1>5 DEF LockHeld, TypeInv, TypeOK
<1> QED
  BY <1>2, <1>3, <1>4, <1>6 DEF TypeInv, TypeOK, files, database

\* A request that goes on keeps or gives back the lock it holds.
LEMMA ProceedTypes ==
  ASSUME TypeInv, NEW r \in Requests, Proceed(r), UNCHANGED lost
  PROVE  TypeInv'
<1> USE DEF At
<1>0. /\ req \in [Requests -> RequestType]
      /\ req[r] \in RequestType
      /\ Idle \in RequestType /\ Idle.pc = "idle"
      /\ LockHeld /\ AllocatedRoute /\ CommittedRecorded
      /\ writer \in Requests \cup {Nobody}
      /\ Nobody \notin Requests
  BY ArtifactAssumption, RequestRecords, RequestFields DEF TypeInv, TypeOK
<1>1. ASSUME \/ writer' = writer /\ writer # r
             \/ Unlock(r),
             certificates \subseteq certificates',
             \/ Become(r, Idle)
             \/ \E pc \in BusyPc \ {"allocating"} :
                  /\ req[r].pc # "idle" /\ MoveOn(r, pc)
                  /\ pc \in CommittedPc => req[r].c \in certificates'
      PROVE  /\ req' \in [Requests -> RequestType]
             /\ LockHeld' /\ AllocatedRoute' /\ CommittedRecorded'
             /\ writer' \in Requests \cup {Nobody}
  <2>1. /\ req' \in [Requests -> RequestType]
        /\ \A p \in Requests : p # r => req'[p] = req[p]
        /\ req'[r].pc # "allocating"
        /\ req'[r].pc \in CommittedPc => req'[r].c \in certificates'
    BY <1>0, <1>1, MoveOnEffect, BecomeEffect DEF CommittedPc
  <2>2. /\ writer' \in Requests \cup {Nobody}
        /\ writer' # Nobody => writer' = writer /\ writer' # r
    BY <1>0, <1>1 DEF Unlock
  <2> QED
    BY <1>0, <1>1, <2>1, <2>2 DEF LockHeld, AllocatedRoute, CommittedRecorded
<1>2. ASSUME req' \in [Requests -> RequestType], LockHeld', AllocatedRoute',
             CommittedRecorded',
             writer' \in Requests \cup {Nobody},
             pending' \in [Numbers -> Bytes], target' \in [Numbers -> Bytes],
             certificates' \subseteq CertificateRecord, next' \in Nat,
             certificates \subseteq certificates',
             answered' \subseteq certificates', faults' = faults
      PROVE  TypeInv'
  BY <1>2 DEF TypeInv, TypeOK
<1>3. /\ pending \in [Numbers -> Bytes] /\ target \in [Numbers -> Bytes]
      /\ certificates \subseteq CertificateRecord /\ next \in Nat
      /\ answered \subseteq certificates
      /\ Absent \in Bytes /\ Truncated \in Bytes /\ Jobs \subseteq Bytes
  BY DEF TypeInv, TypeOK, Bytes
<1>4. req[r].pc # "idle" => req[r].c \in CertificateRecord
  BY <1>0, RequestFields
<1>5. BusyPc = { "allocating", "numbered", "checked", "opened", "staged",
                 "discarding", "committed", "copying", "copied", "verified",
                 "serving" }
  BY DEF BusyPc, ReleasePc, Staged
<1>6. \A pc : writer = r /\ req[r].pc = pc =>
              pc \in {"numbered", "checked", "opened", "staged"}
  BY <1>0 DEF LockHeld
<1>7. CASE Allocate(r)
  <2>1. /\ req' \in [Requests -> RequestType]
        /\ req'[r].pc = "numbered" /\ req'[r].route = req[r].route
        /\ \A p \in Requests : p # r => req'[p] = req[p]
    BY <1>0, <1>5, <1>7, MoveOnEffect DEF Allocate
  <2>2. /\ LockHeld' /\ AllocatedRoute' /\ CommittedRecorded'
        /\ writer' = r
    BY <1>0, <1>7, <2>1
    DEF Allocate, LockHeld, AllocatedRoute, CommittedRecorded, CommittedPc,
        database
  <2> QED
    BY <1>2, <1>3, <1>7, <2>1, <2>2 DEF Allocate, files, database
<1>8. CASE \/ CheckTarget(r) \/ OpenPending(r) \/ WritePending(r)
  <2>1. \E pc \in {"checked", "opened", "staged"} :
          /\ req[r].pc # "idle" /\ MoveOn(r, pc)
    BY <1>8 DEF CheckTarget, OpenPending, WritePending
  <2>2. /\ req' \in [Requests -> RequestType]
        /\ req'[r].pc \in {"checked", "opened", "staged"}
        /\ req'[r].route = req[r].route
        /\ \A p \in Requests : p # r => req'[p] = req[p]
    BY <1>0, <1>5, <2>1, MoveOnEffect
  <2>3. writer' = writer /\ certificates' = certificates
    BY <1>8 DEF CheckTarget, OpenPending, WritePending, database
  <2>4. LockHeld' /\ AllocatedRoute' /\ CommittedRecorded'
    BY <1>0, <2>2, <2>3
    DEF LockHeld, AllocatedRoute, CommittedRecorded, CommittedPc
  <2>5. pending' \in [Numbers -> Bytes]
    BY <1>3, <1>4, <1>8, RecordFields
    DEF CheckTarget, OpenPending, WritePending, files
  <2> QED
    BY <1>0, <1>2, <1>3, <1>8, <2>2, <2>3, <2>4, <2>5
    DEF CheckTarget, OpenPending, WritePending, files, database
<1>9. CASE CommitRelease(r)
  <2>1. /\ MoveOn(r, "committed") /\ req[r].pc = "staged" /\ Unlock(r)
        /\ certificates \subseteq certificates'
        /\ req[r].c \in certificates'
    BY <1>9 DEF CommitRelease
  <2>2. /\ req' \in [Requests -> RequestType]
        /\ LockHeld' /\ AllocatedRoute' /\ CommittedRecorded'
        /\ writer' \in Requests \cup {Nobody}
    BY <1>1, <1>5, <2>1
  <2>3. next' \in Nat /\ certificates' \subseteq CertificateRecord
    BY <1>3, <1>4, <1>9, <2>1, RecordFields DEF CommitRelease
  <2> QED
    BY <1>2, <1>3, <1>9, <2>2, <2>3 DEF CommitRelease, files
<1>10. CASE \/ CannotStage(r) \/ RollBackRelease(r)
  <2>1. /\ Unlock(r) /\ certificates' = certificates
        /\ \/ Become(r, Idle)
           \/ req[r].pc # "idle" /\ MoveOn(r, "discarding")
    BY <1>10 DEF CannotStage, RollBackRelease, database
  <2>2. /\ req' \in [Requests -> RequestType]
        /\ LockHeld' /\ AllocatedRoute' /\ CommittedRecorded'
        /\ writer' \in Requests \cup {Nobody}
    BY <1>1, <1>5, <2>1 DEF CommittedPc
  <2> QED
    BY <1>2, <1>3, <1>10, <2>2
    DEF CannotStage, RollBackRelease, files, database
<1>11. CASE \/ Discard(r) \/ OpenTarget(r) \/ Copy(r) \/ Finish(r)
            \/ CannotFinalize(r) \/ CommitManual(r) \/ RefuseManual(r)
            \/ Serve(r)
  <2> USE DEF Discard, OpenTarget, Copy, Finish, CannotFinalize, CommitManual,
              RefuseManual, Serve
  <2>1. req[r].pc \in {"discarding", "committed", "copying", "copied",
                       "verified", "serving"}
    BY <1>11
  <2>2. writer' = writer /\ writer # r
    BY <1>6, <1>11, <2>1
  <2>3. /\ certificates \subseteq certificates'
        /\ \/ Become(r, Idle)
           \/ /\ req[r].pc \in CommittedPc
              /\ \E pc \in {"copying", "copied"} : MoveOn(r, pc)
    BY <1>11 DEF CommittedPc, database
  <2>4. /\ req' \in [Requests -> RequestType]
        /\ LockHeld' /\ AllocatedRoute' /\ CommittedRecorded'
        /\ writer' \in Requests \cup {Nobody}
    BY <1>0, <1>1, <1>5, <2>1, <2>2, <2>3 DEF CommittedRecorded
  <2>5. req[r].c \in CertificateRecord
    BY <1>4, <2>1
  <2>6. pending' \in [Numbers -> Bytes] /\ target' \in [Numbers -> Bytes]
    BY <1>3, <1>11, <2>5, RecordFields DEF files
  <2>7. /\ certificates' \subseteq CertificateRecord
        /\ certificates \subseteq certificates' /\ next' \in Nat
        /\ faults' = faults
    BY <1>3, <1>11, <2>5 DEF database
  <2>8. answered' \subseteq certificates'
    <3>1. CASE Finish(r)
      <4>1. req[r].c \in certificates
        BY <1>0, <3>1 DEF CommittedRecorded, CommittedPc
      <4> QED
        BY <1>3, <3>1, <4>1 DEF database
    <3>2. CASE CommitManual(r)
      BY <1>3, <3>2
    <3>3. CASE ~ Finish(r) /\ ~ CommitManual(r)
      BY <1>3, <1>11, <3>3 DEF database
    <3> QED
      BY <3>1, <3>2, <3>3
  <2> QED
    BY <1>2, <2>4, <2>6, <2>7, <2>8
<1> QED
  BY <1>7, <1>8, <1>9, <1>10, <1>11 DEF Proceed

\* Faults, crashes and the cleanup keep the types.
LEMMA DisturbanceTypes ==
  ASSUME TypeInv,
         \/ \E r \in Requests : Fault(r) /\ UNCHANGED lost
         \/ Crash /\ UNCHANGED lost
         \/ \E file \in ManualFiles, job \in Jobs :
              PlaceFile(file, job) /\ UNCHANGED lost
         \/ \E file \in Numbers : Cleanup(file)
  PROVE  TypeInv'
<1>0. /\ req \in [Requests -> RequestType]
      /\ pending \in [Numbers -> Bytes] /\ target \in [Numbers -> Bytes]
      /\ Absent \in Bytes /\ Jobs \subseteq Bytes
      /\ Idle \in RequestType /\ Idle.pc = "idle"
      /\ faults \in 0..MaxFaults
  BY RequestRecords, RequestFields DEF TypeInv, TypeOK, Bytes
<1>1. ASSUME NEW r \in Requests, Fault(r), UNCHANGED lost PROVE TypeInv'
  <2>1. /\ req' \in [Requests -> RequestType]
        /\ \A p \in Requests : p # r => req'[p] = req[p]
        /\ req'[r].pc \in {"idle", "discarding"}
    <3>1. CASE At(r, "staged")
      <4>1. /\ MoveOn(r, "discarding") /\ req[r].pc # "idle"
            /\ "discarding" \in BusyPc
        BY <1>1, <3>1 DEF Fault, At, BusyPc, ReleasePc, Staged
      <4> QED
        BY <1>0, <4>1, MoveOnEffect
    <3>2. CASE ~ At(r, "staged")
      BY <1>0, <1>1, <3>2, BecomeEffect DEF Fault
    <3> QED
      BY <3>1, <3>2
  <2>2. /\ writer' \in Requests \cup {Nobody}
        /\ writer' # Nobody => writer' = writer /\ writer' # r
    BY <1>1, UnlockEffect DEF Fault, TypeInv
  <2>3. LockHeld' /\ AllocatedRoute' /\ CommittedRecorded'
    BY <1>1, <2>1, <2>2 DEF Fault, TypeInv, TypeOK, LockHeld, AllocatedRoute,
       CommittedRecorded, CommittedPc, database
  <2>4. faults' \in 0..MaxFaults
    BY <1>0, <1>1, ArtifactAssumption DEF Fault
  <2> QED
    BY <1>1, <2>1, <2>2, <2>3, <2>4
    DEF Fault, TypeInv, TypeOK, files, database
<1>2. ASSUME Crash, UNCHANGED lost PROVE TypeInv'
  <2>1. /\ req' \in [Requests -> RequestType]
        /\ \A r \in Requests : req'[r].pc = "idle"
    BY <1>0, <1>2 DEF Crash
  <2>2. LockHeld' /\ AllocatedRoute' /\ CommittedRecorded'
    BY <1>2, <2>1
    DEF Crash, LockHeld, AllocatedRoute, CommittedRecorded, CommittedPc
  <2>3. faults' \in 0..MaxFaults
    BY <1>0, <1>2, ArtifactAssumption DEF Crash
  <2> QED
    BY <1>2, <2>1, <2>2, <2>3 DEF Crash, TypeInv, TypeOK, files, database
<1>3. ASSUME NEW file \in ManualFiles, NEW job \in Jobs, PlaceFile(file, job),
             UNCHANGED lost
      PROVE  TypeInv'
  <2>1. target' \in [Numbers -> Bytes]
    BY <1>0, <1>3 DEF PlaceFile
  <2> QED
    BY <1>3, <2>1 DEF PlaceFile, TypeInv, TypeOK, LockHeld, AllocatedRoute,
       CommittedRecorded, database
<1>4. ASSUME NEW file \in Numbers, Cleanup(file) PROVE TypeInv'
  <2>1. pending' \in [Numbers -> Bytes]
    BY <1>0, <1>4 DEF Cleanup
  <2>2. lost' \subseteq certificates
    BY <1>4 DEF Cleanup, LastCopies, TypeInv, TypeOK
  <2> QED
    BY <1>4, <2>1, <2>2 DEF Cleanup, TypeInv, TypeOK, LockHeld, AllocatedRoute,
       CommittedRecorded, database
<1> QED
  BY <1>1, <1>2, <1>3, <1>4

\* The inductive form of the type invariant.
LEMMA TypeInvariant == Spec => []TypeInv
<1>1. Init => TypeInv
  <2> SUFFICES ASSUME Init PROVE TypeInv
    OBVIOUS
  <2>1. /\ req \in [Requests -> RequestType]
        /\ \A r \in Requests : req[r].pc = "idle"
    BY RequestRecords, RequestFields DEF Init
  <2>2. LockHeld /\ AllocatedRoute /\ CommittedRecorded
    BY <2>1 DEF Init, LockHeld, AllocatedRoute, CommittedRecorded, CommittedPc
  <2>3. pending \in [Numbers -> Bytes] /\ target \in [Numbers -> Bytes]
    BY DEF Init, Bytes
  <2>4. next \in Nat /\ faults \in 0..MaxFaults
    BY ArtifactAssumption DEF Init
  <2> QED
    BY <2>1, <2>2, <2>3, <2>4 DEF Init, TypeInv, TypeOK
<1>2. TypeInv /\ [Next]_vars => TypeInv'
  <2> SUFFICES ASSUME TypeInv, [Next]_vars PROVE TypeInv'
    OBVIOUS
  <2>1. CASE UNCHANGED vars
    BY <2>1 DEF vars, TypeInv, TypeOK, LockHeld, AllocatedRoute,
       CommittedRecorded
  <2>2. CASE Next
    BY <2>2, ArriveTypes, ProceedTypes, DisturbanceTypes DEF Next
  <2> QED
    BY <2>1, <2>2
<1> QED
  BY <1>1, <1>2, PTL DEF Spec

\* Types, and the write lock that no failure, crash or rollback leaves behind.
THEOREM TypeCorrect == Spec => []TypeOK
<1>1. TypeInv => TypeOK
  BY DEF TypeInv
<1> QED
  BY <1>1, TypeInvariant, PTL

(***************************************************************************)
(* Final files                                                             *)
(***************************************************************************)

\* What a request in flight knows of the final file it is about.
KnowsTarget(q) ==
  /\ q.pc \in ReleasePc => q.c.file = q.c.number
  /\ q.pc = "copying" => target[q.c.file] = Truncated
  /\ q.pc = "verified" => target[q.c.file] = q.c.bytes
  /\ q.pc = "serving" =>
       q.c \in certificates /\ target[q.c.file] = q.c.bytes

\* The exclusive open leaves one request to copy into a final file.
OneCopier ==
  \A r, p \in Requests :
    /\ req[r].pc = "copying" /\ req[p].pc = "copying"
    /\ req[r].c.file = req[p].c.file
    => r = p

\* The inductive invariant of the final files.
TargetInv ==
  /\ FinalsAreReleased
  /\ OneCopier
  /\ \A r \in Requests : KnowsTarget(req[r])

\* Steps that write no final file, and move no request to copying.
LEMMA QuietSteps ==
  ASSUME TypeInv, TargetInv, target' = target,
         certificates \subseteq certificates',
         \A p \in Requests :
           \/ req'[p] = req[p]
           \/ req'[p].pc = "idle"
           \/ /\ req[p].pc \in ReleasePc
              /\ req'[p].pc \in ReleasePc \ {"copying"}
              /\ req'[p].c = req[p].c
  PROVE  TargetInv'
<1>1. FinalsAreReleased'
  BY DEF TargetInv, FinalsAreReleased
<1>2. OneCopier'
  BY DEF TargetInv, OneCopier
<1>3. \A r \in Requests : KnowsTarget(req[r])'
  BY DEF TargetInv, KnowsTarget, ReleasePc, Staged
<1> QED
  BY <1>1, <1>2, <1>3 DEF TargetInv

\* An arriving request has read what it claims to know.
LEMMA ArriveTarget ==
  ASSUME TypeInv, TargetInv, NEW r \in Requests, Arrive(r)
  PROVE  TargetInv'
<1>0. req \in [Requests -> RequestType] /\ certificates \subseteq CertificateRecord
  BY DEF TypeInv, TypeOK
<1>1. UNCHANGED <<target, certificates>>
  BY DEF Arrive, BeginTyped, BeginAllocated, BeginManual, BeginDownload, files,
     database
<1>2. \E q : /\ Become(r, q)
             /\ q.pc # "copying"
             /\ KnowsTarget(q)
  <2>1. ASSUME NEW job \in Jobs, NEW number \in TypedNumbers,
               BeginTyped(r, job, number)
        PROVE  \E q : Become(r, q) /\ q.pc # "copying" /\ KnowsTarget(q)
    BY <2>1 DEF BeginTyped, Request, Rendered, Certificate, KnowsTarget
  <2>2. ASSUME NEW job \in Jobs, BeginAllocated(r, job)
        PROVE  \E q : Become(r, q) /\ q.pc # "copying" /\ KnowsTarget(q)
    BY <2>2 DEF BeginAllocated, Request, Rendered, Certificate, KnowsTarget
  <2>3. ASSUME NEW job \in Jobs, NEW number \in TypedNumbers,
               NEW file \in ManualFiles, BeginManual(r, job, number, file)
        PROVE  \E q : Become(r, q) /\ q.pc # "copying" /\ KnowsTarget(q)
    BY <2>3
    DEF BeginManual, Request, Certificate, KnowsTarget, ReleasePc, Staged
  <2>4. ASSUME NEW c \in certificates, BeginDownload(r, c)
        PROVE  \E q : Become(r, q) /\ q.pc # "copying" /\ KnowsTarget(q)
    BY <2>4 DEF BeginDownload, Request, KnowsTarget, ReleasePc, Staged
  <2> QED
    BY <2>1, <2>2, <2>3, <2>4 DEF Arrive
<1>3. /\ req'[r].pc # "copying" /\ KnowsTarget(req'[r])
      /\ \A p \in Requests : p # r => req'[p] = req[p]
  BY <1>0, <1>2 DEF Become
<1>4. \A p \in Requests : KnowsTarget(req[p])'
  BY <1>1, <1>3 DEF TargetInv, KnowsTarget
<1>5. OneCopier' /\ FinalsAreReleased'
  BY <1>1, <1>3 DEF TargetInv, OneCopier, FinalsAreReleased
<1> QED
  BY <1>4, <1>5 DEF TargetInv

\* The exclusive open of a final file.
LEMMA OpenTargetKeeps ==
  ASSUME TypeInv, TargetInv, NEW r \in Requests, OpenTarget(r)
  PROVE  TargetInv'
<1> DEFINE file == req[r].c.file
<1>0. /\ req \in [Requests -> RequestType] /\ target \in [Numbers -> Bytes]
      /\ req[r].pc = "committed" /\ "copying" \in BusyPc
      /\ req[r].c \in certificates /\ req[r].c \in CertificateRecord
  BY DEF OpenTarget, At, TypeInv, TypeOK, CommittedRecorded, CommittedPc,
     BusyPc, ReleasePc, Staged
<1>1. /\ req'[r].pc = "copying" /\ req'[r].c = req[r].c
      /\ \A p \in Requests : p # r => req'[p] = req[p]
  BY <1>0, MoveOnEffect DEF OpenTarget
<1>2. file \in Numbers /\ file = req[r].c.number
  BY <1>0, RecordFields DEF TargetInv, KnowsTarget, ReleasePc, Staged
<1>3. /\ target[file] = Absent /\ target'[file] = Truncated
      /\ \A n \in Numbers : n # file => target'[n] = target[n]
      /\ certificates' = certificates
  BY <1>0, <1>2 DEF OpenTarget, database
<1>4. \A p \in Requests : req[p].pc # "idle" =>
        req[p].c.file \in Numbers /\ req[p].c.bytes \in Jobs
  BY <1>0, RequestFields, RecordFields
<1> HIDE DEF file
<1>5. FinalsAreReleased'
  BY <1>0, <1>2, <1>3 DEF TargetInv, FinalsAreReleased
<1>6. OneCopier'
  BY <1>1, <1>3, ArtifactAssumption DEF TargetInv, OneCopier, KnowsTarget, file
<1>7. \A p \in Requests : KnowsTarget(req[p])'
  <2>1. KnowsTarget(req[r])'
    BY <1>1, <1>2, <1>3 DEF KnowsTarget, file
  <2>2. ASSUME NEW p \in Requests, p # r PROVE KnowsTarget(req[p])'
    <3>1. PICK q : q = req[p]
      OBVIOUS
    <3>2. /\ KnowsTarget(q)
          /\ q.pc # "idle" => /\ q.c.file \in Numbers
                             /\ q.c.bytes # Absent /\ q.c.bytes # Truncated
      BY <1>4, <3>1, ArtifactAssumption DEF TargetInv
    <3>3. q.pc \in {"copying", "verified", "serving"} =>
            target'[q.c.file] = target[q.c.file]
      BY <1>3, <3>2, ArtifactAssumption DEF KnowsTarget
    <3>4. KnowsTarget(q)'
      BY <1>3, <3>2, <3>3 DEF KnowsTarget
    <3>5. req'[p] = q
      BY <1>1, <2>2, <3>1
    <3> QED
      BY <3>4, <3>5 DEF KnowsTarget
  <2> QED
    BY <2>1, <2>2
<1> QED
  BY <1>5, <1>6, <1>7 DEF TargetInv

\* The copy into a final file that its request opened.
LEMMA CopyKeeps ==
  ASSUME TypeInv, TargetInv, NEW r \in Requests, Copy(r)
  PROVE  /\ TargetInv'
         /\ target[req[r].c.file] = Truncated
<1> DEFINE file == req[r].c.file
<1>0. /\ req \in [Requests -> RequestType] /\ target \in [Numbers -> Bytes]
      /\ req[r].pc = "copying" /\ "copied" \in BusyPc
      /\ req[r].c \in certificates /\ req[r].c \in CertificateRecord
  BY DEF Copy, At, TypeInv, TypeOK, CommittedRecorded, CommittedPc,
     BusyPc, ReleasePc, Staged
<1>1. /\ req'[r].pc = "copied" /\ req'[r].c = req[r].c
      /\ \A p \in Requests : p # r => req'[p] = req[p]
  BY <1>0, MoveOnEffect DEF Copy
<1>2. file \in Numbers /\ file = req[r].c.number
  BY <1>0, RecordFields DEF TargetInv, KnowsTarget, ReleasePc, Staged
<1>3. target[file] = Truncated
  BY <1>0 DEF TargetInv, KnowsTarget
<1>4. /\ \A n \in Numbers : n # file => target'[n] = target[n]
      /\ certificates' = certificates
  BY <1>0, <1>2 DEF Copy, database
<1>5. \A p \in Requests : req[p].pc # "idle" =>
        req[p].c.file \in Numbers /\ req[p].c.bytes \in Jobs
  BY <1>0, RequestFields, RecordFields
<1> HIDE DEF file
<1>6. FinalsAreReleased'
  BY <1>0, <1>2, <1>4 DEF TargetInv, FinalsAreReleased
<1>7. OneCopier'
  BY <1>1 DEF TargetInv, OneCopier
<1>8. \A p \in Requests : KnowsTarget(req[p])'
  <2>1. KnowsTarget(req[r])'
    BY <1>1, <1>2 DEF KnowsTarget, file
  <2>2. ASSUME NEW p \in Requests, p # r PROVE KnowsTarget(req[p])'
    <3>1. req[p].pc = "copying" => req[p].c.file # file
      BY <1>0, <2>2 DEF TargetInv, OneCopier, file
    <3>2. PICK q : q = req[p]
      OBVIOUS
    <3>3. /\ KnowsTarget(q)
          /\ q.pc # "idle" => /\ q.c.file \in Numbers
                             /\ q.c.bytes # Absent /\ q.c.bytes # Truncated
      BY <1>5, <3>2, ArtifactAssumption DEF TargetInv
    <3>4. q.pc \in {"copying", "verified", "serving"} =>
            target'[q.c.file] = target[q.c.file]
      BY <1>3, <1>4, <3>1, <3>2, <3>3 DEF KnowsTarget
    <3>5. KnowsTarget(q)'
      BY <1>4, <3>3, <3>4 DEF KnowsTarget
    <3>6. req'[p] = q
      BY <1>1, <2>2, <3>2
    <3> QED
      BY <3>5, <3>6 DEF KnowsTarget
  <2> QED
    BY <2>1, <2>2
<1> QED
  BY <1>3, <1>6, <1>7, <1>8 DEF TargetInv, file

\* A file placed by hand.
LEMMA PlaceFileKeeps ==
  ASSUME TypeInv, TargetInv, NEW file \in ManualFiles, NEW job \in Jobs,
         PlaceFile(file, job)
  PROVE  TargetInv'
<1>0. req \in [Requests -> RequestType] /\ target \in [Numbers -> Bytes]
  BY DEF TypeInv, TypeOK
<1>1. /\ target[file] = Absent
      /\ \A n \in Numbers : n # file => target'[n] = target[n]
      /\ UNCHANGED <<certificates, req>>
  BY <1>0 DEF PlaceFile, database
<1>2. \A p \in Requests : req[p].pc # "idle" =>
        req[p].c.file \in Numbers /\ req[p].c.bytes \in Jobs
  BY <1>0, RequestFields, RecordFields
<1>3. FinalsAreReleased' /\ OneCopier'
  BY <1>1 DEF TargetInv, FinalsAreReleased, OneCopier
<1>4. \A p \in Requests : KnowsTarget(req[p])'
  BY <1>1, <1>2, ArtifactAssumption, ZenonT(30)
  DEF TargetInv, KnowsTarget, ReleasePc, Staged
<1> QED
  BY <1>3, <1>4 DEF TargetInv

\* Every other step is quiet.
LEMMA OtherStepsQuiet ==
  ASSUME TypeInv,
         \/ UNCHANGED vars
         \/ \E r \in Requests :
              \/ Proceed(r) /\ ~ OpenTarget(r) /\ ~ Copy(r)
              \/ Fault(r)
         \/ Crash
         \/ \E file \in Numbers : Cleanup(file)
  PROVE  /\ target' = target
         /\ certificates \subseteq certificates'
         /\ \A p \in Requests :
              \/ req'[p] = req[p]
              \/ req'[p].pc = "idle"
              \/ /\ req[p].pc \in ReleasePc
                 /\ req'[p].pc \in ReleasePc \ {"copying"}
                 /\ req'[p].c = req[p].c
<1>0. /\ req \in [Requests -> RequestType]
      /\ Idle \in RequestType /\ Idle.pc = "idle"
  BY RequestRecords, RequestFields DEF TypeInv, TypeOK
<1>1. CASE \/ UNCHANGED vars
           \/ \E file \in Numbers : Cleanup(file)
  BY <1>1 DEF vars, Cleanup, database
<1>2. CASE Crash
  BY <1>0, <1>2 DEF Crash, files, database
<1>3. ASSUME NEW r \in Requests,
             \/ Proceed(r) /\ ~ OpenTarget(r) /\ ~ Copy(r)
             \/ Fault(r)
      PROVE  /\ target' = target
             /\ certificates \subseteq certificates'
             /\ \/ Become(r, Idle)
                \/ /\ req[r].pc \in ReleasePc
                   /\ \E pc \in ReleasePc \ {"copying"} : MoveOn(r, pc)
  BY <1>3 DEF Proceed, Allocate, CheckTarget, OpenPending, WritePending,
     CannotStage, CommitRelease, RollBackRelease, Discard, Finish,
     CannotFinalize, CommitManual, RefuseManual, Serve, Fault, At, ReleasePc,
     Staged, files, database
<1>4. ASSUME NEW r \in Requests, req[r].pc \in ReleasePc,
             NEW pc \in ReleasePc \ {"copying"}, MoveOn(r, pc)
      PROVE  /\ req'[r].pc = pc /\ req'[r].c = req[r].c
             /\ \A p \in Requests : p # r => req'[p] = req[p]
  <2>1. req[r].pc # "idle" /\ pc \in BusyPc
    BY <1>4 DEF BusyPc, ReleasePc, Staged
  <2> QED
    BY <1>0, <1>4, <2>1, MoveOnEffect
<1>5. ASSUME NEW r \in Requests, Become(r, Idle)
      PROVE  /\ req'[r].pc = "idle"
             /\ \A p \in Requests : p # r => req'[p] = req[p]
  BY <1>0, <1>5, BecomeEffect
<1> QED
  BY <1>1, <1>2, <1>3, <1>4, <1>5

\* The inductive invariant of the final files holds.
LEMMA TargetInvariant == Spec => []TargetInv
<1>1. Init => TargetInv
  BY RequestFields, RequestRecords
  DEF Init, TargetInv, FinalsAreReleased, OneCopier, KnowsTarget, ReleasePc,
      Staged, Idle
<1>2. TypeInv /\ TargetInv /\ [Next]_vars => TargetInv'
  BY QuietSteps, OtherStepsQuiet, ArriveTarget, OpenTargetKeeps, CopyKeeps,
     PlaceFileKeeps DEF Next
<1> QED
  BY <1>1, <1>2, TypeInvariant, PTL DEF Spec

\* A release that fails before its commit leaves no final file.
THEOREM FinalsReleased == Spec => []FinalsAreReleased
<1>1. TargetInv => FinalsAreReleased
  BY DEF TargetInv
<1> QED
  BY <1>1, TargetInvariant, PTL

\* A download sends what was verified.
THEOREM DownloadsFaithful == Spec => []DownloadsServeReleased
<1>1. TargetInv => DownloadsServeReleased
  BY DEF TargetInv, KnowsTarget, DownloadsServeReleased
<1> QED
  BY <1>1, TargetInvariant, PTL

\* What a step does to complete final files.
LEMMA FinalsKept ==
  ASSUME TypeInv, TargetInv, [Next]_vars,
         NEW n \in Numbers, target[n] \in Jobs
  PROVE  target'[n] = target[n]
<1>0. target \in [Numbers -> Bytes] /\ target[n] # Absent /\ target[n] # Truncated
  BY ArtifactAssumption DEF TypeInv, TypeOK
<1>1. ASSUME NEW r \in Requests, Arrive(r) PROVE target' = target
  BY <1>1 DEF Arrive, BeginTyped, BeginAllocated, BeginManual, BeginDownload,
     files
<1>2. ASSUME NEW r \in Requests, OpenTarget(r) PROVE target'[n] = target[n]
  BY <1>0, <1>2 DEF OpenTarget
<1>3. ASSUME NEW r \in Requests, Copy(r) PROVE target'[n] = target[n]
  <2>1. target[req[r].c.file] = Truncated
    BY <1>3, CopyKeeps
  <2> QED
    BY <1>0, <1>3, <2>1 DEF Copy
<1>4. ASSUME NEW file \in ManualFiles, NEW job \in Jobs, PlaceFile(file, job)
      PROVE  target'[n] = target[n]
  BY <1>0, <1>4 DEF PlaceFile
<1> QED
  BY <1>1, <1>2, <1>3, <1>4, OtherStepsQuiet DEF Next

\* A complete final file never changes again.
THEOREM FinalsImmutable == Spec => FinalsAreImmutable
<1>1. TypeInv /\ TargetInv /\ [Next]_vars
        => [\A n \in Numbers : target[n] \in Jobs => target'[n] = target[n]]_vars
  BY FinalsKept
<1> QED
  BY <1>1, TypeInvariant, TargetInvariant, PTL DEF Spec, FinalsAreImmutable

(***************************************************************************)
(* Pending files, when no request outlives the cutoff of the cleanup       *)
(***************************************************************************)

\* What a request knows of the pending file it opened, of the certificates that
\* had that file before it, and of the final file it writes.
KnowsPending(q) ==
  /\ q.pc \in Staged => pending[q.c.file] # Absent
  /\ q.pc \in Staged \ {"opened"} => pending[q.c.file] = q.c.bytes
  /\ q.pc \in {"opened", "staged", "discarding"} =>
       \A c \in certificates \ lost :
         c.file = q.c.file => target[c.file] = c.bytes
  /\ q.pc = "committed" /\ q.c.file \notin ManualFiles =>
       target[q.c.file] = Absent
  /\ q.pc = "copied" => target[q.c.file] = q.c.bytes

\* The exclusive open leaves one request to each pending file.
OneStager ==
  \A r, p \in Requests :
    /\ req[r].pc \in Staged /\ req[p].pc \in Staged
    /\ req[r].c.file = req[p].c.file
    => r = p

\* The inductive invariant of the pending files.
PendingInv ==
  /\ OneStager
  /\ \A r \in Requests : KnowsPending(req[r])
  /\ OnlyCleanupLosesPdf
  /\ AnsweredIsRetrievable
  /\ PendingIsTransient

\* The typing facts these proofs use.
LEMMA Typing ==
  ASSUME TypeInv
  PROVE  /\ req \in [Requests -> RequestType]
         /\ pending \in [Numbers -> Bytes] /\ target \in [Numbers -> Bytes]
         /\ \A r \in Requests : req[r].pc # "idle" =>
              /\ req[r].c \in CertificateRecord
              /\ req[r].c.file \in Numbers /\ req[r].c.bytes \in Jobs
         /\ certificates \subseteq CertificateRecord
         /\ \A c \in CertificateRecord : c.file \in Numbers /\ c.bytes \in Jobs
         /\ answered \subseteq certificates /\ lost \subseteq certificates
         /\ Absent \notin Jobs /\ Truncated \notin Jobs /\ Absent # Truncated
         /\ "idle" \notin Staged
<1>1. req \in [Requests -> RequestType]
  BY DEF TypeInv, TypeOK
<1>2. \A c \in CertificateRecord : c.file \in Numbers /\ c.bytes \in Jobs
  BY RecordFields
<1>3. \A r \in Requests : req[r].pc # "idle" => req[r].c \in CertificateRecord
  BY <1>1, RequestFields
<1> QED
  BY <1>1, <1>2, <1>3, ArtifactAssumption DEF TypeInv, TypeOK, Staged

\* A certificate whose final file is complete keeps it.
LEMMA CompleteStays ==
  ASSUME TypeInv, TargetInv, [Next]_vars, NEW c \in CertificateRecord,
         target[c.file] = c.bytes
  PROVE  target'[c.file] = c.bytes
  BY FinalsKept, RecordFields

\* A request whose pending file is another one knows what it knew.
LEMMA OthersKnow ==
  ASSUME TypeInv, NEW q \in RequestType, KnowsPending(q), NEW f,
         q.pc \in Staged => q.c.file # f,
         \A n \in Numbers : n # f =>
           pending'[n] = pending[n] /\ target'[n] = target[n],
         lost \subseteq lost',
         \A c \in certificates' :
           c \in certificates \/ c.file = f \/ target'[c.file] = c.bytes
  PROVE  KnowsPending(q)'
<1>1. q.pc \in Staged => q.c.file \in Numbers
  BY RequestFields, RecordFields DEF Staged
<1>2. CASE q.pc \notin Staged
  BY <1>2 DEF KnowsPending, Staged
<1>3. CASE q.pc \in Staged
  <2>1. /\ pending'[q.c.file] = pending[q.c.file]
        /\ target'[q.c.file] = target[q.c.file]
    BY <1>1, <1>3
  <2>2. q.pc \in {"opened", "staged", "discarding"} =>
          \A c \in certificates' \ lost' :
            c.file = q.c.file => target'[c.file] = c.bytes
    BY <1>3, <2>1 DEF KnowsPending
  <2> QED
    BY <1>3, <2>1, <2>2 DEF KnowsPending
<1> QED
  BY <1>2, <1>3

\* Steps that leave pending files and certificates alone, or add a certificate
\* whose final file is complete, and end or start no use of a pending file.
LEMMA UntouchedPending ==
  ASSUME TypeInv, TargetInv, PendingInv, [Next]_vars,
         pending' = pending, lost' = lost,
         faults' = 0 => faults = 0,
         \A n \in Numbers : target'[n] = target[n] \/ n \in ManualFiles,
         \A c \in certificates' : c \in certificates \/ target'[c.file] = c.bytes,
         \A c \in answered' : c \in answered \/ target'[c.file] = c.bytes,
         \A p \in Requests :
           \/ req'[p] = req[p]
           \/ /\ req'[p].pc \notin Staged
              /\ \/ req[p].pc \notin Staged
                 \/ faults' # 0
                 \/ req[p].c.file \in ManualFiles
           \/ /\ req[p].pc = "staged" /\ req'[p].pc = "discarding"
              /\ req'[p].c = req[p].c
  PROVE  PendingInv'
<1>0. /\ \A r \in Requests : req[r].pc # "idle" =>
           req[r].c \in CertificateRecord /\ req[r].c.file \in Numbers
      /\ certificates \subseteq CertificateRecord
      /\ answered \subseteq certificates
  BY Typing
<1>1. \A c \in CertificateRecord :
        target[c.file] = c.bytes => target'[c.file] = c.bytes
  BY CompleteStays
<1>2. OneStager'
  BY DEF PendingInv, OneStager, Staged
<1>3. ASSUME NEW p \in Requests PROVE KnowsPending(req[p])'
  <2>1. KnowsPending(req[p])
    BY DEF PendingInv
  <2>2. ASSUME NEW q, q = req[p] PROVE KnowsPending(q)'
    <3>1. KnowsPending(q)
      BY <2>1, <2>2
    <3>2. q.pc \in Staged => q.c \in CertificateRecord /\ q.c.file \in Numbers
      BY <1>0, <2>2 DEF Staged
    <3>3. q.pc \in {"opened", "staged", "discarding"} =>
            \A c \in certificates' \ lost' :
              c.file = q.c.file => target'[c.file] = c.bytes
      BY <1>0, <1>1, <3>1 DEF KnowsPending
    <3>4. q.pc = "committed" /\ q.c.file \notin ManualFiles =>
            target'[q.c.file] = Absent
      BY <3>1, <3>2 DEF KnowsPending, Staged
    <3>5. q.pc = "copied" => target'[q.c.file] = q.c.bytes
      BY <1>1, <3>1, <3>2 DEF KnowsPending, Staged
    <3> QED
      BY <3>1, <3>3, <3>4, <3>5 DEF KnowsPending
  <2>3. KnowsPending(req[p])' \/ req'[p] # req[p]
    BY <2>2 DEF KnowsPending
  <2>4. ASSUME req[p].pc = "staged", req'[p].pc = "discarding",
               req'[p].c = req[p].c
        PROVE  KnowsPending(req[p])'
    <3>1. \A c \in certificates' \ lost' :
            c.file = req[p].c.file => target'[c.file] = c.bytes
      BY <2>2, <2>4 DEF KnowsPending
    <3>2. pending[req[p].c.file] # Absent
          /\ pending[req[p].c.file] = req[p].c.bytes
      BY <2>1, <2>4 DEF KnowsPending, Staged
    <3> QED
      BY <2>4, <3>1, <3>2 DEF KnowsPending
  <2>5. ASSUME req'[p].pc \notin Staged PROVE KnowsPending(req[p])'
    BY <2>5 DEF KnowsPending, Staged
  <2> QED
    BY <2>3, <2>4, <2>5
<1>4. OnlyCleanupLosesPdf'
  BY <1>0, <1>1 DEF PendingInv, OnlyCleanupLosesPdf, Kept
<1>5. AnsweredIsRetrievable'
  BY <1>0, <1>1 DEF PendingInv, AnsweredIsRetrievable
<1>6. PendingIsTransient'
  <2> SUFFICES ASSUME faults' = 0, NEW n \in Numbers \ ManualFiles,
                      pending[n] # Absent
               PROVE  InUse(n)'
    BY DEF PendingIsTransient
  <2>1. PICK p \in Requests : req[p].pc \in Staged /\ req[p].c.file = n
    BY DEF PendingInv, PendingIsTransient, InUse
  <2>2. req'[p].pc \in Staged /\ req'[p].c.file = n
    BY <2>1 DEF Staged
  <2> QED
    BY <2>2 DEF InUse
<1> QED
  BY <1>2, <1>3, <1>4, <1>5, <1>6 DEF PendingInv

\* Steps of one request that touch the files of one number.
LEMMA AtFile ==
  ASSUME TypeInv, TargetInv, PendingInv, [Next]_vars,
         NEW r \in Requests, NEW f \in Numbers,
         lost' = lost, faults' = faults,
         \A n \in Numbers : n # f =>
           pending'[n] = pending[n] /\ target'[n] = target[n],
         \A p \in Requests : p # r => req'[p] = req[p],
         \A p \in Requests : p # r /\ req[p].pc \in Staged => req[p].c.file # f,
         req[r].pc \in Staged => req[r].c.file = f,
         req'[r].pc \in Staged => req'[r].c.file = f,
         \A c \in certificates' : c \in certificates \/ c.file = f,
         \A c \in answered' : c \in answered \/ target'[c.file] = c.bytes,
         KnowsPending(req[r])',
         \A c \in certificates' \ lost : c.file = f => Kept(c)',
         pending'[f] # Absent /\ f \notin ManualFiles /\ faults = 0 =>
           req'[r].pc \in Staged
  PROVE  PendingInv'
<1>0. /\ req \in [Requests -> RequestType]
      /\ certificates \subseteq CertificateRecord
      /\ \A c \in CertificateRecord : c.file \in Numbers
      /\ answered \subseteq certificates
  BY Typing
<1>1. OneStager'
  BY DEF PendingInv, OneStager
<1>2. ASSUME NEW p \in Requests, p # r PROVE KnowsPending(req[p])'
  <2>1. PICK q \in RequestType : q = req[p]
    BY <1>0
  <2>2. KnowsPending(q) /\ (q.pc \in Staged => q.c.file # f)
    BY <1>2, <2>1 DEF PendingInv
  <2>3. KnowsPending(q)'
    BY <2>2, OthersKnow
  <2>4. req'[p] = q
    BY <1>2, <2>1
  <2> QED
    BY <2>3, <2>4 DEF KnowsPending
<1>3. \A p \in Requests : KnowsPending(req[p])'
  BY <1>2
<1>4. OnlyCleanupLosesPdf'
  BY <1>0 DEF PendingInv, OnlyCleanupLosesPdf, Kept
<1>5. AnsweredIsRetrievable'
  BY <1>0, CompleteStays DEF PendingInv, AnsweredIsRetrievable
<1>6. PendingIsTransient'
  <2> SUFFICES ASSUME faults = 0, NEW n \in Numbers \ ManualFiles,
                      pending'[n] # Absent
               PROVE  InUse(n)'
    BY DEF PendingIsTransient
  <2>1. CASE n = f
    BY <2>1 DEF InUse
  <2>2. CASE n # f
    <3>1. PICK p \in Requests : req[p].pc \in Staged /\ req[p].c.file = n
      BY <2>2 DEF PendingInv, PendingIsTransient, InUse
    <3> QED
      BY <2>2, <3>1 DEF InUse
  <2> QED
    BY <2>1, <2>2
<1> QED
  BY <1>1, <1>3, <1>4, <1>5, <1>6 DEF PendingInv

\* The context of a step of a request with a staged file.
LEMMA StagedFile ==
  ASSUME TypeInv, TargetInv, PendingInv, NEW r \in Requests, req[r].pc \in Staged
  PROVE  /\ req[r].c \in CertificateRecord
         /\ req[r].c.file \in Numbers /\ req[r].c.bytes \in Jobs
         /\ req[r].c.file = req[r].c.number
         /\ pending[req[r].c.file] # Absent
         /\ \A p \in Requests : p # r /\ req[p].pc \in Staged =>
              req[p].c.file # req[r].c.file
<1>1. req[r].pc \in ReleasePc /\ req[r].pc # "idle"
  BY DEF ReleasePc, Staged
<1>2. req[r].c.file = req[r].c.number
  BY <1>1 DEF TargetInv, KnowsTarget
<1>3. pending[req[r].c.file] # Absent
  BY DEF PendingInv, KnowsPending
<1>4. \A p \in Requests : p # r /\ req[p].pc \in Staged =>
        req[p].c.file # req[r].c.file
  BY DEF PendingInv, OneStager
<1> QED
  BY <1>1, <1>2, <1>3, <1>4, Typing

\* The exclusive open of a pending file.
LEMMA OpenPendingKeeps ==
  ASSUME TypeInv, TargetInv, PendingInv, NEW r \in Requests, OpenPending(r),
         UNCHANGED lost
  PROVE  PendingInv'
<1>1. PICK f \in Numbers : f = req[r].c.file
  BY Typing DEF OpenPending, At
<1>2. /\ req[r].pc = "checked" /\ "opened" \in BusyPc
      /\ req[r].c \in CertificateRecord
  BY Typing DEF OpenPending, At, BusyPc, ReleasePc, Staged
<1>3. /\ req'[r].pc = "opened" /\ req'[r].c = req[r].c
      /\ \A p \in Requests : p # r => req'[p] = req[p]
  BY <1>2, MoveOnEffect, Typing DEF OpenPending
<1>4. /\ pending[f] = Absent /\ pending'[f] = Truncated
      /\ \A n \in Numbers : n # f => pending'[n] = pending[n]
      /\ UNCHANGED <<target, certificates, answered, faults>>
  BY <1>1, Typing DEF OpenPending, database
<1>5. \A p \in Requests : req[p].pc \in Staged => req[p].c.file # f
  BY <1>4 DEF PendingInv, KnowsPending
<1>6. \A c \in certificates \ lost : c.file = f => target[c.file] = c.bytes
  BY <1>4, Typing DEF PendingInv, OnlyCleanupLosesPdf, Kept
<1>7. KnowsPending(req[r])'
  BY <1>1, <1>3, <1>4, <1>6, Typing DEF KnowsPending, Staged
<1>8. \A c \in certificates' \ lost : c.file = f => Kept(c)'
  BY <1>4, <1>6 DEF Kept
<1>9. [Next]_vars
  BY DEF Next, Proceed
<1>10. req'[r].pc \in Staged /\ req[r].pc \notin Staged
  BY <1>2, <1>3 DEF Staged
<1> QED
  BY <1>1, <1>3, <1>4, <1>5, <1>7, <1>8, <1>9, <1>10, AtFile

\* The bytes of a staged file.
LEMMA WritePendingKeeps ==
  ASSUME TypeInv, TargetInv, PendingInv, NEW r \in Requests, WritePending(r),
         UNCHANGED lost
  PROVE  PendingInv'
<1>1. /\ req[r].pc = "opened" /\ req[r].pc \in Staged /\ req[r].pc # "idle"
      /\ "staged" \in Staged /\ "staged" \in BusyPc
  BY DEF WritePending, At, BusyPc, ReleasePc, Staged
<1>2. PICK f \in Numbers : f = req[r].c.file
  BY <1>1, StagedFile
<1>3. /\ req'[r].pc = "staged" /\ req'[r].c = req[r].c
      /\ \A p \in Requests : p # r => req'[p] = req[p]
  BY <1>1, MoveOnEffect, Typing DEF WritePending
<1>4. /\ pending'[f] = req[r].c.bytes /\ req[r].c.bytes # Absent
      /\ \A n \in Numbers : n # f => pending'[n] = pending[n]
      /\ UNCHANGED <<target, certificates, answered, faults>>
  BY <1>1, <1>2, StagedFile, Typing DEF WritePending, database
<1>5. \A c \in certificates \ lost : c.file = f => target[c.file] = c.bytes
  BY <1>1, <1>2 DEF PendingInv, KnowsPending
<1>6. KnowsPending(req[r])'
  BY <1>2, <1>3, <1>4, <1>5 DEF KnowsPending
<1>7. \A c \in certificates' \ lost : c.file = f => Kept(c)'
  BY <1>4, <1>5 DEF Kept
<1>8. [Next]_vars
  BY DEF Next, Proceed
<1> QED
  BY <1>1, <1>2, <1>3, <1>4, <1>6, <1>7, <1>8, AtFile, StagedFile

\* The commit of a release whose file is staged.
LEMMA CommitReleaseKeeps ==
  ASSUME TypeInv, TargetInv, PendingInv, NEW r \in Requests, CommitRelease(r),
         UNCHANGED lost
  PROVE  PendingInv'
<1>1. /\ req[r].pc = "staged" /\ req[r].pc \in Staged /\ req[r].pc # "idle"
      /\ "committed" \in Staged /\ "committed" \in BusyPc
  BY DEF CommitRelease, At, BusyPc, ReleasePc, Staged
<1>2. PICK f \in Numbers : f = req[r].c.file /\ f = req[r].c.number
  BY <1>1, StagedFile
<1>3. /\ req'[r].pc = "committed" /\ req'[r].c = req[r].c
      /\ \A p \in Requests : p # r => req'[p] = req[p]
  BY <1>1, MoveOnEffect, Typing DEF CommitRelease
<1>4. /\ UNCHANGED <<pending, target, answered, faults>>
      /\ certificates' = certificates \cup {req[r].c}
  BY DEF CommitRelease, files
<1>5. f \notin ManualFiles => target[f] = Absent
  BY <1>2 DEF CommitRelease, Acceptable, TargetInv, FinalsAreReleased
<1>6. pending[f] = req[r].c.bytes /\ pending[f] # Absent
  BY <1>1, <1>2 DEF PendingInv, KnowsPending
<1>7. KnowsPending(req[r])'
  BY <1>2, <1>3, <1>4, <1>5, <1>6 DEF KnowsPending
<1>8. \A c \in certificates' \ lost : c.file = f => Kept(c)'
  BY <1>2, <1>4, <1>6 DEF PendingInv, OnlyCleanupLosesPdf, Kept
<1>9. [Next]_vars
  BY DEF Next, Proceed
<1> QED
  BY <1>1, <1>2, <1>3, <1>4, <1>7, <1>8, <1>9, AtFile, StagedFile

\* The pending file of a failed release is discarded.
LEMMA DiscardKeeps ==
  ASSUME TypeInv, TargetInv, PendingInv, NEW r \in Requests, Discard(r),
         UNCHANGED lost
  PROVE  PendingInv'
<1>1. req[r].pc = "discarding" /\ req[r].pc \in Staged
  BY DEF Discard, At, Staged
<1>2. PICK f \in Numbers : f = req[r].c.file
  BY <1>1, StagedFile
<1>3. /\ req'[r].pc = "idle" /\ "idle" \notin Staged
      /\ \A p \in Requests : p # r => req'[p] = req[p]
  BY RequestRecords, RequestFields, BecomeEffect, Typing DEF Discard
<1>4. /\ pending'[f] = Absent
      /\ \A n \in Numbers : n # f => pending'[n] = pending[n]
      /\ UNCHANGED <<target, certificates, answered, faults>>
  BY <1>2, Typing DEF Discard, database
<1>5. \A c \in certificates \ lost : c.file = f => target[c.file] = c.bytes
  BY <1>1, <1>2 DEF PendingInv, KnowsPending
<1>6. KnowsPending(req[r])'
  BY <1>3 DEF KnowsPending, Staged
<1>7. \A c \in certificates' \ lost : c.file = f => Kept(c)'
  BY <1>4, <1>5 DEF Kept
<1>8. [Next]_vars
  BY DEF Next, Proceed
<1> QED
  BY <1>1, <1>2, <1>3, <1>4, <1>6, <1>7, <1>8, AtFile, StagedFile

\* The exclusive open of the final file.
LEMMA OpenTargetKeepsPending ==
  ASSUME TypeInv, TargetInv, PendingInv, NEW r \in Requests, OpenTarget(r),
         UNCHANGED lost
  PROVE  PendingInv'
<1>1. /\ req[r].pc = "committed" /\ req[r].pc \in Staged /\ req[r].pc # "idle"
      /\ "copying" \in Staged /\ "copying" \in BusyPc
  BY DEF OpenTarget, At, BusyPc, ReleasePc, Staged
<1>2. PICK f \in Numbers : f = req[r].c.file
  BY <1>1, StagedFile
<1>3. /\ req'[r].pc = "copying" /\ req'[r].c = req[r].c
      /\ \A p \in Requests : p # r => req'[p] = req[p]
  BY <1>1, MoveOnEffect, Typing DEF OpenTarget
<1>4. /\ target[f] = Absent
      /\ \A n \in Numbers : n # f => target'[n] = target[n]
      /\ UNCHANGED <<pending, certificates, answered, faults>>
  BY <1>2, Typing DEF OpenTarget, database
<1>5. pending[f] = req[r].c.bytes /\ pending[f] # Absent
  BY <1>1, <1>2, StagedFile DEF PendingInv, KnowsPending
<1>6. KnowsPending(req[r])'
  BY <1>2, <1>3, <1>4, <1>5 DEF KnowsPending
<1>7. \A c \in certificates' \ lost : c.file = f => Kept(c)'
  BY <1>4, Typing DEF PendingInv, OnlyCleanupLosesPdf, Kept
<1>8. [Next]_vars
  BY DEF Next, Proceed
<1> QED
  BY <1>1, <1>2, <1>3, <1>4, <1>6, <1>7, <1>8, AtFile, StagedFile

\* The copy into the final file.
LEMMA CopyKeepsPending ==
  ASSUME TypeInv, TargetInv, PendingInv, NEW r \in Requests, Copy(r),
         UNCHANGED lost
  PROVE  PendingInv'
<1>1. /\ req[r].pc = "copying" /\ req[r].pc \in Staged /\ req[r].pc # "idle"
      /\ "copied" \in Staged /\ "copied" \in BusyPc
  BY DEF Copy, At, BusyPc, ReleasePc, Staged
<1>2. PICK f \in Numbers : f = req[r].c.file
  BY <1>1, StagedFile
<1>3. /\ req'[r].pc = "copied" /\ req'[r].c = req[r].c
      /\ \A p \in Requests : p # r => req'[p] = req[p]
  BY <1>1, MoveOnEffect, Typing DEF Copy
<1>4. pending[f] = req[r].c.bytes /\ pending[f] # Absent
  BY <1>1, <1>2, StagedFile DEF PendingInv, KnowsPending
<1>5. /\ target[f] = Truncated /\ target'[f] = pending[f]
      /\ \A n \in Numbers : n # f => target'[n] = target[n]
      /\ UNCHANGED <<pending, certificates, answered, faults>>
  BY <1>2, CopyKeeps, Typing DEF Copy, database
<1>6. KnowsPending(req[r])'
  BY <1>2, <1>3, <1>4, <1>5 DEF KnowsPending
<1>7. \A c \in certificates' \ lost : c.file = f => Kept(c)'
  BY <1>5, Typing DEF PendingInv, OnlyCleanupLosesPdf, Kept
<1>8. [Next]_vars
  BY DEF Next, Proceed
<1> QED
  BY <1>1, <1>2, <1>3, <1>5, <1>6, <1>7, <1>8, AtFile, StagedFile

\* The pending file is deleted once its bytes are in the final one.
LEMMA FinishKeeps ==
  ASSUME TypeInv, TargetInv, PendingInv, NEW r \in Requests, Finish(r),
         UNCHANGED lost
  PROVE  PendingInv'
<1>1. req[r].pc = "copied" /\ req[r].pc \in Staged
  BY DEF Finish, At, Staged
<1>2. PICK f \in Numbers : f = req[r].c.file
  BY <1>1, StagedFile
<1>3. /\ req'[r].pc = "idle" /\ "idle" \notin Staged
      /\ \A p \in Requests : p # r => req'[p] = req[p]
  BY RequestRecords, RequestFields, BecomeEffect, Typing DEF Finish
<1>4. /\ pending'[f] = Absent
      /\ \A n \in Numbers : n # f => pending'[n] = pending[n]
      /\ UNCHANGED <<target, certificates, faults>>
      /\ answered' = answered \cup {req[r].c}
  BY <1>2, Typing DEF Finish, database
<1>5. pending[f] = req[r].c.bytes /\ target[f] = req[r].c.bytes
  BY <1>1, <1>2 DEF PendingInv, KnowsPending
<1>6. KnowsPending(req[r])'
  BY <1>3 DEF KnowsPending, Staged
<1>7. \A c \in certificates' \ lost : c.file = f => Kept(c)'
  BY <1>4, <1>5 DEF PendingInv, OnlyCleanupLosesPdf, Kept
<1>8. [Next]_vars
  BY DEF Next, Proceed
<1> QED
  BY <1>1, <1>2, <1>3, <1>4, <1>5, <1>6, <1>7, <1>8, AtFile, StagedFile

\* The cleanup deletes pending files that no request needs, and marks the last
\* bytes it deletes.
LEMMA CleanupKeeps ==
  ASSUME TypeInv, TargetInv, PendingInv, PromptRequests,
         NEW f \in Numbers, Cleanup(f)
  PROVE  PendingInv'
<1>1. /\ \A p \in Requests : req[p].pc \in Staged => req[p].c.file # f
      /\ pending'[f] = Absent
      /\ \A n \in Numbers : n # f => pending'[n] = pending[n]
      /\ UNCHANGED <<target, certificates, req, answered, faults>>
      /\ lost' = lost \cup LastCopies(f)
  BY Typing DEF Cleanup, InUse, database
<1>2. \A p \in Requests : KnowsPending(req[p])'
  <2> SUFFICES ASSUME NEW p \in Requests PROVE KnowsPending(req[p])'
    OBVIOUS
  <2>1. PICK q \in RequestType : q = req[p]
    BY Typing
  <2>2. KnowsPending(q) /\ (q.pc \in Staged => q.c.file # f)
    BY <1>1, <2>1 DEF PendingInv
  <2>3. KnowsPending(q)'
    BY <1>1, <2>2, OthersKnow
  <2> QED
    BY <1>1, <2>1, <2>3 DEF KnowsPending
<1>3. OnlyCleanupLosesPdf'
  BY <1>1, Typing DEF PendingInv, OnlyCleanupLosesPdf, Kept, LastCopies
<1>4. PendingIsTransient'
  <2> SUFFICES ASSUME faults = 0, NEW n \in Numbers \ ManualFiles,
                      pending'[n] # Absent
               PROVE  InUse(n)'
    BY <1>1 DEF PendingIsTransient
  <2>1. InUse(n)
    BY <1>1 DEF PendingInv, PendingIsTransient
  <2> QED
    BY <1>1, <2>1 DEF InUse
<1> QED
  BY <1>1, <1>2, <1>3, <1>4
  DEF PendingInv, OneStager, AnsweredIsRetrievable

\* A request changes by one of these, when it touches no pending file.
Untouched(p) ==
  \/ req'[p] = req[p]
  \/ /\ req'[p].pc \notin Staged
     /\ \/ req[p].pc \notin Staged
        \/ faults' # 0
        \/ req[p].c.file \in ManualFiles
  \/ /\ req[p].pc = "staged" /\ req'[p].pc = "discarding"
     /\ req'[p].c = req[p].c

\* The other steps of a request.
LEMMA OtherRequestSteps ==
  ASSUME TypeInv, TargetInv, PendingInv, NEW r \in Requests,
         \/ Arrive(r) \/ Allocate(r) \/ CheckTarget(r) \/ CannotStage(r)
         \/ RollBackRelease(r) \/ CannotFinalize(r) \/ CommitManual(r)
         \/ RefuseManual(r) \/ Serve(r) \/ Fault(r)
  PROVE  /\ UNCHANGED files
         /\ faults' = 0 => faults = 0
         /\ \A c \in certificates' :
              c \in certificates \/ target'[c.file] = c.bytes
         /\ \A c \in answered' : c \in answered \/ target'[c.file] = c.bytes
         /\ \A p \in Requests : Untouched(p)
<1>0. /\ req \in [Requests -> RequestType]
      /\ Idle \in RequestType /\ Idle.pc = "idle" /\ "idle" \notin Staged
      /\ faults \in Nat
  BY RequestRecords, RequestFields, ArtifactAssumption
  DEF TypeInv, TypeOK, Staged
<1>1. ASSUME Arrive(r)
      PROVE  /\ UNCHANGED <<files, certificates, answered, faults>>
             /\ req[r].pc \notin Staged
             /\ \E q : Become(r, q) /\ q.pc \notin Staged
  <2>1. UNCHANGED <<files, certificates, answered, faults>> /\ req[r] = Idle
    BY <1>1 DEF Arrive, BeginTyped, BeginAllocated, BeginManual, BeginDownload,
       database
  <2>2. \E q : Become(r, q) /\ q.pc \notin Staged
    <3>1. ASSUME NEW pc, NEW route, NEW c, pc \notin Staged,
                 Become(r, Request(pc, route, c))
          PROVE  \E q : Become(r, q) /\ q.pc \notin Staged
      BY <3>1 DEF Request
    <3>2. {"numbered", "allocating", "verified", "serving"} \cap Staged = {}
      BY DEF Staged
    <3>3. \E pc \in {"numbered", "allocating", "verified", "serving"} :
            \E route, c : Become(r, Request(pc, route, c))
      BY <1>1 DEF Arrive, BeginTyped, BeginAllocated, BeginManual, BeginDownload
    <3> QED
      BY <3>1, <3>2, <3>3
  <2> QED
    BY <1>0, <2>1, <2>2
<1>2. ASSUME Allocate(r) \/ CheckTarget(r)
      PROVE  /\ UNCHANGED <<files, certificates, answered, faults>>
             /\ req[r].pc \notin Staged /\ req[r].pc # "idle"
             /\ \E pc \in BusyPc \ Staged : MoveOn(r, pc)
  BY <1>2
  DEF Allocate, CheckTarget, At, BusyPc, ReleasePc, Staged, database
<1>3. ASSUME CannotStage(r) \/ RefuseManual(r) \/ Serve(r)
      PROVE  /\ UNCHANGED <<files, certificates, answered, faults>>
             /\ req[r].pc \notin Staged
             /\ Become(r, Idle)
  BY <1>3 DEF CannotStage, RefuseManual, Serve, At, Staged, database
<1>4. ASSUME CommitManual(r)
      PROVE  /\ UNCHANGED <<files, faults>>
             /\ certificates' = certificates \cup {req[r].c}
             /\ answered' = answered \cup {req[r].c}
             /\ target'[req[r].c.file] = req[r].c.bytes
             /\ req[r].pc \notin Staged
             /\ Become(r, Idle)
  BY <1>4 DEF CommitManual, At, Staged, files, TargetInv, KnowsTarget
<1>5. ASSUME CannotFinalize(r)
      PROVE  /\ UNCHANGED <<files, certificates, answered, faults>>
             /\ req[r].c.file \in ManualFiles
             /\ Become(r, Idle)
  BY <1>5, StagedFile
  DEF CannotFinalize, At, Staged, PendingInv, KnowsPending, database
<1>6. ASSUME RollBackRelease(r)
      PROVE  /\ UNCHANGED <<files, certificates, answered, faults>>
             /\ req[r].pc = "staged" /\ MoveOn(r, "discarding")
  BY <1>6 DEF RollBackRelease, At, database
<1>7. ASSUME Fault(r)
      PROVE  /\ UNCHANGED <<files, certificates, answered>>
             /\ faults' # 0
             /\ \/ req[r].pc = "staged" /\ MoveOn(r, "discarding")
                \/ Become(r, Idle)
  BY <1>0, <1>7 DEF Fault, At, database
<1>8. ASSUME NEW pc \in BusyPc, req[r].pc # "idle", MoveOn(r, pc)
      PROVE  /\ req'[r].pc = pc /\ req'[r].c = req[r].c
             /\ \A p \in Requests : p # r => req'[p] = req[p]
  BY <1>0, <1>8, MoveOnEffect
<1>9. ASSUME NEW q, Become(r, q)
      PROVE  /\ req'[r] = q
             /\ \A p \in Requests : p # r => req'[p] = req[p]
  BY <1>0, <1>9 DEF Become
<1>10. "discarding" \in BusyPc
  BY DEF BusyPc, ReleasePc, Staged
<1>11. /\ UNCHANGED files
       /\ faults' = 0 => faults = 0
       /\ \A c \in certificates' :
            c \in certificates \/ target'[c.file] = c.bytes
       /\ \A c \in answered' : c \in answered \/ target'[c.file] = c.bytes
  BY <1>1, <1>2, <1>3, <1>4, <1>5, <1>6, <1>7
<1>12. Untouched(r) /\ \A p \in Requests : p # r => req'[p] = req[p]
  <2>1. CASE Arrive(r)
    BY <1>1, <1>9, <2>1 DEF Untouched
  <2>2. CASE Allocate(r) \/ CheckTarget(r)
    BY <1>2, <1>8, <2>2 DEF Untouched
  <2>3. CASE \/ CannotStage(r) \/ RefuseManual(r) \/ Serve(r)
             \/ CommitManual(r) \/ CannotFinalize(r)
    BY <1>0, <1>3, <1>4, <1>5, <1>9, <2>3 DEF Untouched
  <2>4. CASE RollBackRelease(r)
    BY <1>6, <1>8, <1>10, <2>4 DEF Untouched
  <2>5. CASE Fault(r)
    BY <1>0, <1>7, <1>8, <1>9, <1>10, <2>5 DEF Untouched
  <2> QED
    BY <2>1, <2>2, <2>3, <2>4, <2>5
<1> QED
  BY <1>11, <1>12 DEF Untouched

\* Every step keeps the pending files.
LEMMA PendingKept ==
  ASSUME TypeInv, TargetInv, PendingInv, PromptRequests, [Next]_vars
  PROVE  PendingInv'
<1>1. CASE UNCHANGED vars
  BY <1>1, UntouchedPending DEF vars
<1>2. ASSUME UNCHANGED lost, NEW r \in Requests,
             \/ Arrive(r) \/ Allocate(r) \/ CheckTarget(r) \/ CannotStage(r)
             \/ RollBackRelease(r) \/ CannotFinalize(r) \/ CommitManual(r)
             \/ RefuseManual(r) \/ Serve(r) \/ Fault(r)
      PROVE  PendingInv'
  <2>1. /\ UNCHANGED files
        /\ faults' = 0 => faults = 0
        /\ \A c \in certificates' :
             c \in certificates \/ target'[c.file] = c.bytes
        /\ \A c \in answered' : c \in answered \/ target'[c.file] = c.bytes
        /\ \A p \in Requests : Untouched(p)
    BY <1>2, OtherRequestSteps
  <2> QED
    BY <1>2, <2>1, UntouchedPending DEF Untouched, files
<1>3. ASSUME UNCHANGED lost, Crash PROVE PendingInv'
  <2>1. /\ UNCHANGED <<files, certificates, answered>>
        /\ faults' # 0
        /\ \A p \in Requests : req'[p].pc \notin Staged
    <3>1. Idle.pc \notin Staged /\ faults \in Nat
      BY ArtifactAssumption DEF Idle, Staged, TypeInv, TypeOK
    <3> QED
      BY <1>3, <3>1 DEF Crash, database
  <2> QED
    BY <1>3, <2>1, UntouchedPending DEF files
<1>4. ASSUME UNCHANGED lost, NEW file \in ManualFiles, NEW job \in Jobs,
             PlaceFile(file, job)
      PROVE  PendingInv'
  <2>1. \A n \in Numbers : target'[n] = target[n] \/ n \in ManualFiles
    BY <1>4, Typing DEF PlaceFile
  <2>2. UNCHANGED <<pending, certificates, req, answered, faults>>
    BY <1>4 DEF PlaceFile, database
  <2> QED
    BY <1>4, <2>1, <2>2, UntouchedPending
<1>5. ASSUME UNCHANGED lost, NEW r \in Requests, Proceed(r) PROVE PendingInv'
  BY <1>2, <1>5, OpenPendingKeeps, WritePendingKeeps, CommitReleaseKeeps,
     DiscardKeeps, OpenTargetKeepsPending, CopyKeepsPending, FinishKeeps
  DEF Proceed
<1>6. ASSUME NEW file \in Numbers, Cleanup(file) PROVE PendingInv'
  BY <1>6, CleanupKeeps
<1> QED
  BY <1>1, <1>2, <1>3, <1>4, <1>5, <1>6 DEF Next

\* The inductive invariant of the pending files holds while requests are prompt.
LEMMA PendingInvariant == PromptRequests => (Spec => []PendingInv)
<1> SUFFICES ASSUME PromptRequests PROVE Spec => []PendingInv
  OBVIOUS
<1>1. Init => PendingInv
  BY DEF Init, PendingInv, OneStager, KnowsPending, OnlyCleanupLosesPdf,
     AnsweredIsRetrievable, PendingIsTransient, Idle, Staged
<1>2. TypeInv /\ TargetInv /\ PendingInv /\ [Next]_vars => PendingInv'
  BY PendingKept
<1> QED
  BY <1>1, <1>2, TypeInvariant, TargetInvariant, PTL DEF Spec

\* If no request outlives the cutoff, only the cleanup loses a released PDF:
\* crashes, failed writes and other requests do not.
THEOREM PdfsKept == PromptRequests => (Spec => []OnlyCleanupLosesPdf)
<1> SUFFICES ASSUME PromptRequests PROVE Spec => []OnlyCleanupLosesPdf
  OBVIOUS
<1>1. PendingInv => OnlyCleanupLosesPdf
  BY DEF PendingInv
<1>2. Spec => []PendingInv
  BY PendingInvariant
<1> QED
  BY <1>1, <1>2, PTL

\* If no request outlives the cutoff, an answered release can be downloaded.
THEOREM AnsweredRetrievable == PromptRequests => (Spec => []AnsweredIsRetrievable)
<1> SUFFICES ASSUME PromptRequests PROVE Spec => []AnsweredIsRetrievable
  OBVIOUS
<1>1. PendingInv => AnsweredIsRetrievable
  BY DEF PendingInv
<1>2. Spec => []PendingInv
  BY PendingInvariant
<1> QED
  BY <1>1, <1>2, PTL

\* If no request outlives the cutoff and nothing fails, no release leaves a
\* pending file behind.
THEOREM NothingLeftPending == PromptRequests => (Spec => []PendingIsTransient)
<1> SUFFICES ASSUME PromptRequests PROVE Spec => []PendingIsTransient
  OBVIOUS
<1>1. PendingInv => PendingIsTransient
  BY DEF PendingInv
<1>2. Spec => []PendingInv
  BY PendingInvariant
<1> QED
  BY <1>1, <1>2, PTL
==============================================================================
