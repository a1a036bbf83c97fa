------------------------- MODULE CertificateNumbers --------------------------
(***************************************************************************)
(* The numbers of one certificate-number sequence (one prefix): creating   *)
(* and retiring the sequence, allocating a number on its own or inside a   *)
(* release, and releasing under a number the client typed.                 *)
(*                                                                         *)
(* An allocation reads the row before its first write, so the read and the *)
(* write are two steps; from the write to the commit (the audit event and, *)
(* in a release, the certificate record) it holds the write lock.          *)
(***************************************************************************)
EXTENDS Integers, Sequences

CONSTANTS
  Requests,       \* requests that can be in flight together
  FirstValues,    \* next_value a sequence may be created with
  Paddings,       \* padding a client may ask for
  TypedNumbers,   \* numbers a client may type into a release
  MaxEvents       \* bound: allocations and retirements that are logged

ASSUME NumbersAssumption ==
  /\ FirstValues \subseteq Nat \ {0}
  /\ Paddings \subseteq 1..12
  /\ TypedNumbers \subseteq Nat \X Nat
  /\ MaxEvents \in Nat

VARIABLES
  sequence,   \* the row of certificate_number_sequences
  log,        \* audit events of the sequence and its numbers, in order
  released,   \* certificate_records: the number and how it was obtained, in
              \* order of release
  req,        \* what each request has read so far
  overlapped  \* history: two requests have been in flight at once

CNVars == <<sequence, log, released, req, overlapped>>

Absent == [status |-> "absent", next |-> 0]
Idle == [pc |-> "idle"]

SequenceRow(status, next) == [status |-> status, next |-> next]

Allocating(kind, next, padding) ==
  [pc |-> "allocating", kind |-> kind, next |-> next, padding |-> padding]

Retiring(next) == [pc |-> "retiring", next |-> next]

(***************************************************************************)
(* Certificate numbers as text                                             *)
(***************************************************************************)

\* f"{value:0{padding}d}": two numbers of a sequence are the same text when they
\* have the same value and are padded to the same width, or neither gets a zero.
Number(value, padding) ==
  <<value, IF value < 10^(padding - 1) THEN padding ELSE 0>>

Allocated(number) == [event |-> "allocated", number |-> number]
\* A retirement logged under the allocation's event type.
RetiredAsAllocation(next) == [event |-> "allocated", next |-> next]

Retired(next) == [event |-> "retired", next |-> next]

IsAllocated(number) ==
  \E i \in 1..Len(log) : log[i] = Allocated(number)

IsReleased(number) == \E i \in 1..Len(released) : released[i].number = number

\* certificate_records.certificate_number is UNIQUE: an insert that conflicts
\* fails its whole transaction.
InsertCertificate(number, route) ==
  /\ ~ IsReleased(number)
  /\ released' = Append(released, [number |-> number, route |-> route])

(***************************************************************************)
(* Actions                                                                 *)
(***************************************************************************)

Become(r, record) == req' = [req EXCEPT ![r] = record]

\* A request's first read.
Begin(r, record) ==
  /\ req[r] = Idle
  /\ Become(r, record)
  /\ overlapped' = (overlapped \/ \E q \in Requests : req[q] # Idle)

\* The prefix is the primary key.
CreateSequence(first) ==
  /\ sequence.status = "absent"
  /\ sequence' = SequenceRow("active", first)
  /\ UNCHANGED <<log, released, req, overlapped>>

\* An allocation that does not look at the status it read.
ReadAnySequence(r, kind, padding) ==
  /\ sequence.status # "absent"
  /\ Begin(r, Allocating(kind, sequence.next, padding))
  /\ UNCHANGED <<sequence, log, released>>

\* SELECT next_value, status: the status is looked at here only.
ReadSequence(r, kind, padding) ==
  /\ sequence.status = "active"
  /\ Begin(r, Allocating(kind, sequence.next, padding))
  /\ UNCHANGED <<sequence, log, released>>

\* An update that writes back the row as it was read.
AllocateWholeRow(request) ==
  /\ Len(log) < MaxEvents
  /\ sequence' = SequenceRow("active", request.next + 1)
  /\ log' = Append(log, Allocated(Number(request.next, request.padding)))

\* An update that forgets to count.
AllocateWithoutCounting(request) ==
  /\ Len(log) < MaxEvents
  /\ sequence' = sequence
  /\ log' = Append(log, Allocated(Number(request.next, request.padding)))

\* UPDATE ... SET next_value = (the value read) + 1 WHERE prefix = ...: neither
\* the value nor the status is compared.  Then the audit event.
Allocate(request) ==
  /\ Len(log) < MaxEvents
  /\ sequence' = [sequence EXCEPT !.next = request.next + 1]
  /\ log' = Append(log, Allocated(Number(request.next, request.padding)))

CommitAllocation(r) ==
  /\ req[r].pc = "allocating"
  /\ req[r].kind = "standalone"
  /\ Allocate(req[r])
  /\ Become(r, Idle)
  /\ UNCHANGED <<released, overlapped>>

\* A release that counts its number but does not log it.
CommitReleaseWithoutEvent(r) ==
  /\ req[r].pc = "allocating"
  /\ req[r].kind = "release"
  /\ Len(log) < MaxEvents
  /\ sequence' = [sequence EXCEPT !.next = req[r].next + 1]
  /\ InsertCertificate(Number(req[r].next, req[r].padding), "allocated")
  /\ Become(r, Idle)
  /\ UNCHANGED <<log, overlapped>>

\* The allocation and the certificate record commit together: when the number
\* is taken, the UNIQUE constraint rolls both back (Fail).
CommitRelease(r) ==
  /\ req[r].pc = "allocating"
  /\ req[r].kind = "release"
  /\ Allocate(req[r])
  /\ InsertCertificate(Number(req[r].next, req[r].padding), "allocated")
  /\ Become(r, Idle)
  /\ UNCHANGED overlapped

\* A release under a typed number does not look at the sequence.
ReleaseTyped(number) ==
  /\ InsertCertificate(number, "typed")
  /\ UNCHANGED <<sequence, log, req, overlapped>>

\* next_value and status are read for the audit event.
ReadForRetirement(r) ==
  /\ sequence.status # "absent"
  /\ Begin(r, Retiring(sequence.next))
  /\ UNCHANGED <<sequence, log, released>>

\* A retirement that trusts the status it read.
CommitRetirementBlindly(r) ==
  /\ req[r].pc = "retiring"
  /\ Len(log) < MaxEvents
  /\ sequence' = [sequence EXCEPT !.status = "retired"]
  /\ log' = Append(log, Retired(req[r].next))
  /\ Become(r, Idle)
  /\ UNCHANGED <<released, overlapped>>

\* UPDATE ... SET status = 'retired' WHERE ... AND status = 'active'.
CommitRetirement(r) ==
  /\ req[r].pc = "retiring"
  /\ Len(log) < MaxEvents
  /\ sequence.status = "active"
  /\ sequence' = [sequence EXCEPT !.status = "retired"]
  /\ log' = Append(log, Retired(req[r].next))
  /\ Become(r, Idle)
  /\ UNCHANGED <<released, overlapped>>

\* A request ends without effect: a guard failed, a constraint or a later check
\* of the release rolled it back, or the process was restarted.
Fail(r) ==
  /\ req[r] # Idle
  /\ Become(r, Idle)
  /\ UNCHANGED <<sequence, log, released, overlapped>>

Kinds == {"standalone", "release"}

CNInit ==
  /\ sequence = Absent
  /\ log = <<>>
  /\ released = <<>>
  /\ req = [r \in Requests |-> Idle]
  /\ overlapped = FALSE

CNNext ==
  \/ \E first \in FirstValues : CreateSequence(first)
  \/ \E number \in TypedNumbers : ReleaseTyped(number)
  \/ \E r \in Requests :
       \/ \E kind \in Kinds, padding \in Paddings :
            ReadSequence(r, kind, padding)
       \/ ReadForRetirement(r)
       \/ CommitAllocation(r)
       \/ CommitRelease(r)
       \/ CommitRetirement(r)
       \/ Fail(r)

CNSpec == CNInit /\ [][CNNext]_CNVars

(***************************************************************************)
(* Properties                                                              *)
(***************************************************************************)

NumberText == Nat \X Nat

LoggedEvent ==
  [event : {"allocated"}, number : NumberText]
    \cup [event : {"retired"}, next : Nat]

Request ==
  [pc : {"idle"}]
    \cup [pc : {"allocating"}, kind : Kinds, next : Nat, padding : Paddings]
    \cup [pc : {"retiring"}, next : Nat]

CNTypeOK ==
  /\ sequence \in [status : {"absent", "active", "retired"}, next : Nat]
  /\ log \in Seq(LoggedEvent)
  /\ released \in Seq([number : NumberText, route : {"allocated", "typed"}])
  /\ req \in [Requests -> Request]
  /\ overlapped \in BOOLEAN

\* Allocation gives a unique sequential number: no two allocations, alone or in
\* a release, log the same sequence value.
IssuedOnce ==
  \A i, j \in 1..Len(log) :
    i # j /\ log[i].event = "allocated" /\ log[j].event = "allocated" =>
      log[i].number[1] # log[j].number[1]

\* It holds as long as every request waited for the last one, whatever the
\* requests were and however they failed.
IssuedOnceInTurn == ~ overlapped => IssuedOnce

\* A retired sequence allocates no further number.
NothingIssuedAfterRetirement ==
  \A i, j \in 1..Len(log) :
    i < j /\ log[i].event = "retired" => log[j].event # "allocated"

\* It holds as long as every request waited for the last one: the status is
\* only looked at when it is read.
NothingIssuedAfterRetirementInTurn ==
  ~ overlapped => NothingIssuedAfterRetirement

\* The clients have only typed numbers that the sequence had given out.
TypedFromSequence ==
  \A i \in 1..Len(released) :
    released[i].route = "typed" => IsAllocated(released[i].number)

\* A release that allocates can succeed: the number it would get is not taken,
\* at any padding.  A taken number would be given to every later release, since
\* the conflict also rolls the counter back.
NextIsFree ==
  ~ overlapped /\ TypedFromSequence =>
    \A i \in 1..Len(released) : released[i].number[1] < sequence.next

\* A sequence is retired once, however many administrators retire it at once.
RetiredOnce ==
  \A i, j \in 1..Len(log) :
    log[i].event = "retired" /\ log[j].event = "retired" => i = j

\* A retired sequence stays retired, though allocations that read it before
\* still write to its row.
RetiredForever ==
  [][sequence.status = "retired" => sequence'.status = "retired"]_CNVars

\* A certificate whose number was allocated for it has its own entry in the
\* audit trail, and no other certificate that was allocated a number shares it.
AllocatedReleasesLogged ==
  \A i \in 1..Len(released) : released[i].route = "allocated" =>
    /\ IsAllocated(released[i].number)
    /\ \A j \in 1..Len(released) :
         released[i].number = released[j].number => i = j

\* No two certificates share a value of the sequence, not even padded to
\* different widths, which the UNIQUE constraint on the text would allow.
OneCertificatePerValue ==
  ~ overlapped /\ TypedFromSequence =>
    \A i, j \in 1..Len(released) :
      released[i].number[1] = released[j].number[1] => i = j
==============================================================================
