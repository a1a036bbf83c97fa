---------------------------- MODULE Accounts_proofs ----------------------------
(***************************************************************************)
(* What Accounts guarantees for any users, roles, sessions, versions and   *)
(* requests, however the requests overlap.                                 *)
(***************************************************************************)
EXTENDS Accounts, TLAPS

(***************************************************************************)
(* The inductive invariant                                                 *)
(***************************************************************************)

Reading == {"session", "user", "previous"}
Resolved == {"user", "previous", "write"}

\* What a request in flight holds.
RequestType(q) ==
  /\ DOMAIN q = {"pc", "op", "session", "at", "began", "user", "before"}
  /\ q.at \in 0..now
  /\ q.began \in 0..Len(log)
  /\ \/ /\ q.pc \in Reading \cup {"write"}
        /\ q.op \in Operation
        /\ q.session \in DOMAIN sessions
     \/ /\ q.pc \in {"bootstrap", "entra"}
        /\ q.user \in Users
        /\ q.op.expires \in Expiry
  /\ q.pc \in Resolved \cup {"entra"} => q.user \in DOMAIN users
  /\ q.pc = "previous" => q.op.name \in Managing \ {"create_user"}
  /\ q.pc = "write" /\ q.op.name \in {"change_roles", "deactivate"} =>
       q.op.target \in DOMAIN users
  /\ q.pc = "write" /\ q.op.name = "revoke" => q.op.target \in DOMAIN sessions

Types ==
  /\ TypeOK
  /\ \E S : log \in Seq(S)
  /\ DOMAIN approved = {"constants", "budgets"}
  /\ DOMAIN req = Requests
  /\ \A r \in Requests : req[r] = Idle \/ RequestType(req[r])

\* Of the events that gave an account its roles, one is the latest.
Latest(user, k) ==
  Given(user, k) # {} =>
    \E n \in Given(user, k) : \A m \in Given(user, k) : m <= n

LatestIsThere ==
  \A user \in Users, k \in 0..Len(log) : Latest(user, k)

\* Events name what is there.
EventsName ==
  \A n \in 1..Len(log) :
    /\ log[n].began \in 0..n - 1
    /\ log[n].kind = "roles" =>
         log[n].target \in Users /\ Given(log[n].target, n - 1) # {}
    /\ log[n].kind = "deactivated" => log[n].target \in DOMAIN users
    /\ log[n].kind = "revoked" => log[n].target \in DOMAIN sessions

\* The value a request calls previous is that of the trail until another
\* request changes it.
Untouched(q, kind) ==
  \A n \in q.began + 1..Len(log) :
    ~ (log[n].kind = kind /\ log[n].target = q.op.target)

PreviousKnown ==
  \A r \in Requests :
    req[r].pc = "write" =>
      /\ req[r].op.name = "change_roles" /\ Untouched(req[r], "roles") =>
           req[r].before = RolesAt(req[r].op.target, Len(log))
      /\ req[r].op.name = "deactivate" /\ Untouched(req[r], "deactivated") =>
           req[r].before = ActiveSince(req[r].op.target, Len(log))

TrailInv == LatestIsThere /\ EventsName /\ PreviousKnown /\ TrailIsAccurate

\* What the checks of a request found.
LiveSession(q) ==
  /\ sessions[q.session].user = q.user
  /\ sessions[q.session].issued <= q.at
  /\ q.at < sessions[q.session].expires
  /\ \A m \in 1..q.began :
       ~ (log[m].kind = "revoked" /\ log[m].target = q.session)

Authority(user, action, k) ==
  /\ ActiveSince(user, k)
  /\ \E role \in RolesAt(user, k) : IsAllowed(role, action)

Admitted(q) ==
  \E k \in q.began..Len(log) : Authority(q.user, Action(q.op), k)

ChecksHeld ==
  \A r \in Requests :
    /\ req[r].pc \in Resolved => LiveSession(req[r])
    /\ req[r].pc \in {"previous", "write"} => Admitted(req[r])
    /\ req[r].pc = "entra" => ActiveSince(req[r].user, req[r].began)

\* Events name accounts, and sessions there are.
EventsHeld ==
  \A n \in 1..Len(log) :
    log[n].by # System =>
      /\ log[n].by \in Users
      /\ log[n].kind # "session" => log[n].session \in DOMAIN sessions

AuthorityInv == ChecksHeld /\ EventsHeld /\ ActorHadAuthority

(***************************************************************************)
(* What the operators do                                                   *)
(***************************************************************************)

\* An operation has the fields its name calls for.
LEMMA OperationFields ==
  ASSUME NEW op \in Operation
  PROVE  /\ op.name \in Managing \cup {"constants", "budget"}
         /\ op.name \in {"create_user", "change_roles"} =>
              op.target \in Users /\ op.roles \in RoleSets
         /\ op.name = "deactivate" => op.target \in Users
         /\ op.name = "revoke" => op.target \in Sessions
         /\ op.name \in {"constants", "budget"} => op.target \in Versions
         /\ op.name = "budget" => op.linked \in Versions
  BY DEF Operation, Managing

\* An event is appended and nothing before it changes.
LEMMA Appended ==
  ASSUME \E S : log \in Seq(S), NEW event, log' = Append(log, event)
  PROVE  /\ Len(log) \in Nat
         /\ Len(log') = Len(log) + 1
         /\ \A n \in 1..Len(log) : log'[n] = log[n]
         /\ log'[Len(log) + 1] = event
         /\ \E S : log' \in Seq(S)
<1>1. PICK S : log \in Seq(S)
  OBVIOUS
<1>2. log \in Seq(S \cup {event})
  BY <1>1
<1> QED
  BY <1>2

(***************************************************************************)
(* The steps                                                               *)
(***************************************************************************)

\* The actions that write, each with its event.
Committing(r) ==
  \/ CreateUser(r)
  \/ ChangeRoles(r)
  \/ Deactivate(r)
  \/ Revoke(r)
  \/ ApproveConstants(r)
  \/ ApproveBudget(r)
  \/ \E roles \in RoleSets, id \in Sessions : CommitBootstrap(r, roles, id)
  \/ \E id \in Sessions : CommitEntraSession(r, id)

LEMMA Commits ==
  ASSUME [Next]_vars
  PROVE  \/ UNCHANGED <<users, sessions, approved, log>>
         \/ \E r \in Requests : Committing(r)
<1>1. ASSUME NEW r \in Requests, NEW op \in Operation, NEW id \in Sessions,
             Begin(r, op, id)
      PROVE  UNCHANGED <<users, sessions, approved, log>>
  BY <1>1 DEF Begin
<1>2. ASSUME NEW r \in Requests,
             ReadSession(r) \/ ReadUser(r) \/ ReadPrevious(r) \/ Fail(r)
      PROVE  UNCHANGED <<users, sessions, approved, log>>
  BY <1>2 DEF ReadSession, ReadUser, ReadPrevious, Fail
<1>3. ASSUME NEW r \in Requests, NEW user \in Users, BeginBootstrap(r, user)
      PROVE  UNCHANGED <<users, sessions, approved, log>>
  BY <1>3 DEF BeginBootstrap
<1>4. ASSUME NEW r \in Requests, NEW email, NEW expiry \in Expiry,
             BeginEntraSession(r, email, expiry)
      PROVE  UNCHANGED <<users, sessions, approved, log>>
  BY <1>4 DEF BeginEntraSession
<1>5. CASE Tick \/ UNCHANGED vars
  BY <1>5 DEF Tick, vars
<1> QED
  BY <1>1, <1>2, <1>3, <1>4, <1>5 DEF Next, Committing

\* A commit ends its request with one event.
LEMMA CommitEnds ==
  ASSUME NEW r \in Requests, Committing(r)
  PROVE  /\ req' = [req EXCEPT ![r] = Idle]
         /\ UNCHANGED now
         /\ \E event : log' = Append(log, event)
  BY DEF Committing, CreateUser, ChangeRoles, Deactivate, Revoke,
         ApproveConstants, ApproveBudget, CommitBootstrap, CommitEntraSession,
         Finish

\* The log is only appended to.
LEMMA LogGrows ==
  ASSUME Types, [Next]_vars
  PROVE  /\ Len(log) \in Nat
         /\ Len(log') \in {Len(log), Len(log) + 1}
         /\ \A n \in 1..Len(log) : log'[n] = log[n]
         /\ \E S : log' \in Seq(S)
<1>1. \E S : log \in Seq(S)
  BY DEF Types
<1>2. CASE UNCHANGED log
  BY <1>1, <1>2
<1>3. ASSUME NEW event, log' = Append(log, event)
      PROVE  /\ Len(log) \in Nat
             /\ Len(log') \in {Len(log), Len(log) + 1}
             /\ \A n \in 1..Len(log) : log'[n] = log[n]
             /\ \E S : log' \in Seq(S)
  BY <1>1, <1>3, Appended
<1> QED
  BY <1>2, <1>3, Commits, CommitEnds

\* Accounts and sessions stay, and of a session only its revocation changes.
LEMMA TablesGrow ==
  ASSUME Types, [Next]_vars
  PROVE  /\ DOMAIN users \subseteq DOMAIN users'
         /\ DOMAIN sessions \subseteq DOMAIN sessions'
         /\ \A id \in DOMAIN sessions :
              /\ sessions'[id].user = sessions[id].user
              /\ sessions'[id].issued = sessions[id].issued
              /\ sessions'[id].expires = sessions[id].expires
<1> DEFINE Goal == /\ DOMAIN users \subseteq DOMAIN users'
                   /\ DOMAIN sessions \subseteq DOMAIN sessions'
                   /\ \A id \in DOMAIN sessions :
                        /\ sessions'[id].user = sessions[id].user
                        /\ sessions'[id].issued = sessions[id].issued
                        /\ sessions'[id].expires = sessions[id].expires
<1>1. CASE UNCHANGED <<users, sessions>>
  BY <1>1
<1>2. ASSUME NEW r \in Requests, CreateUser(r) PROVE Goal
  BY <1>2 DEF CreateUser, With
<1>3. ASSUME NEW r \in Requests, ChangeRoles(r) \/ Deactivate(r) PROVE Goal
  BY <1>3 DEF ChangeRoles, Deactivate
<1>4. ASSUME NEW r \in Requests, Revoke(r) PROVE Goal
  <2>1. \A id \in DOMAIN sessions : sessions[id] \in SessionRecord
    BY DEF Types, TypeOK
  <2> QED
    BY <1>4, <2>1 DEF Revoke, SessionRecord
<1>5. ASSUME NEW r \in Requests, ApproveConstants(r) \/ ApproveBudget(r)
      PROVE  Goal
  BY <1>5 DEF ApproveConstants, ApproveBudget
<1>6. ASSUME NEW r \in Requests, NEW roles \in RoleSets, NEW id \in Sessions,
             CommitBootstrap(r, roles, id)
      PROVE  Goal
  BY <1>6 DEF CommitBootstrap, With
<1>7. ASSUME NEW r \in Requests, NEW id \in Sessions, CommitEntraSession(r, id)
      PROVE  Goal
  BY <1>7 DEF CommitEntraSession, With
<1> QED
  BY <1>1, <1>2, <1>3, <1>4, <1>5, <1>6, <1>7, Commits DEF Committing

\* A request that waits keeps its type.
LEMMA RequestTypeStands ==
  ASSUME Types, [Next]_vars, NEW q, RequestType(q)
  PROVE  RequestType(q)'
<1>1. now \in Nat /\ now' \in {now, now + 1}
  <2>1. now \in Nat
    BY AccountsAssumption DEF Types, TypeOK, Time
  <2> QED
    BY <2>1, ZenonT(30) DEF Next, vars, Begin, ReadSession, ReadUser, ReadPrevious,
       CreateUser, ChangeRoles, Deactivate, Revoke, ApproveConstants,
       ApproveBudget, BeginBootstrap, CommitBootstrap, BeginEntraSession,
       CommitEntraSession, Fail, Tick, Finish
<1>2. q.at \in 0..now' /\ q.began \in 0..Len(log')
  BY <1>1, LogGrows DEF RequestType
<1> QED
  BY <1>2, TablesGrow DEF RequestType

TablesType ==
  /\ DOMAIN users \subseteq Users
  /\ \A user \in DOMAIN users : users[user] \in AccountRecord
  /\ DOMAIN sessions \subseteq Sessions
  /\ \A id \in DOMAIN sessions :
       sessions[id] \in SessionRecord /\ sessions[id].user \in DOMAIN users
  /\ DOMAIN approved = {"constants", "budgets"}
  /\ approved.constants \subseteq Versions
  /\ DOMAIN approved.budgets \subseteq Versions
  /\ \A id \in DOMAIN approved.budgets :
       approved.budgets[id] \in approved.constants

\* What a commit writes has the types of the tables.
LEMMA TablesStayTyped ==
  ASSUME Types, [Next]_vars
  PROVE  TablesType'
<1>1. TablesType /\ now \in 0..MaxTime /\ MaxTime \in Nat
  BY AccountsAssumption DEF TablesType, Types, TypeOK, Time
<1>2. CASE UNCHANGED <<users, sessions, approved, log>>
  BY <1>1, <1>2 DEF TablesType
<1>3. ASSUME NEW r \in Requests, Committing(r) PROVE TablesType'
  <2> DEFINE q == req[r]
  <2>1. /\ RequestType(q)
        /\ q.at \in 0..MaxTime
        /\ q.pc = "write" => q.op \in Operation
    <3>1. req[r].pc \in {"write", "bootstrap", "entra"}
      BY <1>3, Zenon DEF Committing, CreateUser, ChangeRoles, Deactivate,
         Revoke, ApproveConstants, ApproveBudget, CommitBootstrap,
         CommitEntraSession, Writes
    <3>2. RequestType(q)
      BY <3>1 DEF Types, Idle
    <3> QED
      BY <1>1, <3>2 DEF RequestType, Reading
  <2>2. CASE CreateUser(r)
    <3>1. q.op.target \in Users /\ q.op.roles \in RoleSets
      BY <2>1, <2>2, OperationFields DEF CreateUser, Writes
    <3>2. Account(q.op.target, q.op.roles) \in AccountRecord
      BY <3>1, AccountsAssumption DEF Account, AccountRecord
    <3>3. /\ users' = With(users, q.op.target, Account(q.op.target, q.op.roles))
          /\ UNCHANGED <<sessions, approved>>
      BY <2>2 DEF CreateUser
    <3> QED
      BY <1>1, <3>1, <3>2, <3>3 DEF TablesType, With
  <2>3. CASE ChangeRoles(r)
    <3>1. q.op.roles \in RoleSets
      BY <2>1, <2>3, OperationFields DEF ChangeRoles, Writes
    <3> QED
      BY <1>1, <2>3, <3>1 DEF ChangeRoles, TablesType, AccountRecord
  <2>4. CASE Deactivate(r)
    BY <1>1, <2>4 DEF Deactivate, TablesType, AccountRecord
  <2>5. CASE Revoke(r)
    BY <1>1, <2>1, <2>5 DEF Revoke, TablesType, SessionRecord, Time
  <2>6. CASE ApproveConstants(r)
    <3>1. q.op.target \in Versions
      BY <2>1, <2>6, OperationFields DEF ApproveConstants, Writes
    <3> QED
      BY <1>1, <2>6, <3>1 DEF ApproveConstants, TablesType
  <2>7. CASE ApproveBudget(r)
    <3>1. q.op.target \in Versions
      BY <2>1, <2>7, OperationFields DEF ApproveBudget, Writes
    <3> QED
      BY <1>1, <2>7, <3>1 DEF ApproveBudget, TablesType, With
  <2>8. ASSUME NEW roles \in RoleSets, NEW id \in Sessions,
               CommitBootstrap(r, roles, id)
        PROVE  TablesType'
    <3>1. q.user \in Users /\ q.op.expires \in Expiry
      BY <2>1, <2>8 DEF CommitBootstrap, RequestType, Reading
    <3>2. Account(q.user, roles) \in AccountRecord
      BY <3>1, AccountsAssumption DEF Account, AccountRecord
    <3>3. Session(q.user, q.at, q.op.expires) \in SessionRecord
      BY <2>1, <3>1 DEF Session, SessionRecord, Time
    <3>4. Session(q.user, q.at, q.op.expires).user = q.user
      BY DEF Session
    <3>5. /\ users' = With(users, q.user, Account(q.user, roles))
          /\ sessions' \in
               {sessions,
                With(sessions, id, Session(q.user, q.at, q.op.expires))}
          /\ UNCHANGED approved
      BY <2>8 DEF CommitBootstrap
    <3> HIDE DEF q
    <3> QED
      BY <1>1, <3>1, <3>2, <3>3, <3>4, <3>5 DEF TablesType, With
  <2>9. ASSUME NEW id \in Sessions, CommitEntraSession(r, id)
        PROVE  TablesType'
    <3>1. q.user \in DOMAIN users /\ q.user \in Users /\ q.op.expires \in Expiry
      BY <2>1, <2>9 DEF CommitEntraSession, RequestType, Reading
    <3>2. Session(q.user, q.at, q.op.expires) \in SessionRecord
      BY <2>1, <3>1 DEF Session, SessionRecord, Time
    <3>3. Session(q.user, q.at, q.op.expires).user = q.user
      BY DEF Session
    <3>4. /\ sessions' =
               With(sessions, id, Session(q.user, q.at, q.op.expires))
          /\ UNCHANGED <<users, approved>>
      BY <2>9 DEF CommitEntraSession
    <3> HIDE DEF q
    <3> QED
      BY <1>1, <3>1, <3>2, <3>3, <3>4 DEF TablesType, With
  <2> QED
    BY <1>3, <2>2, <2>3, <2>4, <2>5, <2>6, <2>7, <2>8, <2>9 DEF Committing
<1> QED
  BY <1>2, <1>3, Commits

RequestsType ==
  /\ DOMAIN req = Requests
  /\ \A r \in Requests : req[r] = Idle \/ RequestType(req[r])

\* A step that leaves one request well typed leaves every one so.
LEMMA OthersStayTyped ==
  ASSUME Types, [Next]_vars,
         NEW r \in Requests, NEW q, req' = [req EXCEPT ![r] = q],
         q = Idle \/ RequestType(q)'
  PROVE  RequestsType'
<1>1. DOMAIN req = Requests
  BY DEF Types
<1>2. ASSUME NEW o \in Requests
      PROVE  req'[o] = Idle \/ RequestType(req[o])'
  <2>1. CASE o = r
    <3>1. req'[o] = q
      BY <1>1, <2>1
    <3> QED
      BY <3>1 DEF RequestType
  <2>2. CASE o # r
    <3>1. PICK p : p = req[o]
      OBVIOUS
    <3>2. req'[o] = p
      BY <1>1, <2>2, <3>1
    <3>3. p = Idle \/ RequestType(p)
      BY <3>1 DEF Types
    <3>4. p = Idle \/ RequestType(p)'
      BY <3>3, RequestTypeStands
    <3> QED
      BY <3>2, <3>4 DEF RequestType
  <2> QED
    BY <2>1, <2>2
<1> QED
  BY <1>1, <1>2 DEF RequestsType

\* A request reads what it then holds.
LEMMA RequestsStayTyped ==
  ASSUME Types, [Next]_vars
  PROVE  RequestsType'
<1>1. /\ now \in Nat /\ MaxTime \in Nat /\ now \in 0..MaxTime
      /\ Len(log) \in Nat
  BY AccountsAssumption, LogGrows DEF Types, TypeOK, Time
<1>2. ASSUME NEW r \in Requests, NEW op \in Operation, NEW id \in Sessions,
             Begin(r, op, id)
      PROVE  RequestsType'
  <2>1. PICK q : q = [pc |-> "session", op |-> op, session |-> id, at |-> now,
                      began |-> Len(log), user |-> System, before |-> Nothing]
    OBVIOUS
  <2>2. req' = [req EXCEPT ![r] = q]
    BY <1>2, <2>1 DEF Begin
  <2>3. RequestType(q)'
    BY <1>1, <1>2, <2>1 DEF Begin, RequestType, Reading, Resolved
  <2> QED
    BY <2>2, <2>3, OthersStayTyped
<1>3. ASSUME NEW r \in Requests, ReadSession(r) PROVE RequestsType'
  <2>1. PICK p : p = req[r]
    OBVIOUS
  <2>2. RequestType(p) /\ p.pc = "session" /\ p.session \in DOMAIN sessions
    BY <1>3, <2>1 DEF ReadSession, Types, Idle, RequestType, Reading
  <2>3. PICK q : /\ req' = [req EXCEPT ![r] = q]
                 /\ \/ q = Idle
                    \/ q = [p EXCEPT !.pc = "user",
                                     !.user = sessions[p.session].user,
                                     !.before = Nothing]
    BY <1>3, <2>1 DEF ReadSession, Continue
  <2>4. sessions[p.session].user \in DOMAIN users
    BY <2>2 DEF Types, TypeOK
  <2>5. q = Idle \/ RequestType(q)'
    BY <1>3, <2>2, <2>3, <2>4
       DEF ReadSession, RequestType, Reading, Resolved
  <2> QED
    BY <2>3, <2>5, OthersStayTyped
<1>4. ASSUME NEW r \in Requests, ReadUser(r) PROVE RequestsType'
  <2>1. PICK p : p = req[r]
    OBVIOUS
  <2>2. RequestType(p) /\ p.pc = "user" /\ p.user \in DOMAIN users
    BY <1>4, <2>1 DEF ReadUser, Types, Idle, RequestType, Resolved
  <2>3. PICK q : /\ req' = [req EXCEPT ![r] = q]
                 /\ \/ q = Idle
                    \/ /\ p.op.name \in Managing \ {"create_user"}
                       /\ q = [p EXCEPT !.pc = "previous", !.user = p.user,
                                        !.before = Nothing]
                    \/ /\ p.op.name \notin Managing \ {"create_user"}
                       /\ q = [p EXCEPT !.pc = "write", !.user = p.user,
                                        !.before = Nothing]
    BY <1>4, <2>1 DEF ReadUser, Continue
  <2>4. q = Idle \/ RequestType(q)'
    BY <1>4, <2>2, <2>3
       DEF ReadUser, RequestType, Reading, Resolved, Managing
  <2> QED
    BY <2>3, <2>4, OthersStayTyped
<1>5. ASSUME NEW r \in Requests, ReadPrevious(r) PROVE RequestsType'
  <2>1. PICK p : p = req[r]
    OBVIOUS
  <2>2. /\ RequestType(p) /\ p.pc = "previous" /\ p.user \in DOMAIN users
        /\ p.op.name \in Managing \ {"create_user"}
    BY <1>5, <2>1 DEF ReadPrevious, Types, Idle, RequestType, Resolved
  <2> DEFINE Known(op) == op.target \in IF op.name = "revoke"
                                        THEN DOMAIN sessions
                                        ELSE DOMAIN users
             Value(op) == IF ~ Known(op) THEN Nothing
                          ELSE CASE op.name = "change_roles" ->
                                      users[op.target].roles
                                 [] op.name = "deactivate" ->
                                      users[op.target].active
                                 [] op.name = "revoke" ->
                                      sessions[op.target].revoked
  <2>2a. PICK before : before = Value(p.op)
    OBVIOUS
  <2>3. req' = [req EXCEPT ![r] =
                  IF Known(p.op)
                  THEN [p EXCEPT !.pc = "write", !.user = p.user,
                                 !.before = before]
                  ELSE Idle]
    <3>1. req' = [req EXCEPT ![r] =
                    IF Known(req[r].op)
                    THEN [req[r] EXCEPT !.pc = "write", !.user = req[r].user,
                                        !.before = Value(req[r].op)]
                    ELSE Idle]
      BY <1>5 DEF ReadPrevious, Continue
    <3> HIDE DEF Known, Value
    <3> QED
      BY <3>1, <2>1, <2>2a
  <2>4. PICK q : /\ req' = [req EXCEPT ![r] = q]
                 /\ \/ q = Idle
                    \/ /\ p.op.target \in IF p.op.name = "revoke"
                                          THEN DOMAIN sessions
                                          ELSE DOMAIN users
                       /\ q = [p EXCEPT !.pc = "write", !.user = p.user,
                                        !.before = before]
    BY <2>3
  <2>5. q = Idle \/ RequestType(q)'
    BY <1>5, <2>2, <2>4
       DEF ReadPrevious, RequestType, Reading, Resolved, Managing
  <2> QED
    BY <2>4, <2>5, OthersStayTyped
<1>6. ASSUME NEW r \in Requests, Fail(r) \/ Committing(r) PROVE RequestsType'
  <2>1. req' = [req EXCEPT ![r] = Idle]
    BY <1>6, CommitEnds DEF Fail
  <2> QED
    BY <2>1, OthersStayTyped
<1>7. ASSUME NEW r \in Requests, NEW user \in Users, BeginBootstrap(r, user)
      PROVE  RequestsType'
  <2>1. PICK expires \in now + 1..MaxTime + 1 :
          req' = [req EXCEPT ![r] = Unadmitted("bootstrap", user, now, expires)]
    BY <1>7 DEF BeginBootstrap
  <2>2. PICK q : q = Unadmitted("bootstrap", user, now, expires)
    OBVIOUS
  <2>3. RequestType(q)'
    BY <1>1, <1>7, <2>2
       DEF BeginBootstrap, Unadmitted, RequestType, Reading, Resolved, Expiry
  <2> QED
    BY <2>1, <2>2, <2>3, OthersStayTyped
<1>8. ASSUME NEW r \in Requests, NEW email, NEW expiry \in Expiry,
             BeginEntraSession(r, email, expiry)
      PROVE  RequestsType'
  <2> DEFINE end == IF expiry < now + MaxDuration THEN expiry
                    ELSE now + MaxDuration
  <2>0a. PICK user \in DOMAIN users :
          req' = [req EXCEPT ![r] = Unadmitted("entra", user, now, end)]
    BY <1>8 DEF BeginEntraSession
  <2>0b. end \in Expiry
    BY <1>1, AccountsAssumption DEF Expiry
  <2>1. PICK expires \in Expiry :
          req' = [req EXCEPT ![r] = Unadmitted("entra", user, now, expires)]
    BY <2>0a, <2>0b
  <2>2. PICK q : q = Unadmitted("entra", user, now, expires)
    OBVIOUS
  <2>3. user \in Users
    BY DEF Types, TypeOK
  <2>4. RequestType(q)'
    BY <1>1, <1>8, <2>2, <2>3
       DEF BeginEntraSession, Unadmitted, RequestType, Reading, Resolved
  <2> QED
    BY <2>1, <2>2, <2>4, OthersStayTyped
<1>9. CASE Tick \/ UNCHANGED vars
  <2>1. UNCHANGED req
    BY <1>9 DEF Tick, vars
  <2>2. ASSUME NEW o \in Requests
        PROVE  req'[o] = Idle \/ RequestType(req[o])'
    <3>1. PICK p : p = req[o]
      OBVIOUS
    <3>2. p = Idle \/ RequestType(p)'
      BY <3>1, RequestTypeStands DEF Types
    <3> QED
      BY <2>1, <3>1, <3>2 DEF RequestType
  <2> QED
    BY <2>1, <2>2 DEF RequestsType, Types
<1> QED
  BY <1>2, <1>3, <1>4, <1>5, <1>6, <1>7, <1>8, <1>9 DEF Next, Committing

LEMMA TypesHold == Spec => []Types
<1>1. Init => Types
  <2> SUFFICES ASSUME Init PROVE Types
    OBVIOUS
  <2>1. log = <<>> /\ DOMAIN users = {} /\ DOMAIN sessions = {}
        /\ DOMAIN approved = {"constants", "budgets"}
        /\ approved.constants = {} /\ DOMAIN approved.budgets = {}
        /\ req = [r \in Requests |-> Idle] /\ now = 0
    BY DEF Init
  <2>2. log \in Seq({})
    BY <2>1
  <2> QED
    BY <2>1, <2>2, AccountsAssumption DEF Types, TypeOK, Time
<1>2. ASSUME Types, [Next]_vars PROVE Types'
  <2>1. TablesType' /\ RequestsType' /\ \E S : log' \in Seq(S)
    BY <1>2, TablesStayTyped, RequestsStayTyped, LogGrows
  <2>2. now' \in Time
    <3>1. UNCHANGED now \/ Tick
      BY <1>2, ZenonT(30)
         DEF Next, vars, Begin, ReadSession, ReadUser, ReadPrevious,
         CreateUser, ChangeRoles, Deactivate, Revoke, ApproveConstants,
         ApproveBudget, BeginBootstrap, CommitBootstrap, BeginEntraSession,
         CommitEntraSession, Fail, Finish
    <3> QED
      BY <1>2, <3>1, AccountsAssumption DEF Types, TypeOK, Time, Tick
  <2>3. ASSUME NEW r \in Requests, req'[r] # Idle
        PROVE  /\ req'[r].pc \in {"session", "user", "previous", "write",
                                  "bootstrap", "entra"}
               /\ req'[r].at \in 0..now'
               /\ req'[r].pc \in {"session", "user", "previous", "write"} =>
                    req'[r].session \in DOMAIN sessions'
    BY <2>1, <2>3 DEF RequestsType, RequestType, Reading
  <2>4. TypeOK'
    BY <2>1, <2>2, <2>3 DEF TablesType, TypeOK
  <2> QED
    BY <2>1, <2>4 DEF TablesType, RequestsType, Types
<1> QED
  BY <1>1, <1>2, PTL DEF Spec

\* Accounts, sessions, versions and requests keep the shape and the references
\* of their tables, for any number of each, however requests overlap.
THEOREM TypeCorrect == Spec => []TypeOK
<1>1. Types => TypeOK
  BY DEF Types
<1> QED
  BY <1>1, TypesHold, PTL

(***************************************************************************)
(* The trail                                                               *)
(***************************************************************************)

\* Who an event names: nobody, the account a token named, or the user whose
\* role permits the action.
MadeBy(q, event) ==
  \/ event.by = System
  \/ /\ q.pc = "entra" /\ event.kind = "session"
     /\ event.by = q.user
  \/ /\ q.pc = "write" /\ event.kind # "session"
     /\ event.by = q.user
     /\ ActionOf(event.kind) = Action(q.op)

\* What the event of a commit says of the tables.
Recorded(q, event) ==
  \/ /\ event.kind = "created"
     /\ event.target \in Users \ DOMAIN users
     /\ users' = With(users, event.target, Account(event.target, event.after))
     /\ UNCHANGED approved
     /\ \/ UNCHANGED sessions
        \/ \E id, row : /\ id \notin DOMAIN sessions /\ row.revoked = Never
                        /\ sessions' = With(sessions, id, row)
  \/ /\ event.kind = "roles"
     /\ q.pc = "write" /\ q.op.name = "change_roles"
     /\ event.target = q.op.target /\ event.target \in DOMAIN users
     /\ event.before = q.before
     /\ users' = [users EXCEPT ![event.target].roles = event.after]
     /\ UNCHANGED <<sessions, approved>>
  \/ /\ event.kind = "deactivated"
     /\ q.pc = "write" /\ q.op.name = "deactivate"
     /\ event.target = q.op.target /\ event.target \in DOMAIN users
     /\ event.before = q.before
     /\ users' = [users EXCEPT ![event.target].active = FALSE]
     /\ UNCHANGED <<sessions, approved>>
  \/ /\ event.kind = "revoked"
     /\ event.target \in DOMAIN sessions
     /\ sessions[event.target].revoked = Never
     /\ event.after # Never
     /\ sessions' = [sessions EXCEPT ![event.target].revoked = event.after]
     /\ UNCHANGED <<users, approved>>
  \/ /\ event.kind = "constants"
     /\ approved'.constants = approved.constants \cup {event.target}
     /\ UNCHANGED <<users, sessions>>
  \/ /\ event.kind = "budget"
     /\ approved'.constants = approved.constants
     /\ UNCHANGED <<users, sessions>>
  \/ /\ event.kind = "session"
     /\ \E id, row : /\ id \notin DOMAIN sessions /\ row.revoked = Never
                     /\ sessions' = With(sessions, id, row)
     /\ UNCHANGED <<users, approved>>

LEMMA CommitRecords ==
  ASSUME Types, [Next]_vars, NEW r \in Requests, Committing(r)
  PROVE  \E q, event :
           /\ q = req[r] /\ RequestType(q)
           /\ q.pc \in {"write", "bootstrap", "entra"}
           /\ log' = Append(log, event)
           /\ event.session = q.session
           /\ event.at = q.at
           /\ event.began = q.began
           /\ MadeBy(q, event)
           /\ Recorded(q, event)
<1> DEFINE Says(q, event) ==
             /\ log' = Append(log, event)
             /\ event.session = q.session
             /\ event.at = q.at
             /\ event.began = q.began
             /\ MadeBy(q, event)
             /\ Recorded(q, event)
<1>1. PICK q : q = req[r]
  OBVIOUS
<1>2. q.pc \in {"write", "bootstrap", "entra"}
  BY <1>1, Zenon DEF Committing, CreateUser, ChangeRoles, Deactivate,
     Revoke, ApproveConstants, ApproveBudget, CommitBootstrap,
     CommitEntraSession, Writes
<1>3. RequestType(q)
  BY <1>1, <1>2 DEF Types, Idle
<1>4. q.at # Never /\ (q.pc = "write" => q.op \in Operation)
  BY <1>2, <1>3, AccountsAssumption
     DEF RequestType, Reading, Types, TypeOK, Time, Never
<1>5. CASE CreateUser(r)
  <2>1. q.pc = "write" /\ q.op.name = "create_user" /\ q.op.target \in Users
    BY <1>1, <1>4, <1>5, OperationFields DEF CreateUser, Writes
  <2>2. PICK event : event = Event("created", q.op.target, Nothing, q.op.roles,
                                   q.user, q)
    OBVIOUS
  <2>3. /\ log' = Append(log, event)
        /\ users' = With(users, q.op.target, Account(q.op.target, q.op.roles))
        /\ q.op.target \notin DOMAIN users
        /\ UNCHANGED <<sessions, approved>>
    BY <1>1, <1>5, <2>2 DEF CreateUser, Finish, Free
  <2>4. /\ event.kind = "created" /\ event.target = q.op.target
        /\ event.after = q.op.roles /\ event.by = q.user
        /\ event.session = q.session /\ event.at = q.at
        /\ event.began = q.began
    BY <2>2 DEF Event
  <2>5. ActionOf(event.kind) = Action(q.op)
    BY <2>1, <2>4 DEF ActionOf, Action, Managing, UserKinds
  <2> QED
    BY <1>1, <1>2, <1>3, <2>1, <2>3, <2>4, <2>5 DEF MadeBy, Recorded
<1>6. CASE ChangeRoles(r)
  <2>1. /\ q.pc = "write" /\ q.op.name = "change_roles"
        /\ q.op.target \in DOMAIN users
    BY <1>1, <1>3, <1>6 DEF ChangeRoles, Writes, RequestType
  <2>2. PICK event : event = Event("roles", q.op.target, q.before, q.op.roles,
                                   q.user, q)
    OBVIOUS
  <2>3. /\ log' = Append(log, event)
        /\ users' = [users EXCEPT ![q.op.target].roles = q.op.roles]
        /\ UNCHANGED <<sessions, approved>>
    BY <1>1, <1>6, <2>2 DEF ChangeRoles, Finish
  <2>4. /\ event.kind = "roles" /\ event.target = q.op.target
        /\ event.before = q.before
        /\ event.after = q.op.roles /\ event.by = q.user
        /\ event.session = q.session /\ event.at = q.at
        /\ event.began = q.began
    BY <2>2 DEF Event
  <2>5. ActionOf(event.kind) = Action(q.op)
    BY <2>1, <2>4 DEF ActionOf, Action, Managing, UserKinds
  <2> QED
    BY <1>1, <1>2, <1>3, <2>1, <2>3, <2>4, <2>5 DEF MadeBy, Recorded
<1>7. CASE Deactivate(r)
  <2>1. /\ q.pc = "write" /\ q.op.name = "deactivate"
        /\ q.op.target \in DOMAIN users
    BY <1>1, <1>3, <1>7 DEF Deactivate, Writes, RequestType
  <2>2. PICK event : event = Event("deactivated", q.op.target, q.before, FALSE,
                                   q.user, q)
    OBVIOUS
  <2>3. /\ log' = Append(log, event)
        /\ users' = [users EXCEPT ![q.op.target].active = FALSE]
        /\ UNCHANGED <<sessions, approved>>
    BY <1>1, <1>7, <2>2 DEF Deactivate, Finish
  <2>4. /\ event.kind = "deactivated" /\ event.target = q.op.target
        /\ event.before = q.before /\ event.by = q.user
        /\ event.session = q.session /\ event.at = q.at
        /\ event.began = q.began
    BY <2>2 DEF Event
  <2>5. ActionOf(event.kind) = Action(q.op)
    BY <2>1, <2>4 DEF ActionOf, Action, Managing, UserKinds
  <2> QED
    BY <1>1, <1>2, <1>3, <2>1, <2>3, <2>4, <2>5 DEF MadeBy, Recorded
<1>8. CASE Revoke(r)
  <2>1. /\ q.pc = "write" /\ q.op.name = "revoke"
        /\ q.op.target \in DOMAIN sessions
    BY <1>1, <1>3, <1>8 DEF Revoke, Writes, RequestType
  <2>2. PICK event : event = Event("revoked", q.op.target, q.before, q.at,
                                   q.user, q)
    OBVIOUS
  <2>3. /\ log' = Append(log, event)
        /\ sessions[q.op.target].revoked = Never
        /\ sessions' = [sessions EXCEPT ![q.op.target].revoked = q.at]
        /\ UNCHANGED <<users, approved>>
    BY <1>1, <1>8, <2>2 DEF Revoke, Finish
  <2>4. /\ event.kind = "revoked" /\ event.target = q.op.target
        /\ event.after = q.at /\ event.by = q.user
        /\ event.session = q.session /\ event.at = q.at
        /\ event.began = q.began
    BY <2>2 DEF Event
  <2>5. ActionOf(event.kind) = Action(q.op)
    BY <2>1, <2>4 DEF ActionOf, Action, Managing, UserKinds
  <2>6. MadeBy(q, event)
    BY <2>1, <2>4, <2>5 DEF MadeBy
  <2>7. Recorded(q, event)
    <3>1. event.after # Never
      BY <1>4, <2>4
    <3> QED
      BY <2>1, <2>3, <2>4, <3>1 DEF Recorded
  <2> QED
    BY <1>1, <1>2, <1>3, <2>3, <2>4, <2>6, <2>7
<1>9. CASE ApproveConstants(r)
  <2>1. q.pc = "write" /\ q.op.name = "constants"
    BY <1>1, <1>9 DEF ApproveConstants, Writes
  <2>2. PICK event : event = Event("constants", q.op.target, Nothing,
                                   q.op.target, q.user, q)
    OBVIOUS
  <2>3. /\ log' = Append(log, event)
        /\ approved'.constants = approved.constants \cup {q.op.target}
        /\ UNCHANGED <<users, sessions>>
    BY <1>1, <1>9, <2>2 DEF ApproveConstants, Finish, Types
  <2>4. /\ event.kind = "constants" /\ event.target = q.op.target
        /\ event.by = q.user
        /\ event.session = q.session /\ event.at = q.at
        /\ event.began = q.began
    BY <2>2 DEF Event
  <2>5. ActionOf(event.kind) = Action(q.op)
    BY <2>1, <2>4 DEF ActionOf, Action, Managing, UserKinds
  <2> QED
    BY <1>1, <1>2, <1>3, <2>1, <2>3, <2>4, <2>5 DEF MadeBy, Recorded
<1>10. CASE ApproveBudget(r)
  <2>1. q.pc = "write" /\ q.op.name = "budget"
    BY <1>1, <1>10 DEF ApproveBudget, Writes
  <2>2. PICK event : event = Event("budget", q.op.target, Nothing, q.op.linked,
                                   q.user, q)
    OBVIOUS
  <2>3. /\ log' = Append(log, event)
        /\ approved'.constants = approved.constants
        /\ UNCHANGED <<users, sessions>>
    BY <1>1, <1>10, <2>2 DEF ApproveBudget, Finish, Types
  <2>4. /\ event.kind = "budget" /\ event.by = q.user
        /\ event.session = q.session /\ event.at = q.at
        /\ event.began = q.began
    BY <2>2 DEF Event
  <2>5. ActionOf(event.kind) = Action(q.op)
    BY <2>1, <2>4 DEF ActionOf, Action, Managing, UserKinds
  <2> QED
    BY <1>1, <1>2, <1>3, <2>1, <2>3, <2>4, <2>5 DEF MadeBy, Recorded
<1>11. ASSUME NEW roles \in RoleSets, NEW id \in Sessions,
              CommitBootstrap(r, roles, id)
       PROVE  \E event : Says(q, event)
  <2>1. q.pc = "bootstrap" /\ q.user \in Users
    BY <1>1, <1>3, <1>11 DEF CommitBootstrap, RequestType, Reading
  <2>2. PICK event : event = Event("created", q.user, Nothing, roles, System, q)
    OBVIOUS
  <2>3. PICK row : row = Session(q.user, q.at, q.op.expires)
    OBVIOUS
  <2>4. /\ log' = Append(log, event)
        /\ users' = With(users, q.user, Account(q.user, roles))
        /\ q.user \notin DOMAIN users
        /\ id \notin DOMAIN sessions
        /\ sessions' \in {sessions, With(sessions, id, row)}
        /\ UNCHANGED approved
    BY <1>1, <1>11, <2>2, <2>3 DEF CommitBootstrap, Finish, Free
  <2>5. /\ event.kind = "created" /\ event.target = q.user
        /\ event.after = roles /\ event.by = System
        /\ event.session = q.session /\ event.at = q.at
        /\ event.began = q.began /\ row.revoked = Never
    BY <2>2, <2>3 DEF Event, Session
  <2> QED
    BY <2>1, <2>4, <2>5 DEF MadeBy, Recorded
<1>12. ASSUME NEW id \in Sessions, CommitEntraSession(r, id)
       PROVE  \E event : Says(q, event)
  <2>1. q.pc = "entra"
    BY <1>1, <1>12 DEF CommitEntraSession
  <2>2. PICK event : event = Event("session", id, Nothing, q.user, q.user, q)
    OBVIOUS
  <2>3. PICK row : row = Session(q.user, q.at, q.op.expires)
    OBVIOUS
  <2>4. /\ log' = Append(log, event)
        /\ id \notin DOMAIN sessions
        /\ sessions' = With(sessions, id, row)
        /\ UNCHANGED <<users, approved>>
    BY <1>1, <1>12, <2>2, <2>3 DEF CommitEntraSession, Finish
  <2>5. /\ event.kind = "session" /\ event.by = q.user
        /\ event.session = q.session /\ event.at = q.at
        /\ event.began = q.began /\ row.revoked = Never
    BY <2>2, <2>3 DEF Event, Session
  <2> QED
    BY <2>1, <2>4, <2>5 DEF MadeBy, Recorded
<1> QED
  BY <1>1, <1>2, <1>3, <1>5, <1>6, <1>7, <1>8, <1>9, <1>10, <1>11, <1>12
     DEF Committing

\* What the events before say of an account, no later event changes.
LEMMA PastStands ==
  ASSUME Types, [Next]_vars, NEW user, NEW k \in 0..Len(log)
  PROVE  /\ Given(user, k)' = Given(user, k)
         /\ ActiveSince(user, k)' <=> ActiveSince(user, k)
         /\ Given(user, k) # {} /\ Latest(user, k) =>
              RolesAt(user, k)' = RolesAt(user, k)
<1>1. /\ Len(log) \in Nat
      /\ \A n \in 1..k : log'[n] = log[n]
  BY LogGrows
<1>2. Given(user, k)' = Given(user, k)
  BY <1>1 DEF Given
<1>3. ActiveSince(user, k)' <=> ActiveSince(user, k)
  BY <1>1, <1>2 DEF ActiveSince
<1>4. ASSUME Given(user, k) # {}, Latest(user, k)
      PROVE  RolesAt(user, k)' = RolesAt(user, k)
  <2>1. PICK S : S = Given(user, k)
    OBVIOUS
  <2>2. PICK n : n = CHOOSE c \in S : \A m \in S : m <= c
    OBVIOUS
  <2>3. n \in S
    BY <1>4, <2>1, <2>2 DEF Latest
  <2>4. n \in 1..k
    BY <2>1, <2>3 DEF Given
  <2>5. RolesAt(user, k) = log[n].after
    BY <2>1, <2>2 DEF RolesAt
  <2>6. RolesAt(user, k)' = log'[n].after
    BY <1>2, <2>1, <2>2 DEF RolesAt
  <2> QED
    BY <1>1, <2>4, <2>5, <2>6
<1> QED
  BY <1>2, <1>3, <1>4

\* What one more event says of an account.
LEMMA OneMoreEvent ==
  ASSUME Types, [Next]_vars, NEW event, log' = Append(log, event),
         NEW user, Latest(user, Len(log))
  PROVE  /\ event.kind \in {"created", "roles"} /\ event.target = user =>
              /\ Given(user, Len(log))' # {}
              /\ RolesAt(user, Len(log))' = event.after
         /\ ~ (event.kind \in {"created", "roles"} /\ event.target = user) =>
              /\ Given(user, Len(log))' = Given(user, Len(log))
              /\ Given(user, Len(log)) # {} =>
                   RolesAt(user, Len(log))' = RolesAt(user, Len(log))
         /\ Latest(user, Len(log))'
         /\ ActiveSince(user, Len(log))' <=>
              /\ Given(user, Len(log))' # {}
              /\ \A n \in 1..Len(log) :
                   ~ (log[n].kind = "deactivated" /\ log[n].target = user)
              /\ ~ (event.kind = "deactivated" /\ event.target = user)
<1>1. PICK L \in Nat : L = Len(log)
  BY LogGrows
<1>2. /\ Len(log') = L + 1
      /\ \A n \in 1..L : log'[n] = log[n]
      /\ log'[L + 1] = event
  BY <1>1, Appended DEF Types
<1>3. Given(user, Len(log))' =
        {n \in 1..L + 1 : /\ log'[n].kind \in {"created", "roles"}
                          /\ log'[n].target = user}
  BY <1>2 DEF Given
<1>4. Given(user, L) = {n \in 1..L : /\ log[n].kind \in {"created", "roles"}
                                     /\ log[n].target = user}
  BY DEF Given
<1>5. ASSUME event.kind \in {"created", "roles"} /\ event.target = user
      PROVE  /\ L + 1 \in Given(user, Len(log))'
             /\ \A m \in Given(user, Len(log))' : m <= L + 1
             /\ RolesAt(user, Len(log))' = event.after
  <2>1. L + 1 \in Given(user, Len(log))'
    BY <1>2, <1>3, <1>5
  <2>2. \A m \in Given(user, Len(log))' : m <= L + 1
    BY <1>3
  <2>3. PICK S : S = Given(user, Len(log))'
    OBVIOUS
  <2>4. \A c \in S : (\A m \in S : m <= c) => c = L + 1
    <3>1. L + 1 \in S /\ S \subseteq 1..L + 1
      BY <1>3, <2>1, <2>3
    <3> QED
      BY <3>1
  <2>5. (CHOOSE c \in S : \A m \in S : m <= c) = L + 1
    BY <2>1, <2>2, <2>3, <2>4
  <2>6. RolesAt(user, Len(log))' = log'[L + 1].after
    BY <2>3, <2>5 DEF RolesAt
  <2> QED
    BY <1>2, <2>1, <2>2, <2>6
<1>6. ASSUME ~ (event.kind \in {"created", "roles"} /\ event.target = user)
      PROVE  /\ Given(user, Len(log))' = Given(user, L)
             /\ Given(user, L) # {} =>
                  RolesAt(user, Len(log))' = RolesAt(user, L)
  <2>1. Given(user, Len(log))' = Given(user, L)
    BY <1>2, <1>3, <1>4, <1>6
  <2>2. ASSUME Given(user, L) # {}
        PROVE  RolesAt(user, Len(log))' = RolesAt(user, L)
    <3>1. PICK S : S = Given(user, L)
      OBVIOUS
    <3>2. PICK n : n = CHOOSE c \in S : \A m \in S : m <= c
      OBVIOUS
    <3>3. n \in S
      BY <1>1, <2>2, <3>1, <3>2 DEF Latest
    <3>4. n \in 1..L
      BY <1>4, <3>1, <3>3
    <3>5. RolesAt(user, L) = log[n].after
      BY <3>1, <3>2 DEF RolesAt
    <3>6. RolesAt(user, Len(log))' = log'[n].after
      BY <2>1, <3>1, <3>2 DEF RolesAt
    <3> QED
      BY <1>2, <3>4, <3>5, <3>6
  <2> QED
    BY <2>1, <2>2
<1>7. Latest(user, Len(log))'
  BY <1>1, <1>5, <1>6 DEF Latest
<1>8. ActiveSince(user, Len(log))' <=>
        /\ Given(user, Len(log))' # {}
        /\ \A n \in 1..L :
             ~ (log[n].kind = "deactivated" /\ log[n].target = user)
        /\ ~ (event.kind = "deactivated" /\ event.target = user)
  <2>1. ActiveSince(user, Len(log))' <=>
          /\ Given(user, Len(log))' # {}
          /\ \A n \in 1..L + 1 :
               ~ (log'[n].kind = "deactivated" /\ log'[n].target = user)
    BY <1>2 DEF ActiveSince
  <2>2. \A n \in 1..L + 1 : n \in 1..L \/ n = L + 1
    OBVIOUS
  <2>3. 1..L \subseteq 1..L + 1 /\ L + 1 \in 1..L + 1
    OBVIOUS
  <2> QED
    BY <1>2, <2>1, <2>2, <2>3
<1> QED
  BY <1>1, <1>5, <1>6, <1>7, <1>8

\* What the trail says of one account and of one session.
AccountReplays(user) ==
  /\ user \in DOMAIN users <=> Given(user, Len(log)) # {}
  /\ user \in DOMAIN users =>
       /\ users[user].roles = RolesAt(user, Len(log))
       /\ users[user].active <=> ActiveSince(user, Len(log))

Revocations(id) ==
  {n \in 1..Len(log) : log[n].kind = "revoked" /\ log[n].target = id}

SessionReplays(id) ==
  IF sessions[id].revoked = Never THEN Revocations(id) = {}
  ELSE \E n \in Revocations(id) :
         Revocations(id) = {n} /\ log[n].after = sessions[id].revoked

TrailPerRow ==
  /\ \A user \in Users : AccountReplays(user)
  /\ \A id \in DOMAIN sessions : SessionReplays(id)
  /\ approved.constants =
       {log[n].target : n \in {m \in 1..Len(log) : log[m].kind = "constants"}}
  /\ \A n \in 1..Len(log) : PreviousIsAccurate(n)

LEMMA TrailParts == Types => (TrailIsAccurate <=> TrailPerRow)
<1> SUFFICES ASSUME Types
             PROVE  TrailIsAccurate <=> TrailPerRow
  OBVIOUS
<1>1. \A user \in DOMAIN users :
        user \in Users /\ users[user].active \in BOOLEAN
  BY DEF Types, TypeOK, AccountRecord
<1>2. (\A user \in Users : AccountReplays(user)) <=>
        /\ \A user \in Users :
             user \in DOMAIN users <=> Given(user, Len(log)) # {}
        /\ \A user \in DOMAIN users :
             /\ users[user].roles = RolesAt(user, Len(log))
             /\ users[user].active = ActiveSince(user, Len(log))
  <2>1. \A user \in DOMAIN users :
          (users[user].active = ActiveSince(user, Len(log))) <=>
          (users[user].active <=> ActiveSince(user, Len(log)))
    BY <1>1 DEF ActiveSince
  <2> QED
    BY <1>1, <2>1 DEF AccountReplays
<1>3. (\A id \in DOMAIN sessions : SessionReplays(id)) <=>
        \A id \in DOMAIN sessions :
          LET revocations == {n \in 1..Len(log) :
                                log[n].kind = "revoked" /\ log[n].target = id}
          IN IF sessions[id].revoked = Never THEN revocations = {}
             ELSE \E n \in revocations :
                    revocations = {n} /\ log[n].after = sessions[id].revoked
  BY DEF SessionReplays, Revocations
<1> QED
  BY <1>2, <1>3, Zenon DEF TrailIsAccurate, TrailPerRow

\* A commit leaves the trail of every account right.
LEMMA AccountsStayReplayed ==
  ASSUME Types, TrailInv, [Next]_vars, NEW q, NEW event,
         log' = Append(log, event), Recorded(q, event),
         NEW user \in Users
  PROVE  AccountReplays(user)'
<1>1. /\ AccountReplays(user)
      /\ Latest(user, Len(log))
  BY LogGrows, TrailParts DEF TrailPerRow, TrailInv, LatestIsThere
<1>2. PICK L \in Nat : L = Len(log)
  BY LogGrows
<1> DEFINE Off == \E n \in 1..L : /\ log[n].kind = "deactivated"
                                  /\ log[n].target = user
           Gives == event.kind \in {"created", "roles"} /\ event.target = user
<1>3. /\ Gives => /\ Given(user, Len(log))' # {}
                  /\ RolesAt(user, Len(log))' = event.after
      /\ ~ Gives => /\ Given(user, Len(log))' = Given(user, Len(log))
                    /\ Given(user, Len(log)) # {} =>
                         RolesAt(user, Len(log))' = RolesAt(user, Len(log))
      /\ ActiveSince(user, Len(log))' <=>
           /\ Given(user, Len(log))' # {}
           /\ ~ Off
           /\ ~ (event.kind = "deactivated" /\ event.target = user)
  BY <1>1, <1>2, OneMoreEvent
<1>4. /\ ActiveSince(user, Len(log)) <=>
           Given(user, Len(log)) # {} /\ ~ Off
      /\ Off => user \in DOMAIN users
  BY <1>2 DEF ActiveSince, TrailInv, EventsName
<1>5. \A u \in DOMAIN users : users[u] \in AccountRecord
  BY DEF Types, TypeOK
<1> HIDE DEF Off
<1>6. CASE event.kind = "created"
  <2>1. /\ event.target \notin DOMAIN users
        /\ users' = With(users, event.target,
                         Account(event.target, event.after))
    BY <1>6 DEF Recorded
  <2>2. CASE event.target = user
    <3>1. users'[user] = Account(user, event.after) /\ user \in DOMAIN users'
      BY <2>1, <2>2 DEF With
    <3> QED
      BY <1>3, <1>4, <1>6, <2>1, <2>2, <3>1 DEF AccountReplays, Account
  <2>3. CASE event.target # user
    <3>1. /\ user \in DOMAIN users' <=> user \in DOMAIN users
          /\ user \in DOMAIN users => users'[user] = users[user]
      BY <2>1, <2>3 DEF With
    <3> QED
      BY <1>1, <1>3, <1>4, <1>6, <2>3, <3>1 DEF AccountReplays
  <2> QED
    BY <2>2, <2>3
<1>7. CASE event.kind = "roles"
  <2>1. /\ event.target \in DOMAIN users
        /\ users' = [users EXCEPT ![event.target].roles = event.after]
    BY <1>7 DEF Recorded
  <2>2. CASE event.target = user
    <3>1. /\ user \in DOMAIN users /\ user \in DOMAIN users'
          /\ users'[user].roles = event.after
          /\ users'[user].active = users[user].active
      BY <1>5, <2>1, <2>2 DEF AccountRecord
    <3> QED
      BY <1>1, <1>3, <1>4, <1>7, <2>2, <3>1 DEF AccountReplays
  <2>3. CASE event.target # user
    <3>1. /\ user \in DOMAIN users' <=> user \in DOMAIN users
          /\ user \in DOMAIN users => users'[user] = users[user]
      BY <2>1, <2>3
    <3> QED
      BY <1>1, <1>3, <1>4, <1>7, <2>3, <3>1 DEF AccountReplays
  <2> QED
    BY <2>2, <2>3
<1>8. CASE event.kind = "deactivated"
  <2>1. /\ event.target \in DOMAIN users
        /\ users' = [users EXCEPT ![event.target].active = FALSE]
    BY <1>8 DEF Recorded
  <2>2. CASE event.target = user
    <3>1. /\ user \in DOMAIN users /\ user \in DOMAIN users'
          /\ users'[user].roles = users[user].roles
          /\ users'[user].active = FALSE
      BY <1>5, <2>1, <2>2 DEF AccountRecord
    <3> QED
      BY <1>1, <1>3, <1>4, <1>8, <2>2, <3>1 DEF AccountReplays
  <2>3. CASE event.target # user
    <3>1. /\ user \in DOMAIN users' <=> user \in DOMAIN users
          /\ user \in DOMAIN users => users'[user] = users[user]
      BY <2>1, <2>3
    <3> QED
      BY <1>1, <1>3, <1>4, <1>8, <2>3, <3>1 DEF AccountReplays
  <2> QED
    BY <2>2, <2>3
<1>9. CASE event.kind \notin {"created", "roles", "deactivated"}
  <2>1. UNCHANGED users
    BY <1>9 DEF Recorded
  <2> QED
    BY <1>1, <1>3, <1>4, <1>9, <2>1 DEF AccountReplays
<1> QED
  BY <1>6, <1>7, <1>8, <1>9

\* A commit leaves the trail of every session right.
LEMMA SessionsStayReplayed ==
  ASSUME Types, TrailInv, [Next]_vars, NEW q, NEW event,
         log' = Append(log, event), Recorded(q, event),
         NEW id \in DOMAIN sessions'
  PROVE  SessionReplays(id)'
<1>1. PICK L \in Nat : L = Len(log)
  BY LogGrows
<1>2. /\ Len(log') = L + 1
      /\ \A n \in 1..L : log'[n] = log[n]
      /\ log'[L + 1] = event
  BY <1>1, Appended DEF Types
<1>3. Revocations(id)' =
        IF event.kind = "revoked" /\ event.target = id
        THEN Revocations(id) \cup {L + 1} ELSE Revocations(id)
  BY <1>1, <1>2 DEF Revocations
<1>4. Revocations(id) \subseteq 1..L
  BY <1>1 DEF Revocations
<1>5. id \in DOMAIN sessions => SessionReplays(id)
  BY TrailParts DEF TrailPerRow, TrailInv
<1>6. CASE event.kind = "revoked" /\ event.target = id
  <2>1. /\ id \in DOMAIN sessions /\ sessions[id].revoked = Never
        /\ event.after # Never
        /\ sessions' = [sessions EXCEPT ![id].revoked = event.after]
    BY <1>6 DEF Recorded
  <2>2. sessions[id] \in SessionRecord
    BY <2>1 DEF Types, TypeOK
  <2>3. sessions'[id].revoked = event.after
    BY <2>1, <2>2 DEF SessionRecord
  <2>4. Revocations(id)' = {L + 1}
    BY <1>3, <1>5, <1>6, <2>1 DEF SessionReplays
  <2> QED
    BY <1>2, <2>1, <2>3, <2>4 DEF SessionReplays
<1>7. CASE ~ (event.kind = "revoked" /\ event.target = id)
  <2>1. \/ id \in DOMAIN sessions /\ sessions'[id] = sessions[id]
        \/ id \notin DOMAIN sessions /\ sessions'[id].revoked = Never
    BY <1>7 DEF Recorded, With
  <2>2. id \notin DOMAIN sessions => Revocations(id) = {}
    BY DEF TrailInv, EventsName, Revocations
  <2>3. Revocations(id)' = Revocations(id)
    BY <1>3, <1>7
  <2>4. \A n \in Revocations(id) : log'[n] = log[n]
    BY <1>2, <1>4
  <2> QED
    BY <1>5, <2>1, <2>2, <2>3, <2>4 DEF SessionReplays
<1> QED
  BY <1>6, <1>7

\* A commit adds an event whose target is there, and none is removed.
LEMMA EventsStayNamed ==
  ASSUME Types, TrailInv, [Next]_vars, NEW q, NEW event,
         log' = Append(log, event), Recorded(q, event),
         event.began = q.began, RequestType(q)
  PROVE  EventsName'
<1>1. PICK L \in Nat : L = Len(log)
  BY LogGrows
<1>2. /\ Len(log') = L + 1
      /\ \A n \in 1..L : log'[n] = log[n]
      /\ log'[L + 1] = event
  BY <1>1, Appended DEF Types
<1>3. ASSUME NEW n \in 1..L + 1, log'[n].kind = "roles"
      PROVE  log'[n].target \in Users /\ Given(log[n].target, n - 1)' # {}
  <2>1. CASE n \in 1..L
    <3>1. PICK user \in Users : user = log[n].target /\ Given(user, n - 1) # {}
      BY <1>1, <1>2, <1>3, <2>1 DEF TrailInv, EventsName
    <3>2. Given(user, n - 1)' = Given(user, n - 1)
      BY <1>1, <2>1, PastStands
    <3>3. user = log'[n].target
      BY <1>2, <2>1, <3>1
    <3> QED
      BY <3>1, <3>2, <3>3 DEF Given
  <2>2. CASE n = L + 1
    <3>1. PICK user : user = event.target
      OBVIOUS
    <3>2. user \in DOMAIN users /\ user \in Users
      BY <1>2, <1>3, <2>2, <3>1 DEF Recorded, Types, TypeOK
    <3>3. Given(user, L) # {}
      BY <1>1, <3>2, TrailParts DEF TrailPerRow, AccountReplays, TrailInv
    <3>4. Given(user, L)' = Given(user, L)
      BY <1>1, PastStands
    <3>5. user = log'[n].target /\ n - 1 = L
      BY <1>2, <2>2, <3>1
    <3> QED
      BY <3>2, <3>3, <3>4, <3>5 DEF Given
  <2> QED
    BY <1>1, <2>1, <2>2
<1>4. ASSUME NEW n \in 1..L + 1
      PROVE  /\ log'[n].began \in 0..n - 1
             /\ log'[n].kind = "deactivated" => log'[n].target \in DOMAIN users'
             /\ log'[n].kind = "revoked" => log'[n].target \in DOMAIN sessions'
  <2>1. CASE n \in 1..L
    BY <1>1, <1>2, <2>1, TablesGrow DEF TrailInv, EventsName
  <2>2. CASE n = L + 1
    BY <1>1, <1>2, <2>2, TablesGrow DEF Recorded, RequestType
  <2> QED
    BY <1>1, <2>1, <2>2
<1> QED
  BY <1>2, <1>3, <1>4 DEF EventsName

\* Whether an event's previous value is right depends on the events before it.
LEMMA PreviousStands ==
  ASSUME Types, TrailInv, [Next]_vars, NEW n \in 1..Len(log)
  PROVE  PreviousIsAccurate(n)'
<1>1. PICK L \in Nat : L = Len(log)
  BY LogGrows
<1>2. \A m \in 1..L : log'[m] = log[m]
  BY <1>1, LogGrows
<1>3. PICK event : event = log[n] /\ event = log'[n]
  BY <1>1, <1>2
<1>4. PreviousIsAccurate(n)
  BY TrailParts DEF TrailPerRow, TrailInv
<1>5. n - 1 \in 0..L /\ n \in 1..L
  BY <1>1
<1>6. ASSUME event.kind = "roles"
      PROVE  RolesAt(event.target, n - 1)' = RolesAt(event.target, n - 1)
  <2>1. event.target \in Users /\ Given(event.target, n - 1) # {}
    BY <1>1, <1>3, <1>5, <1>6 DEF TrailInv, EventsName
  <2>2. Latest(event.target, n - 1)
    BY <1>1, <1>5, <2>1 DEF TrailInv, LatestIsThere
  <2> QED
    BY <1>1, <1>5, <2>1, <2>2, PastStands
<1>7. ActiveSince(event.target, n - 1)' = ActiveSince(event.target, n - 1)
  <2>1. ActiveSince(event.target, n - 1)' <=> ActiveSince(event.target, n - 1)
    BY <1>1, <1>5, PastStands
  <2> QED
    BY <2>1 DEF ActiveSince
<1> DEFINE Overtaken(kind) ==
             \E m \in event.began + 1..n - 1 :
               log[m].kind = kind /\ log[m].target = event.target
           OvertakenP(kind) ==
             \E m \in event.began + 1..n - 1 :
               log'[m].kind = kind /\ log'[m].target = event.target
<1> SUFFICES
      /\ event.kind = "roles" /\ ~ OvertakenP("roles") =>
           event.before = RolesAt(event.target, n - 1)'
      /\ event.kind = "deactivated" /\ ~ OvertakenP("deactivated") =>
           event.before = ActiveSince(event.target, n - 1)'
  BY <1>3 DEF PreviousIsAccurate
<1>8. /\ event.kind = "roles" /\ ~ Overtaken("roles") =>
           event.before = RolesAt(event.target, n - 1)
      /\ event.kind = "deactivated" /\ ~ Overtaken("deactivated") =>
           event.before = ActiveSince(event.target, n - 1)
  BY <1>3, <1>4 DEF PreviousIsAccurate
<1>9. /\ Overtaken("roles") <=> OvertakenP("roles")
      /\ Overtaken("deactivated") <=> OvertakenP("deactivated")
  <2>1. event.began + 1..n - 1 \subseteq 1..L
    <3>1. event.began \in 0..n - 1
      BY <1>1, <1>3, <1>5 DEF TrailInv, EventsName
    <3> QED
      BY <1>1, <1>5, <3>1
  <2> QED
    BY <1>2, <2>1
<1> HIDE DEF Overtaken, OvertakenP
<1> QED
  BY <1>6, <1>7, <1>8, <1>9

\* The value a commit records as previous was right when nobody overtook it.
LEMMA NewPreviousIsAccurate ==
  ASSUME Types, TrailInv, [Next]_vars, NEW r \in Requests, NEW q, q = req[r],
         RequestType(q), NEW event, log' = Append(log, event),
         event.began = q.began, Recorded(q, event),
         NEW n, n = Len(log) + 1
  PROVE  PreviousIsAccurate(n)'
<1>1. PICK L \in Nat : L = Len(log)
  BY LogGrows
<1>2. /\ Len(log') = L + 1
      /\ \A m \in 1..L : log'[m] = log[m]
      /\ log'[L + 1] = event
  BY <1>1, Appended DEF Types
<1>3. PICK target : target = event.target
  OBVIOUS
<1> DEFINE OvertakenP(kind) ==
             \E m \in event.began + 1..L :
               log'[m].kind = kind /\ log'[m].target = target
<1>4. ASSUME event.kind \in {"roles", "deactivated"}
      PROVE  /\ q.pc = "write"
             /\ q.op.name = IF event.kind = "roles" THEN "change_roles"
                            ELSE "deactivate"
             /\ target = q.op.target /\ event.before = q.before
             /\ target \in Users /\ Given(target, L) # {}
             /\ Latest(target, L)
  <2>1. /\ q.pc = "write"
        /\ q.op.name = IF event.kind = "roles" THEN "change_roles"
                       ELSE "deactivate"
        /\ target = q.op.target /\ event.before = q.before
        /\ target \in DOMAIN users
    BY <1>3, <1>4 DEF Recorded
  <2>2. target \in Users
    BY <2>1 DEF Types, TypeOK
  <2>3. Given(target, L) # {} /\ Latest(target, L)
    BY <1>1, <2>1, <2>2, TrailParts
       DEF TrailPerRow, AccountReplays, TrailInv, LatestIsThere
  <2> QED
    BY <2>1, <2>2, <2>3
<1>5. \A kind : ~ OvertakenP(kind) /\ target = q.op.target =>
                  Untouched(q, kind)
  <2>1. event.began + 1..L = q.began + 1..L /\ q.began + 1..L \subseteq 1..L
    BY <1>1 DEF RequestType
  <2> QED
    BY <1>1, <1>2, <2>1 DEF Untouched
<1>6. ASSUME event.kind = "roles", ~ OvertakenP("roles")
      PROVE  event.before = RolesAt(target, L)'
  <2>1. event.before = RolesAt(target, L)
    BY <1>1, <1>4, <1>5, <1>6 DEF TrailInv, PreviousKnown
  <2> QED
    BY <1>1, <1>4, <1>6, <2>1, PastStands
<1>7. ASSUME event.kind = "deactivated", ~ OvertakenP("deactivated")
      PROVE  event.before = ActiveSince(target, L)'
  <2>1. event.before = ActiveSince(target, L)
    BY <1>1, <1>4, <1>5, <1>7 DEF TrailInv, PreviousKnown
  <2>2. ActiveSince(target, L)' <=> ActiveSince(target, L)
    BY <1>1, PastStands
  <2> QED
    BY <2>1, <2>2 DEF ActiveSince
<1>10. /\ n - 1 = L /\ log'[n] = event
  BY <1>1, <1>2
<1>11. PreviousIsAccurate(n)'
  <2>1. /\ event.kind = "roles" /\ ~ OvertakenP("roles") =>
             event.before = RolesAt(target, n - 1)'
        /\ event.kind = "deactivated" /\ ~ OvertakenP("deactivated") =>
             event.before = ActiveSince(target, n - 1)'
    BY <1>6, <1>7, <1>10
  <2> QED
    BY <1>3, <1>10, <2>1 DEF PreviousIsAccurate
<1> QED
  BY <1>11

\* What a step may do to one request.
LEMMA RequestSteps ==
  ASSUME Types, [Next]_vars, NEW r \in Requests
  PROVE  \/ req'[r] = req[r]
         \/ req'[r] = Idle
         \/ \E op \in Operation, id \in Sessions : Begin(r, op, id)
         \/ ReadSession(r)
         \/ ReadUser(r)
         \/ ReadPrevious(r)
         \/ \E user \in Users : BeginBootstrap(r, user)
         \/ \E email, expiry : /\ expiry \in Expiry
                               /\ BeginEntraSession(r, email, expiry)
<1>0. DOMAIN req = Requests
  BY DEF Types
<1>1. ASSUME NEW o \in Requests, o # r, NEW q, req' = [req EXCEPT ![o] = q]
      PROVE  req'[r] = req[r]
  BY <1>0, <1>1
<1>2. ASSUME NEW o \in Requests, NEW op \in Operation, NEW id \in Sessions,
             Begin(o, op, id), o # r
      PROVE  req'[r] = req[r]
  BY <1>1, <1>2 DEF Begin
<1>3. ASSUME NEW o \in Requests, ReadSession(o), o # r PROVE req'[r] = req[r]
  BY <1>0, <1>3 DEF ReadSession, Continue
<1>4. ASSUME NEW o \in Requests, ReadUser(o), o # r PROVE req'[r] = req[r]
  BY <1>0, <1>4 DEF ReadUser, Continue
<1>5. ASSUME NEW o \in Requests, ReadPrevious(o), o # r PROVE req'[r] = req[r]
  BY <1>0, <1>5 DEF ReadPrevious, Continue
<1>6. ASSUME NEW o \in Requests, Committing(o) \/ Fail(o)
      PROVE  req'[r] = req[r] \/ req'[r] = Idle
  <2>1. req' = [req EXCEPT ![o] = Idle]
    BY <1>6, CommitEnds DEF Fail
  <2> QED
    BY <1>0, <2>1
<1>7. ASSUME NEW o \in Requests, NEW user \in Users, BeginBootstrap(o, user),
             o # r
      PROVE  req'[r] = req[r]
  BY <1>0, <1>7 DEF BeginBootstrap
<1>8. ASSUME NEW o \in Requests, NEW email, NEW expiry \in Expiry,
             BeginEntraSession(o, email, expiry), o # r
      PROVE  req'[r] = req[r]
  BY <1>0, <1>8 DEF BeginEntraSession
<1>9. CASE Tick \/ UNCHANGED vars
  BY <1>9 DEF Tick, vars
<1> QED
  BY <1>2, <1>3, <1>4, <1>5, <1>6, <1>7, <1>8, <1>9 DEF Next, Committing

\* The value a request read as previous stays right until it is overtaken.
LEMMA PreviousStaysKnown ==
  ASSUME Types, TrailInv, [Next]_vars
  PROVE  PreviousKnown'
<1> SUFFICES ASSUME NEW r \in Requests, req'[r].pc = "write"
             PROVE  /\ req'[r].op.name = "change_roles"
                       /\ Untouched(req[r], "roles")' =>
                         req'[r].before = RolesAt(req[r].op.target, Len(log))'
                    /\ req'[r].op.name = "deactivate"
                       /\ Untouched(req[r], "deactivated")' =>
                         req'[r].before =
                           ActiveSince(req[r].op.target, Len(log))'
  BY DEF PreviousKnown
<1>1. PICK L \in Nat : L = Len(log)
  BY LogGrows
<1>2. PICK q : q = req'[r]
  OBVIOUS
<1>3. PICK target : target = q.op.target
  OBVIOUS
<1> SUFFICES /\ q.op.name = "change_roles" /\ Untouched(q, "roles")' =>
                  q.before = RolesAt(target, Len(log))'
             /\ q.op.name = "deactivate" /\ Untouched(q, "deactivated")' =>
                  q.before = ActiveSince(target, Len(log))'
  BY <1>2, <1>3 DEF Untouched, RolesAt, ActiveSince, Given
<1>4. q.pc = "write"
  BY <1>2
<1>5. ASSUME req'[r] = req[r]
      PROVE  /\ q.op.name = "change_roles" /\ Untouched(q, "roles")' =>
                  q.before = RolesAt(target, Len(log))'
             /\ q.op.name = "deactivate" /\ Untouched(q, "deactivated")' =>
                  q.before = ActiveSince(target, Len(log))'
  <2> SUFFICES ASSUME q.op.name \in {"change_roles", "deactivate"}
               PROVE  /\ q.op.name = "change_roles" /\ Untouched(q, "roles")' =>
                           q.before = RolesAt(target, Len(log))'
                      /\ q.op.name = "deactivate"
                         /\ Untouched(q, "deactivated")' =>
                           q.before = ActiveSince(target, Len(log))'
    OBVIOUS
  <2>1. RequestType(q) /\ q = req[r]
    BY <1>2, <1>4, <1>5 DEF Types, Idle
  <2>2. target \in DOMAIN users /\ target \in Users
    BY <1>3, <1>4, <2>1 DEF RequestType, Types, TypeOK
  <2>3. Given(target, L) # {} /\ Latest(target, L)
    BY <1>1, <2>2, TrailParts
       DEF TrailPerRow, AccountReplays, TrailInv, LatestIsThere
  <2>4. /\ q.op.name = "change_roles" /\ Untouched(q, "roles") =>
             q.before = RolesAt(target, L)
        /\ q.op.name = "deactivate" /\ Untouched(q, "deactivated") =>
             q.before = ActiveSince(target, L)
    BY <1>1, <1>3, <1>4, <2>1 DEF TrailInv, PreviousKnown
  <2>5. ASSUME UNCHANGED log
        PROVE  /\ q.op.name = "change_roles" /\ Untouched(q, "roles")' =>
                    q.before = RolesAt(target, Len(log))'
               /\ q.op.name = "deactivate" /\ Untouched(q, "deactivated")' =>
                    q.before = ActiveSince(target, Len(log))'
    BY <1>1, <2>4, <2>5 DEF Untouched, RolesAt, ActiveSince, Given
  <2>6. ASSUME NEW o \in Requests, Committing(o)
        PROVE  /\ q.op.name = "change_roles" /\ Untouched(q, "roles")' =>
                    q.before = RolesAt(target, Len(log))'
               /\ q.op.name = "deactivate" /\ Untouched(q, "deactivated")' =>
                    q.before = ActiveSince(target, Len(log))'
    <3>1. PICK p, event : log' = Append(log, event) /\ Recorded(p, event)
      BY <2>6, CommitRecords
    <3>2. /\ Len(log') = L + 1
          /\ \A m \in 1..L : log'[m] = log[m]
          /\ log'[L + 1] = event
      BY <1>1, <3>1, Appended DEF Types
    <3>3. q.began \in 0..L
      BY <1>1, <2>1 DEF RequestType
    <3>4. \A kind : Untouched(q, kind)' =>
                      /\ Untouched(q, kind)
                      /\ ~ (event.kind = kind /\ event.target = target)
      BY <1>1, <1>3, <3>2, <3>3 DEF Untouched
    <3>5. ~ (event.kind = "created" /\ event.target = target)
      BY <2>2, <3>1 DEF Recorded
    <3>6. ASSUME Untouched(q, "roles")'
          PROVE  RolesAt(target, Len(log))' = RolesAt(target, L)
      BY <1>1, <2>3, <3>1, <3>4, <3>5, <3>6, OneMoreEvent
    <3>7. ASSUME Untouched(q, "deactivated")'
          PROVE  ActiveSince(target, Len(log))' = ActiveSince(target, L)
      <4>1. Given(target, Len(log))' # {}
        BY <1>1, <2>3, <3>1, OneMoreEvent
      <4>2. ActiveSince(target, Len(log))' <=>
              \A n \in 1..L :
                ~ (log[n].kind = "deactivated" /\ log[n].target = target)
        BY <1>1, <2>3, <3>1, <3>4, <3>7, <4>1, OneMoreEvent
      <4>3. ActiveSince(target, L) <=>
              \A n \in 1..L :
                ~ (log[n].kind = "deactivated" /\ log[n].target = target)
        BY <2>3 DEF ActiveSince
      <4> QED
        BY <4>2, <4>3 DEF ActiveSince
    <3> QED
      BY <2>4, <3>4, <3>6, <3>7
  <2> QED
    BY <2>5, <2>6, Commits
<1>6. ASSUME ReadUser(r)
      PROVE  q.op.name \notin {"change_roles", "deactivate"}
  BY <1>2, <1>4, <1>6 DEF ReadUser, Continue, Managing, Idle, Types
<1>7. ASSUME ReadPrevious(r)
      PROVE  /\ q.op.name = "change_roles" =>
                  q.before = RolesAt(target, Len(log))'
             /\ q.op.name = "deactivate" =>
                  q.before = ActiveSince(target, Len(log))'
  <2>1. PICK p : p = req[r]
    OBVIOUS
  <2>2. /\ p.pc = "previous" /\ RequestType(p) /\ UNCHANGED log
    BY <1>7, <2>1 DEF ReadPrevious, Types, Idle
  <2>3. /\ q.op = p.op
        /\ q.op.name = "change_roles" =>
             target \in DOMAIN users /\ q.before = users[target].roles
        /\ q.op.name = "deactivate" =>
             target \in DOMAIN users /\ q.before = users[target].active
    <3>1. DOMAIN p = {"pc", "op", "session", "at", "began", "user", "before"}
      BY <2>2 DEF RequestType
    <3> DEFINE Known(op) == op.target \in IF op.name = "revoke"
                                          THEN DOMAIN sessions
                                          ELSE DOMAIN users
               Value(op) == IF ~ Known(op) THEN Nothing
                            ELSE CASE op.name = "change_roles" ->
                                        users[op.target].roles
                                   [] op.name = "deactivate" ->
                                        users[op.target].active
                                   [] op.name = "revoke" ->
                                        sessions[op.target].revoked
    <3>2. q = IF Known(p.op)
              THEN [p EXCEPT !.pc = "write", !.user = p.user,
                             !.before = Value(p.op)]
              ELSE Idle
      <4>1. req' = [req EXCEPT ![r] =
                      IF Known(req[r].op)
                      THEN [req[r] EXCEPT !.pc = "write", !.user = req[r].user,
                                          !.before = Value(req[r].op)]
                      ELSE Idle]
        BY <1>7 DEF ReadPrevious, Continue
      <4> HIDE DEF Known, Value
      <4>2. DOMAIN req = Requests
        BY DEF Types
      <4> QED
        BY <1>2, <2>1, <4>1, <4>2
    <3> QED
      BY <1>3, <1>4, <3>1, <3>2 DEF Idle
  <2>4. ASSUME target \in DOMAIN users
        PROVE  /\ users[target].roles = RolesAt(target, L)
               /\ users[target].active = ActiveSince(target, L)
    BY <1>1, <2>4 DEF TrailInv, TrailIsAccurate
  <2>5. /\ RolesAt(target, Len(log))' = RolesAt(target, L)
        /\ ActiveSince(target, Len(log))' = ActiveSince(target, L)
    BY <1>1, <2>2 DEF RolesAt, ActiveSince, Given
  <2> QED
    BY <2>3, <2>4, <2>5
<1> QED
  <2>1. req'[r] = req[r] \/ ReadUser(r) \/ ReadPrevious(r)
    <3>1. ASSUME \/ \E op \in Operation, id \in Sessions : Begin(r, op, id)
                 \/ ReadSession(r)
                 \/ \E user \in Users : BeginBootstrap(r, user)
                 \/ \E email, expiry : /\ expiry \in Expiry
                                       /\ BeginEntraSession(r, email, expiry)
          PROVE  FALSE
      <4>1. DOMAIN req = Requests
        BY DEF Types
      <4>2. CASE \E op \in Operation, id \in Sessions : Begin(r, op, id)
        BY <1>2, <1>4, <4>1, <4>2 DEF Begin
      <4>3. CASE ReadSession(r)
        <5>1. RequestType(req[r])
          BY <4>3 DEF ReadSession, Types, Idle
        <5> QED
          BY <1>2, <1>4, <4>1, <4>3, <5>1
             DEF ReadSession, Continue, Idle, RequestType
      <4>4. CASE \E user \in Users : BeginBootstrap(r, user)
        BY <1>2, <1>4, <4>1, <4>4 DEF BeginBootstrap, Unadmitted
      <4>5. CASE \E email, expiry : /\ expiry \in Expiry
                                    /\ BeginEntraSession(r, email, expiry)
        BY <1>2, <1>4, <4>1, <4>5 DEF BeginEntraSession, Unadmitted
      <4> QED
        BY <3>1, <4>2, <4>3, <4>4, <4>5
    <3>2. req'[r] # Idle
      BY <1>2, <1>4 DEF Idle
    <3> QED
      BY <3>1, <3>2, RequestSteps
  <2> QED
    BY <2>1, <1>5, <1>6, <1>7

\* Every step leaves the trail right.
LEMMA TrailStays ==
  ASSUME Types, TrailInv, [Next]_vars, Types'
  PROVE  TrailInv'
<1>1. PICK L \in Nat : L = Len(log)
  BY LogGrows
<1>2. PreviousKnown'
  BY PreviousStaysKnown
<1>3. LatestIsThere'
  <2> SUFFICES ASSUME NEW user \in Users, NEW k \in 0..Len(log')
               PROVE  Latest(user, k)'
    BY DEF LatestIsThere
  <2>1. CASE k \in 0..L
    <3>1. Latest(user, k)
      BY <1>1, <2>1 DEF TrailInv, LatestIsThere
    <3>2. Given(user, k)' = Given(user, k)
      BY <1>1, <2>1, PastStands
    <3> QED
      BY <3>1, <3>2 DEF Latest
  <2>2. CASE k \notin 0..L
    <3>1. PICK r \in Requests : Committing(r)
      BY <1>1, <2>2, Commits
    <3>2. PICK event : log' = Append(log, event)
      BY <3>1, CommitEnds
    <3>3. Latest(user, L)
      BY <1>1 DEF TrailInv, LatestIsThere
    <3>4. Latest(user, Len(log))'
      BY <1>1, <3>2, <3>3, OneMoreEvent
    <3>5. k = Len(log')
      BY <1>1, <2>2, LogGrows
    <3> QED
      BY <3>4, <3>5 DEF Latest, Given
  <2> QED
    BY <2>1, <2>2
<1>4. CASE UNCHANGED <<users, sessions, approved, log>>
  <2>1. EventsName'
    BY <1>4 DEF TrailInv, EventsName, Given
  <2>2. \A user, k : /\ RolesAt(user, k)' = RolesAt(user, k)
                     /\ ActiveSince(user, k)' = ActiveSince(user, k)
                     /\ Given(user, k)' = Given(user, k)
    BY <1>4 DEF RolesAt, ActiveSince, Given
  <2>3. \A n : PreviousIsAccurate(n)' = PreviousIsAccurate(n)
    BY <1>4, <2>2 DEF PreviousIsAccurate
  <2>4. TrailIsAccurate'
    BY <1>4, <2>2, <2>3 DEF TrailInv, TrailIsAccurate
  <2> QED
    BY <1>2, <1>3, <2>1, <2>4 DEF TrailInv
<1>5. ASSUME NEW r \in Requests, Committing(r) PROVE TrailInv'
  <2>1. PICK q, event :
          /\ q = req[r] /\ RequestType(q)
          /\ log' = Append(log, event)
          /\ event.began = q.began
          /\ Recorded(q, event)
    BY <1>5, CommitRecords
  <2>2. /\ Len(log') = L + 1
        /\ \A m \in 1..L : log'[m] = log[m]
        /\ log'[L + 1] = event
    BY <1>1, <2>1, Appended DEF Types
  <2>3. EventsName'
    BY <2>1, EventsStayNamed
  <2>4. \A user \in Users : AccountReplays(user)'
    BY <2>1, AccountsStayReplayed
  <2>5. \A id \in DOMAIN sessions' : SessionReplays(id)'
    BY <2>1, SessionsStayReplayed
  <2>6. approved'.constants =
          {log'[n].target : n \in {m \in 1..Len(log') :
                                     log'[m].kind = "constants"}}
    <3>1. approved.constants =
            {log[n].target : n \in {m \in 1..L : log[m].kind = "constants"}}
      BY <1>1 DEF TrailInv, TrailIsAccurate
    <3>2. approved'.constants =
            IF event.kind = "constants"
            THEN approved.constants \cup {event.target}
            ELSE approved.constants
      BY <2>1 DEF Recorded
    <3>3. {m \in 1..L + 1 : log'[m].kind = "constants"} =
            {m \in 1..L : log[m].kind = "constants"}
              \cup IF event.kind = "constants" THEN {L + 1} ELSE {}
      BY <1>1, <2>2
    <3> QED
      BY <2>2, <3>1, <3>2, <3>3
  <2>7. ASSUME NEW n \in 1..L + 1 PROVE PreviousIsAccurate(n)'
    <3>1. CASE n \in 1..L
      BY <1>1, <3>1, PreviousStands
    <3>2. CASE n = L + 1
      BY <1>1, <2>1, <3>2, NewPreviousIsAccurate
    <3> QED
      BY <1>1, <3>1, <3>2
  <2>8. TrailIsAccurate'
    <3>1. (Types => (TrailIsAccurate <=> TrailPerRow))'
      BY TrailParts, PTL
    <3>2. TrailPerRow'
      BY <2>2, <2>4, <2>5, <2>6, <2>7 DEF TrailPerRow
    <3> QED
      BY <3>1, <3>2
  <2> QED
    BY <1>2, <1>3, <2>3, <2>8 DEF TrailInv
<1> QED
  BY <1>4, <1>5, Commits

LEMMA TrailHolds == Spec => [](Types /\ TrailInv)
<1>1. Init => TrailInv
  <2> SUFFICES ASSUME Init PROVE TrailInv
    OBVIOUS
  <2>1. Len(log) = 0 /\ DOMAIN users = {} /\ DOMAIN sessions = {}
        /\ approved.constants = {} /\ req = [r \in Requests |-> Idle]
    BY DEF Init
  <2>2. \A user : Given(user, 0) = {}
    BY DEF Given
  <2>3. 1..Len(log) = {} /\ 0..Len(log) = {0}
    BY <2>1
  <2>4. LatestIsThere /\ EventsName
    BY <2>2, <2>3 DEF LatestIsThere, Latest, EventsName
  <2>5. PreviousKnown
    BY <2>1 DEF PreviousKnown, Idle
  <2>6. TrailIsAccurate
    BY <2>1, <2>2, <2>3 DEF TrailIsAccurate
  <2> QED
    BY <2>4, <2>5, <2>6 DEF TrailInv
<1>2. Types /\ Types' /\ TrailInv /\ [Next]_vars => TrailInv'
  BY TrailStays
<1> QED
  BY <1>1, <1>2, TypesHold, PTL DEF Spec

\* Replaying the audit trail alone gives every account's roles and activity,
\* every revocation and every approved constant set, and a recorded previous
\* value is wrong only where another request overtook it, whatever requests
\* overlap and however they fail.
THEOREM TrailReplays == Spec => []TrailIsAccurate
<1>1. Types /\ TrailInv => TrailIsAccurate
  BY DEF TrailInv
<1> QED
  BY <1>1, TrailHolds, PTL

(***************************************************************************)
(* Authority                                                               *)
(***************************************************************************)

\* That an account had authority at some moment, no later step changes.
LEMMA AuthorityStands ==
  ASSUME Types, TrailInv, [Next]_vars,
         NEW user \in Users, NEW k \in 0..Len(log), NEW action
  PROVE  /\ ActiveSince(user, k) => ActiveSince(user, k)'
         /\ Authority(user, action, k) => Authority(user, action, k)'
<1>1. ActiveSince(user, k)' <=> ActiveSince(user, k)
  BY PastStands
<1>2. Latest(user, k)
  BY DEF TrailInv, LatestIsThere
<1>3. ActiveSince(user, k) => RolesAt(user, k)' = RolesAt(user, k)
  BY <1>2, PastStands DEF ActiveSince
<1> QED
  BY <1>1, <1>3 DEF Authority

\* What a request was admitted for, no later step changes.
LEMMA ChecksStand ==
  ASSUME Types, TrailInv, [Next]_vars, NEW q, RequestType(q)
  PROVE  /\ q.pc \in Resolved /\ LiveSession(q) => LiveSession(q)'
         /\ q.pc \in Resolved /\ Admitted(q) => Admitted(q)'
         /\ q.pc = "entra" /\ ActiveSince(q.user, q.began) =>
              ActiveSince(q.user, q.began)'
<1>1. /\ Len(log) \in Nat /\ Len(log') \in {Len(log), Len(log) + 1}
      /\ \A n \in 1..Len(log) : log'[n] = log[n]
  BY LogGrows
<1>2. q.began \in 0..Len(log)
  BY DEF RequestType
<1>3. q.pc \in Resolved \cup {"entra"} => q.user \in Users
  BY DEF RequestType, Types, TypeOK
<1>4. ASSUME q.pc \in Resolved, LiveSession(q) PROVE LiveSession(q)'
  <2>1. q.session \in DOMAIN sessions
    BY <1>4 DEF RequestType, Resolved
  <2>2. 1..q.began \subseteq 1..Len(log)
    BY <1>1, <1>2
  <2> QED
    BY <1>1, <1>4, <2>1, <2>2, TablesGrow DEF LiveSession
<1>5. ASSUME q.pc \in Resolved, Admitted(q) PROVE Admitted(q)'
  <2>1. PICK k \in q.began..Len(log) : Authority(q.user, Action(q.op), k)
    BY <1>5 DEF Admitted
  <2>2. k \in 0..Len(log) /\ k \in q.began..Len(log')
    BY <1>1, <1>2, <2>1
  <2>3. Authority(q.user, Action(q.op), k)'
    BY <1>3, <1>5, <2>1, <2>2, AuthorityStands
  <2> QED
    BY <2>2, <2>3 DEF Admitted
<1>6. ASSUME q.pc = "entra", ActiveSince(q.user, q.began)
      PROVE  ActiveSince(q.user, q.began)'
  BY <1>2, <1>3, <1>6, AuthorityStands
<1> QED
  BY <1>4, <1>5, <1>6

\* What admits a request depends on the trail and its operation.
LEMMA StillAdmitted ==
  ASSUME NEW p, NEW q, Admitted(p), UNCHANGED log,
         q.user = p.user, q.began = p.began, q.op = p.op
  PROVE  Admitted(q)'
<1>1. PICK k \in p.began..Len(log) : Authority(p.user, Action(p.op), k)
  BY DEF Admitted
<1>2. Given(q.user, k)' = Given(p.user, k)
  BY DEF Given
<1>3. /\ RolesAt(q.user, k)' = RolesAt(p.user, k)
      /\ ActiveSince(q.user, k)' <=> ActiveSince(p.user, k)
  BY <1>2 DEF RolesAt, ActiveSince
<1>4. Authority(q.user, Action(q.op), k)'
  BY <1>1, <1>3 DEF Authority
<1> QED
  BY <1>1, <1>4 DEF Admitted

\* What a request read admits it.
LEMMA ChecksStayHeld ==
  ASSUME Types, TrailInv, ChecksHeld, [Next]_vars
  PROVE  ChecksHeld'
<1> SUFFICES ASSUME NEW r \in Requests
             PROVE  /\ req'[r].pc \in Resolved => LiveSession(req[r])'
                    /\ req'[r].pc \in {"previous", "write"} => Admitted(req[r])'
                    /\ req'[r].pc = "entra" =>
                         ActiveSince(req[r].user, req[r].began)'
  BY DEF ChecksHeld
<1>1. PICK q : q = req'[r]
  OBVIOUS
<1>2. PICK p : p = req[r]
  OBVIOUS
<1> SUFFICES /\ q.pc \in Resolved => LiveSession(q)'
             /\ q.pc \in {"previous", "write"} => Admitted(q)'
             /\ q.pc = "entra" => ActiveSince(q.user, q.began)'
  <2>1. /\ LiveSession(req[r])' <=> LiveSession(q)'
        /\ Admitted(req[r])' <=> Admitted(q)'
        /\ ActiveSince(req[r].user, req[r].began)' <=>
             ActiveSince(q.user, q.began)'
    BY <1>1 DEF LiveSession, Admitted, Authority, ActiveSince, RolesAt, Given
  <2> QED
    BY <1>1, <2>1
<1>3. DOMAIN req = Requests /\ (p = Idle \/ RequestType(p))
  BY <1>2 DEF Types
<1>4. /\ p.pc \in Resolved => LiveSession(p)
      /\ p.pc \in {"previous", "write"} => Admitted(p)
      /\ p.pc = "entra" => ActiveSince(p.user, p.began)
  BY <1>2 DEF ChecksHeld
<1> DEFINE Goal == /\ q.pc \in Resolved => LiveSession(q)'
                   /\ q.pc \in {"previous", "write"} => Admitted(q)'
                   /\ q.pc = "entra" => ActiveSince(q.user, q.began)'
<1>5. CASE q = Idle
  BY <1>5 DEF Idle, Resolved
<1>6. CASE q = p /\ q # Idle
  <2>1. RequestType(q)
    BY <1>3, <1>6
  <2> QED
    BY <1>4, <1>6, <2>1, ChecksStand DEF Resolved
<1>7. CASE \E op \in Operation, id \in Sessions : Begin(r, op, id)
  BY <1>1, <1>3, <1>7 DEF Begin, Resolved
<1>8. CASE \E user \in Users : BeginBootstrap(r, user)
  BY <1>1, <1>3, <1>8 DEF BeginBootstrap, Unadmitted, Resolved
<1>9. ASSUME ReadSession(r), q # Idle PROVE Goal
  <2>1. p.pc = "session" /\ RequestType(p)
    BY <1>2, <1>3, <1>9 DEF ReadSession, Idle
  <2>2. /\ q = [p EXCEPT !.pc = "user", !.user = sessions[p.session].user,
                         !.before = Nothing]
        /\ ActiveAt(sessions[p.session], p.at)
        /\ UNCHANGED <<users, sessions, log>>
    BY <1>1, <1>2, <1>3, <1>9 DEF ReadSession, Continue
  <2>3. /\ q.pc = "user" /\ q.user = sessions[p.session].user
        /\ q.session = p.session /\ q.at = p.at /\ q.began = p.began
    BY <2>1, <2>2 DEF RequestType
  <2>4. LiveSession(q)'
    <3>1. p.session \in DOMAIN sessions
      BY <2>1 DEF RequestType, Reading
    <3>2. Revocations(p.session) = {}
      BY <2>2, <3>1, TrailParts
         DEF TrailPerRow, SessionReplays, ActiveAt, TrailInv
    <3>3. p.began \in 0..Len(log) /\ Len(log) \in Nat
      BY <2>1, LogGrows DEF RequestType
    <3>4. \A m \in 1..p.began :
            ~ (log[m].kind = "revoked" /\ log[m].target = p.session)
      BY <3>2, <3>3 DEF Revocations
    <3> QED
      BY <2>2, <2>3, <3>4 DEF LiveSession, ActiveAt
  <2> QED
    BY <2>3, <2>4
<1>10. ASSUME ReadUser(r), q # Idle PROVE Goal
  <2>1. p.pc = "user" /\ RequestType(p)
    BY <1>2, <1>3, <1>10 DEF ReadUser, Idle
  <2>2. /\ CanPerform(users[p.user], Action(p.op))
        /\ UNCHANGED <<users, sessions, log>>
        /\ \E pc \in {"previous", "write"} :
             q = [p EXCEPT !.pc = pc, !.user = p.user, !.before = Nothing]
    BY <1>1, <1>2, <1>3, <1>10 DEF ReadUser, Continue
  <2>3. /\ q.pc \in {"previous", "write"} /\ q.user = p.user
        /\ q.session = p.session /\ q.at = p.at /\ q.began = p.began
        /\ q.op = p.op
    BY <2>1, <2>2 DEF RequestType
  <2>4. LiveSession(q)'
    BY <1>4, <2>1, <2>2, <2>3 DEF LiveSession, Resolved
  <2>5. Admitted(q)'
    <3>1. p.user \in DOMAIN users
      BY <2>1 DEF RequestType, Resolved
    <3>2. /\ users[p.user].roles = RolesAt(p.user, Len(log))
          /\ users[p.user].active = ActiveSince(p.user, Len(log))
      BY <3>1 DEF TrailInv, TrailIsAccurate
    <3>3. Authority(p.user, Action(p.op), Len(log))
      BY <2>2, <3>2 DEF Authority, CanPerform
    <3>4. Len(log) \in p.began..Len(log)
      BY <2>1, LogGrows DEF RequestType
    <3>5. Admitted(p)
      BY <3>3, <3>4 DEF Admitted
    <3> QED
      BY <2>2, <2>3, <3>5, StillAdmitted
  <2> QED
    BY <2>3, <2>4, <2>5
<1>11. ASSUME ReadPrevious(r), q # Idle PROVE Goal
  <2>1. p.pc = "previous" /\ RequestType(p)
    BY <1>2, <1>3, <1>11 DEF ReadPrevious, Idle
  <2>2. /\ UNCHANGED <<users, sessions, log>>
        /\ \E before :
             q = [p EXCEPT !.pc = "write", !.user = p.user, !.before = before]
    BY <1>1, <1>2, <1>3, <1>11 DEF ReadPrevious, Continue
  <2>3. /\ q.pc = "write" /\ q.user = p.user
        /\ q.session = p.session /\ q.at = p.at /\ q.began = p.began
        /\ q.op = p.op
    BY <2>1, <2>2 DEF RequestType
  <2>4. LiveSession(q)'
    BY <1>4, <2>1, <2>2, <2>3 DEF LiveSession, Resolved
  <2>5. Admitted(q)'
    BY <1>4, <2>1, <2>2, <2>3, StillAdmitted
  <2> QED
    BY <2>3, <2>4, <2>5
<1>12. ASSUME NEW email, NEW expiry \in Expiry,
              BeginEntraSession(r, email, expiry)
       PROVE  Goal
  <2>1. PICK user \in DOMAIN users :
          /\ users[user].active
          /\ q.pc = "entra" /\ q.user = user /\ q.began = Len(log)
          /\ UNCHANGED log
    BY <1>1, <1>3, <1>12 DEF BeginEntraSession, Unadmitted
  <2>2. ActiveSince(user, Len(log))
    BY <2>1 DEF TrailInv, TrailIsAccurate
  <2>3. ActiveSince(q.user, q.began)'
    BY <2>1, <2>2 DEF ActiveSince, Given
  <2> QED
    BY <2>1, <2>3 DEF Resolved
<1> QED
  BY <1>1, <1>2, <1>5, <1>6, <1>7, <1>8, <1>9, <1>10, <1>11, <1>12, RequestSteps

\* The right of one recorded change.
Rightful(n) ==
  log[n].by # System =>
    IF log[n].kind = "session"
    THEN \E k \in log[n].began..(n - 1) : ActiveSince(log[n].by, k)
    ELSE /\ \E k \in log[n].began..(n - 1) :
              Authority(log[n].by, ActionOf(log[n].kind), k)
         /\ sessions[log[n].session].user = log[n].by
         /\ sessions[log[n].session].issued <= log[n].at
         /\ log[n].at < sessions[log[n].session].expires
         /\ \A m \in 1..log[n].began :
              ~ (log[m].kind = "revoked" /\ log[m].target = log[n].session)

\* Its authority may be shown of the fields themselves.
LEMMA AuthorityOfFields ==
  ASSUME NEW n, NEW event, log'[n] = event, NEW i,
         Authority(event.by, ActionOf(event.kind), i)'
  PROVE  Authority(log[n].by, ActionOf(log[n].kind), i)'
<1>1. PICK user, action : user = event.by /\ action = ActionOf(event.kind)
  OBVIOUS
<1>2. user = log'[n].by /\ action = ActionOf(log'[n].kind)
  BY <1>1
<1>3. Given(log[n].by, i)' = Given(user, i)'
  BY <1>2 DEF Given
<1>4. /\ RolesAt(log[n].by, i)' = RolesAt(user, i)'
      /\ ActiveSince(log[n].by, i)' <=> ActiveSince(user, i)'
  BY <1>2, <1>3 DEF RolesAt, ActiveSince
<1>5. /\ ActiveSince(user, i)'
      /\ \E role \in RolesAt(user, i)' : IsAllowed(role, action)
  BY <1>1 DEF Authority, RolesAt, ActiveSince, Given
<1>6. ActionOf(log[n].kind)' = action
  BY <1>2 DEF ActionOf
<1> QED
  BY <1>4, <1>5, <1>6 DEF Authority

LEMMA EveryChangeRightful ==
  ActorHadAuthority <=> \A n \in 1..Len(log) : Rightful(n)
BY Zenon DEF ActorHadAuthority, Rightful, Authority

\* A recorded change stays rightful.
LEMMA RightfulStands ==
  ASSUME Types, TrailInv, EventsHeld, [Next]_vars,
         NEW n \in 1..Len(log), Rightful(n)
  PROVE  Rightful(n)'
<1>1. /\ Len(log) \in Nat /\ n \in Nat
      /\ \A m \in 1..Len(log) : log'[m] = log[m]
  BY LogGrows
<1>2. PICK event : event = log[n] /\ event = log'[n]
  BY <1>1
<1>3. event.began \in 0..n - 1
  BY <1>2 DEF TrailInv, EventsName
<1>4. 1..event.began \subseteq 1..Len(log) /\ n - 1 \in 0..Len(log)
      /\ event.began..(n - 1) \subseteq 0..Len(log)
  BY <1>1, <1>3
<1>5. PICK user : user = event.by
  OBVIOUS
<1> SUFFICES ASSUME user # System
             PROVE  Rightful(n)'
  BY <1>2, <1>5 DEF Rightful
<1>6. user \in Users /\ (event.kind # "session" =>
                           event.session \in DOMAIN sessions)
  BY <1>2, <1>5 DEF EventsHeld
<1>7. CASE event.kind = "session"
  <2>1. PICK k \in event.began..(n - 1) : ActiveSince(user, k)
    BY <1>2, <1>5, <1>7 DEF Rightful
  <2>2. ActiveSince(user, k)'
    BY <1>4, <1>6, <2>1, AuthorityStands
  <2>3. \E i \in event.began..(n - 1) : ActiveSince(user, i)'
    BY <2>1, <2>2
  <2> QED
    BY <1>2, <1>5, <1>7, <2>3 DEF Rightful, ActiveSince, Given
<1>8. CASE event.kind # "session"
  <2>1. PICK action : action = ActionOf(event.kind)
    OBVIOUS
  <2>2. PICK k \in event.began..(n - 1) : Authority(user, action, k)
    BY <1>2, <1>5, <1>8, <2>1 DEF Rightful
  <2>3. Authority(user, action, k)'
    BY <1>4, <1>6, <2>2, AuthorityStands
  <2>4. /\ sessions'[event.session].user = user
        /\ sessions'[event.session].issued <= event.at
        /\ event.at < sessions'[event.session].expires
    BY <1>2, <1>5, <1>6, <1>8, TablesGrow DEF Rightful
  <2>5. \A m \in 1..event.began :
          ~ (log'[m].kind = "revoked" /\ log'[m].target = event.session)
    BY <1>1, <1>2, <1>4, <1>5, <1>8 DEF Rightful
  <2>6. \E i \in event.began..(n - 1) : Authority(user, action, i)'
    BY <2>2, <2>3
  <2> QED
    <3>1. PICK i \in event.began..(n - 1) :
            Authority(event.by, ActionOf(event.kind), i)'
      BY <1>5, <2>1, <2>6
    <3>2. Authority(log[n].by, ActionOf(log[n].kind), i)'
      BY <1>2, <3>1, AuthorityOfFields
    <3> QED
      BY <1>2, <1>5, <1>8, <2>4, <2>5, <3>1, <3>2 DEF Rightful
<1> QED
  BY <1>7, <1>8

\* A commit is rightful, by what its request read.
LEMMA CommitIsRightful ==
  ASSUME Types, TrailInv, ChecksHeld, [Next]_vars,
         NEW r \in Requests, NEW q, q = req[r], RequestType(q),
         NEW event, log' = Append(log, event),
         event.session = q.session, event.at = q.at, event.began = q.began,
         MadeBy(q, event), NEW n, n = Len(log) + 1
  PROVE  /\ event.by # System =>
              /\ event.by \in Users
              /\ event.kind # "session" => event.session \in DOMAIN sessions
         /\ Rightful(n)'
<1>1. PICK L \in Nat : L = Len(log) /\ n = L + 1
  BY LogGrows
<1>2. /\ \A m \in 1..L : log'[m] = log[m]
      /\ log'[n] = event
  BY <1>1, Appended DEF Types
<1>3. q.began \in 0..L
  BY <1>1 DEF RequestType
<1>4. PICK user : user = event.by
  OBVIOUS
<1>5. CASE user = System
  BY <1>2, <1>4, <1>5 DEF Rightful
<1>6. ASSUME user # System, q.pc = "entra", event.kind = "session",
             user = q.user
      PROVE  user \in Users /\ Rightful(n)'
  <2>1. user \in Users
    BY <1>6 DEF RequestType, Types, TypeOK
  <2>2. ActiveSince(user, q.began)'
    BY <1>1, <1>3, <1>6, <2>1, AuthorityStands DEF ChecksHeld
  <2>3. \E i \in event.began..(n - 1) : ActiveSince(user, i)'
    BY <1>1, <1>3, <2>2
  <2> QED
    BY <1>2, <1>4, <1>6, <2>1, <2>3 DEF Rightful, ActiveSince, Given
<1>7. ASSUME user # System, q.pc = "write", event.kind # "session",
             user = q.user, ActionOf(event.kind) = Action(q.op)
      PROVE  user \in Users /\ event.session \in DOMAIN sessions
             /\ Rightful(n)'
  <2>1. user \in Users /\ q.session \in DOMAIN sessions
    BY <1>7 DEF RequestType, Resolved, Types, TypeOK
  <2>2. LiveSession(q) /\ Admitted(q)
    BY <1>7 DEF ChecksHeld, Resolved
  <2>3. LiveSession(q)'
    BY <1>7, <2>2, ChecksStand DEF Resolved
  <2>4. PICK action : action = Action(q.op)
    OBVIOUS
  <2>5. PICK k \in q.began..L : Authority(user, action, k)
    BY <1>1, <1>7, <2>2, <2>4 DEF Admitted
  <2>6. k \in 0..L /\ k \in event.began..(n - 1)
    BY <1>1, <1>3, <2>5
  <2>7. Authority(user, action, k)'
    BY <1>1, <2>1, <2>5, <2>6, AuthorityStands
  <2>8. \E i \in event.began..(n - 1) : Authority(user, action, i)'
    BY <2>6, <2>7
  <2>9. /\ sessions'[event.session].user = user
        /\ sessions'[event.session].issued <= event.at
        /\ event.at < sessions'[event.session].expires
        /\ \A m \in 1..event.began :
             ~ (log'[m].kind = "revoked" /\ log'[m].target = event.session)
    BY <1>7, <2>3 DEF LiveSession
  <2> QED
    <3>1. PICK i \in event.began..(n - 1) :
            Authority(event.by, ActionOf(event.kind), i)'
      BY <1>4, <1>7, <2>4, <2>8
    <3>2. Authority(log[n].by, ActionOf(log[n].kind), i)'
      BY <1>2, <3>1, AuthorityOfFields
    <3> QED
      BY <1>2, <1>4, <1>7, <2>1, <2>9, <3>1, <3>2 DEF Rightful
<1> QED
  BY <1>4, <1>5, <1>6, <1>7 DEF MadeBy

LEMMA AuthorityStays ==
  ASSUME Types, TrailInv, AuthorityInv, [Next]_vars
  PROVE  AuthorityInv'
<1>1. ChecksHeld'
  BY ChecksStayHeld DEF AuthorityInv
<1>2. PICK L \in Nat : L = Len(log) /\ \A m \in 1..L : log'[m] = log[m]
  BY LogGrows
<1>3. \A n \in 1..L : Rightful(n)'
  BY <1>2, EveryChangeRightful, RightfulStands DEF AuthorityInv
<1>4. \A n \in 1..L :
        log'[n].by # System =>
          /\ log'[n].by \in Users
          /\ log'[n].kind # "session" => log'[n].session \in DOMAIN sessions'
  BY <1>2, TablesGrow DEF AuthorityInv, EventsHeld
<1>5. /\ EventsHeld' /\ \A n \in 1..Len(log') : Rightful(n)'
  <2>1. CASE UNCHANGED log
    BY <1>2, <1>3, <1>4, <2>1 DEF EventsHeld
  <2>2. ASSUME NEW r \in Requests, Committing(r)
        PROVE  /\ EventsHeld' /\ \A n \in 1..Len(log') : Rightful(n)'
    <3>1. PICK q, event :
            /\ q = req[r] /\ RequestType(q)
            /\ log' = Append(log, event)
            /\ event.session = q.session
            /\ event.at = q.at
            /\ event.began = q.began
            /\ MadeBy(q, event)
      BY <2>2, CommitRecords
    <3>2. Len(log') = L + 1 /\ log'[L + 1] = event
      BY <1>2, <3>1, Appended DEF Types
    <3>3. /\ event.by # System =>
               /\ event.by \in Users
               /\ event.kind # "session" => event.session \in DOMAIN sessions
          /\ Rightful(L + 1)'
      BY <1>2, <3>1, CommitIsRightful DEF AuthorityInv
    <3>4. \A n \in 1..L + 1 : n \in 1..L \/ n = L + 1
      BY <1>2
    <3>5. EventsHeld'
      BY <1>4, <3>2, <3>3, <3>4, TablesGrow DEF EventsHeld
    <3>6. \A n \in 1..L + 1 : Rightful(n)'
      BY <1>3, <3>3, <3>4
    <3> QED
      BY <3>2, <3>5, <3>6
  <2> QED
    BY <2>1, <2>2, Commits
<1>6. (ActorHadAuthority <=> \A n \in 1..Len(log) : Rightful(n))'
  BY EveryChangeRightful, PTL
<1> QED
  BY <1>1, <1>5, <1>6 DEF AuthorityInv

\* Every recorded change was made by an account that was active and held a role
\* permitting it at some moment while its request was under way, through its own
\* session, live at the request's time and not revoked before the request began,
\* for any number of requests that interleave their reads and writes.
THEOREM ActorsHadAuthority == Spec => []ActorHadAuthority
<1>1. Init => AuthorityInv
  <2> SUFFICES ASSUME Init PROVE AuthorityInv
    OBVIOUS
  <2>1. 1..Len(log) = {} /\ req = [r \in Requests |-> Idle]
    BY DEF Init
  <2> QED
    BY <2>1 DEF AuthorityInv, ChecksHeld, EventsHeld, ActorHadAuthority, Idle,
       Resolved
<1>2. Types /\ TrailInv /\ AuthorityInv /\ [Next]_vars => AuthorityInv'
  BY AuthorityStays
<1>3. AuthorityInv => ActorHadAuthority
  BY DEF AuthorityInv
<1> QED
  BY <1>1, <1>2, <1>3, TrailHolds, PTL DEF Spec

(***************************************************************************)
(* Lockout                                                                 *)
(***************************************************************************)

\* A request that could still let somebody in.
LetsIn(q) ==
  \/ q.pc = "bootstrap"
  \/ q.pc \in {"previous", "write"} /\ q.op.name \in Managing

\* Only requests that were let in change the accounts.
LEMMA AccountsStandInLockout ==
  ASSUME Types, LockedOut, [Next]_vars
  PROVE  UNCHANGED users
<1>1. \A r \in Requests : ~ LetsIn(req[r])
  BY DEF LockedOut, LetsIn
<1>2. ASSUME NEW r \in Requests, Committing(r)
      PROVE  UNCHANGED users
  <2>1. CASE CreateUser(r) \/ ChangeRoles(r) \/ Deactivate(r)
    BY <1>1, <2>1
       DEF CreateUser, ChangeRoles, Deactivate, Writes, LetsIn, Managing
  <2>2. CASE Revoke(r) \/ ApproveConstants(r) \/ ApproveBudget(r)
    BY <2>2 DEF Revoke, ApproveConstants, ApproveBudget
  <2>3. CASE \E roles \in RoleSets, id \in Sessions :
               CommitBootstrap(r, roles, id)
    BY <1>1, <2>3 DEF CommitBootstrap, LetsIn
  <2>4. CASE \E id \in Sessions : CommitEntraSession(r, id)
    BY <2>4 DEF CommitEntraSession
  <2> QED
    BY <1>2, <2>1, <2>2, <2>3, <2>4 DEF Committing
<1> QED
  BY <1>2, Commits

\* And no further request is let in.
LEMMA NobodyLetIn ==
  ASSUME Types, LockedOut, [Next]_vars, NEW r \in Requests
  PROVE  ~ LetsIn(req[r])'
<1>1. PICK q : q = req'[r]
  OBVIOUS
<1>2. PICK p : p = req[r]
  OBVIOUS
<1> SUFFICES ASSUME LetsIn(q)
             PROVE  FALSE
  BY <1>1 DEF LetsIn
<1>3. DOMAIN req = Requests /\ (p = Idle \/ RequestType(p)) /\ ~ LetsIn(p)
  BY <1>2 DEF Types, LockedOut, LetsIn
<1>4. q # Idle
  BY DEF LetsIn, Idle
<1>5. CASE \E op \in Operation, id \in Sessions : Begin(r, op, id)
  BY <1>1, <1>3, <1>5 DEF Begin, LetsIn
<1>6. CASE ReadSession(r)
  <2>1. RequestType(p)
    BY <1>2, <1>3, <1>6 DEF ReadSession, Idle
  <2> QED
    BY <1>1, <1>2, <1>3, <1>4, <1>6, <2>1
       DEF ReadSession, Continue, LetsIn, RequestType
<1>7. CASE ReadUser(r)
  <2>1. RequestType(p) /\ p.pc = "user"
    BY <1>2, <1>3, <1>7 DEF ReadUser, Idle
  <2>2. /\ CanPerform(users[p.user], Action(p.op))
        /\ q.op = p.op
    BY <1>1, <1>2, <1>3, <1>4, <1>7, <2>1 DEF ReadUser, Continue, RequestType
  <2>3. Action(p.op) = "manage_users_and_roles"
    <3>1. q.pc \in {"previous", "write"}
      BY <1>1, <1>2, <1>3, <1>4, <1>7, <2>1
         DEF ReadUser, Continue, RequestType
    <3>2. p.op.name \in Managing
      BY <2>2, <3>1 DEF LetsIn
    <3> QED
      BY <3>2 DEF Action, Managing
  <2>4. p.user \in DOMAIN users
    BY <2>1 DEF RequestType, Resolved
  <2> QED
    BY <2>2, <2>3, <2>4 DEF LockedOut, MayManage
<1>8. CASE ReadPrevious(r)
  <2>1. RequestType(p) /\ p.pc = "previous"
    BY <1>2, <1>3, <1>8 DEF ReadPrevious, Idle
  <2> QED
    BY <1>3, <2>1 DEF RequestType, LetsIn
<1>9. CASE \E user \in Users : BeginBootstrap(r, user)
  BY <1>9 DEF BeginBootstrap, LockedOut
<1>10. CASE \E email, expiry : /\ expiry \in Expiry
                               /\ BeginEntraSession(r, email, expiry)
  BY <1>1, <1>3, <1>10 DEF BeginEntraSession, Unadmitted, LetsIn
<1> QED
  BY <1>1, <1>2, <1>3, <1>4, <1>5, <1>6, <1>7, <1>8, <1>9, <1>10, RequestSteps

\* Once nobody may manage accounts and no admitted request is under way, no
\* step of any request, the bootstrap command's included, ever changes that.
THEOREM LockoutStays == Spec => LockoutIsFinal
<1>1. Types /\ [Next]_vars => [LockedOut => LockedOut']_vars
  <2> SUFFICES ASSUME Types, [Next]_vars, LockedOut PROVE LockedOut'
    OBVIOUS
  <2>1. UNCHANGED users
    BY AccountsStandInLockout
  <2>2. \A r \in Requests : ~ LetsIn(req[r])'
    BY NobodyLetIn
  <2> QED
    BY <2>1, <2>2 DEF LockedOut, LetsIn, MayManage
<1> QED
  BY <1>1, TypesHold, PTL DEF Spec, LockoutIsFinal

================================================================================
