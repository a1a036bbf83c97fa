------------------------------- MODULE Accounts -------------------------------
(***************************************************************************)
(* User accounts, their sessions and the controlled versions they approve: *)
(* services/authentication.py, user_management.py, version_management.py,  *)
(* entra_authentication.py and operations/user_bootstrap.py.               *)
(*                                                                         *)
(* A request takes its time once, reads its session, then the session's    *)
(* user, then what it changes, each in a read of its own; its write and    *)
(* the audit event are one transaction, which compares nothing it read.    *)
(***************************************************************************)
EXTENDS WorkflowRules, FiniteSets, Sequences

CONSTANTS
  Users,         \* ids that accounts may be given
  EmailOf,       \* the address of each account, not always different
  RoleSets,      \* sets of roles an administrator may give
  Sessions,      \* session ids, drawn at random
  Versions,      \* ids that constant sets and budgets may be given
  Requests,      \* requests that can be in flight together
  MaxDuration,   \* the longest session an Entra token is exchanged for
  MaxTime,       \* bound: the clock
  MaxEvents      \* bound: audit events

ASSUME AccountsAssumption ==
  /\ Users # {}
  /\ RoleSets \subseteq ((SUBSET Role) \ {{}})
  /\ EmailOf \in [Users -> Users]
  /\ MaxDuration \in Nat \ {0} /\ MaxTime \in Nat /\ MaxEvents \in Nat

Time == 0..MaxTime

Expiry == 1..MaxTime + 1

\* revoked_at of a session that is not revoked.
Never == MaxTime + 2

System == "system-bootstrap"

VARIABLES
  users,     \* user_accounts
  sessions,  \* user_sessions
  approved,  \* constant_sets and uncertainty_budgets
  log,       \* audit events about accounts, sessions and versions, in order
  req,       \* what each request has read so far
  now        \* the server's clock

vars == <<users, sessions, approved, log, req, now>>

Idle == [pc |-> "idle"]

\* A table with one more row.
With(table, id, row) ==
  [x \in DOMAIN table \cup {id} |-> IF x = id THEN row ELSE table[x]]

(***************************************************************************)
(* Identity                                                                *)
(***************************************************************************)

Account(user, roles) ==
  [email |-> EmailOf[user], roles |-> roles, active |-> TRUE]

Session(user, issued, expires) ==
  [user |-> user, issued |-> issued, expires |-> expires, revoked |-> Never]

\* UserSession.active_at.
ActiveAt(session, time) ==
  session.issued <= time /\ time < session.expires /\ session.revoked = Never

\* UserAccount.can_perform.
CanPerform(account, action) ==
  account.active /\ \E role \in account.roles : IsAllowed(role, action)

\* Reading back a session refuses one that was revoked before it was issued.
Readable(session) ==
  /\ session.issued < session.expires
  /\ session.issued <= session.revoked

(***************************************************************************)
(* Operations                                                              *)
(***************************************************************************)

Managing == {"create_user", "change_roles", "deactivate", "revoke"}

Action(op) ==
  CASE op.name \in Managing -> "manage_users_and_roles"
    [] op.name = "constants" -> "approve_constants"
    [] op.name = "budget" -> "approve_uncertainty_budget"

Operation ==
  [name : {"create_user", "change_roles"}, target : Users, roles : RoleSets]
  \cup [name : {"deactivate"}, target : Users]
  \cup [name : {"revoke"}, target : Sessions]
  \cup [name : {"constants"}, target : Versions]
  \cup [name : {"budget"}, target : Versions, linked : Versions]

\* The audit event of a write; began is the length of the log when the
\* request began, kept to state what a request may have seen.
Event(kind, target, before, after, by, r) ==
  [kind |-> kind, target |-> target, before |-> before, after |-> after,
   by |-> by, session |-> r.session, at |-> r.at, began |-> r.began]

Nothing == "nothing"

\* An id that was not issued is refused at once, and nobody knows one before.
Begin(r, op, session) ==
  /\ req[r] = Idle
  /\ session \in DOMAIN sessions
  /\ Len(log) < MaxEvents
  /\ req' = [req EXCEPT ![r] =
               [pc |-> "session", op |-> op, session |-> session, at |-> now,
                began |-> Len(log), user |-> System, before |-> Nothing]]
  /\ UNCHANGED <<users, sessions, approved, log, now>>

\* A request goes on when what it read lets it, and is refused when not.
Continue(r, pc, accepted, user, before) ==
  req' = [req EXCEPT ![r] =
            IF accepted
            THEN [@ EXCEPT !.pc = pc, !.user = user, !.before = before]
            ELSE Idle]

\* _resolve_user_for_session: the session.
ReadSession(r) ==
  /\ req[r].pc = "session"
  /\ LET session == sessions[req[r].session]
     IN Continue(r, "user", ActiveAt(session, req[r].at), session.user, Nothing)
  /\ UNCHANGED <<users, sessions, approved, log, now>>

\* A resolution that does not look at user.active again.
ReadUserRoles(r) ==
  /\ req[r].pc = "user"
  /\ LET name == req[r].op.name
         roles == users[req[r].user].roles
     IN Continue(r, IF name \in Managing \ {"create_user"} THEN "previous"
                    ELSE "write",
                 \E role \in roles : IsAllowed(role, Action(req[r].op)),
                 req[r].user, Nothing)
  /\ UNCHANGED <<users, sessions, approved, log, now>>

\* _resolve_user_for_session: the user; then whether a role permits the action.
ReadUser(r) ==
  /\ req[r].pc = "user"
  /\ LET name == req[r].op.name
     IN Continue(r, IF name \in Managing \ {"create_user"} THEN "previous"
                    ELSE "write",
                 CanPerform(users[req[r].user], Action(req[r].op)),
                 req[r].user, Nothing)
  /\ UNCHANGED <<users, sessions, approved, log, now>>

\* The value before the change, read before the transaction takes its lock.
ReadPrevious(r) ==
  /\ req[r].pc = "previous"
  /\ LET op == req[r].op
         known == op.target \in IF op.name = "revoke" THEN DOMAIN sessions
                                ELSE DOMAIN users
     IN Continue(r, "write", known, req[r].user,
                 IF ~ known THEN Nothing
                 ELSE CASE op.name = "change_roles" -> users[op.target].roles
                        [] op.name = "deactivate" -> users[op.target].active
                        [] op.name = "revoke" -> sessions[op.target].revoked)
  /\ UNCHANGED <<users, sessions, approved, log, now>>

Finish(r, event) ==
  /\ log' = Append(log, event)
  /\ req' = [req EXCEPT ![r] = Idle]
  /\ UNCHANGED now

Writes(r, name) == req[r].pc = "write" /\ req[r].op.name = name

\* The primary key and the address are unique, of inactive accounts too.
Free(user) ==
  user \notin DOMAIN users
  /\ \A other \in DOMAIN users : users[other].email # EmailOf[user]

CreateUser(r) ==
  LET op == req[r].op
  IN /\ Writes(r, "create_user")
     /\ Free(op.target)
     /\ users' = With(users, op.target, Account(op.target, op.roles))
     /\ Finish(r, Event("created", op.target, Nothing, op.roles, req[r].user,
                        req[r]))
     /\ UNCHANGED <<sessions, approved>>

\* An update that writes the whole account as it was read before.
ChangeRolesOfActive(r) ==
  LET op == req[r].op
  IN /\ Writes(r, "change_roles")
     /\ users' = [users EXCEPT ![op.target] = Account(op.target, op.roles)]
     /\ Finish(r, Event("roles", op.target, req[r].before, op.roles,
                        req[r].user, req[r]))
     /\ UNCHANGED <<sessions, approved>>

\* SET roles_json, nothing else.
ChangeRoles(r) ==
  LET op == req[r].op
  IN /\ Writes(r, "change_roles")
     /\ users' = [users EXCEPT ![op.target].roles = op.roles]
     /\ Finish(r, Event("roles", op.target, req[r].before, op.roles,
                        req[r].user, req[r]))
     /\ UNCHANGED <<sessions, approved>>

Deactivate(r) ==
  LET target == req[r].op.target
  IN /\ Writes(r, "deactivate")
     /\ users' = [users EXCEPT ![target].active = FALSE]
     /\ Finish(r, Event("deactivated", target, req[r].before, FALSE,
                        req[r].user, req[r]))
     /\ UNCHANGED <<sessions, approved>>

\* UPDATE ... WHERE revoked_at IS NULL, rolled back if the row that is read
\* back is not a session.
Revoke(r) ==
  LET target == req[r].op.target
      revoked == [sessions[target] EXCEPT !.revoked = req[r].at]
  IN /\ Writes(r, "revoke")
     /\ sessions[target].revoked = Never
     /\ Readable(revoked)
     /\ sessions' = [sessions EXCEPT ![target] = revoked]
     /\ Finish(r, Event("revoked", target, req[r].before, req[r].at,
                        req[r].user, req[r]))
     /\ UNCHANGED <<users, approved>>

ApproveConstants(r) ==
  LET version == req[r].op.target
  IN /\ Writes(r, "constants")
     /\ version \notin approved.constants
     /\ approved' = [approved EXCEPT !.constants = @ \cup {version}]
     /\ Finish(r, Event("constants", version, Nothing, version, req[r].user,
                        req[r]))
     /\ UNCHANGED <<users, sessions>>

\* linked_constant_set_version references constant_sets.
ApproveBudget(r) ==
  LET op == req[r].op
  IN /\ Writes(r, "budget")
     /\ op.target \notin DOMAIN approved.budgets
     /\ op.linked \in approved.constants
     /\ approved' = [approved EXCEPT !.budgets = With(@, op.target, op.linked)]
     /\ Finish(r, Event("budget", op.target, Nothing, op.linked, req[r].user,
                        req[r]))
     /\ UNCHANGED <<users, sessions>>

\* A write that a constraint refuses, a lock that is not had in time, a crash:
\* the transaction is rolled back.
Fail(r) ==
  /\ req[r] # Idle
  /\ req' = [req EXCEPT ![r] = Idle]
  /\ UNCHANGED <<users, sessions, approved, log, now>>

(***************************************************************************)
(* The first user, and sessions                                            *)
(***************************************************************************)

Unadmitted(pc, user, at, expires) ==
  [pc |-> pc, op |-> [name |-> pc, expires |-> expires], session |-> Nothing,
   at |-> at, began |-> Len(log), user |-> user, before |-> Nothing]

\* A first user where no account is active any more.
BeginBootstrapUnlessActive(r, user) ==
  /\ req[r] = Idle /\ Len(log) < MaxEvents
  /\ \A other \in DOMAIN users : ~ users[other].active
  /\ \E expires \in now + 1..MaxTime + 1 :
       req' = [req EXCEPT ![r] = Unadmitted("bootstrap", user, now, expires)]
  /\ UNCHANGED <<users, sessions, approved, log, now>>

\* bootstrap_first_user: the count is read before the first write.
BeginBootstrap(r, user) ==
  /\ req[r] = Idle /\ Len(log) < MaxEvents
  /\ DOMAIN users = {}
  /\ \E expires \in now + 1..MaxTime + 1 :
       req' = [req EXCEPT ![r] = Unadmitted("bootstrap", user, now, expires)]
  /\ UNCHANGED <<users, sessions, approved, log, now>>

\* The command may ask for a session of the new account.
CommitBootstrap(r, roles, id) ==
  LET user == req[r].user
  IN /\ req[r].pc = "bootstrap"
     /\ Free(user) /\ id \notin DOMAIN sessions
     /\ users' = With(users, user, Account(user, roles))
     /\ sessions' \in
          {sessions,
           With(sessions, id, Session(user, req[r].at, req[r].op.expires))}
     /\ Finish(r, Event("created", user, Nothing, roles, System, req[r]))
     /\ UNCHANGED approved

\* issue_entra_session: a verified token names the address of one active user.
BeginEntraSession(r, email, expiry) ==
  LET matching == {user \in DOMAIN users :
                     users[user].active /\ users[user].email = email}
      expires == IF expiry < now + MaxDuration THEN expiry
                 ELSE now + MaxDuration
  IN /\ req[r] = Idle /\ Len(log) < MaxEvents
     /\ Cardinality(matching) = 1
     /\ expires > now
     /\ \E user \in matching :
          req' = [req EXCEPT ![r] = Unadmitted("entra", user, now, expires)]
     /\ UNCHANGED <<users, sessions, approved, log, now>>

CommitEntraSession(r, id) ==
  LET user == req[r].user
  IN /\ req[r].pc = "entra"
     /\ id \notin DOMAIN sessions
     /\ sessions' =
          With(sessions, id, Session(user, req[r].at, req[r].op.expires))
     /\ Finish(r, Event("session", id, Nothing, user, user, req[r]))
     /\ UNCHANGED <<users, approved>>

Tick ==
  /\ now < MaxTime
  /\ now' = now + 1
  /\ UNCHANGED <<users, sessions, approved, log, req>>

(***************************************************************************)
(* Specification                                                           *)
(***************************************************************************)

Init ==
  /\ users = <<>> /\ sessions = <<>>
  /\ approved = [constants |-> {}, budgets |-> <<>>]
  /\ log = <<>>
  /\ req = [r \in Requests |-> Idle]
  /\ now = 0

Next ==
  \/ \E r \in Requests :
       \/ \E op \in Operation, id \in Sessions : Begin(r, op, id)
       \/ ReadSession(r)
       \/ ReadUser(r)
       \/ ReadPrevious(r)
       \/ CreateUser(r)
       \/ ChangeRoles(r)
       \/ Deactivate(r)
       \/ Revoke(r)
       \/ ApproveConstants(r)
       \/ ApproveBudget(r)
       \/ \E user \in Users : BeginBootstrap(r, user)
       \/ \E roles \in RoleSets, id \in Sessions : CommitBootstrap(r, roles, id)
       \/ \E user \in Users, expiry \in Expiry :
            BeginEntraSession(r, EmailOf[user], expiry)
       \/ \E id \in Sessions : CommitEntraSession(r, id)
       \/ Fail(r)
  \/ Tick

Spec == Init /\ [][Next]_vars

(***************************************************************************)
(* Properties                                                              *)
(***************************************************************************)

AccountRecord == [email : Users, roles : RoleSets, active : BOOLEAN]

SessionRecord ==
  [user : Users, issued : Time, expires : Expiry,
   revoked : Time \cup {Never}]

UserKinds == {"created", "roles", "deactivated"}

\* The accounts, sessions and versions have the shape of their tables, with
\* every session of a known account and every budget of known constants (the
\* foreign keys), and a request reads before it writes.
TypeOK ==
  /\ DOMAIN users \subseteq Users
  /\ \A user \in DOMAIN users : users[user] \in AccountRecord
  /\ DOMAIN sessions \subseteq Sessions
  /\ \A id \in DOMAIN sessions :
       sessions[id] \in SessionRecord /\ sessions[id].user \in DOMAIN users
  /\ approved.constants \subseteq Versions
  /\ DOMAIN approved.budgets \subseteq Versions
  /\ \A id \in DOMAIN approved.budgets :
       approved.budgets[id] \in approved.constants
  /\ \A r \in Requests :
       req[r] # Idle =>
         /\ req[r].pc \in {"session", "user", "previous", "write",
                          "bootstrap", "entra"}
         /\ req[r].at \in 0..now
         /\ req[r].pc \in {"session", "user", "previous", "write"} =>
              req[r].session \in DOMAIN sessions
  /\ now \in Time

\* What the first k events say of a user's roles, and of whether it is active.
Given(user, k) ==
  {n \in 1..k : log[n].kind \in {"created", "roles"} /\ log[n].target = user}

RolesAt(user, k) ==
  log[CHOOSE n \in Given(user, k) : \A m \in Given(user, k) : m <= n].after

ActiveSince(user, k) ==
  /\ Given(user, k) # {}
  /\ \A n \in 1..k : ~ (log[n].kind = "deactivated" /\ log[n].target = user)

ActionOf(kind) ==
  CASE kind \in UserKinds \cup {"revoked"} -> "manage_users_and_roles"
    [] kind = "constants" -> "approve_constants"
    [] kind = "budget" -> "approve_uncertainty_budget"

\* Every recorded change was made by an account that, at some moment between
\* the start of the request and its commit, was active and held a role that
\* permits it, through a session of its own that was not revoked before the
\* request began and was live at its time (resolve_actor_for_action, checked in
\* reads of their own before the write).
ActorHadAuthority ==
  \A n \in 1..Len(log) :
    log[n].by # System =>
      LET event == log[n]
          moments == event.began..(n - 1)
      IN IF event.kind = "session"
         THEN \E k \in moments : ActiveSince(event.by, k)
         ELSE /\ \E k \in moments :
                    /\ ActiveSince(event.by, k)
                    /\ \E role \in RolesAt(event.by, k) :
                         IsAllowed(role, ActionOf(event.kind))
              /\ sessions[event.session].user = event.by
              /\ sessions[event.session].issued <= event.at
              /\ event.at < sessions[event.session].expires
              /\ \A m \in 1..event.began :
                   ~ (log[m].kind = "revoked" /\ log[m].target = event.session)

\* The previous value of event n is what the events before it say, unless
\* another request changed the same account while this one was under way.
PreviousIsAccurate(n) ==
  LET event == log[n]
      overtaken(kind) ==
        \E m \in event.began + 1..n - 1 :
          log[m].kind = kind /\ log[m].target = event.target
  IN /\ event.kind = "roles" /\ ~ overtaken("roles") =>
          event.before = RolesAt(event.target, n - 1)
     /\ event.kind = "deactivated" /\ ~ overtaken("deactivated") =>
          event.before = ActiveSince(event.target, n - 1)

\* The audit trail alone tells who may do what: replaying it gives every
\* account's roles and activity, every revocation and every approved version,
\* and its previous values are wrong only where requests overlapped.
TrailIsAccurate ==
  /\ \A user \in Users :
       user \in DOMAIN users <=> Given(user, Len(log)) # {}
  /\ \A user \in DOMAIN users :
       /\ users[user].roles = RolesAt(user, Len(log))
       /\ users[user].active = ActiveSince(user, Len(log))
  /\ \A id \in DOMAIN sessions :
       LET revocations == {n \in 1..Len(log) :
                             log[n].kind = "revoked" /\ log[n].target = id}
       IN IF sessions[id].revoked = Never THEN revocations = {}
          ELSE \E n \in revocations :
                 revocations = {n} /\ log[n].after = sessions[id].revoked
  /\ approved.constants =
       {log[n].target : n \in {m \in 1..Len(log) : log[m].kind = "constants"}}
  /\ \A n \in 1..Len(log) : PreviousIsAccurate(n)

MayManage(user) == CanPerform(users[user], "manage_users_and_roles")

\* Nobody may manage accounts and no request under way was admitted to do so.
LockedOut ==
  /\ DOMAIN users # {}
  /\ \A user \in DOMAIN users : ~ MayManage(user)
  /\ \A r \in Requests :
       ~ \/ req[r].pc = "bootstrap"
         \/ req[r].pc \in {"previous", "write"} /\ req[r].op.name \in Managing

\* Deactivating the last administrator, or taking the role from it, which
\* neither handler refuses, cannot be undone by any request, not even by a
\* bootstrap: an inactive account still makes the user table non-empty.
LockoutIsFinal == [][LockedOut => LockedOut']_vars

=============================================================================
