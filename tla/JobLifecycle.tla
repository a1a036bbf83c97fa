---------------------------- MODULE JobLifecycle -----------------------------
(***************************************************************************)
(* What the application promises about the life of one calibration job,    *)
(* whatever requests are in flight: the job's state moves only along the   *)
(* transition table, and every move leaves exactly one WORKFLOW_TRANSITIONED*)
(* entry, naming the state it left and the user who made it, in the job's  *)
(* append-only audit trail.  The detailed modules implement this one.      *)
(***************************************************************************)
EXTENDS WorkflowRules, Sequences

CONSTANTS
  Users,       \* ids of user accounts
  StartState   \* the WorkflowState of the job when observation of it begins

VARIABLES
  state,       \* calibration_jobs.state
  trail        \* the job's WORKFLOW_TRANSITIONED audit events, in order

vars == <<state, trail>>

Transition(from, to, user) == [from |-> from, to |-> to, by |-> user]

TransitionEvent == [from : WorkflowState, to : WorkflowState, by : Users]

Init ==
  /\ state = StartState
  /\ trail = <<>>

\* One service call: the state update and its audit event commit together.
Move(user, target) ==
  /\ CanTransition(state, target)
  /\ state' = target
  /\ trail' = Append(trail, Transition(state, target, user))

\* One service call that crosses two states in one transaction (automatic and
\* manual pressure entry).
MoveThrough(user, middle, target) ==
  /\ CanTransition(state, middle)
  /\ CanTransition(middle, target)
  /\ state' = target
  /\ trail' = trail \o << Transition(state, middle, user),
                          Transition(middle, target, user) >>

Next ==
  \E user \in Users, target \in WorkflowState :
    \/ Move(user, target)
    \/ /\ state = "equipment_selected"
       /\ target = "windows_selected"
       /\ MoveThrough(user, "data_entered", target)

Spec == Init /\ [][Next]_vars

(***************************************************************************)
(* Properties                                                              *)
(***************************************************************************)

TypeOK ==
  /\ state \in WorkflowState
  /\ trail \in Seq(TransitionEvent)

\* The audit trail alone tells the state of the job: it is an unbroken path of
\* allowed transitions from the starting state to the current one.
TrailIsPath ==
  /\ trail = <<>> => state = StartState
  /\ trail # <<>> => /\ trail[1].from = StartState
                     /\ trail[Len(trail)].to = state
  /\ \A i \in 1..Len(trail) : CanTransition(trail[i].from, trail[i].to)
  /\ \A i \in 1..(Len(trail) - 1) : trail[i].to = trail[i + 1].from

\* No state is ever entered twice, so each stage of the job has one actor and
\* the approval evidence a certificate quotes is unambiguous.
NoStateEnteredTwice ==
  \A i, j \in 1..Len(trail) : i # j => trail[i].to # trail[j].to

Entered(target) == \E i \in 1..Len(trail) : trail[i].to = target

\* A job that began as a draft is released only after it was calculated,
\* technically reviewed and approved by QA, and revised only after release.
ReleasedOnlyAfterReviews ==
  StartState = "draft" =>
    /\ Entered("released") =>
         /\ Entered("calculated")
         /\ Entered("technical_review")
         /\ Entered("qa_review")
         /\ Entered("approved")
    /\ Entered("revised") => Entered("released")
==============================================================================
