------------------------------ MODULE MCAccounts ------------------------------
(***************************************************************************)
(* Two accounts with an address each, two sessions, two requests that      *)
(* overlap, each set interchangeable.                                      *)
(***************************************************************************)
EXTENDS Accounts, TLC

OwnEmail == [user \in Users |-> user]

RolesGiven == {{"admin"}, {"qa_approver"}}

Interchangeable ==
  Permutations(Users) \cup Permutations(Sessions) \cup Permutations(Requests)

=============================================================================
