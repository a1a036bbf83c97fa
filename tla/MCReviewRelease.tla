--------------------------- MODULE MCReviewRelease ---------------------------
EXTENDS ReviewRelease, TLC

CONSTANTS u1, u2, u3, u4, r1, r2, c1, c2, v1

\* Four people are the fewest that can take a job from calculated to released:
\* one prepares and submits, and one each reviews, approves and releases.
FourUsers == {u1, u2, u3, u4}

TwoRequests == {r1, r2}
TwoIds == {c1, c2}
OneVariant == {v1}

AllAdmins == [u \in Users |-> {"admin"}]

\* A laboratory that separates its roles: u2 prepares and submits, u3 approves
\* and releases, u1 may do everything, and u4 has no account yet.
SmallLaboratory ==
  [u \in Users |-> CASE u = u1 -> {"admin"}
                     [] u = u2 -> {"operator"}
                     [] u = u3 -> {"qa_approver"}
                     [] u = u4 -> {}]

\* An account for u4, later the permission to approve and release, and the end of
\* the only administrator.
Staffing ==
  [name : {"create_user"}, target : {u4}, roles : {{"read_only"}}]
  \cup [name : {"change_roles"}, target : {u4}, roles : {{"qa_approver"}}]
  \cup [name : {"deactivate"}, target : {u1}]

NoStaffing == {}

\* No guard reads windowed, so runs that do not ask about it may forget it.
WithoutWindowed ==
  <<accounts, state, trail, prepared, previews, certificates, revisions,
    req, overlapped>>

\* The users of the small laboratory differ.
RequestSymmetry == Permutations(Requests) \cup Permutations(CertificateIds)

MCSymmetry ==
  Permutations(Users) \cup Permutations(Requests)
    \cup Permutations(CertificateIds) \cup Permutations(Variants)
==============================================================================
