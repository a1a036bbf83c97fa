--------------------------- MODULE MCJobPreparation ---------------------------
EXTENDS JobPreparation, TLC

CONSTANTS u1, r1, r2, v1, v2, w1, w2, c1, c2, s1, s2

MCUsers == {u1}
MCUserRoles == [u \in MCUsers |-> {"operator"}]
MCRequests == {r1, r2}
MCVerificationFiles == {v1, v2}
MCSetpoints == {s1, s2}
MCWindowIds == {w1, w2}

\* Two workbooks: one channel read twice, and another channel read once.
Reading(file, channel, time) ==
  [file |-> file, channel |-> channel, time |-> time]

MCReadings ==
  { Reading("f1", c1, 1), Reading("f1", c1, 2), Reading("f2", c2, 2) }

MCSymmetry ==
  Permutations(MCRequests) \cup Permutations(MCVerificationFiles)
    \cup Permutations(MCSetpoints) \cup Permutations(MCWindowIds)
==============================================================================
