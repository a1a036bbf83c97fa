--------------------------- MODULE MCArtifactStore ----------------------------
EXTENDS ArtifactStore, TLC

CONSTANTS j1, j2, r1, r2

TwoJobs == {j1, j2}
TwoRequests == {r1, r2}

\* Two numbers: the one the sequence allocates next and the one after it.
MCNumbers == {1, 2}

\* 1 is also typed by hand and put into the directory by hand; 2 is not put
\* there by hand, so its final file can only come from a release.
MCTypedNumbers == {1, 2}
MCManualFiles == {1}

None == {}

MCSymmetry == Permutations(Jobs) \cup Permutations(Requests)
==============================================================================
