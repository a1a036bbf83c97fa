------------------------ MODULE MCCertificateNumbers -------------------------
EXTENDS CertificateNumbers, TLC

CONSTANTS r1, r2, r3

ThreeRequests == {r1, r2, r3}

\* Starting at 9, the text grows from one digit to two: with paddings 1 and 2,
\* 9 has two texts, "9" and "09", and 10 has one.
MCFirstValues == {9}
MCPaddings == {1, 2}
MCTypedNumbers == {<<9, 2>>, <<10, 0>>}

MCSymmetry == Permutations(Requests)
==============================================================================
