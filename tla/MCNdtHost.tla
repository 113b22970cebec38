----------------------------- MODULE MCNdtHost -----------------------------
(* Instances of NdtHost for TLC.                                           *)
EXTENDS NdtHost, TLC

CONSTANTS r1, r2

OneRun == {r1}
TwoRuns == {r1, r2}
NoRuns == {}

\* Two digits, so that the pass counter can be torn.
TenIters == [r \in {r1} |-> 10]
OneIterOne == [r \in {r1} |-> 1]
OneIter == [r \in {r1, r2} |-> 1]

\* The two runs are interchangeable: same iterations, same mode.
RunSymmetry == Permutations({r1, r2})
=============================================================================
