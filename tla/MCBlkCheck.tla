----------------------------- MODULE MCBlkCheck -----------------------------
(* Instances of BlkCheck for TLC.                                          *)
EXTENDS BlkCheck, TLC

CONSTANTS d1, d2, m1

TwoDevs == {d1, d2}
OneMod == {m1}

\* Devices are only compared, never ordered.
DevSymmetry == Permutations({d1, d2})
=============================================================================
