-------------------------- MODULE MCCalibrationGate --------------------------
(***************************************************************************)
(* Finite instances of CalibrationGate.                                    *)
(***************************************************************************)
EXTENDS CalibrationGate, TLC

CONSTANTS q1, q2, g1, g2, s1, s2, s3

OneRun == {q1}
TwoRuns == {q1, q2}
TwoGates == {g1, g2}
TwoSessions == {s1, s2}
ThreeSessions == {s1, s2, s3}

MCSymmetry == Permutations(TwoRuns) \cup Permutations(TwoGates) \cup Permutations(ThreeSessions)
=============================================================================
