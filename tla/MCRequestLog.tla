---------------------------- MODULE MCRequestLog ----------------------------
(* Instances of RequestLog, in both builds, for TLC. *)
EXTENDS DesktopRequestLog, TLC

CONSTANTS q1, q2, q3

ThreeRequests == {q1, q2, q3}

RequestSymmetry == Permutations(Request)
=============================================================================
