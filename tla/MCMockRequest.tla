---------------------------- MODULE MCMockRequest ----------------------------
(* Instances of MockRequest, in both builds, for TLC. *)
EXTENDS DesktopMockRequest

CONSTANTS r1, r2, a1, a2

TwoRequests == {r1, r2}
TwoActions == {a1, a2}
=============================================================================
