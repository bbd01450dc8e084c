------------------------- MODULE MCProjectLifecycle -------------------------
(* Instances of ProjectLifecycle for TLC. *)
EXTENDS DesktopLifecycle

CONSTANTS p1, p2, p3, n1, n2, n3, r1, r2

TwoProjects == {p1, p2}
ThreeProjects == {p1, p2, p3}
TwoPorts == {n1, n2}
ThreePorts == {n1, n2, n3}
TwoRequests == {r1, r2}
=============================================================================
