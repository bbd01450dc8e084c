---------------------------- MODULE MCProjectBar ----------------------------
(* An instance of DesktopBar for TLC. *)
EXTENDS DesktopBar, TLC

CONSTANTS p1, p2, p3, n1, n2, r1, r2

ThreeProjects == {p1, p2, p3}
TwoPorts == {n1, n2}
TwoRequests == {r1, r2}

\* The stored projects are alike at the start, and so are the slots.
Alike == Permutations({p1, p2}) \cup Permutations(TwoRequests)
=============================================================================
