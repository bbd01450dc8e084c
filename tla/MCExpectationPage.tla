--------------------------- MODULE MCExpectationPage ---------------------------
(* The constants of DesktopExpectationPage for TLC. *)
EXTENDS DesktopExpectationPage

CONSTANTS p1, p2

TwoProjects == {p1, p2}

Often(kinds) == [kind \in Kind |-> IF kind \in kinds THEN 1 ELSE 0]

\* Which steps a scenario has, each once but for actions and repeated creation.
Scenarios ==
  {Often({"create", "delete"}), Often({"delete", "select", "switch"}),
   Often({"create", "switch", "fail"}), Often({"group", "delete"}),
   Often({"group", "fail"}), Often({"toggle", "delete", "fail"}),
   Often({"edit", "toggle", "delete"}), [Often({"delete"}) EXCEPT !["action"] = 2],
   [Often({}) EXCEPT !["action"] = 3], [Often({}) EXCEPT !["create"] = 2],
   [Often({"fail"}) EXCEPT !["create"] = 2]}
=============================================================================
