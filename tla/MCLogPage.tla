------------------------------ MODULE MCLogPage ------------------------------
(* The constants of DesktopLogPage for TLC. *)
EXTENDS DesktopLogPage

CONSTANTS p1, p2

TwoProjects == {p1, p2}
OneBusy == {p1}

Budget(change, fetch, save, switch, select, fail) ==
  [change |-> change, fetch |-> fetch, save |-> save, switch |-> switch,
   select |-> select, fail |-> fail]

\* A page that follows its log, one that is paused, two that are switched, and
\* one whose filters are edited meanwhile.
Scenarios ==
  {Budget(3, 1, 0, 0, 0, 0), Budget(2, 1, 0, 0, 1, 0), Budget(1, 1, 0, 2, 0, 0),
   Budget(1, 1, 0, 1, 1, 0), Budget(0, 0, 2, 2, 0, 1)}
=============================================================================
