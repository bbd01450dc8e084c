--------------------------- MODULE ListenerControl ---------------------------
(***************************************************************************)
(* What the start and stop buttons of the dashboard rely on, per project:  *)
(* a listener runs through STOPPED, STARTING, STARTED and CLOSING in this  *)
(* order, its port is open from some moment in STARTING until it enters    *)
(* CLOSING, an open port is always announced as STARTED, and CLOSING ends. *)
(* A start may fail: then the port never opens and STARTING lasts.         *)
(***************************************************************************)
CONSTANT Project

VARIABLES
    phase,      \* the status shown for each project
    serving     \* the projects whose port answers

vars == <<phase, serving>>

Init ==
    /\ phase = [p \in Project |-> "STOPPED"]
    /\ serving = {}

Enter(p, from, to) == phase[p] = from /\ phase' = [phase EXCEPT ![p] = to]

Begin(p) ==
    /\ Enter(p, "STOPPED", "STARTING")
    /\ serving' \in {serving, serving \cup {p}}

Bind(p) ==
    /\ phase[p] = "STARTING"
    /\ serving' = serving \cup {p}
    /\ UNCHANGED phase

Announce(p) ==
    /\ p \in serving
    /\ Enter(p, "STARTING", "STARTED")
    /\ UNCHANGED serving

Shut(p) ==
    /\ Enter(p, "STARTED", "CLOSING")
    /\ serving' = serving \ {p}

End(p) ==
    /\ Enter(p, "CLOSING", "STOPPED")
    /\ UNCHANGED serving

Next ==
    \E p \in Project : Begin(p) \/ Bind(p) \/ Announce(p) \/ Shut(p) \/ End(p)

Safety == Init /\ [][Next]_vars

\* An open port is announced, and closing ends.
Spec == Safety /\ \A p \in Project : WF_vars(Announce(p)) /\ WF_vars(End(p))
=============================================================================
