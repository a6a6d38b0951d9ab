---------------------------- MODULE MCMissionRun ----------------------------
(* An inspection that is made once and an implementation reworked once.    *)
EXTENDS MissionRun

Bound2(n) == [i \in Items |-> IF i = implement THEN n ELSE 1]
Once == Bound2(1)
Twice == Bound2(2)
Never == [i \in Items |-> 0]
ControllerTriggers == {"human", "legacy", "execution", "proof", "failure"}
Graphs1 == {PreflightGraph, PlannedGraph, ImplementationOnlyGraph}
=============================================================================
