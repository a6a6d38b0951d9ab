--------------------------- MODULE MCDeliveryGate ---------------------------
(* An implementation ticket on its way to delivery, next to an inspection. *)
EXTENDS DeliveryGate

CONSTANTS inspect, implement

MCItems == {inspect, implement}

Planned(r) == [dependsOn |-> {}, role |-> r, checked |-> FALSE, scoped |-> r = "implementer"]
Implementation == [i \in {implement} |-> [Planned("implementer") EXCEPT !.checked = TRUE]]
Inspection == [i \in {inspect} |-> Planned("planner")]
MCGraphs == {Implementation, Inspection}

\* Bounds: the inspection enters the queue and is at most finished once; the
\* implementation is reworked once.
Bound(p, b) == [i \in MCItems |-> IF i = implement THEN b ELSE p]
Zero == Bound(0, 0)
One == Bound(0, 1)
Two == Bound(0, 2)

\* The triggers the mission controller uses.
ControllerTriggers == {"human", "execution", "proof", "approval", "failure"}
=============================================================================
