------------------------- MODULE MCTicketLifecycle -------------------------
(* An inspection ticket and an implementation ticket that depends on it.   *)
EXTENDS TicketLifecycle

CONSTANTS inspect, implement

MCItems == {inspect, implement}

\* Every planned implementation has a file scope, without which it is not delegated.
Planned(deps, r, c) ==
  [dependsOn |-> deps, role |-> r, checked |-> c, scoped |-> r = "implementer"]
InspectOnly == [i \in {inspect} |-> Planned({}, "planner", FALSE)]
WithImplement(deps, c) ==
  [i \in MCItems |-> IF i = inspect THEN Planned({}, "planner", FALSE)
                     ELSE Planned(deps, "implementer", c)]

\* The controller's graphs: the inspection, then the implementation it plans.
ControllerGraphs == {InspectOnly, WithImplement({inspect}, TRUE)}
\* The implementation is planned again without its dependency and its checks; and a
\* plan in which the two depend on each other, which is refused as a graph.
Circular == [i \in MCItems |-> IF i = inspect THEN Planned({implement}, "planner", FALSE)
                              ELSE Planned({inspect}, "implementer", TRUE)]
ReplannedGraphs == {WithImplement({}, FALSE), WithImplement({inspect}, TRUE), Circular}
\* The implementation carries no checks: it is structured once it is delegated.
UncheckedGraphs == {InspectOnly, WithImplement({inspect}, FALSE)}

\* Bounds: the inspection is claimed once and never delegated, the implementation
\* is reworked.
Bound(p, b) == [i \in MCItems |-> IF i = implement THEN b ELSE p]
Attempts2 == Bound(1, 2)
Grants2 == Bound(1, 2)
Grants3 == Bound(1, 3)
Delegations1 == Bound(0, 1)
Delegations2 == Bound(0, 2)
Handoffs1 == Bound(0, 1)
Handoffs2 == Bound(0, 2)

\* The triggers of the queue-first product lifecycle.
ProductTriggers == SystemTriggers \cup {"human"}
\* Those the mission controller uses: it never retries a blocked ticket.
ControllerTriggers == ProductTriggers \ {"retry"}
\* Every trigger, with the compatibility edges.
AllTriggers == ProductTriggers \cup {"legacy"}
=============================================================================
