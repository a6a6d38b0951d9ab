------------------------ MODULE DeliveryOutcomeProofs ------------------------
(***************************************************************************)
(* Proofs about DeliveryGate for callers that leave some triggers out: an  *)
(* implementation is done only by a delivery, and the guards of the calls  *)
(* alone keep what validation demands of the gate.                         *)
(***************************************************************************)
EXTENDS DeliveryGateProofs

-----------------------------------------------------------------------------
(* The tickets only go forward: one that waits for its approval is not     *)
(* worked on again.                                                        *)

Settled(i) == status[i] \in {"awaiting_approval", "delivering", "done", "blocked"}

Forward(i) ==
  /\ status[i] # "absent" => status'[i] # "absent"
  /\ Number(i) <= Number(i)'
  /\ Settled(i) => Settled(i)' /\ Number(i)' = Number(i)

\* Moving an item with its attempt adds no attempt to any item.
LEMMA SameNumbers ==
  ASSUME TypeOK, NEW k \in Items, NEW i \in Items,
         NEW to \in AttemptStatuses, NEW findings \in SUBSET Nat,
         attempts' = Tracked(k, to, findings)
  PROVE  Number(i)' = Number(i) /\ Number(i) \in Nat
<1>1. Number(i) \in Nat
  BY LenProperties DEF TypeOK, Number
<1>2. CASE attempts[k] = <<>>
  BY <1>1, <1>2 DEF Tracked, Number
<1>3. CASE attempts[k] # <<>>
  <2>1. Len(attempts'[k]) = Number(k) /\ \A j \in Items \ {k} : attempts'[j] = attempts[j]
    BY <1>3, TrackedShape
  <2> QED
    BY <1>1, <2>1 DEF Number
<1> QED
  BY <1>2, <1>3

\* An authorization of rework may record the attempt it retires.
LEMMA AuthorizedNumbers ==
  ASSUME TypeOK, NEW k \in Items, NEW h \in Humans, AuthorizeWorkItem(k, h), NEW i \in Items
  PROVE  Forward(i)
<1>1. status' = [status EXCEPT ![k] = "ready"] /\ status[k] \in {"backlog", "changes_requested"}
  BY DEF AuthorizeWorkItem
<1>2. Number(i) \in Nat /\ Number(k) \in Nat
  BY LenProperties DEF TypeOK, Number
<1>3. attempts' = attempts \/ attempts' = RetiredHistory(k, h)
  BY DEF AuthorizeWorkItem
<1>4. i # k => Number(i)' = Number(i)
  BY <1>3 DEF RetiredHistory, WithCurrent, Number, TypeOK
<1>5. Number(k) <= Number(k)'
  <2>1. CASE attempts' = attempts
    BY <1>2, <2>1 DEF Number
  <2>2. CASE attempts' = RetiredHistory(k, h) /\ attempts[k] # <<>>
    <3> DEFINE a == [Current(k) EXCEPT
           !.owner = IF claim[k] = NoOne THEN @ ELSE claim[k],
           !.status = "changes_requested", !.retiredBy = h]
    <3>1. Current(k) \in Attempt
      BY <2>2, WithCurrentShape, ElementOfSeq, EmptySeq DEF TypeOK, Current, Number
    <3>2. a \in Attempt
      <4>1. (IF claim[k] = NoOne THEN Current(k).owner ELSE claim[k]) \in Owners
        BY <3>1 DEF Attempt, TypeOK
      <4> QED
        BY <3>1, <4>1 DEF Attempt, AttemptStatuses, TicketStatuses
    <3>3. Len(WithCurrent(k, a)[k]) = Number(k)
      BY <2>2, <3>2, WithCurrentShape DEF TypeOK
    <3>4. attempts' = WithCurrent(k, a)
      BY <2>2 DEF RetiredHistory
    <3> QED
      BY <1>2, <3>3, <3>4 DEF Number
  <2>3. CASE attempts' = RetiredHistory(k, h) /\ attempts[k] = <<>>
    <3>1. attempts'[k] = <<>> \/ Len(attempts'[k]) = 1
      BY <2>3 DEF RetiredHistory, TypeOK
    <3> QED
      BY <2>3, <3>1 DEF Number
  <2> QED
    BY <1>3, <2>1, <2>2, <2>3
<1> QED
  BY <1>1, <1>2, <1>4, <1>5 DEF Forward, Settled, TypeOK

\* Without retry and compatibility calls, every call takes every ticket forward.
LEMMA TicketsForward ==
  ASSUME {"legacy", "retry"} \cap Triggers = {}, TypeOK, Next, NEW i \in Items
  PROVE  Forward(i)
<1>1. Number(i) \in Nat
  BY LenProperties DEF TypeOK, Number
<1>2. CASE \E graph \in Graphs : PersistWorkGraph(graph)
  <2>1. PICK graph \in Graphs : PersistWorkGraph(graph)
    BY <1>2
  <2>2. attempts' = attempts
    BY <2>1 DEF PersistWorkGraph
  <2>3. status[i] # "absent" => status'[i] = status[i]
    BY <2>1 DEF PersistWorkGraph, Present
  <2> QED
    BY <1>1, <2>2, <2>3 DEF Forward, Settled, Number
<1>3. ASSUME NEW k \in Items, Operate(k) PROVE Forward(i)
  <2>1. CASE \E g \in Graphs, s \in {"backlog", "ready"} : k \in DOMAIN g /\ AddWorkItem(k, g[k], s)
    <3>1. PICK s \in {"backlog", "ready"} :
            status[k] = "absent" /\ status' = [status EXCEPT ![k] = s] /\ attempts' = attempts
      BY <2>1 DEF AddWorkItem
    <3> QED
      BY <1>1, <3>1 DEF Forward, Settled, Number, TypeOK
  <2>2. CASE \E h \in Humans : AuthorizeWorkItem(k, h)
    BY <2>2, AuthorizedNumbers
  <2>3. CASE RevokeWorkItemAuthorization(k)
    BY <1>1, <2>3 DEF RevokeWorkItemAuthorization, Forward, Settled, Number, TypeOK
  <2>4. CASE \E o \in Owners : ClaimWorkItem(k, o)
    <3>1. PICK o \in Owners : ClaimWorkItem(k, o)
      BY <2>4
    <3> DEFINE a == [auth |-> auth[k], owner |-> o, findings |-> requested[k],
                     status |-> "in_progress", retiredBy |-> NoOne]
    <3>2. a \in Attempt
      BY DEF Attempt, AttemptStatuses, TicketStatuses, TypeOK
    <3>3. attempts' = Appended(k, a) /\ status[k] = "ready"
          /\ status' = [status EXCEPT ![k] = "in_progress"]
      BY <3>1 DEF ClaimWorkItem, Appended
    <3> HIDE DEF a
    <3>4. /\ Len(attempts'[k]) = Number(k) + 1
          /\ \A j \in Items \ {k} : attempts'[j] = attempts[j]
      BY <3>2, <3>3, AppendedShape DEF TypeOK
    <3>5. Number(k) \in Nat
      BY LenProperties DEF TypeOK, Number
    <3> QED
      BY <1>1, <3>3, <3>4, <3>5 DEF Forward, Settled, Number, TypeOK
  <2>5. CASE \E t \in SystemTriggers, to \in TicketStatuses : TransitionSystemWorkItem(k, t, to)
    <3>1. PICK t \in SystemTriggers, to \in TicketStatuses : TransitionSystemWorkItem(k, t, to)
      BY <2>5
    <3>2. /\ status' = [status EXCEPT ![k] = to]
          /\ attempts' = Tracked(k, to, FindingsAfter(k, to))
          /\ t \in Triggers /\ LegalSystemEdge(k, t, status[k], to)
      BY <3>1 DEF TransitionSystemWorkItem
    <3>3. to \in AttemptStatuses /\ FindingsAfter(k, to) \in SUBSET Nat
      BY <3>1, FindingsType, TransitionType
    <3>4. Number(i)' = Number(i)
      BY <3>2, <3>3, SameNumbers
    <3>5. Settled(k) => to \in {"delivering", "done", "blocked"}
      BY <3>2 DEF Settled, LegalSystemEdge, ExecutionEdge, RetryEdge
    <3> QED
      BY <1>1, <3>1, <3>2, <3>4, <3>5 DEF Forward, Settled, TypeOK, TicketStatuses
  <2>6. CASE \E to \in TicketStatuses \cup LegacyStatuses : TransitionWorkItem(k, to)
    BY <2>6 DEF TransitionWorkItem
  <2>7. CASE \/ \E o \in Owners : StartWorkItemDelegation(k, o)
             \/ \E thread \in 1..MaxDelegations[k], outcome \in {"completed", "failed"} :
                  EndWorkItemDelegation(k, thread, outcome)
             \/ \E thread \in 0..MaxDelegations[k], done \in BOOLEAN : RecordHandoff(k, thread, done)
    <3>1. UNCHANGED <<status, attempts>>
      BY <2>7 DEF StartWorkItemDelegation, EndWorkItemDelegation, RecordHandoff
    <3> QED
      BY <1>1, <3>1 DEF Forward, Settled, Number
  <2>8. CASE Judge(k)
    <3>1. PICK reviewer \in Owners \cup {Verifier},
               outcome \in {"accepted", "changes_requested", "blocked"} :
                 RecordReview(k, reviewer, outcome)
      BY <2>8 DEF Judge
    <3> DEFINE to == ReviewStatus(k, outcome)
               findings == IF outcome = "accepted" THEN {} ELSE {Number(k)}
    <3>2. /\ status[k] \in {"ready_for_review", "proving"}
          /\ status' = [status EXCEPT ![k] = to]
          /\ \/ attempts' = attempts
             \/ status[k] = "proving" /\ attempts' = Tracked(k, to, findings)
      <4>1. CASE status[k] = "proving"
        BY <3>1, <4>1 DEF RecordReview
      <4>2. CASE status[k] # "proving"
        BY <3>1, <4>2 DEF RecordReview
      <4> QED
        BY <4>1, <4>2
    <3>3. to # "absent" /\ (status[k] = "proving" => to \in AttemptStatuses)
      BY <3>2 DEF ReviewStatus, AttemptStatuses, TicketStatuses
    <3>4. findings \in SUBSET Nat
      BY LenProperties DEF TypeOK, Number
    <3> HIDE DEF to, findings
    <3>5. Number(i)' = Number(i)
      <4>1. CASE attempts' = attempts
        BY <4>1 DEF Number
      <4>2. CASE status[k] = "proving" /\ attempts' = Tracked(k, to, findings)
        BY <3>3, <3>4, <4>2, SameNumbers
      <4> QED
        BY <3>2, <4>1, <4>2
    <3> QED
      BY <1>1, <3>2, <3>3, <3>5 DEF Forward, Settled, TypeOK
  <2> QED
    BY <1>3, <2>1, <2>2, <2>3, <2>4, <2>5, <2>6, <2>7, <2>8 DEF Operate, Handle
<1> QED
  BY <1>2, <1>3 DEF Next

-----------------------------------------------------------------------------
(* An implementation is done only by a delivery.                           *)

\* Planning again gives no ticket another role, as the controller's graphs do.
RolesFixed ==
  \A g \in Graphs, h \in Graphs : \A i \in Items :
    i \in DOMAIN g /\ i \in DOMAIN h => g[i].role = h[i].role

RolesInv ==
  \A i \in Items, g \in Graphs :
    status[i] # "absent" /\ i \in DOMAIN g => plan[i].role = g[i].role

\* A call about tickets gives no ticket another role.
LEMMA RolesStep ==
  ASSUME RolesFixed, TypeOK, RolesInv, Next
  PROVE  /\ RolesInv'
         /\ \A i \in Items : status[i] # "absent" => plan'[i].role = plan[i].role
<1>1. CASE \E graph \in Graphs : PersistWorkGraph(graph)
  <2>1. PICK graph \in Graphs : PersistWorkGraph(graph)
    BY <1>1
  <2>2. \A i \in Items : i \in DOMAIN graph => graph[i] \in Plan
    BY ConstantsAssumption
  <2>3. \A i \in Items : i \in DOMAIN graph => plan'[i].role = graph[i].role
    <3> SUFFICES ASSUME NEW i \in Items, i \in DOMAIN graph PROVE plan'[i].role = graph[i].role
      OBVIOUS
    <3>1. plan'[i] = [graph[i] EXCEPT !.checked = @ \/ plan[i].checked,
                                      !.scoped = @ \/ plan[i].scoped]
      BY <2>1 DEF PersistWorkGraph
    <3> QED
      BY <2>2, <3>1 DEF Plan
  <2>4. \A i \in Items :
          /\ status[i] # "absent" => i \in DOMAIN graph
          /\ i \notin DOMAIN graph => status'[i] = "absent"
    BY <2>1 DEF PersistWorkGraph, Present
  <2> QED
    BY <2>3, <2>4 DEF RolesInv, RolesFixed
<1>2. ASSUME NEW k \in Items,
             NEW g \in Graphs, k \in DOMAIN g,
             NEW s \in {"backlog", "ready"}, AddWorkItem(k, g[k], s)
      PROVE  /\ RolesInv'
             /\ \A i \in Items : status[i] # "absent" => plan'[i].role = plan[i].role
  <2>1. /\ status[k] = "absent" /\ plan'[k] = g[k]
        /\ \A i \in Items : i # k => plan'[i] = plan[i] /\ status'[i] = status[i]
    BY <1>2 DEF AddWorkItem, TypeOK
  <2> QED
    BY <1>2, <2>1 DEF RolesInv, RolesFixed
<1>3. ASSUME NEW k \in Items, Operate(k),
             ~ \E g \in Graphs, s \in {"backlog", "ready"} : k \in DOMAIN g /\ AddWorkItem(k, g[k], s)
      PROVE  /\ RolesInv'
             /\ \A i \in Items : status[i] # "absent" => plan'[i].role = plan[i].role
  <2>1. plan' = plan /\ \A i \in Items : status'[i] # "absent" => status[i] # "absent"
    <3>1. CASE \/ \E h \in Humans : AuthorizeWorkItem(k, h)
               \/ RevokeWorkItemAuthorization(k)
               \/ \E o \in Owners : ClaimWorkItem(k, o)
      BY <3>1 DEF AuthorizeWorkItem, RevokeWorkItemAuthorization, ClaimWorkItem, TypeOK
    <3>2. CASE \E t \in SystemTriggers, to \in TicketStatuses : TransitionSystemWorkItem(k, t, to)
      BY <3>2 DEF TransitionSystemWorkItem, LegalSystemEdge, ExecutionEdge, RetryEdge, TypeOK
    <3>3. CASE \E to \in TicketStatuses \cup LegacyStatuses : TransitionWorkItem(k, to)
      BY <3>3 DEF TransitionWorkItem, TypeOK
    <3>4. CASE Judge(k)
      BY <3>4 DEF Judge, RecordReview, TypeOK
    <3>5. CASE \E thread \in 1..MaxDelegations[k], outcome \in {"completed", "failed"} :
                 EndWorkItemDelegation(k, thread, outcome)
      BY <3>5 DEF EndWorkItemDelegation
    <3> QED
      BY <1>3, <3>1, <3>2, <3>3, <3>4, <3>5
         DEF Operate, Handle, StartWorkItemDelegation, RecordHandoff
  <2> QED
    BY <2>1 DEF RolesInv
<1> QED
  BY <1>1, <1>2, <1>3 DEF Next

\* A call about tickets completes no implementation.
LEMMA OnlyDeliveryFinishes ==
  ASSUME {"legacy", "delivery"} \cap Triggers = {}, RolesFixed, TypeOK, RolesInv, Next,
         NEW i \in Items, status'[i] = "done", Implementer(i)'
  PROVE  status[i] = "done" /\ Implementer(i)
<1>1. status[i] # "absent" => Implementer(i)' = Implementer(i)
  BY RolesStep DEF Implementer
<1>2. status[i] = "done" \/ (status[i] # "absent" /\ ~Implementer(i))
  <2>1. CASE \E graph \in Graphs : PersistWorkGraph(graph)
    BY <2>1 DEF PersistWorkGraph
  <2>2. ASSUME NEW k \in Items, Operate(k) PROVE <1>2
    <3>1. CASE \E g \in Graphs, s \in {"backlog", "ready"} : k \in DOMAIN g /\ AddWorkItem(k, g[k], s)
      BY <3>1 DEF AddWorkItem, TypeOK
    <3>2. CASE \/ \E h \in Humans : AuthorizeWorkItem(k, h)
               \/ RevokeWorkItemAuthorization(k)
               \/ \E o \in Owners : ClaimWorkItem(k, o)
      BY <3>2 DEF AuthorizeWorkItem, RevokeWorkItemAuthorization, ClaimWorkItem, TypeOK
    <3>3. CASE \E t \in SystemTriggers, to \in TicketStatuses : TransitionSystemWorkItem(k, t, to)
      <4>1. PICK t \in SystemTriggers, to \in TicketStatuses : TransitionSystemWorkItem(k, t, to)
        BY <3>3
      <4>2. /\ status' = [status EXCEPT ![k] = to]
            /\ t \in Triggers /\ LegalSystemEdge(k, t, status[k], to)
        BY <4>1 DEF TransitionSystemWorkItem
      <4>3. to = "done" => status[k] = "proving" /\ ~Implementer(k)
        BY <4>2 DEF LegalSystemEdge, ExecutionEdge, RetryEdge, DoneByProof
      <4> QED
        BY <4>2, <4>3 DEF TypeOK
    <3>4. CASE \E to \in TicketStatuses \cup LegacyStatuses : TransitionWorkItem(k, to)
      BY <3>4 DEF TransitionWorkItem
    <3>5. CASE \/ \E o \in Owners : StartWorkItemDelegation(k, o)
               \/ \E thread \in 1..MaxDelegations[k], outcome \in {"completed", "failed"} :
                    EndWorkItemDelegation(k, thread, outcome)
               \/ \E thread \in 0..MaxDelegations[k], done \in BOOLEAN : RecordHandoff(k, thread, done)
      BY <3>5 DEF StartWorkItemDelegation, EndWorkItemDelegation, RecordHandoff
    <3>6. CASE Judge(k)
      <4>1. PICK outcome \in {"accepted", "changes_requested", "blocked"} :
              status' = [status EXCEPT ![k] = ReviewStatus(k, outcome)]
        BY <3>6 DEF Judge, RecordReview
      <4>2. ReviewStatus(k, outcome) # "done"
        BY DEF ReviewStatus
      <4> QED
        BY <4>1, <4>2 DEF TypeOK
    <3> QED
      BY <2>2, <3>1, <3>2, <3>3, <3>4, <3>5, <3>6 DEF Operate, Handle
  <2> QED
    BY <2>1, <2>2 DEF Next
<1> QED
  BY <1>1, <1>2

\* What a step of the gate does to tickets and to the delivery record.
LEMMA OutcomeCases ==
  ASSUME GateTypeOK, [GateNext]_allVars
  PROVE  \/ /\ UNCHANGED <<plan, status, attempts, delivery>>
            /\ mission = "delivered" => mission' = "delivered"
         \/ Open /\ Next /\ UNCHANGED gateVars
         \/ RecordFailedDelivery
         \/ \E n \in 1..Len(approvals) : DeliveryStep(n)
<1>1. CASE UNCHANGED allVars
  BY <1>1 DEF allVars, vars, gateVars
<1>2. CASE QueueCall \/ \E i \in Items : ReviewCall(i)
  BY <1>2 DEF QueueCall, ReviewCall, Next, Operate
<1>3. CASE GateNext /\ ~(QueueCall \/ \E i \in Items : ReviewCall(i)) /\ ~RecordFailedDelivery
  <2>1. ASSUME NEW n \in 1..Len(approvals), NEW pr \in PullRequests,
               \/ RecordDelivery(n, NoItem, 0, pr)
               \/ \E i \in Items, attempt \in {0, approvals[n].attempt} :
                    RecordDelivery(n, i, attempt, pr)
        PROVE  DeliveryStep(n)
    <3>1. approvals[n] \in Approval
      BY ElementOfSeq DEF GateTypeOK
    <3>2. approvals[n].attempt \in Nat
      BY <3>1 DEF Approval
    <3> QED
      BY <2>1, <3>2, GateAssumption DEF DeliveryStep
  <2>2. CASE \E to \in MissionStatuses : TransitionMission(to)
    <3>1. MissionEdges["delivered"] = {}
      BY DEF MissionEdges, MissionStatuses
    <3> QED
      BY <2>2, <3>1 DEF TransitionMission, vars
  <2>3. CASE \/ RequestApproval(NoItem, <<0, 0, 0>>)
             \/ \E i \in Items : \E pins \in Pins(i) : RequestApproval(i, pins)
             \/ \E n \in 1..Len(approvals) :
                  \/ \E d \in {"approved", "rejected", "cancelled"} : DecideApproval(n, d)
                  \/ Expire(n)
                  \/ RecordDeliveryAttempt(n)
                  \/ \E pr \in PullRequests : RecordDeliveryAttemptResult(n, pr)
    BY <2>3 DEF RequestApproval, DecideApproval, Expire, RecordDeliveryAttempt,
                RecordDeliveryAttemptResult, vars
  <2> QED
    BY <1>3, <2>1, <2>2, <2>3 DEF GateNext
<1> QED
  BY <1>1, <1>2, <1>3

\* What becomes of the delivered ticket and of the others.
LEMMA DeliveredTickets ==
  ASSUME GateTypeOK, NEW n \in 1..Len(approvals), DeliveryStep(n)
  PROVE  /\ plan' = plan
         /\ \A i \in Items : \/ status'[i] = status[i]
                             \/ /\ status[i] = "delivering" /\ status'[i] = "done"
                                /\ delivery'.item = i
         /\ \A i \in Items : Number(i)' = Number(i) /\ Number(i) \in Nat
         /\ delivery.status = "none" /\ mission = "verifying"
         /\ delivery'.status = "delivered" /\ mission' = "delivered"
         /\ delivery'.pr \in PullRequests
<1>1. PICK i \in Items \cup {NoItem}, attempt \in Nat, pr \in PullRequests :
        RecordDelivery(n, i, attempt, pr)
  BY DEF DeliveryStep
<1>2. /\ delivery.status = "none" /\ mission = "verifying" /\ mission' = "delivered"
      /\ delivery'.status = "delivered" /\ delivery'.pr = pr
      /\ delivery'.item = i /\ Delivered(i)
  BY <1>1 DEF RecordDelivery
<1>3. CASE UNCHANGED vars
  BY <1>2, <1>3, LenProperties DEF vars, GateTypeOK, TypeOK, Number
<1>4. CASE ~UNCHANGED vars
  <2>1. /\ i \in Items /\ status[i] = "delivering" /\ plan' = plan
        /\ status' = [status EXCEPT ![i] = "done"]
        /\ attempts' = Tracked(i, DeliveredStatus, requested[i])
    BY <1>2, <1>4 DEF Delivered
  <2>2. TypeOK /\ DeliveredStatus \in AttemptStatuses /\ requested[i] \in SUBSET Nat
    BY <2>1 DEF DeliveredStatus, AttemptStatuses, TicketStatuses, GateTypeOK, TypeOK
  <2>3. \A j \in Items : Number(j)' = Number(j) /\ Number(j) \in Nat
    BY <2>1, <2>2, SameNumbers
  <2> QED
    BY <1>2, <2>1, <2>2, <2>3 DEF TypeOK
<1> QED
  BY <1>3, <1>4

\* While an implementation is done, the mission is over and has delivered it.
DoneInv ==
  \A i \in Items : Implementer(i) /\ status[i] = "done" =>
    mission = "delivered" /\ delivery.item = i /\ delivery.pr # NoPR

\* Only the delivered ticket becomes done, and a mission that is over keeps its delivery.
LEMMA DoneStep ==
  ASSUME {"legacy", "delivery"} \cap Triggers = {}, RolesFixed,
         GateTypeOK, RolesInv, DoneInv, [GateNext]_allVars
  PROVE  RolesInv' /\ DoneInv'
<1>1. CASE /\ UNCHANGED <<plan, status, attempts, delivery>>
           /\ mission = "delivered" => mission' = "delivered"
  BY <1>1 DEF RolesInv, DoneInv, Implementer
<1>2. CASE Open /\ Next /\ UNCHANGED gateVars
  <2>1. \A i \in Items : ~(Implementer(i) /\ status[i] = "done")
    BY <1>2 DEF DoneInv, Open
  <2>2. \A i \in Items : ~(Implementer(i)' /\ status'[i] = "done")
    BY <1>2, <2>1, OnlyDeliveryFinishes DEF GateTypeOK
  <2> QED
    BY <1>2, <2>2, RolesStep DEF GateTypeOK, DoneInv
<1>3. CASE RecordFailedDelivery
  <2>1. UNCHANGED <<plan, status>> /\ mission # "delivered"
    BY <1>3 DEF RecordFailedDelivery, Open, vars
  <2> QED
    BY <2>1 DEF RolesInv, DoneInv, Implementer
<1>4. ASSUME NEW n \in 1..Len(approvals), DeliveryStep(n) PROVE RolesInv' /\ DoneInv'
  <2>1. /\ plan' = plan /\ mission = "verifying" /\ mission' = "delivered"
        /\ delivery'.pr # NoPR
        /\ \A i \in Items : \/ status'[i] = status[i]
                            \/ status'[i] = "done" /\ status[i] # "absent" /\ delivery'.item = i
    BY <1>4, DeliveredTickets, GateAssumption
  <2>2. \A i \in Items : ~(Implementer(i) /\ status[i] = "done")
    BY <2>1 DEF DoneInv
  <2> QED
    BY <2>1, <2>2 DEF RolesInv, DoneInv, Implementer
<1> QED
  BY <1>1, <1>2, <1>3, <1>4, OutcomeCases

\* An implementation is done only by the delivery of its latest attempt, which a human
\* approved, as long as no caller uses the compatibility or the bare delivery trigger and
\* no planning changes roles.
THEOREM DoneByDelivery ==
  ASSUME {"legacy", "delivery"} \cap Triggers = {}, RolesFixed
  PROVE  GateSpec => []DoneOnlyByApprovedDelivery
<1>1. GateInit => RolesInv /\ DoneInv
  BY DEF GateInit, Init, RolesInv, DoneInv
<1>2. DoneInv /\ DeliveredIsApprovedWork => DoneOnlyByApprovedDelivery
  BY GateAssumption DEF DoneInv, DeliveredIsApprovedWork, DoneOnlyByApprovedDelivery
<1>3. GateTypeOK /\ RolesInv /\ DoneInv /\ [GateNext]_allVars => RolesInv' /\ DoneInv'
  BY DoneStep
<1> QED
  BY <1>1, <1>2, <1>3, GateTypeCorrect, DeliveredWorkWasApproved, PTL DEF GateSpec

-----------------------------------------------------------------------------
(* The guards of the calls keep what validation demands.                   *)

\* Every step of the gate takes every ticket forward.
LEMMA StepsForward ==
  ASSUME {"legacy", "retry"} \cap Triggers = {}, GateTypeOK, [GateNext]_allVars, NEW i \in Items
  PROVE  Forward(i) /\ Number(i) \in Nat /\ Number(i)' \in Nat
<1>1. Number(i) \in Nat /\ Number(i)' \in Nat
  BY GateTypeStep, LenProperties DEF GateTypeOK, TypeOK, Number
<1>2. CASE UNCHANGED <<plan, status, attempts, delivery>>
  BY <1>1, <1>2 DEF Forward, Settled, Number
<1>3. CASE Open /\ Next /\ UNCHANGED gateVars
  BY <1>1, <1>3, TicketsForward DEF GateTypeOK
<1>4. CASE RecordFailedDelivery
  BY <1>1, <1>4 DEF RecordFailedDelivery, vars, Forward, Settled, Number
<1>5. ASSUME NEW n \in 1..Len(approvals), DeliveryStep(n) PROVE Forward(i)
  <2>1. /\ status'[i] = status[i] \/ (status[i] = "delivering" /\ status'[i] = "done")
        /\ Number(i)' = Number(i)
    BY <1>5, DeliveredTickets
  <2> QED
    BY <1>1, <2>1 DEF Forward, Settled
<1> QED
  BY <1>1, <1>2, <1>3, <1>4, <1>5, OutcomeCases

\* What validation demands of approval n and its delivery attempt, whose ticket waits for
\* the delivery or has it.
Kept(n) ==
  /\ ValidApproval(approvals[n]) /\ ValidDeliveryAttempt(approvals[n]) /\ ValidIntent(n)
  /\ approvals[n].intent # "none" => Settled(approvals[n].item)

\* The delivery record names an approval that was given.
GuardInv ==
  /\ GateTypeOK /\ ResultInv
  /\ \A n \in 1..Len(approvals) : Kept(n)
  /\ ValidDelivery

\* An approval whose delivery attempt is not touched stays valid as tickets go forward.
LEMMA UntouchedKept ==
  ASSUME {"legacy", "retry"} \cap Triggers = {}, GateTypeOK, [GateNext]_allVars,
         NEW n \in 1..Len(approvals), Kept(n),
         DecisionFields(approvals[n], approvals'[n]),
         approvals[n].intent = "completed" => delivery' = delivery
  PROVE  Kept(n)'
<1> DEFINE a == approvals[n]
           b == approvals'[n]
<1>1. SameApproval(a, b) /\ a \in Approval
  BY ApprovalsGrow, ElementOfSeq DEF GateTypeOK
<1>2. b.item = a.item /\ b.attempt = a.attempt /\ b.intent = a.intent /\ b.pr = a.pr
      /\ (a.decision = "approved" => b.decision = "approved")
  BY <1>1 DEF SameApproval, DecisionFields
<1>3. CASE a.item = NoItem
  BY <1>2, <1>3 DEF Kept, ValidApproval, ValidDeliveryAttempt, ValidIntent
<1>4. ASSUME NEW i \in Items, a.item = i PROVE Kept(n)'
  <2>1. Forward(i) /\ Number(i) \in Nat /\ Number(i)' \in Nat /\ a.attempt \in Nat
    BY <1>1, StepsForward DEF Approval
  <2>2. ValidApproval(approvals[n])'
    BY <1>2, <1>4, <2>1 DEF Kept, ValidApproval, Present, Forward
  <2>3. ValidIntent(n)' /\ (b.intent # "none" => Settled(i)')
    BY <1>2, <1>4, <2>1 DEF Kept, ValidIntent, Forward
  <2> QED
    BY <1>2, <1>4, <2>2, <2>3 DEF Kept, ValidDeliveryAttempt, Settled
<1> QED
  BY <1>1, <1>3, <1>4 DEF Approval

\* A new delivery attempt is for the approved attempt of a ticket that waits for it.
LEMMA AttemptKept ==
  ASSUME GateTypeOK, NEW n \in 1..Len(approvals), Kept(n), RecordDeliveryAttempt(n)
  PROVE  Kept(n)'
<1> DEFINE a == approvals[n]
<1>1. approvals \in Seq(Approval) /\ a \in Approval
  BY ElementOfSeq DEF GateTypeOK
<1>2. approvals'[n] = [a EXCEPT !.intent = "pending"]
  BY <1>1 DEF RecordDeliveryAttempt
<1>3. /\ a.decision = "approved" /\ a.item \in Items /\ a.item # NoItem
      /\ a.attempt = Number(a.item) /\ Settled(a.item)
  BY <1>1, GateAssumption
     DEF RecordDeliveryAttempt, Executable, CurrentCorrelation, Approval, Settled
<1>4. status' = status /\ attempts' = attempts
  BY DEF RecordDeliveryAttempt, vars
<1>5. /\ approvals'[n].item = a.item /\ approvals'[n].attempt = a.attempt
      /\ approvals'[n].decision = "approved" /\ approvals'[n].intent = "pending"
  BY <1>1, <1>2, <1>3 DEF Approval
<1> QED
  BY <1>3, <1>4, <1>5
     DEF Kept, ValidApproval, ValidDeliveryAttempt, ValidIntent, Present, Number, Settled

\* The result of a delivery attempt takes nothing from it: it was not completed before.
LEMMA ResultKept ==
  ASSUME GateTypeOK, NEW n \in 1..Len(approvals), NEW pr \in PullRequests,
         Kept(n), RecordDeliveryAttemptResult(n, pr)
  PROVE  Kept(n)'
<1> DEFINE a == approvals[n]
<1>1. approvals \in Seq(Approval) /\ a \in Approval
  BY ElementOfSeq DEF GateTypeOK
<1>2. approvals'[n] = [a EXCEPT !.pr = pr] /\ a.intent # "none" /\ a.pr = NoPR
  BY <1>1 DEF RecordDeliveryAttemptResult, FirstResult
<1>3. status' = status /\ attempts' = attempts
  BY DEF RecordDeliveryAttemptResult, vars
<1>4. /\ approvals'[n].item = a.item /\ approvals'[n].attempt = a.attempt
      /\ approvals'[n].decision = a.decision /\ approvals'[n].intent = a.intent
      /\ a.intent # "completed"
  BY <1>1, <1>2 DEF Approval, Kept, ValidDeliveryAttempt
<1> QED
  BY <1>2, <1>3, <1>4
     DEF Kept, ValidApproval, ValidDeliveryAttempt, ValidIntent, Present, Number, Settled
\* Only a request adds an approval, for a ticket that exists and with its attempt.
LEMMA GrowthIsRequest ==
  ASSUME GateTypeOK, GateNext, Len(approvals') # Len(approvals)
  PROVE  \/ RequestApproval(NoItem, <<0, 0, 0>>)
         \/ \E i \in Items : \E pins \in Pins(i) : RequestApproval(i, pins)
<1>1. \/ QueueCall
      \/ \E i \in Items : ReviewCall(i)
      \/ \E to \in MissionStatuses : TransitionMission(to)
      \/ RecordFailedDelivery
      => Len(approvals') = Len(approvals)
  BY DEF QueueCall, ReviewCall, TransitionMission, RecordFailedDelivery, gateVars
<1>2. ASSUME NEW n \in 1..Len(approvals),
             \/ \E d \in {"approved", "rejected", "cancelled"} : DecideApproval(n, d)
             \/ Expire(n)
             \/ RecordDeliveryAttempt(n)
             \/ \E pr \in PullRequests : RecordDeliveryAttemptResult(n, pr)
      PROVE  FALSE
  BY <1>2, ApprovalType
<1>3. ASSUME NEW n \in 1..Len(approvals), NEW pr \in PullRequests,
             \/ RecordDelivery(n, NoItem, 0, pr)
             \/ \E i \in Items, attempt \in {0, approvals[n].attempt} :
                  RecordDelivery(n, i, attempt, pr)
      PROVE  FALSE
  <2>1. approvals[n] \in Approval
    BY ElementOfSeq DEF GateTypeOK
  <2>2. approvals[n].attempt \in Nat
    BY <2>1 DEF Approval
  <2> QED
    BY <1>3, <2>2, DeliveryType
<1> QED
  BY <1>1, <1>2, <1>3 DEF GateNext

\* A new approval is valid.
LEMMA RequestKept ==
  ASSUME GateTypeOK, GateNext, RequestStep, NEW new \in Nat, new = Len(approvals) + 1
  PROVE  Kept(new)'
<1>1. Len(approvals') = new
  BY RequestShape, LenProperties DEF GateTypeOK
<1>2. PICK i \in Items \cup {NoItem}, pins \in {<<0, 0, 0>>} \cup UNION {Pins(j) : j \in Items} :
        /\ RequestApproval(i, pins)
        /\ i # NoItem => pins \in Pins(i)
  <2>1. Len(approvals') # Len(approvals)
    BY <1>1, LenProperties DEF GateTypeOK
  <2> QED
    BY <2>1, GrowthIsRequest, GateAssumption
<1>3. approvals'[new] = [item |-> i, attempt |-> pins[1], handoff |-> pins[2], review |-> pins[3],
                         decision |-> "pending", live |-> TRUE, intent |-> "none", pr |-> NoPR]
  BY <1>2, AppendProperties DEF RequestApproval, GateTypeOK
<1>4. status' = status /\ attempts' = attempts
  BY <1>2 DEF RequestApproval, vars
<1>5. i # NoItem => i \in Present /\ pins[1] = Number(i) /\ Number(i) \in Nat
  BY <1>2, LenProperties DEF RequestApproval, Pins, Present, Number, GateTypeOK, TypeOK
<1>6. i # NoItem => i \in Present' /\ Number(i)' = Number(i)
  BY <1>4, <1>5 DEF Present, Number
<1> QED
  BY <1>3, <1>5, <1>6, GateAssumption
     DEF Kept, ValidApproval, ValidDeliveryAttempt, ValidIntent
\* The delivered approval and its attempt agree with the delivery record.
LEMMA DeliveryKept ==
  ASSUME {"legacy", "retry"} \cap Triggers = {}, GuardInv, GateNext,
         NEW n \in 1..Len(approvals), DeliveryStep(n), NEW k \in 1..Len(approvals)
  PROVE  Kept(k)' /\ ValidDelivery'
<1>1. PICK i \in Items \cup {NoItem}, attempt \in Nat, pr \in PullRequests :
        /\ i = NoItem => attempt = 0
        /\ RecordDelivery(n, i, attempt, pr)
  BY DEF DeliveryStep
<1> DEFINE a == approvals[n]
           b == approvals'[n]
           closes == attempt # 0 /\ a.intent # "none"
<1>2. /\ approvals \in Seq(Approval) /\ a \in Approval
      /\ SameApproval(a, b) /\ GateTypeOK
  BY ApprovalsGrow, ElementOfSeq DEF GuardInv, GateTypeOK
<1>3. /\ delivery.status = "none" /\ mission' = "delivered" /\ a.decision = "approved"
      /\ delivery' = [status |-> "delivered", approval |-> n, item |-> i,
                      attempt |-> attempt, pr |-> pr]
      /\ i # NoItem => a.item = i
      /\ attempt # 0 => a.attempt = attempt
      /\ closes => a.pr = pr
      /\ approvals' = IF closes THEN [approvals EXCEPT ![n].intent = "completed"] ELSE approvals
  BY <1>1 DEF RecordDelivery, Executable, IntentMatches
<1>4. \A m \in 1..Len(approvals) : Kept(m) /\ approvals[m].intent # "completed"
  BY <1>3 DEF GuardInv, Kept, ValidIntent
<1>5. b.item = a.item /\ b.attempt = a.attempt /\ b.decision = "approved" /\ b.pr = a.pr
      /\ b.intent = (IF closes THEN "completed" ELSE a.intent)
  BY <1>2, <1>3
<1>6. ValidDelivery'
  BY <1>3, <1>5 DEF ValidDelivery
<1>7. ASSUME k # n \/ ~closes PROVE Kept(k)'
  <2>1. approvals'[k] = approvals[k]
    BY <1>2, <1>3, <1>7
  <2> QED
    BY <1>2, <1>4, <2>1, UntouchedKept DEF DecisionFields
<1>8. ASSUME closes PROVE Kept(n)'
  <2>1. i \in Items /\ i # NoItem /\ a.item = i /\ a.attempt = Number(i) /\ Settled(i)
        /\ i \in Present
    BY <1>1, <1>3, <1>4, <1>8, GateAssumption DEF Kept, ValidIntent, ValidApproval
  <2>2. Forward(i) /\ Number(i) \in Nat /\ Number(i)' \in Nat
    BY <1>2, <2>1, StepsForward
  <2>3. i \in Present' /\ Number(i)' = Number(i) /\ Settled(i)'
    BY <2>1, <2>2 DEF Forward, Present
  <2>4. b.pr = pr /\ pr # NoPR /\ b.intent = "completed" /\ b.item = i
        /\ b.attempt = attempt /\ b.attempt = Number(i)' /\ b.decision = "approved"
    BY <1>3, <1>5, <1>8, <2>1, <2>3, GateAssumption
  <2>5. ValidApproval(approvals[n])' /\ ValidDeliveryAttempt(approvals[n])'
    BY <2>2, <2>3, <2>4 DEF ValidApproval, ValidDeliveryAttempt
  <2>6. ValidIntent(n)'
    BY <1>3, <2>1, <2>4 DEF ValidIntent
  <2> QED
    BY <2>3, <2>4, <2>5, <2>6 DEF Kept, Settled
<1> QED
  BY <1>6, <1>7, <1>8

\* Every step keeps the invariant.
LEMMA GuardStep ==
  ASSUME {"legacy", "retry"} \cap Triggers = {}, GuardInv, [GateNext]_allVars
  PROVE  GuardInv'
<1>1. /\ GateTypeOK /\ GateTypeOK' /\ ResultInv'
      /\ \A n \in 1..Len(approvals) : Kept(n)
  BY GateTypeStep, ResultStep DEF GuardInv
<1>2. /\ Len(approvals) \in Nat /\ Len(approvals') \in Nat
      /\ \A k \in 1..Len(approvals) : SameApproval(approvals[k], approvals'[k])
  BY <1>1, ApprovalsGrow
<1>3. ASSUME UNCHANGED <<approvals, delivery>>
      PROVE  \A k \in 1..Len(approvals') : Kept(k)'
  BY <1>1, <1>3, UntouchedKept DEF DecisionFields
<1>4. ASSUME UNCHANGED <<mission, delivery>>
      PROVE  ValidDelivery'
  <2>1. delivery.approval # 0 => delivery.approval \in 1..Len(approvals)
    BY DEF GuardInv, ResultInv
  <2> QED
    BY <1>2, <1>4, <2>1 DEF GuardInv, ValidDelivery, SameApproval
<1>5. CASE UNCHANGED allVars \/ WorkStep
  BY <1>1, <1>3, <1>4, <1>5 DEF GuardInv, WorkStep, allVars, gateVars
<1>6. CASE \E to \in MissionStatuses : TransitionMission(to)
  <2>1. PICK to \in MissionStatuses : TransitionMission(to)
    BY <1>6
  <2>2. mission # "delivered"
    <3> SUFFICES ASSUME mission = "delivered" PROVE FALSE
      OBVIOUS
    <3>1. MissionEdges[mission] = {}
      BY DEF MissionEdges, MissionStatuses
    <3> QED
      BY <2>1, <3>1 DEF TransitionMission
  <2>3. UNCHANGED <<approvals, delivery>> /\ mission' # "delivered"
    BY <2>1 DEF TransitionMission
  <2>4. delivery.status # "delivered" /\ delivery.approval = 0
    BY <2>2 DEF GuardInv, ResultInv, ValidDelivery
  <2> QED
    BY <1>1, <1>3, <2>3, <2>4 DEF GuardInv, ValidDelivery
<1>7. CASE GateNext /\ RequestStep
  <2>1. UNCHANGED <<mission, delivery>>
    BY <1>7 DEF RequestStep, RequestApproval
  <2>2. \A k \in 1..Len(approvals') : k \in 1..Len(approvals) \/ k = Len(approvals) + 1
    BY <1>1, <1>2, <1>7, RequestShape
  <2>3. ASSUME NEW k \in 1..Len(approvals) PROVE Kept(k)'
    <3>1. approvals'[k] = approvals[k]
      BY <1>1, <1>7, RequestShape
    <3> QED
      BY <1>1, <2>1, <3>1, UntouchedKept DEF DecisionFields
  <2>4. \A k \in Nat : k = Len(approvals) + 1 => Kept(k)'
    BY <1>1, <1>7, RequestKept
  <2>5. \A k \in 1..Len(approvals') : Kept(k)'
    BY <1>2, <2>2, <2>3, <2>4
  <2> QED
    BY <1>1, <1>4, <2>1, <2>5 DEF GuardInv
<1>8. ASSUME NEW n \in 1..Len(approvals),
             \/ \E d \in {"approved", "rejected", "cancelled"} : DecideApproval(n, d)
             \/ Expire(n)
             \/ RecordDeliveryAttempt(n)
             \/ \E pr \in PullRequests : RecordDeliveryAttemptResult(n, pr)
      PROVE  GuardInv'
  <2>1. UNCHANGED <<mission, delivery>> /\ Len(approvals') = Len(approvals)
    BY <1>1, <1>8, ApprovalFields, ApprovalType
  <2>2. ASSUME NEW k \in 1..Len(approvals) PROVE Kept(k)'
    <3>1. CASE DecisionFields(approvals[k], approvals'[k])
      BY <1>1, <2>1, <3>1, UntouchedKept
    <3>2. CASE ~DecisionFields(approvals[k], approvals'[k])
      <4>1. k = n /\ (\/ RecordDeliveryAttempt(n)
                      \/ \E pr \in PullRequests : RecordDeliveryAttemptResult(n, pr))
        <5>1. k = n
          BY <1>1, <1>8, <3>2, ApprovalFields DEF DecisionFields
        <5>2. approvals[n] \in Approval /\ approvals \in Seq(Approval)
          BY <1>1, ElementOfSeq DEF GateTypeOK
        <5>3. ~Expire(n) /\ ~(\E d \in {"approved", "rejected", "cancelled"} : DecideApproval(n, d))
          BY <3>2, <5>1, <5>2 DEF Expire, DecideApproval, DecisionFields, Approval
        <5> QED
          BY <1>8, <5>1, <5>3
      <4> QED
        BY <1>1, <4>1, AttemptKept, ResultKept
    <3> QED
      BY <3>1, <3>2
  <2> QED
    BY <1>1, <1>4, <2>1, <2>2 DEF GuardInv
<1>9. ASSUME NEW n \in 1..Len(approvals), DeliveryStep(n), GateNext PROVE GuardInv'
  <2>1. Len(approvals') = Len(approvals)
    BY <1>1, <1>9, DeliveryType DEF DeliveryStep
  <2> QED
    BY <1>1, <1>9, <2>1, DeliveryKept DEF GuardInv
<1>10. CASE RecordFailedDelivery
  <2>1. /\ delivery.status = "none" /\ delivery'.status = "failed"
        /\ mission' = "failed" /\ approvals' = approvals
        /\ delivery'.approval = delivery.approval
    BY <1>1, <1>10 DEF RecordFailedDelivery, GateTypeOK, Delivery
  <2>2. delivery.approval = 0
    BY <1>10 DEF GuardInv, ResultInv, RecordFailedDelivery, Open
  <2>3. \A k \in 1..Len(approvals) : approvals[k].intent # "completed"
    BY <1>1, <2>1 DEF Kept, ValidIntent
  <2>4. \A k \in 1..Len(approvals) : Kept(k)'
    BY <1>1, <2>1, <2>3, UntouchedKept DEF DecisionFields
  <2> QED
    BY <1>1, <2>1, <2>2, <2>4 DEF GuardInv, ValidDelivery
<1> QED
  BY <1>1, <1>5, <1>6, <1>7, <1>8, <1>9, <1>10, GateCases

\* The guards of the calls alone keep what validation demands of approvals, delivery
\* attempts, the delivery record and the mission status, as long as no caller uses the
\* compatibility trigger or retries a blocked ticket.
THEOREM GuardsKeepGate ==
  ASSUME {"legacy", "retry"} \cap Triggers = {}
  PROVE  GateSpec => []GuardsKeepGateValid
<1>1. GateInit /\ GateTypeOK => GuardInv
  <2> SUFFICES ASSUME GateInit, GateTypeOK PROVE GuardInv
    OBVIOUS
  <2>1. 1..Len(approvals) = {} /\ delivery.approval = 0
        /\ delivery.status = "none" /\ mission = "draft"
    BY DEF GateInit
  <2> QED
    BY <2>1 DEF GuardInv, ResultInv, ValidDelivery
<1>2. GuardInv => GuardsKeepGateValid
  BY DEF GuardInv, Kept, GuardsKeepGateValid, ValidGate
<1>3. GuardInv /\ [GateNext]_allVars => GuardInv'
  BY GuardStep
<1> QED
  BY <1>1, <1>2, <1>3, GateTypeCorrect, PTL DEF GateSpec
=============================================================================
