-------------------------- MODULE DeliveryGateProofs --------------------------
(***************************************************************************)
(* Proofs about DeliveryGate, for every set of items, people and pull      *)
(* requests, every bound, every trigger, and whether or not results are    *)
(* validated: types, the finality of decisions and of a mission's end, and *)
(* that only approved and accepted work is ever delivered.                 *)
(***************************************************************************)
EXTENDS DeliveryGate, TicketLifecycleProofs

-----------------------------------------------------------------------------
(* Types.                                                                  *)

\* A change of one approval leaves the others and their number alone.
LEMMA ApprovalChanged ==
  ASSUME approvals \in Seq(Approval), NEW n \in 1..Len(approvals), NEW a \in Approval,
         approvals' = [approvals EXCEPT ![n] = a]
  PROVE  /\ approvals' \in Seq(Approval)
         /\ Len(approvals') = Len(approvals)
         /\ approvals'[n] = a
         /\ \A k \in 1..Len(approvals) : k # n => approvals'[k] = approvals[k]
BY ExceptSeq

\* A delivery leaves a history of the delivered item.
LEMMA DeliveredType ==
  ASSUME TypeOK, NEW i \in Items \cup {NoItem}, Delivered(i)
  PROVE  TypeOK'
<1>1. CASE i # NoItem /\ ProductItems # {} /\ status[i] = "delivering"
  <2>1. i \in Items
    BY <1>1
  <2>2. DeliveredStatus \in AttemptStatuses /\ requested[i] \in SUBSET Nat
    BY <2>1 DEF DeliveredStatus, AttemptStatuses, TicketStatuses, TypeOK
  <2>3. Tracked(i, DeliveredStatus, requested[i]) \in [Items -> Seq(Attempt)]
    BY <2>1, <2>2, TrackedType
  <2> QED
    BY <1>1, <2>1, <2>3 DEF Delivered, TypeOK, workVars, TicketStatuses
<1>2. CASE ~(i # NoItem /\ ProductItems # {} /\ status[i] = "delivering")
  BY <1>2 DEF Delivered, TypeOK, vars
<1> QED
  BY <1>1, <1>2

\* A call that only changes fields of one approval.
LEMMA ApprovalType ==
  ASSUME GateTypeOK, NEW n \in 1..Len(approvals),
         \/ \E d \in {"approved", "rejected", "cancelled"} : DecideApproval(n, d)
         \/ Expire(n)
         \/ RecordDeliveryAttempt(n)
         \/ \E pr \in PullRequests : RecordDeliveryAttemptResult(n, pr)
  PROVE  GateTypeOK' /\ Len(approvals') = Len(approvals)
<1>1. approvals \in Seq(Approval) /\ approvals[n] \in Approval
  BY ElementOfSeq DEF GateTypeOK
<1>2. PICK a \in Approval : approvals' = [approvals EXCEPT ![n] = a]
  <2>1. CASE \E d \in {"approved", "rejected", "cancelled"} : DecideApproval(n, d)
    <3>1. PICK d \in {"approved", "rejected", "cancelled"} : DecideApproval(n, d)
      BY <2>1
    <3>2. [approvals[n] EXCEPT !.decision = d] \in Approval
      BY <1>1, <3>1 DEF Approval
    <3> QED
      BY <3>1, <3>2 DEF DecideApproval
  <2>2. CASE Expire(n)
    <3>1. [approvals[n] EXCEPT !.live = FALSE] \in Approval
      BY <1>1 DEF Approval
    <3> QED
      BY <2>2, <3>1 DEF Expire
  <2>3. CASE RecordDeliveryAttempt(n)
    <3>1. [approvals[n] EXCEPT !.intent = "pending"] \in Approval
      BY <1>1 DEF Approval
    <3> QED
      BY <2>3, <3>1 DEF RecordDeliveryAttempt
  <2>4. CASE \E pr \in PullRequests : RecordDeliveryAttemptResult(n, pr)
    <3>1. PICK pr \in PullRequests : RecordDeliveryAttemptResult(n, pr)
      BY <2>4
    <3>2. [approvals[n] EXCEPT !.pr = pr] \in Approval
      BY <1>1, <3>1 DEF Approval
    <3> QED
      BY <3>1, <3>2 DEF RecordDeliveryAttemptResult
  <2> QED
    BY <2>1, <2>2, <2>3, <2>4
<1>3. approvals' \in Seq(Approval) /\ Len(approvals') = Len(approvals)
  BY <1>1, <1>2, ApprovalChanged
<1>4. UNCHANGED <<vars, reviewed, mission, delivery>>
  BY DEF DecideApproval, Expire, RecordDeliveryAttempt, RecordDeliveryAttemptResult
<1> QED
  BY <1>3, <1>4 DEF GateTypeOK, TypeOK, vars

\* What never changes of an approval after its request, and what it settles once.
SameApproval(a, b) ==
  /\ b.item = a.item /\ b.attempt = a.attempt /\ b.handoff = a.handoff /\ b.review = a.review
  /\ a.decision # "pending" => b.decision = a.decision
  /\ a.pr # NoPR => b.pr = a.pr

\* The delivery record keeps the types.
LEMMA DeliveryType ==
  ASSUME GateTypeOK, NEW n \in 1..Len(approvals), NEW i \in Items \cup {NoItem},
         NEW attempt \in Nat, NEW pr \in PullRequests, RecordDelivery(n, i, attempt, pr)
  PROVE  /\ GateTypeOK' /\ Len(approvals') = Len(approvals)
         /\ \A k \in 1..Len(approvals) :
              /\ SameApproval(approvals[k], approvals'[k])
              /\ approvals'[k].pr = approvals[k].pr
              /\ approvals[k].intent # "none" => approvals'[k].intent # "none"
         /\ approvals[n].intent = "none" => approvals'[n].intent = "none"
<1>1. approvals \in Seq(Approval) /\ approvals[n] \in Approval /\ Len(approvals) \in Nat
  BY ElementOfSeq, LenProperties DEF GateTypeOK
<1> DEFINE a == [approvals[n] EXCEPT !.intent = "completed"]
<1>2. /\ a \in Approval /\ SameApproval(approvals[n], a) /\ a.pr = approvals[n].pr
      /\ a.intent = "completed"
  BY <1>1 DEF Approval, SameApproval
<1>3. \/ approvals' = approvals
      \/ approvals[n].intent # "none" /\ approvals' = [approvals EXCEPT ![n] = a]
  BY DEF RecordDelivery
<1> HIDE DEF a
<1>4. /\ approvals' \in Seq(Approval) /\ Len(approvals') = Len(approvals)
      /\ \A k \in 1..Len(approvals) :
           /\ SameApproval(approvals[k], approvals'[k])
           /\ approvals'[k].pr = approvals[k].pr
           /\ approvals[k].intent # "none" => approvals'[k].intent # "none"
      /\ approvals[n].intent = "none" => approvals'[n].intent = "none"
  <2>1. CASE approvals' = approvals
    BY <1>1, <2>1 DEF SameApproval
  <2>2. CASE approvals[n].intent # "none" /\ approvals' = [approvals EXCEPT ![n] = a]
    <3>1. approvals'[n] = a /\ \A k \in 1..Len(approvals) : k # n => approvals'[k] = approvals[k]
      BY <1>1, <1>2, <2>2, ApprovalChanged
    <3>2. ASSUME NEW k \in 1..Len(approvals)
          PROVE  /\ SameApproval(approvals[k], approvals'[k])
                 /\ approvals'[k].pr = approvals[k].pr
                 /\ approvals[k].intent # "none" => approvals'[k].intent # "none"
      <4>1. CASE k = n
        BY <1>2, <3>1, <4>1
      <4>2. CASE k # n
        BY <3>1, <4>2 DEF SameApproval
      <4> QED
        BY <4>1, <4>2
    <3> QED
      BY <1>1, <1>2, <2>2, <3>2, ApprovalChanged
  <2> QED
    BY <1>3, <2>1, <2>2
<1>5. TypeOK'
  BY DeliveredType DEF RecordDelivery, GateTypeOK
<1>6. delivery' \in Delivery /\ mission' \in MissionStatuses /\ reviewed' = reviewed
  BY <1>1 DEF RecordDelivery, Delivery, MissionStatuses
<1> QED
  BY <1>4, <1>5, <1>6 DEF GateTypeOK

-----------------------------------------------------------------------------
(* The steps of the gate.                                                  *)

\* Calls about work items, which demand an open mission and leave the gate alone.
WorkStep == Open /\ TypeOK' /\ reviewed' \in [Items -> Nat] /\ UNCHANGED gateVars

\* A request, and a delivery on approval n, whatever the caller pins and names.
RequestStep == \E i \in Items \cup {NoItem}, pins \in {<<0, 0, 0>>} \cup UNION {Pins(j) : j \in Items} :
                 RequestApproval(i, pins)
DeliveryStep(n) == \E i \in Items \cup {NoItem}, attempt \in Nat, pr \in PullRequests :
                     (i = NoItem => attempt = 0) /\ RecordDelivery(n, i, attempt, pr)

\* The calls of the gate, one kind each; the calls about one approval are one kind.
LEMMA GateCases ==
  ASSUME GateTypeOK, GateNext
  PROVE  \/ WorkStep
         \/ \E to \in MissionStatuses : TransitionMission(to)
         \/ RequestStep
         \/ \E n \in 1..Len(approvals) :
              \/ \E d \in {"approved", "rejected", "cancelled"} : DecideApproval(n, d)
              \/ Expire(n)
              \/ RecordDeliveryAttempt(n)
              \/ \E pr \in PullRequests : RecordDeliveryAttemptResult(n, pr)
              \/ DeliveryStep(n)
         \/ RecordFailedDelivery
<1>1. CASE QueueCall
  <2>1. Next
    BY <1>1 DEF QueueCall, Next, Operate
  <2>2. TypeOK'
    BY <2>1, NextType DEF GateTypeOK
  <2> QED
    BY <1>1, <2>2 DEF QueueCall, WorkStep, GateTypeOK
<1>2. ASSUME NEW i \in Items, ReviewCall(i) PROVE WorkStep
  <2>1. Next
    BY <1>2 DEF ReviewCall, Next, Operate
  <2>2. TypeOK'
    BY <2>1, NextType DEF GateTypeOK
  <2>3. reviewed' \in [Items -> Nat]
    BY <1>2 DEF ReviewCall, GateTypeOK
  <2> QED
    BY <1>2, <2>2, <2>3 DEF ReviewCall, WorkStep
<1>3. ASSUME NEW n \in 1..Len(approvals), NEW pr \in PullRequests,
             \/ RecordDelivery(n, NoItem, 0, pr)
             \/ \E i \in Items, attempt \in {0, approvals[n].attempt} :
                  RecordDelivery(n, i, attempt, pr)
      PROVE  DeliveryStep(n)
  <2>1. approvals[n] \in Approval
    BY ElementOfSeq DEF GateTypeOK
  <2>2. approvals[n].attempt \in Nat
    BY <2>1 DEF Approval
  <2> QED
    BY <1>3, <2>2, GateAssumption DEF DeliveryStep
<1>4. ASSUME RequestApproval(NoItem, <<0, 0, 0>>) \/
             \E i \in Items : \E pins \in Pins(i) : RequestApproval(i, pins)
      PROVE  RequestStep
  BY <1>4 DEF RequestStep
<1> QED
  BY <1>1, <1>2, <1>3, <1>4 DEF GateNext

\* A request adds one approval behind the others.
LEMMA RequestShape ==
  ASSUME GateTypeOK, RequestStep
  PROVE  /\ GateTypeOK'
         /\ Len(approvals') = Len(approvals) + 1
         /\ \A k \in 1..Len(approvals) : approvals'[k] = approvals[k]
         /\ approvals'[Len(approvals) + 1].pr = NoPR
<1>1. PICK i \in Items \cup {NoItem},
           pins \in {<<0, 0, 0>>} \cup UNION {Pins(j) : j \in Items} : RequestApproval(i, pins)
  BY DEF RequestStep
<1>2. pins[1] \in Nat /\ pins[2] \in Nat /\ pins[3] \in Nat
  <2>1. CASE pins = <<0, 0, 0>>
    BY <2>1
  <2>2. ASSUME NEW j \in Items, pins \in Pins(j)
        PROVE  pins[1] \in Nat /\ pins[2] \in Nat /\ pins[3] \in Nat
    <3>1. Number(j) \in Nat /\ handoff[j].id \in Nat /\ reviewed[j] \in Nat
      BY LenProperties DEF GateTypeOK, TypeOK, Number, Handoff
    <3> QED
      BY <2>2, <3>1 DEF Pins
  <2> QED
    BY <2>1, <2>2
<1> DEFINE a == [item |-> i, attempt |-> pins[1], handoff |-> pins[2], review |-> pins[3],
                 decision |-> "pending", live |-> TRUE, intent |-> "none", pr |-> NoPR]
<1>3. a \in Approval /\ a.pr = NoPR
  BY <1>2 DEF Approval
<1>4. approvals' = Append(approvals, a)
  BY <1>1 DEF RequestApproval
<1> HIDE DEF a
<1>5. /\ approvals' \in Seq(Approval) /\ Len(approvals') = Len(approvals) + 1
      /\ \A k \in 1..Len(approvals) : approvals'[k] = approvals[k]
      /\ approvals'[Len(approvals) + 1] = a
  BY <1>3, <1>4, AppendProperties DEF GateTypeOK
<1>6. UNCHANGED <<vars, reviewed, mission, delivery>>
  BY <1>1 DEF RequestApproval
<1> QED
  BY <1>3, <1>5, <1>6 DEF GateTypeOK, TypeOK, vars

\* Every call keeps the types.
LEMMA GateTypeStep ==
  ASSUME GateTypeOK, [GateNext]_allVars
  PROVE  GateTypeOK'
<1>1. CASE UNCHANGED allVars
  BY <1>1 DEF GateTypeOK, TypeOK, vars, gateVars, allVars
<1>2. CASE WorkStep
  BY <1>2 DEF WorkStep, GateTypeOK, gateVars
<1>3. CASE \E to \in MissionStatuses : TransitionMission(to)
  BY <1>3 DEF TransitionMission, GateTypeOK, TypeOK, vars
<1>4. CASE RequestStep
  BY <1>4, RequestShape
<1>5. ASSUME NEW n \in 1..Len(approvals), DeliveryStep(n) PROVE GateTypeOK'
  BY <1>5, DeliveryType DEF DeliveryStep
<1>6. CASE RecordFailedDelivery
  BY <1>6 DEF RecordFailedDelivery, GateTypeOK, TypeOK, vars, Delivery, MissionStatuses
<1> QED
  BY <1>1, <1>2, <1>3, <1>4, <1>5, <1>6, ApprovalType, GateCases

\* The types hold in every state, validated or not.
THEOREM GateTypeCorrect == GateSpec => []GateTypeOK
<1>1. GateInit => GateTypeOK
  <2> SUFFICES ASSUME GateInit PROVE GateTypeOK
    OBVIOUS
  <2>1. TypeOK
    BY InitType DEF GateInit
  <2>2. approvals \in Seq(Approval)
    BY EmptySeq DEF GateInit
  <2> QED
    BY <2>1, <2>2 DEF GateInit, GateTypeOK, MissionStatuses, Delivery
<1> QED
  BY <1>1, GateTypeStep, PTL DEF GateSpec

-----------------------------------------------------------------------------
(* Decisions and ends are final.                                           *)

\* Approvals are only ever added; what they pin, a decision and a result stay.
LEMMA ApprovalsGrow ==
  ASSUME GateTypeOK, [GateNext]_allVars
  PROVE  /\ Len(approvals) \in Nat /\ Len(approvals') \in Nat /\ Len(approvals) <= Len(approvals')
         /\ \A k \in 1..Len(approvals) : SameApproval(approvals[k], approvals'[k])
<1>1. Len(approvals) \in Nat /\ approvals \in Seq(Approval)
  BY LenProperties DEF GateTypeOK
<1>2. CASE approvals' = approvals
  BY <1>1, <1>2 DEF SameApproval
<1>3. CASE RequestStep
  BY <1>1, <1>3, RequestShape DEF SameApproval
<1>4. ASSUME NEW n \in 1..Len(approvals), NEW a \in Approval,
             approvals' = [approvals EXCEPT ![n] = a], SameApproval(approvals[n], a)
      PROVE  /\ Len(approvals') = Len(approvals)
             /\ \A k \in 1..Len(approvals) : SameApproval(approvals[k], approvals'[k])
  BY <1>1, <1>4, ApprovalChanged DEF SameApproval
<1>5. ASSUME NEW n \in 1..Len(approvals),
             \/ \E d \in {"approved", "rejected", "cancelled"} : DecideApproval(n, d)
             \/ Expire(n)
             \/ RecordDeliveryAttempt(n)
             \/ \E pr \in PullRequests : RecordDeliveryAttemptResult(n, pr)
      PROVE  \E a \in Approval :
               approvals' = [approvals EXCEPT ![n] = a] /\ SameApproval(approvals[n], a)
  <2>1. approvals[n] \in Approval
    BY <1>1, ElementOfSeq
  <2>2. CASE \E d \in {"approved", "rejected", "cancelled"} : DecideApproval(n, d)
    <3>1. PICK d \in {"approved", "rejected", "cancelled"} : DecideApproval(n, d)
      BY <2>2
    <3> DEFINE a == [approvals[n] EXCEPT !.decision = d]
    <3>2. a \in Approval /\ SameApproval(approvals[n], a)
      BY <2>1, <3>1 DEF Approval, SameApproval, DecideApproval, Decidable
    <3> QED
      BY <3>1, <3>2 DEF DecideApproval
  <2>3. CASE Expire(n)
    <3> DEFINE a == [approvals[n] EXCEPT !.live = FALSE]
    <3>1. a \in Approval /\ SameApproval(approvals[n], a)
      BY <2>1 DEF Approval, SameApproval
    <3> QED
      BY <2>3, <3>1 DEF Expire
  <2>4. CASE RecordDeliveryAttempt(n)
    <3> DEFINE a == [approvals[n] EXCEPT !.intent = "pending"]
    <3>1. a \in Approval /\ SameApproval(approvals[n], a)
      BY <2>1 DEF Approval, SameApproval
    <3> QED
      BY <2>4, <3>1 DEF RecordDeliveryAttempt
  <2>5. CASE \E pr \in PullRequests : RecordDeliveryAttemptResult(n, pr)
    <3>1. PICK pr \in PullRequests : RecordDeliveryAttemptResult(n, pr)
      BY <2>5
    <3> DEFINE a == [approvals[n] EXCEPT !.pr = pr]
    <3>2. a \in Approval /\ SameApproval(approvals[n], a)
      BY <2>1, <3>1 DEF Approval, SameApproval, RecordDeliveryAttemptResult, FirstResult
    <3> QED
      BY <3>1, <3>2 DEF RecordDeliveryAttemptResult
  <2> QED
    BY <1>5, <2>2, <2>3, <2>4, <2>5
<1>6. ASSUME NEW n \in 1..Len(approvals), DeliveryStep(n)
      PROVE  /\ Len(approvals') = Len(approvals)
             /\ \A k \in 1..Len(approvals) : SameApproval(approvals[k], approvals'[k])
  BY <1>6, DeliveryType DEF DeliveryStep
<1>7. UNCHANGED allVars \/ WorkStep \/ (\E to \in MissionStatuses : TransitionMission(to))
      \/ RecordFailedDelivery => approvals' = approvals
  BY DEF allVars, gateVars, WorkStep, TransitionMission, RecordFailedDelivery
<1> QED
  BY <1>1, <1>2, <1>3, <1>4, <1>5, <1>6, <1>7, GateCases

\* Once a mission has ended, only approvals may still change.
LEMMA NothingAfterTheEnd ==
  ASSUME GateTypeOK, [GateNext]_allVars, mission \in {"delivered", "failed"}
  PROVE  UNCHANGED <<vars, reviewed, mission, delivery>>
<1>1. ~Open
  BY DEF Open
<1>2. CASE UNCHANGED allVars
  BY <1>2 DEF allVars, gateVars
<1>3. ASSUME NEW to \in MissionStatuses, TransitionMission(to) PROVE FALSE
  <2>1. MissionEdges[mission] = {}
    BY DEF MissionEdges, MissionStatuses
  <2> QED
    BY <1>3, <2>1 DEF TransitionMission
<1>4. ~WorkStep /\ ~RequestStep /\ ~RecordFailedDelivery
  BY <1>1 DEF WorkStep, RequestStep, RequestApproval, RecordFailedDelivery
<1>5. ASSUME NEW n \in 1..Len(approvals)
      PROVE  ~DeliveryStep(n) /\ ~RecordDeliveryAttempt(n) /\ ~(\E d : DecideApproval(n, d))
  BY <1>1 DEF DeliveryStep, RecordDelivery, RecordDeliveryAttempt, DecideApproval
<1>6. ASSUME NEW n \in 1..Len(approvals),
             Expire(n) \/ \E pr \in PullRequests : RecordDeliveryAttemptResult(n, pr)
      PROVE  UNCHANGED <<vars, reviewed, mission, delivery>>
  BY <1>6 DEF Expire, RecordDeliveryAttemptResult
<1> QED
  BY <1>2, <1>3, <1>4, <1>5, <1>6, GateCases

\* A human decision is final, and so is the end of a mission.
THEOREM FinalDecisions == GateSpec => DecisionsAreFinal
<1>1. ASSUME GateTypeOK, [GateNext]_allVars
      PROVE  [/\ \A n \in 1..Len(approvals) : approvals[n].decision # "pending" =>
                    approvals'[n].decision = approvals[n].decision
              /\ mission \in {"delivered", "failed"} =>
                    UNCHANGED <<vars, reviewed, mission, delivery>>]_allVars
  BY <1>1, ApprovalsGrow, NothingAfterTheEnd DEF SameApproval
<1> QED
  BY <1>1, GateTypeCorrect, PTL DEF GateSpec, DecisionsAreFinal

-----------------------------------------------------------------------------
(* Only approved and accepted work is delivered.                           *)

\* A delivery of item i: whatever the approval pins is what the gate holds, and the item
\* and all others are done.
LEMMA DeliveryOfApproved ==
  ASSUME GateTypeOK, NEW n \in 1..Len(approvals), DeliveryStep(n)
  PROVE  /\ GateTypeOK' /\ delivery'.approval = n /\ mission' = "delivered"
         /\ DeliveredIsApprovedWork'
<1>1. PICK i \in Items \cup {NoItem}, attempt \in Nat, pr \in PullRequests :
        (i = NoItem => attempt = 0) /\ RecordDelivery(n, i, attempt, pr)
  BY DEF DeliveryStep
<1> DEFINE a == approvals[n]
<1>2. /\ GateTypeOK' /\ TypeOK /\ a \in Approval
      /\ SameApproval(a, approvals'[n])
  BY <1>1, DeliveryType, ElementOfSeq DEF GateTypeOK
<1>3. /\ delivery' = [status |-> "delivered", approval |-> n, item |-> i,
                      attempt |-> attempt, pr |-> pr]
      /\ mission' = "delivered" /\ Delivered(i) /\ reviewed' = reviewed
      /\ a.decision = "approved" /\ CurrentCorrelation(a)
  BY <1>1 DEF RecordDelivery, Executable
<1>4. delivery'.approval = n /\ delivery'.item = i
  BY <1>3
<1>5. /\ approvals'[n].decision = "approved" /\ approvals'[n].item = a.item
      /\ approvals'[n].attempt = a.attempt /\ approvals'[n].handoff = a.handoff
      /\ approvals'[n].review = a.review
  BY <1>2, <1>3 DEF SameApproval
<1> DEFINE Goal == /\ approvals'[n].decision = "approved" /\ approvals'[n].item = i
                   /\ AllComplete(ProductItems)'
                   /\ i # NoItem =>
                        /\ approvals'[n].attempt = Number(i)' /\ Current(i)'.status = "done"
                        /\ Structured(i)' => AcceptedReview(i)'
                        /\ approvals'[n].handoff \in {0, handoff'[i].id}
                        /\ approvals'[n].review \in {0, reviewed'[i]}
<1>6. ASSUME i = NoItem PROVE Goal
  <2>1. AllComplete(Present) /\ UNCHANGED vars
    BY <1>1, <1>3, <1>6 DEF RecordDelivery, Delivered
  <2>2. a.item = NoItem
    <3> SUFFICES ASSUME a.item # NoItem PROVE FALSE
      OBVIOUS
    <3>1. a.item \in Items /\ status[a.item] \in {"awaiting_approval", "delivering"}
      BY <1>2, <1>3 DEF Approval, CurrentCorrelation
    <3> QED
      BY <2>1, <3>1 DEF AllComplete, Present, Completed
  <2>3. AllComplete(ProductItems)'
    <3>1. status' = status /\ plan' = plan
      BY <2>1 DEF vars
    <3>2. \A j \in ProductItems' : j \in Present
      BY <3>1 DEF ProductItems, Present
    <3> QED
      BY <2>1, <3>1, <3>2 DEF AllComplete
  <2> QED
    BY <1>5, <1>6, <2>2, <2>3
<1>7. ASSUME i \in Items PROVE Goal
  <2>1. i # NoItem /\ i \in Present /\ QueueDeliveryComplete(i, attempt) /\ a.item = i
    BY <1>1, <1>7, GateAssumption DEF RecordDelivery
  <2>2. /\ a.attempt # 0 /\ a.attempt = Number(i)
        /\ status[i] \in {"awaiting_approval", "delivering"}
        /\ a.handoff \in {0, handoff[i].id} /\ a.review \in {0, reviewed[i]}
    BY <1>3, <2>1 DEF CurrentCorrelation
  <2>3. ~Completed(status[i])
    BY <2>2 DEF Completed
  <2>4. /\ ProductItems # {} /\ status[i] = "delivering"
        /\ AllComplete(ProductItems \ {i})
        /\ Structured(i) => AcceptedReview(i)
    BY <2>1, <2>3 DEF QueueDeliveryComplete, AllComplete
  <2>5. /\ attempts' = Tracked(i, "done", requested[i])
        /\ status' = [status EXCEPT ![i] = "done"]
        /\ UNCHANGED <<plan, delegation, handoff, review>>
    BY <1>3, <2>1, <2>4 DEF Delivered, DeliveredStatus, workVars
  <2>6. /\ Number(i) \in Nat \ {0} /\ Number(i)' = Number(i)
        /\ Current(i)'.status = "done"
    <3>1. attempts[i] # <<>>
      BY <2>2, EmptySeq DEF Number
    <3>2. "done" \in AttemptStatuses /\ requested[i] \in SUBSET Nat
      BY <1>2, <1>7 DEF AttemptStatuses, TicketStatuses, TypeOK
    <3>3. /\ Number(i) \in Nat \ {0} /\ Len(attempts'[i]) = Number(i)
          /\ attempts'[i][Number(i)].status = "done"
      BY <1>2, <1>7, <2>5, <3>1, <3>2, TrackedShape
    <3> QED
      BY <3>3 DEF Number, Current
  <2>7. AllComplete(ProductItems)'
    <3>1. \A j \in Items : status'[j] = IF j = i THEN "done" ELSE status[j]
      BY <1>2, <2>5 DEF TypeOK
    <3>2. \A j \in ProductItems' : j = i \/ j \in ProductItems \ {i}
      BY <2>5, <3>1 DEF ProductItems, Present
    <3>3. \A j \in ProductItems' : j \in Items
      BY DEF ProductItems, Present
    <3> QED
      BY <2>4, <3>1, <3>2, <3>3 DEF AllComplete, Completed
  <2>8. Structured(i)' => AcceptedReview(i)'
    <3>1. Structured(i)' => Structured(i)
      BY <2>5 DEF Structured, Implementer
    <3>2. AcceptedReview(i) => AcceptedReview(i)'
      BY <2>5, <2>6 DEF AcceptedReview
    <3> QED
      BY <2>4, <3>1, <3>2
  <2> QED
    BY <1>3, <1>5, <2>1, <2>2, <2>5, <2>6, <2>7, <2>8
<1>8. Goal
  <2> HIDE DEF Goal
  <2> QED
    BY <1>6, <1>7
<1> QED
  BY <1>2, <1>3, <1>4, <1>8 DEF DeliveredIsApprovedWork

\* Only a delivery record makes a mission delivered.
LEMMA OnlyDeliveryDelivers ==
  ASSUME GateTypeOK, [GateNext]_allVars, mission # "delivered", mission' = "delivered"
  PROVE  \E n \in 1..Len(approvals) : DeliveryStep(n)
<1>1. ~UNCHANGED allVars /\ ~WorkStep /\ ~RequestStep /\ ~RecordFailedDelivery
      /\ ~(\E to \in MissionStatuses : TransitionMission(to))
  BY DEF allVars, gateVars, WorkStep, RequestStep, RequestApproval, RecordFailedDelivery,
         TransitionMission
<1>2. \A n \in 1..Len(approvals) :
        /\ ~(\E d : DecideApproval(n, d)) /\ ~Expire(n) /\ ~RecordDeliveryAttempt(n)
        /\ ~(\E pr \in PullRequests : RecordDeliveryAttemptResult(n, pr))
  BY DEF DecideApproval, Expire, RecordDeliveryAttempt, RecordDeliveryAttemptResult
<1> QED
  BY <1>1, <1>2, GateCases

\* What the approved delivery needs to stay what it was.
DeliveredInv ==
  /\ GateTypeOK
  /\ mission = "delivered" => delivery.approval \in 1..Len(approvals)
  /\ DeliveredIsApprovedWork

\* Every call keeps it: a delivery establishes it, and nothing follows a delivery.
LEMMA DeliveredStep ==
  ASSUME DeliveredInv, [GateNext]_allVars
  PROVE  DeliveredInv'
<1>1. GateTypeOK /\ GateTypeOK'
  BY GateTypeStep DEF DeliveredInv
<1>2. CASE mission' # "delivered"
  BY <1>1, <1>2 DEF DeliveredInv, DeliveredIsApprovedWork
<1>3. CASE mission # "delivered" /\ mission' = "delivered"
  <2>1. PICK n \in 1..Len(approvals) : DeliveryStep(n)
    BY <1>1, <1>3, OnlyDeliveryDelivers
  <2>2. delivery'.approval = n /\ DeliveredIsApprovedWork'
    BY <1>1, <2>1, DeliveryOfApproved
  <2> QED
    BY <1>1, <2>1, <2>2, ApprovalsGrow DEF DeliveredInv
<1>4. CASE mission = "delivered" /\ mission' = "delivered"
  <2>1. UNCHANGED <<vars, reviewed, mission, delivery>>
    BY <1>1, <1>4, NothingAfterTheEnd
  <2>2. delivery.approval \in 1..Len(approvals) /\ delivery'.approval \in 1..Len(approvals')
    BY <1>1, <1>4, <2>1, ApprovalsGrow DEF DeliveredInv
  <2>3. SameApproval(approvals[delivery.approval], approvals'[delivery'.approval])
    BY <1>1, <2>1, <2>2, ApprovalsGrow
  <2>4. DeliveredIsApprovedWork'
    BY <1>4, <2>1, <2>3 DEF DeliveredInv, DeliveredIsApprovedWork, SameApproval, AllComplete,
       ProductItems, Present, Number, Current, Structured, Implementer, AcceptedReview, vars
  <2> QED
    BY <1>1, <2>2, <2>4 DEF DeliveredInv
<1> QED
  BY <1>2, <1>3, <1>4

\* What is delivered is what a human approved and a reviewer accepted.
THEOREM DeliveredWorkWasApproved == GateSpec => []DeliveredIsApprovedWork
<1>1. GateSpec => []GateTypeOK
  BY GateTypeCorrect
<1>2. GateInit /\ GateTypeOK => DeliveredInv
  BY DEF GateInit, DeliveredInv, DeliveredIsApprovedWork
<1>3. DeliveredInv => DeliveredIsApprovedWork
  BY DEF DeliveredInv
<1> QED
  BY <1>1, <1>2, <1>3, DeliveredStep, PTL DEF GateSpec

-----------------------------------------------------------------------------
(* The result of a delivery attempt.                                       *)

\* What the calls about one approval do to its delivery attempt.
DecisionFields(a, b) == b.intent = a.intent /\ b.pr = a.pr
IntentFields(a, b) == a.intent = "none" /\ b.intent = "pending" /\ b.pr = a.pr
                      /\ b.decision = a.decision
ResultFields(a, b) == a.intent # "none" /\ a.pr = NoPR /\ b.intent = a.intent /\ b.pr # NoPR

\* Each call about one approval does one of these to it, and nothing to the others.
LEMMA ApprovalFields ==
  ASSUME GateTypeOK, NEW n \in 1..Len(approvals),
         \/ \E d \in {"approved", "rejected", "cancelled"} : DecideApproval(n, d)
         \/ Expire(n)
         \/ RecordDeliveryAttempt(n)
         \/ \E pr \in PullRequests : RecordDeliveryAttemptResult(n, pr)
  PROVE  /\ \A k \in 1..Len(approvals) : k # n => approvals'[k] = approvals[k]
         /\ \/ DecisionFields(approvals[n], approvals'[n])
            \/ RecordDeliveryAttempt(n) /\ IntentFields(approvals[n], approvals'[n])
            \/ ResultFields(approvals[n], approvals'[n])
         /\ UNCHANGED <<vars, reviewed, mission, delivery>>
<1>1. approvals \in Seq(Approval) /\ approvals[n] \in Approval
  BY ElementOfSeq DEF GateTypeOK
<1>2. PICK a \in Approval :
        /\ approvals' = [approvals EXCEPT ![n] = a]
        /\ \/ DecisionFields(approvals[n], a)
           \/ RecordDeliveryAttempt(n) /\ IntentFields(approvals[n], a)
           \/ ResultFields(approvals[n], a)
  <2>1. CASE \E d \in {"approved", "rejected", "cancelled"} : DecideApproval(n, d)
    <3>1. PICK d \in {"approved", "rejected", "cancelled"} : DecideApproval(n, d)
      BY <2>1
    <3> DEFINE a == [approvals[n] EXCEPT !.decision = d]
    <3>2. a \in Approval /\ DecisionFields(approvals[n], a)
      BY <1>1 DEF Approval, DecisionFields
    <3> QED
      BY <3>1, <3>2 DEF DecideApproval
  <2>2. CASE Expire(n)
    <3> DEFINE a == [approvals[n] EXCEPT !.live = FALSE]
    <3>1. a \in Approval /\ DecisionFields(approvals[n], a)
      BY <1>1 DEF Approval, DecisionFields
    <3> QED
      BY <2>2, <3>1 DEF Expire
  <2>3. CASE RecordDeliveryAttempt(n)
    <3> DEFINE a == [approvals[n] EXCEPT !.intent = "pending"]
    <3>1. a \in Approval /\ IntentFields(approvals[n], a)
      BY <1>1, <2>3 DEF Approval, IntentFields, RecordDeliveryAttempt
    <3> QED
      BY <2>3, <3>1 DEF RecordDeliveryAttempt
  <2>4. CASE \E pr \in PullRequests : RecordDeliveryAttemptResult(n, pr)
    <3>1. PICK pr \in PullRequests : RecordDeliveryAttemptResult(n, pr)
      BY <2>4
    <3> DEFINE a == [approvals[n] EXCEPT !.pr = pr]
    <3>2. a \in Approval /\ ResultFields(approvals[n], a)
      BY <1>1, <3>1, GateAssumption
         DEF Approval, ResultFields, RecordDeliveryAttemptResult, FirstResult
    <3> QED
      BY <3>1, <3>2 DEF RecordDeliveryAttemptResult
  <2> QED
    BY <2>1, <2>2, <2>3, <2>4
<1>3. approvals'[n] = a /\ \A k \in 1..Len(approvals) : k # n => approvals'[k] = approvals[k]
  BY <1>1, <1>2, ApprovalChanged
<1>4. UNCHANGED <<vars, reviewed, mission, delivery>>
  BY DEF DecideApproval, Expire, RecordDeliveryAttempt, RecordDeliveryAttemptResult
<1> QED
  BY <1>2, <1>3, <1>4

\* A result belongs to a recorded attempt, and the delivery record of an attempt has it.
ResultInv ==
  /\ \A n \in 1..Len(approvals) : approvals[n].pr # NoPR => approvals[n].intent # "none"
  /\ delivery.approval # 0 =>
       /\ delivery.approval \in 1..Len(approvals) /\ mission = "delivered"
       /\ delivery.attempt # 0 =>
            /\ delivery.pr # NoPR
            /\ \/ approvals[delivery.approval].intent = "none"
               \/ approvals[delivery.approval].pr = delivery.pr

\* Every call keeps it.
LEMMA ResultStep ==
  ASSUME GateTypeOK, ResultInv, [GateNext]_allVars
  PROVE  ResultInv'
<1>1. /\ Len(approvals) \in Nat /\ Len(approvals') \in Nat
      /\ Len(approvals) <= Len(approvals')
  BY ApprovalsGrow
<1>2. CASE approvals' = approvals /\ delivery' = delivery /\ mission' = mission
  BY <1>2 DEF ResultInv
<1>3. CASE RecordFailedDelivery
  <2>1. delivery.approval = 0
    BY <1>3 DEF ResultInv, RecordFailedDelivery, Open
  <2>2. delivery'.approval = 0 /\ approvals' = approvals
    BY <1>3, <2>1 DEF RecordFailedDelivery, GateTypeOK, Delivery
  <2> QED
    BY <2>2 DEF ResultInv
<1>4. CASE \E to \in MissionStatuses : TransitionMission(to)
  <2>1. PICK to \in MissionStatuses : TransitionMission(to)
    BY <1>4
  <2>2. approvals' = approvals /\ delivery' = delivery /\ to \in MissionEdges[mission]
    BY <2>1 DEF TransitionMission
  <2>3. mission # "delivered"
    <3> SUFFICES ASSUME mission = "delivered" PROVE FALSE
      OBVIOUS
    <3>1. MissionEdges[mission] = {}
      BY DEF MissionEdges, MissionStatuses
    <3> QED
      BY <2>2, <3>1
  <2> QED
    BY <2>2, <2>3 DEF ResultInv
<1>5. CASE RequestStep
  <2>1. \A k \in 1..Len(approvals') : k \in 1..Len(approvals) \/ k = Len(approvals) + 1
    BY <1>1, <1>5, RequestShape
  <2>2. delivery' = delivery /\ mission' = mission
    BY <1>5 DEF RequestStep, RequestApproval
  <2> QED
    BY <1>1, <1>5, <2>1, <2>2, RequestShape DEF ResultInv
<1>6. ASSUME NEW n \in 1..Len(approvals),
             \/ \E d \in {"approved", "rejected", "cancelled"} : DecideApproval(n, d)
             \/ Expire(n)
             \/ RecordDeliveryAttempt(n)
             \/ \E pr \in PullRequests : RecordDeliveryAttemptResult(n, pr)
      PROVE  ResultInv'
  <2>1. /\ delivery' = delivery /\ mission' = mission
        /\ Len(approvals') = Len(approvals)
    BY <1>6, ApprovalFields, ApprovalType
  <2>2. RecordDeliveryAttempt(n) => mission # "delivered"
    BY DEF RecordDeliveryAttempt, Open
  <2>3. ASSUME NEW k \in 1..Len(approvals)
        PROVE  \/ approvals'[k].intent = approvals[k].intent /\ approvals'[k].pr = approvals[k].pr
               \/ mission # "delivered" /\ approvals'[k].intent # "none"
               \/ ResultFields(approvals[k], approvals'[k])
    BY <1>6, <2>2, ApprovalFields DEF DecisionFields, IntentFields
  <2> QED
    BY <2>1, <2>3 DEF ResultInv, ResultFields
<1>7. ASSUME NEW n \in 1..Len(approvals), DeliveryStep(n) PROVE ResultInv'
  <2>1. PICK i \in Items \cup {NoItem}, attempt \in Nat, pr \in PullRequests :
          RecordDelivery(n, i, attempt, pr)
    BY <1>7 DEF DeliveryStep
  <2>2. /\ delivery'.approval = n /\ delivery'.attempt = attempt /\ delivery'.pr = pr
        /\ mission' = "delivered" /\ pr # NoPR
        /\ attempt # 0 /\ approvals[n].intent # "none" => approvals[n].pr = pr
    BY <2>1, GateAssumption DEF RecordDelivery, IntentMatches
  <2>3. /\ Len(approvals') = Len(approvals)
        /\ \A k \in 1..Len(approvals) :
             /\ approvals'[k].pr = approvals[k].pr
             /\ approvals[k].intent # "none" => approvals'[k].intent # "none"
        /\ approvals[n].intent = "none" => approvals'[n].intent = "none"
    BY <2>1, DeliveryType
  <2> QED
    BY <2>2, <2>3 DEF ResultInv
<1>8. UNCHANGED allVars \/ WorkStep => approvals' = approvals /\ delivery' = delivery /\ mission' = mission
  BY DEF allVars, gateVars, WorkStep
<1> QED
  BY <1>2, <1>3, <1>4, <1>5, <1>6, <1>7, <1>8, GateCases

\* The first remote result of a delivery attempt is kept, and delivered.
THEOREM FirstResultKept == GateSpec => RemoteResultKept
<1>1. GateInit => ResultInv
  <2> SUFFICES ASSUME GateInit PROVE ResultInv
    OBVIOUS
  <2>1. 1..Len(approvals) = {} /\ delivery.approval = 0
    BY DEF GateInit
  <2> QED
    BY <2>1 DEF ResultInv
<1>2. GateSpec => [](GateTypeOK /\ ResultInv)
  BY <1>1, ResultStep, GateTypeCorrect, PTL DEF GateSpec
<1>3. ASSUME GateTypeOK /\ ResultInv, (GateTypeOK /\ ResultInv)', [GateNext]_allVars
      PROVE  [\A n \in 1..Len(approvals) : approvals[n].pr # NoPR =>
                /\ approvals'[n].pr = approvals[n].pr
                /\ delivery'.approval = n /\ delivery'.attempt # 0
                     => delivery'.pr = approvals[n].pr]_allVars
  <2> SUFFICES ASSUME NEW n \in 1..Len(approvals), approvals[n].pr # NoPR
               PROVE  /\ approvals'[n].pr = approvals[n].pr
                      /\ delivery'.approval = n /\ delivery'.attempt # 0
                           => delivery'.pr = approvals[n].pr
    OBVIOUS
  <2>1. /\ approvals'[n].pr = approvals[n].pr /\ n \in 1..Len(approvals') /\ n # 0
    BY <1>3, ApprovalsGrow DEF SameApproval
  <2>2. approvals'[n].intent # "none"
    BY <1>3, <2>1 DEF ResultInv
  <2>3. delivery'.approval = n /\ delivery'.attempt # 0 => delivery'.pr = approvals'[n].pr
    BY <1>3, <2>1, <2>2 DEF ResultInv
  <2> QED
    BY <2>1, <2>3
<1> QED
  BY <1>2, <1>3, PTL DEF GateSpec, RemoteResultKept
=============================================================================
