---------------------------- MODULE DeliveryGate ----------------------------
(***************************************************************************)
(* The mission over its work items, as MissionService (domain.ts) changes  *)
(* it: mission status, approval requests and decisions, the durable intent *)
(* and result of a delivery, and the delivery record.  The work items are  *)
(* those of TicketLifecycle, all of whose calls demand an open mission.    *)
(*                                                                         *)
(* One action is one call whose mutator ran to its end; Saved and          *)
(* Validated are as in TicketLifecycle.                                    *)
(***************************************************************************)
EXTENDS TicketLifecycle

CONSTANTS
  PullRequests,   \* remote pull requests that match an approved target
  NoPR, NoItem,   \* absent pull request, absent work item
  MaxApprovals,   \* bound on the approvals ever requested
  MaxReviews      \* bound per item on the reviews ever recorded

ASSUME GateAssumption ==
  /\ NoPR \notin PullRequests /\ NoItem \notin Items
  /\ MaxApprovals \in Nat /\ MaxReviews \in [Items -> Nat]

VARIABLES
  mission,    \* status of the mission
  reviewed,   \* reviewed[i]: number of the latest review of item i, its id
  approvals,  \* the approvals in the order of their requests, each with its delivery attempt
  delivery    \* the delivery record of the mission

gateVars == <<mission, approvals, delivery>>
allVars == <<vars, reviewed, gateVars>>

MissionStatuses == {"draft", "planning", "executing", "awaiting_approval", "verifying",
                    "delivered", "failed", "blocked"}

\* An approval of the delivery action, what it pins (0: nothing), whether it has not
\* expired, and the delivery attempt recorded under it with its remote result.
Approval == [item: Items \cup {NoItem}, attempt: Nat, handoff: Nat, review: Nat,
             decision: {"pending", "approved", "rejected", "cancelled"}, live: BOOLEAN,
             intent: {"none", "pending", "completed"}, pr: PullRequests \cup {NoPR}]
Delivery == [status: {"none", "delivered", "failed"}, approval: Nat,
             item: Items \cup {NoItem}, attempt: Nat, pr: PullRequests \cup {NoPR}]

GateTypeOK ==
  /\ TypeOK
  /\ mission \in MissionStatuses
  /\ reviewed \in [Items -> Nat]
  /\ approvals \in Seq(Approval)
  /\ delivery \in Delivery

\* createMission has run.
GateInit ==
  /\ Init
  /\ mission = "draft"
  /\ reviewed = [i \in Items |-> 0]
  /\ approvals = <<>>
  /\ delivery = [status |-> "none", approval |-> 0, item |-> NoItem, attempt |-> 0, pr |-> NoPR]

-----------------------------------------------------------------------------
(* Guards of the calls.                                                    *)

\* Mutation of Open: a failed mission still takes calls.
OpenUnlessDelivered == mission # "delivered"
Open == mission \notin {"delivered", "failed"}   \* ensureOpen

\* productDeliveryWorkItems
ProductItems == {i \in Present : plan[i].role # "reviewer"}

\* A mission goes to a gate when every product item is completed or, for an
\* implementer, waits at that gate; without product items, when all is completed.
QueueReady(atGate) ==
  IF ProductItems = {} THEN AllComplete(Present)
  ELSE \A i \in ProductItems :
         Completed(status[i]) \/ (Implementer(i) /\ status[i] \in atGate)

QueueApprovalReady == QueueReady({"awaiting_approval"})
QueueVerificationReady == QueueReady({"delivering", "done"})

\* Mutation of QueueDeliveryComplete: only the delivered item is looked at.
DeliveryItemComplete(i, attempt) ==
  /\ Implementer(i) /\ (status[i] = "delivering" \/ Completed(status[i]))
  /\ attempt # 0 => Number(i) = attempt
  /\ Structured(i) => AcceptedReview(i)

\* ensureQueueDeliveryComplete: item i is being delivered and all others are done.
QueueDeliveryComplete(i, attempt) ==
  IF ProductItems = {} THEN AllComplete(Present)
  ELSE /\ Implementer(i) /\ (status[i] = "delivering" \/ Completed(status[i]))
       /\ attempt # 0 => Number(i) = attempt
       /\ AllComplete(ProductItems \ {i})
       /\ Structured(i) => AcceptedReview(i)

\* ensureCurrentApprovalCorrelation: the approval still speaks of the current attempt
\* and, where it pins them, of the latest handoff and the latest, accepting review.
CurrentCorrelation(a) ==
  a.item # NoItem =>
    /\ a.attempt # 0 /\ a.attempt = Number(a.item)
    /\ status[a.item] \in {"awaiting_approval", "delivering"}
    /\ Current(a.item).status = status[a.item]
    /\ a.handoff # 0 => handoff[a.item].id = a.handoff /\ handoff[a.item].attempt = a.attempt
    /\ a.review # 0 => /\ reviewed[a.item] = a.review
                       /\ review[a.item].attempt = a.attempt
                       /\ review[a.item].outcome = "accepted"

\* ensureApprovedAction and ensureApprovedDelivery
Executable(a) == a.decision = "approved" /\ a.live /\ CurrentCorrelation(a)

-----------------------------------------------------------------------------
(* validateMissionState, the part about the mission.  What an approval     *)
(* pins is checked when it is requested: handoffs and reviews do not       *)
(* change once recorded.                                                   *)

ValidApproval(a) ==
  a.item # NoItem => a.item \in Present /\ a.attempt <= Number(a.item)

\* validateDeliveryAttempt: there is a result only of a recorded attempt, and a completed
\* one has it.
ValidDeliveryAttempt(a) ==
  /\ a.pr # NoPR => a.intent # "none"
  /\ a.intent = "completed" => a.pr # NoPR

ValidIntent(n) ==
  LET a == approvals[n] IN
  a.intent # "none" =>
    /\ a.decision = "approved" /\ a.item # NoItem /\ a.attempt = Number(a.item)
    /\ a.intent = "completed" =>
         delivery = [status |-> "delivered", approval |-> n, item |-> a.item,
                     attempt |-> a.attempt, pr |-> a.pr]

ValidDelivery ==
  /\ delivery.status = "delivered" <=> mission = "delivered"
  /\ delivery.approval # 0 =>
       LET a == approvals[delivery.approval] IN
       /\ a.decision = "approved"
       /\ delivery.item # NoItem =>
            a.item = delivery.item /\ delivery.attempt \in {0, a.attempt}

ValidGate ==
  /\ \A n \in 1..Len(approvals) :
       ValidApproval(approvals[n]) /\ ValidDeliveryAttempt(approvals[n]) /\ ValidIntent(n)
  /\ ValidDelivery

GateSaved == Validated => (Valid /\ ValidGate)'

-----------------------------------------------------------------------------
(* The mission and its approvals.                                          *)

MissionEdges ==
  [from \in MissionStatuses |->
     CASE from = "draft" -> {"planning", "blocked"}
       [] from = "planning" -> {"executing", "blocked", "failed"}
       [] from = "executing" -> {"awaiting_approval", "verifying", "blocked", "failed"}
       [] from = "awaiting_approval" -> {"verifying", "blocked", "failed"}
       [] from = "verifying" -> {"awaiting_approval", "delivered", "blocked", "failed"}
       [] from = "blocked" -> {"planning", "executing", "failed"}
       [] from \in {"delivered", "failed"} -> {}]

\* transitionMission: only a delivery record makes a mission delivered.
TransitionMission(to) ==
  /\ to \in MissionEdges[mission] \ {"delivered"}
  /\ to = "awaiting_approval" => QueueApprovalReady
  /\ to = "verifying" => QueueVerificationReady
  /\ mission' = to
  /\ UNCHANGED <<vars, reviewed, approvals, delivery>>
  /\ GateSaved

\* What callers pin of an item: its attempt, or that with its latest handoff and review.
Pins(i) == {<<Number(i), 0, 0>>, <<Number(i), handoff[i].id, reviewed[i]>>}

\* requestApproval and requestActionApproval, for the delivery of item i or unbound; the
\* validation refuses to pin a handoff or a review of another attempt.
RequestApproval(i, pins) ==
  /\ Open /\ Len(approvals) < MaxApprovals
  /\ i # NoItem => /\ i \in Present
                   /\ pins[2] # 0 => handoff[i].attempt = pins[1]
                   /\ pins[3] # 0 => review[i].attempt = pins[1]
  /\ approvals' = Append(approvals,
       [item |-> i, attempt |-> pins[1], handoff |-> pins[2], review |-> pins[3],
        decision |-> "pending", live |-> TRUE, intent |-> "none", pr |-> NoPR])
  /\ UNCHANGED <<vars, reviewed, mission, delivery>>
  /\ GateSaved

\* Mutation of Decidable: a decision can be revised.
Revisable(a, decision) == decision = "approved" => a.live
Decidable(a, decision) == a.decision = "pending" /\ (decision = "approved" => a.live)

DecideApproval(n, decision) ==
  /\ Open
  /\ Decidable(approvals[n], decision)
  /\ approvals' = [approvals EXCEPT ![n].decision = decision]
  /\ UNCHANGED <<vars, reviewed, mission, delivery>>
  /\ GateSaved

\* Fifteen minutes have passed since the approval was requested.
Expire(n) ==
  /\ approvals[n].live
  /\ approvals' = [approvals EXCEPT ![n].live = FALSE]
  /\ UNCHANGED <<vars, reviewed, mission, delivery>>

-----------------------------------------------------------------------------
(* The delivery.                                                           *)

\* recordDeliveryAttempt: a second call finds the attempt recorded and changes nothing.
RecordDeliveryAttempt(n) ==
  /\ Open
  /\ Executable(approvals[n]) /\ approvals[n].item # NoItem
  /\ approvals[n].intent = "none"
  /\ approvals' = [approvals EXCEPT ![n].intent = "pending"]
  /\ UNCHANGED <<vars, reviewed, mission, delivery>>
  /\ GateSaved

\* Mutation of FirstResult: a later result replaces the recorded one.
AnyResult(n) == approvals[n].intent # "none"
FirstResult(n) == approvals[n].intent # "none" /\ approvals[n].pr = NoPR

\* recordDeliveryAttemptResult: the first result stays, whatever became of the mission.
RecordDeliveryAttemptResult(n, pr) ==
  /\ FirstResult(n)
  /\ approvals' = [approvals EXCEPT ![n].pr = pr]
  /\ UNCHANGED <<vars, reviewed, mission, delivery>>
  /\ GateSaved

\* Mutation of DeliveredStatus: the attempt gets the status of the mission.
MissionStatusDelivered == "delivered"
DeliveredStatus == "done"

\* The delivered item is done, and its attempt with it.
Delivered(i) ==
  IF i # NoItem /\ ProductItems # {} /\ status[i] = "delivering"
  THEN /\ attempts' = Tracked(i, DeliveredStatus, requested[i])
       /\ requested' = [requested EXCEPT ![i] = {}]
       /\ status' = [status EXCEPT ![i] = "done"]
       /\ UNCHANGED <<plan, auth, granted, claim, workVars>>
  ELSE UNCHANGED vars

\* The delivery attempt of the approval, if there is one, has this very result.
IntentMatches(n, attempt, pr) ==
  attempt # 0 /\ approvals[n].intent # "none" => approvals[n].pr = pr

\* recordDelivery of the work item i (or unbound) under approval n.
RecordDelivery(n, i, attempt, pr) ==
  /\ Open /\ delivery.status = "none"
  /\ mission = "verifying"
  /\ IF i = NoItem THEN attempt = 0 /\ AllComplete(Present)
     ELSE i \in Present /\ QueueDeliveryComplete(i, attempt)
  /\ Executable(approvals[n])
  /\ i # NoItem => approvals[n].item = i
  /\ attempt # 0 => approvals[n].attempt = attempt
  /\ IntentMatches(n, attempt, pr)
  /\ delivery' = [status |-> "delivered", approval |-> n, item |-> i,
                  attempt |-> attempt, pr |-> pr]
  /\ approvals' = IF attempt # 0 /\ approvals[n].intent # "none"
                  THEN [approvals EXCEPT ![n].intent = "completed"] ELSE approvals
  /\ mission' = "delivered"
  /\ Delivered(i)
  /\ UNCHANGED reviewed
  /\ GateSaved

\* recordDelivery of a failed delivery.
RecordFailedDelivery ==
  /\ Open /\ delivery.status = "none"
  /\ mission \in {"executing", "awaiting_approval", "verifying", "blocked"}
  /\ delivery' = [delivery EXCEPT !.status = "failed"]
  /\ mission' = "failed"
  /\ UNCHANGED <<vars, reviewed, approvals>>
  /\ GateSaved

-----------------------------------------------------------------------------
(* The calls about work items, which demand an open mission.               *)

QueueCall ==
  /\ Open
  /\ \/ \E graph \in Graphs : PersistWorkGraph(graph)
     \/ \E i \in Items : Handle(i)
  /\ UNCHANGED <<reviewed, gateVars>>
  /\ GateSaved

ReviewCall(i) ==
  /\ Open /\ reviewed[i] < MaxReviews[i]
  /\ Judge(i)
  /\ reviewed' = [reviewed EXCEPT ![i] = @ + 1]
  /\ UNCHANGED gateVars
  /\ GateSaved

GateNext ==
  \/ QueueCall
  \/ \E i \in Items : ReviewCall(i)
  \/ \E to \in MissionStatuses : TransitionMission(to)
  \/ RequestApproval(NoItem, <<0, 0, 0>>)
  \/ \E i \in Items : \E pins \in Pins(i) : RequestApproval(i, pins)
  \/ \E n \in 1..Len(approvals) :
       \/ \E d \in {"approved", "rejected", "cancelled"} : DecideApproval(n, d)
       \/ Expire(n)
       \/ RecordDeliveryAttempt(n)
       \/ \E pr \in PullRequests :
            \/ RecordDeliveryAttemptResult(n, pr)
            \/ RecordDelivery(n, NoItem, 0, pr)
            \/ \E i \in Items, attempt \in {0, approvals[n].attempt} :
                 RecordDelivery(n, i, attempt, pr)
  \/ RecordFailedDelivery

GateSpec == GateInit /\ [][GateNext]_allVars

-----------------------------------------------------------------------------
(* Properties.                                                             *)

\* Even when nothing validates their results, the calls keep what validation demands of
\* approvals, delivery attempts, the delivery record and the mission status.
GuardsKeepGateValid == ValidGate

\* What is delivered is what a human approved and a reviewer accepted: the approval was
\* given, the item is done on the approved attempt, its latest handoff has the accepting
\* latest review, both are the approved ones where the approval pins them, and no
\* other product item is unfinished.
DeliveredIsApprovedWork ==
  mission = "delivered" =>
    LET a == approvals[delivery.approval]  i == delivery.item IN
    /\ a.decision = "approved" /\ a.item = i
    /\ AllComplete(ProductItems)
    /\ i # NoItem =>
         /\ a.attempt = Number(i) /\ Current(i).status = "done"
         /\ Structured(i) => AcceptedReview(i)
         /\ a.handoff \in {0, handoff[i].id} /\ a.review \in {0, reviewed[i]}

\* The first remote result of a delivery attempt is never replaced or lost, and a mission
\* that records the attempt's delivery records this very pull request.
RemoteResultKept ==
  [][\A n \in 1..Len(approvals) : approvals[n].pr # NoPR =>
       /\ approvals'[n].pr = approvals[n].pr
       /\ delivery'.approval = n /\ delivery'.attempt # 0 => delivery'.pr = approvals[n].pr]_allVars

\* A human decision is final, and so is the end of a mission: afterwards no ticket, no
\* decision and no delivery changes; only a late remote result may still be noted.
DecisionsAreFinal ==
  [][/\ \A n \in 1..Len(approvals) : approvals[n].decision # "pending" =>
          approvals'[n].decision = approvals[n].decision
     /\ mission \in {"delivered", "failed"} =>
          UNCHANGED <<vars, reviewed, mission, delivery>>]_allVars

\* An implementation is done by a delivery alone: when it is, the mission ended with the
\* delivery of this ticket and of a pull request, a human had approved the delivery of its
\* latest attempt, and a ticket with structured review has the accepting one.  That an
\* agent proves its work, a review or a plan never completes it.  Whether the pull
\* request was read back is not recorded here: DeliveryProtocol tells.
DoneOnlyByApprovedDelivery ==
  \A i \in Items : Implementer(i) /\ status[i] = "done" =>
    LET a == approvals[delivery.approval] IN
    /\ mission = "delivered" /\ delivery.item = i /\ delivery.pr # NoPR
    /\ a.decision = "approved" /\ a.item = i /\ a.attempt = Number(i)
    /\ Structured(i) => AcceptedReview(i)
=============================================================================
