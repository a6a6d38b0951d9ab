------------------------- MODULE DeliveryCallsProofs -------------------------
(***************************************************************************)
(* Proof that DeliveryProtocol implements DeliveryGate: every step of the  *)
(* controller, its operators and the remote side is one call that          *)
(* MissionService admits and saves, or changes nothing that it keeps.      *)
(***************************************************************************)
EXTENDS DeliveryProtocolProofs

-----------------------------------------------------------------------------
(* What the service keeps, as the delivery shows it.                       *)

\* The implementation ticket of the service.
I == "implement"

\* The remote result as the service keeps it.
Pull(result) == IF result THEN "pull" ELSE "none"

\* An approval as the service keeps it: without the held call and the read-back.
Shown(a) == [item |-> I, attempt |-> 1, handoff |-> 1, review |-> 1,
             decision |-> a.decision, live |-> a.live, intent |-> a.intent,
             pr |-> Pull(a.result)]

ShownApprovals == [n \in 1..Len(approvals) |-> Shown(approvals[n])]

ShownDelivery ==
  IF delivery = 0
  THEN [status |-> "none", approval |-> 0, item |-> "none", attempt |-> 0, pr |-> "none"]
  ELSE [status |-> "delivered", approval |-> delivery, item |-> I, attempt |-> 1, pr |-> "pull"]

ShownStatus == [i \in {I} |-> ticket]
ShownAttempt == [auth |-> 1, owner |-> "worker", findings |-> {}, status |-> ticket,
                 retiredBy |-> "none"]
ShownAttempts == [i \in {I} |-> <<ShownAttempt>>]

\* A remote result is noted under a recorded attempt, and an attempt is completed by the
\* record of its delivery.
AttemptsInv ==
  \A n \in 1..Len(approvals) :
    /\ approvals[n].result => approvals[n].intent # "none"
    /\ approvals[n].intent = "completed" => delivery = n

\* What the service's helpers say of the ticket.
LEMMA TicketAsShown ==
  ASSUME ProtocolTypeOK
  PROVE  /\ Gate!Number(I) = 1
         /\ Gate!Current(I) = ShownAttempt
         /\ Gate!Present = {I}
         /\ Gate!Implementer(I)
         /\ Gate!ProductItems = {I}
         /\ Gate!AcceptedReview(I)
<1>1. Gate!Number(I) = 1
  BY DEF Gate!Number, I
<1>2. Gate!Current(I) = ShownAttempt
  BY <1>1 DEF Gate!Current, I, ShownAttempt
<1>3. Gate!Present = {I}
  BY DEF Gate!Present, I, ProtocolTypeOK
<1>4. Gate!Implementer(I)
  BY DEF Gate!Implementer, I
<1>5. Gate!ProductItems = {I}
  BY <1>3 DEF Gate!ProductItems, I
<1>6. Gate!AcceptedReview(I)
  BY <1>1 DEF Gate!AcceptedReview, I
<1> QED
  BY <1>1, <1>2, <1>3, <1>4, <1>5, <1>6

\* The invariants of the delivery are what validation demands of the state.
LEMMA ShownIsValid ==
  ASSUME ProtocolInv, AttemptsInv
  PROVE  Gate!Valid /\ Gate!ValidGate
<1> USE DEF I
<1>0. ProtocolTypeOK /\ ApprovalsInv /\ EndsTogether
  BY DEF ProtocolInv, EndsInv
<1>1. /\ Gate!Number(I) = 1 /\ Gate!Current(I) = ShownAttempt
      /\ Gate!Present = {I} /\ Gate!AcceptedReview(I)
  BY <1>0, TicketAsShown
<1>2. Gate!Valid
  <2>1. Gate!ValidClaim(I)
    BY <1>0, <1>1 DEF Gate!ValidClaim, ProtocolTypeOK, ShownAttempt
  <2>2. Gate!ValidHistory(I)
    BY <1>0, <1>1 DEF Gate!ValidHistory, ProtocolTypeOK, ShownAttempt
  <2>3. Gate!ValidDependencies(I)
    BY DEF Gate!ValidDependencies, Gate!DependenciesComplete, Gate!AllComplete
  <2>4. Gate!ValidReview(I)
    BY <1>1 DEF Gate!ValidReview
  <2>5. Gate!Acyclic([i \in {I} |-> [dependsOn |-> {}, role |-> "implementer",
                                    checked |-> TRUE, scoped |-> TRUE]])
    BY DEF Gate!Acyclic
  <2> QED
    BY <2>1, <2>2, <2>3, <2>4, <2>5 DEF Gate!Valid
<1>3. Len(ShownApprovals) = Len(approvals)
  BY <1>0, LenProperties DEF ShownApprovals, ProtocolTypeOK
<1>4. Gate!ValidGate
  <2>1. ASSUME NEW n \in 1..Len(approvals)
        PROVE  /\ Gate!ValidApproval(Shown(approvals[n]))
               /\ Gate!ValidDeliveryAttempt(Shown(approvals[n]))
               /\ Gate!ValidIntent(n)
    <3> DEFINE a == approvals[n]
    <3>1. /\ a.result => a.intent # "none"
          /\ a.intent # "none" => a.decision = "approved"
          /\ a.intent = "completed" => delivery = n /\ n # 0 /\ a.result
      BY <1>0 DEF ApprovalsInv, ApprovalOK, AttemptsInv, EndsTogether
    <3>2. Gate!ValidApproval(Shown(a))
      BY <1>1 DEF Gate!ValidApproval, Shown
    <3>3. Gate!ValidDeliveryAttempt(Shown(a))
      BY <3>1 DEF Gate!ValidDeliveryAttempt, Shown, Pull
    <3>4. Gate!ValidIntent(n)
      BY <1>1, <3>1 DEF Gate!ValidIntent
    <3> QED
      BY <3>2, <3>3, <3>4
  <2>2. Gate!ValidDelivery
    BY <1>0 DEF Gate!ValidDelivery, ApprovalsInv, ApprovalOK, EndsTogether, ProtocolTypeOK
  <2> QED
    BY <1>3, <2>1, <2>2 DEF Gate!ValidGate, ShownApprovals, Shown, Pull
<1> QED
  BY <1>2, <1>4

-----------------------------------------------------------------------------
(* What a step of the protocol does to what the service keeps.             *)

\* Nothing that the service keeps changes: a process moves, a remote turn is under way, a
\* held call is answered, or a pull request is read back.
Quiet ==
  /\ UNCHANGED <<ticket, mission, delivery>>
  /\ Len(approvals') = Len(approvals)
  /\ \A n \in 1..Len(approvals) : Shown(approvals'[n]) = Shown(approvals[n])

\* Approval n becomes a, and nothing else that the service keeps changes.
Replaced(n, a) ==
  /\ approvals' = [approvals EXCEPT ![n] = a]
  /\ UNCHANGED <<ticket, mission, delivery>>

Requests ==
  /\ Open /\ Len(approvals) < MaxApprovals
  /\ approvals' = Append(approvals, NewApproval)
  /\ UNCHANGED <<ticket, mission, delivery>>

Decides(n, d) == MayDecide(n, d) /\ Replaced(n, [approvals[n] EXCEPT !.decision = d])
Expires(n) == approvals[n].live /\ Replaced(n, [approvals[n] EXCEPT !.live = FALSE])

Intends(n) ==
  /\ Open /\ Executable(n) /\ approvals[n].intent = "none"
  /\ Replaced(n, [approvals[n] EXCEPT !.intent = "pending"])

Results(n) ==
  /\ approvals[n].intent # "none" /\ ~approvals[n].result
  /\ Replaced(n, [approvals[n] EXCEPT !.result = TRUE])

Records(n) ==
  /\ MayRecord(n) /\ ticket = "delivering"
  /\ approvals[n].intent # "none" /\ approvals[n].result
  /\ delivery' = n /\ ticket' = "done" /\ mission' = "delivered"
  /\ approvals' = [approvals EXCEPT ![n] = [approvals[n] EXCEPT !.intent = "completed"]]

TicketGoes(to) ==
  /\ \/ ticket = "awaiting_approval" /\ to = "delivering"
     \/ Active /\ to = "blocked"
  /\ Open /\ ticket' = to
  /\ UNCHANGED <<mission, approvals, delivery>>

MissionGoes(to) ==
  /\ \/ mission = "executing" /\ to = "awaiting_approval" /\ ticket = "awaiting_approval"
     \/ mission = "awaiting_approval" /\ to = "verifying" /\ ticket \in {"delivering", "done"}
     \/ mission \in {"executing", "awaiting_approval", "verifying"} /\ to = "blocked"
  /\ mission' = to
  /\ UNCHANGED <<ticket, approvals, delivery>>

Calls ==
  \/ Requests
  \/ \E n \in 1..Len(approvals) :
       \/ \E d \in {"approved", "rejected", "cancelled"} : Decides(n, d)
       \/ Expires(n) \/ Intends(n) \/ Results(n) \/ Records(n)
  \/ \E to \in {"delivering", "blocked"} : TicketGoes(to)
  \/ \E to \in {"awaiting_approval", "verifying", "blocked"} : MissionGoes(to)

\* A step that leaves approvals, ticket, mission and delivery alone is quiet.
LEMMA SameIsQuiet ==
  ASSUME UNCHANGED storeVars
  PROVE  Quiet
BY DEF storeVars, Quiet

\* A step that changes of an approval only what the service does not keep is quiet.
LEMMA HiddenIsQuiet ==
  ASSUME approvals \in Seq(Approval), NEW n \in 1..Len(approvals), NEW a \in Approval,
         Replaced(n, a), Shown(a) = Shown(approvals[n])
  PROVE  Quiet
<1>1. /\ Len(approvals') = Len(approvals) /\ approvals'[n] = a
      /\ \A k \in 1..Len(approvals) : k # n => approvals'[k] = approvals[k]
  BY ApprovalChanged DEF Replaced
<1> QED
  BY <1>1 DEF Quiet, Replaced

\* A decision of an operator is one.
LEMMA DecidedCalls ==
  ASSUME ProtocolTypeOK, NEW p \in Processes, NEW n \in 1..Len(approvals),
         NEW d \in {"approved", "rejected", "cancelled"}, MayDecide(n, d), Decided(p, n, d)
  PROVE  Decides(n, d)
<1>1. approvals' = [approvals EXCEPT ![n] = [approvals[n] EXCEPT !.decision = d]]
  BY DEF Decided
<1> QED
  BY <1>1 DEF Decided, Decides, Replaced

\* The steps in which only processes and remote turns move.
LEMMA QuietSteps ==
  ASSUME Local \/ Remote
  PROVE  Quiet
BY SameIsQuiet DEF Local, Remote

\* The run, up to the approval gate.
LEMMA RunCalls ==
  ASSUME ProtocolInv,
         \/ RunPrimaryMission \/ PrepareMissionForExecution \/ Choose
         \/ EnsurePrimaryDeliveryApproval \/ Suspend \/ RequestActionApproval
         \/ RequestBeyondBound \/ AwaitApproval
  PROVE  Calls \/ Quiet
<1>1. CASE RequestActionApproval
  <2>1. CASE Open
    BY <1>1, <2>1 DEF RequestActionApproval, Calls, Requests
  <2>2. CASE ~Open
    BY <1>1, <2>2, SameIsQuiet DEF RequestActionApproval, storeVars
  <2> QED
    BY <2>1, <2>2
<1>2. CASE AwaitApproval
  <2>1. CASE mission' = mission
    BY <1>2, <2>1, SameIsQuiet DEF AwaitApproval, storeVars
  <2>2. CASE mission' # mission
    <3>1. MissionGoes("awaiting_approval")
      BY <1>2, <2>2 DEF AwaitApproval, MissionGoes
    <3> QED
      BY <3>1 DEF Calls
  <2> QED
    BY <2>1, <2>2
<1>3. CASE \/ RunPrimaryMission \/ PrepareMissionForExecution \/ Choose
           \/ EnsurePrimaryDeliveryApproval \/ Suspend \/ RequestBeyondBound
  BY <1>3, QuietSteps DEF RunPrimaryMission, PrepareMissionForExecution, Choose,
       EnsurePrimaryDeliveryApproval, Suspend, RequestBeyondBound
<1> QED
  BY <1>1, <1>2, <1>3

\* The decision of an operator.
LEMMA OperatorCalls ==
  ASSUME ProtocolInv, NEW p \in Processes,
         \/ \E n \in 1..Len(approvals), d \in {"approved", "rejected", "cancelled"} :
              DecidePrimaryDelivery(p, n, d)
         \/ \E n \in 1..Len(approvals) : StartApprovalOfHead(p, n)
         \/ RevalidatePrimaryDeliveryHead(p) \/ Deny(p) \/ Denied(p)
  PROVE  Calls \/ Quiet
<1>0. ProtocolTypeOK /\ StepOK(p, proc[p])
  BY DEF ProtocolInv, StepsInv
<1>1. CASE \E n \in 1..Len(approvals), d \in {"approved", "rejected", "cancelled"} :
             DecidePrimaryDelivery(p, n, d)
  BY <1>0, <1>1, DecidedCalls DEF DecidePrimaryDelivery, Calls
<1>2. CASE RevalidatePrimaryDeliveryHead(p)
  <2>1. proc[p].n \in 1..Len(approvals)
    BY <1>0, <1>2 DEF RevalidatePrimaryDeliveryHead, At, StepOK, DecidedStep
  <2>2. CASE MayDecide(proc[p].n, "approved") /\ Decided(p, proc[p].n, "approved")
    BY <1>0, <2>1, <2>2, DecidedCalls DEF Calls
  <2>3. CASE Local
    BY <2>3, QuietSteps
  <2> QED
    BY <1>2, <2>2, <2>3 DEF RevalidatePrimaryDeliveryHead
<1>3. CASE (\E n \in 1..Len(approvals) : StartApprovalOfHead(p, n)) \/ Deny(p) \/ Denied(p)
  BY <1>3, QuietSteps DEF StartApprovalOfHead, Deny, Denied, Send
<1> QED
  BY <1>1, <1>2, <1>3

\* An approval that a process carries out, with what its step says of it.
LEMMA CarriedOut ==
  ASSUME ProtocolInv, NEW p \in Processes, proc[p].step \in AfterDecision
  PROVE  /\ proc[p].n \in 1..Len(approvals) /\ approvals[proc[p].n] \in Approval
         /\ approvals \in Seq(Approval) /\ Len(approvals) \in Nat
BY ElementOfSeq, LenProperties DEF ProtocolInv, ProtocolTypeOK, StepsInv, StepOK, DecidedStep

\* The approved delivery, from the advance of the ticket to its record.
LEMMA DeliveryCalls ==
  ASSUME ProtocolInv, NEW p \in Processes,
         \/ AdvanceTicket(p) \/ ReadMission(p) \/ VerifyMission(p) \/ RecordDeliveryAttempt(p)
         \/ ResolvePullRequestApproval(p) \/ Pushed(p)
         \/ CreatePullRequestAfterPublishedArtifact(p) \/ Created(p)
         \/ ReconcilePullRequestApproval(p) \/ VerifyCreatedPullRequest(p)
         \/ RecordDeliveryAttemptResult(p) \/ RecordDelivery(p)
  PROVE  Calls \/ Quiet
<1> DEFINE n == proc[p].n
           a == approvals[n]
<1>0. StepOK(p, proc[p])
  BY DEF ProtocolInv, StepsInv
<1>1. CASE AdvanceTicket(p)
  <2>1. CASE Advances /\ Open
    <3>1. TicketGoes("delivering")
      BY <1>1, <2>1 DEF AdvanceTicket, Advances, TicketGoes
    <3> QED
      BY <3>1 DEF Calls
  <2>2. CASE ~(Advances /\ Open)
    BY <1>1, <2>2, SameIsQuiet DEF AdvanceTicket, storeVars
  <2> QED
    BY <2>1, <2>2
<1>2. CASE VerifyMission(p)
  <2>1. CASE mission = "awaiting_approval" /\ ticket \in {"delivering", "done"}
    <3>1. MissionGoes("verifying")
      BY <1>2, <2>1 DEF VerifyMission, MissionGoes
    <3> QED
      BY <3>1 DEF Calls
  <2>2. CASE ~(mission = "awaiting_approval" /\ ticket \in {"delivering", "done"})
    BY <1>2, <2>2, SameIsQuiet DEF VerifyMission, storeVars
  <2> QED
    BY <2>1, <2>2
<1>3. CASE RecordDeliveryAttempt(p)
  <2>1. n \in 1..Len(approvals) /\ a \in Approval /\ approvals \in Seq(Approval)
    BY <1>3, CarriedOut DEF RecordDeliveryAttempt, At, AfterDecision
  <2>2. CASE Open /\ Executable(n) /\ a.intent = "none"
    <3>1. approvals' = [approvals EXCEPT ![n] = [a EXCEPT !.intent = "pending"]]
      BY <1>3, <2>2 DEF RecordDeliveryAttempt
    <3>2. Intends(n)
      BY <1>3, <2>2, <3>1 DEF RecordDeliveryAttempt, Intends, Replaced
    <3> QED
      BY <2>1, <3>2 DEF Calls
  <2>3. CASE Open /\ Executable(n) /\ a.intent # "none"
    <3>1. approvals' = [approvals EXCEPT ![n] = [a EXCEPT !.intent = a.intent]]
      BY <1>3, <2>3 DEF RecordDeliveryAttempt
    <3>2. [a EXCEPT !.intent = a.intent] = a
      BY <2>1 DEF Approval
    <3>3. Replaced(n, a)
      BY <1>3, <3>1, <3>2 DEF RecordDeliveryAttempt, Replaced
    <3> QED
      BY <2>1, <3>3, HiddenIsQuiet
  <2>4. CASE ~(Open /\ Executable(n))
    BY <1>3, <2>4, SameIsQuiet DEF RecordDeliveryAttempt, storeVars
  <2> QED
    BY <2>2, <2>3, <2>4
<1>4. CASE VerifyCreatedPullRequest(p)
  <2>1. n \in 1..Len(approvals) /\ a \in Approval /\ approvals \in Seq(Approval)
    BY <1>4, CarriedOut DEF VerifyCreatedPullRequest, At, AfterDecision, UnderIntent
  <2>2. CASE approvals' = [approvals EXCEPT ![n].readback = TRUE]
    <3>1. Replaced(n, [a EXCEPT !.readback = TRUE])
      BY <1>4, <2>2 DEF VerifyCreatedPullRequest, Replaced
    <3>2. [a EXCEPT !.readback = TRUE] \in Approval
      BY <2>1 DEF Approval
    <3>3. Shown([a EXCEPT !.readback = TRUE]) = Shown(a)
      BY <2>1 DEF Shown, Approval
    <3> QED
      BY <2>1, <3>1, <3>2, <3>3, HiddenIsQuiet
  <2>3. CASE UNCHANGED approvals
    BY <1>4, <2>3, SameIsQuiet DEF VerifyCreatedPullRequest, storeVars
  <2> QED
    BY <1>4, <2>2, <2>3 DEF VerifyCreatedPullRequest
<1>5. CASE RecordDeliveryAttemptResult(p)
  <2>1. n \in 1..Len(approvals) /\ a \in Approval /\ approvals \in Seq(Approval)
    BY <1>5, CarriedOut DEF RecordDeliveryAttemptResult, At, AfterDecision, UnderIntent
  <2>2. a.intent # "none"
    BY <1>0, <1>5 DEF RecordDeliveryAttemptResult, At, StepOK, IntendedStep, UnderIntent
  <2>3. Replaced(n, [a EXCEPT !.result = TRUE])
    BY <1>5 DEF RecordDeliveryAttemptResult, Replaced
  <2>4. CASE ~a.result
    BY <2>1, <2>2, <2>3, <2>4 DEF Calls, Results
  <2>5. CASE a.result
    <3>1. [a EXCEPT !.result = TRUE] = a
      BY <2>1, <2>5 DEF Approval
    <3> QED
      BY <2>1, <2>3, <3>1, HiddenIsQuiet
  <2> QED
    BY <2>4, <2>5
<1>6. CASE RecordDelivery(p)
  <2>1. n \in 1..Len(approvals)
    BY <1>6, CarriedOut DEF RecordDelivery, At, AfterDecision, UnderIntent
  <2>2. a.intent # "none" /\ a.result
    BY <1>0, <1>6 DEF RecordDelivery, At, StepOK, IntendedStep, OpenedStep, UnderIntent
  <2>3. CASE MayRecord(n) /\ ticket = "delivering"
    <3>1. Records(n)
      BY <1>6, <2>2, <2>3 DEF RecordDelivery, Records
    <3> QED
      BY <2>1, <3>1 DEF Calls
  <2>4. CASE ~(MayRecord(n) /\ ticket = "delivering")
    BY <1>6, <2>4, SameIsQuiet DEF RecordDelivery
  <2> QED
    BY <2>3, <2>4
<1>7. CASE \/ ReadMission(p) \/ ResolvePullRequestApproval(p) \/ Pushed(p)
           \/ CreatePullRequestAfterPublishedArtifact(p) \/ Created(p)
           \/ ReconcilePullRequestApproval(p)
  BY <1>7, QuietSteps DEF ReadMission, ResolvePullRequestApproval, Pushed,
       CreatePullRequestAfterPublishedArtifact, Created, ReconcilePullRequestApproval, Send
<1> QED
  BY <1>1, <1>2, <1>3, <1>4, <1>5, <1>6, <1>7

\* Blocking the ticket and the mission.
LEMMA BlockCalls ==
  ASSUME ProtocolInv, NEW p \in Processes,
         \/ ReadTicketToBlock(p) \/ BlockTicket(p) \/ ReadMissionToBlock(p) \/ BlockMission(p)
  PROVE  Calls \/ Quiet
<1>1. CASE BlockTicket(p)
  <2>1. CASE Active
    <3>1. Open
      BY <2>1 DEF Active, Open, ProtocolInv, EndsInv, EndsTogether
    <3>2. TicketGoes("blocked")
      BY <1>1, <2>1, <3>1 DEF BlockTicket, TicketGoes
    <3> QED
      BY <3>2 DEF Calls
  <2>2. CASE ~Active
    BY <1>1, <2>2, SameIsQuiet DEF BlockTicket, storeVars
  <2> QED
    BY <2>1, <2>2
<1>2. CASE BlockMission(p)
  <2>1. CASE mission \in {"blocked", "delivered"}
    BY <1>2, <2>1, SameIsQuiet DEF BlockMission, storeVars
  <2>2. CASE mission \notin {"blocked", "delivered"}
    <3>1. mission \in {"executing", "awaiting_approval", "verifying"}
      BY <2>2 DEF ProtocolInv, ProtocolTypeOK
    <3>2. MissionGoes("blocked")
      BY <1>2, <2>2, <3>1 DEF BlockMission, MissionGoes
    <3> QED
      BY <3>2 DEF Calls
  <2> QED
    BY <2>1, <2>2
<1>3. CASE ReadTicketToBlock(p) \/ ReadMissionToBlock(p)
  BY <1>3, QuietSteps DEF ReadTicketToBlock, ReadMissionToBlock
<1> QED
  BY <1>1, <1>2, <1>3

\* The remote side, the clock and the crash.
LEMMA WorldCalls ==
  ASSUME ProtocolInv,
         \/ \E p \in Processes : LoseAnswer(p)
         \/ \E t \in turns : Serve(t)
         \/ \E n \in 1..Len(approvals) : Expire(n)
         \/ Crash \/ Push
  PROVE  Calls \/ Quiet
<1>0. ProtocolTypeOK
  BY DEF ProtocolInv
<1>1. CASE \E t \in turns : Serve(t)
  <2> PICK t \in turns : Serve(t)
    BY <1>1
  <2> DEFINE c == IF t.op = "deny" THEN "denied" ELSE "allowed"
             a == approvals[t.n]
  <2>1. t.n \in 1..Len(approvals)
    BY DEF ProtocolInv, TurnsInv, TurnOK
  <2>2. a \in Approval /\ approvals \in Seq(Approval)
    BY <1>0, <2>1, ElementOfSeq DEF ProtocolTypeOK
  <2>3. CASE approvals' = approvals
    BY <2>3, SameIsQuiet DEF Serve, storeVars
  <2>4. CASE approvals' = [approvals EXCEPT ![t.n].call = c]
    <3>1. Replaced(t.n, [a EXCEPT !.call = c])
      BY <2>4 DEF Serve, Replaced
    <3>2. [a EXCEPT !.call = c] \in Approval
      BY <2>2 DEF Approval
    <3>3. Shown([a EXCEPT !.call = c]) = Shown(a)
      BY <2>2 DEF Shown, Approval
    <3> QED
      BY <2>1, <2>2, <3>1, <3>2, <3>3, HiddenIsQuiet
  <2> QED
    BY <2>3, <2>4 DEF Serve
<1>2. CASE \E n \in 1..Len(approvals) : Expire(n)
  <2> PICK n \in 1..Len(approvals) : Expire(n)
    BY <1>2
  <2>1. Expires(n)
    BY DEF Expire, Expires, Replaced
  <2> QED
    BY <2>1 DEF Calls
<1>3. CASE (\E p \in Processes : LoseAnswer(p)) \/ Crash \/ Push
  BY <1>3, QuietSteps, SameIsQuiet DEF LoseAnswer, Crash, Push
<1> QED
  BY <1>1, <1>2, <1>3

\* Every step of the protocol is a call, or quiet.
LEMMA NextCalls ==
  ASSUME ProtocolInv, [Next]_protocolVars
  PROVE  Calls \/ Quiet
<1>1. CASE RunPrimaryMission
  BY <1>1, RunCalls
<1>2. ASSUME NEW p \in Operators, NEW n \in 1..Len(approvals),
             \/ \E d \in {"approved", "rejected", "cancelled"} : DecidePrimaryDelivery(p, n, d)
             \/ StartApprovalOfHead(p, n)
      PROVE  Calls \/ Quiet
  <2>1. p \in Processes
    BY DEF Processes
  <2> QED
    BY <1>2, <2>1, OperatorCalls
<1>3. ASSUME NEW p \in Processes, Continue(p) PROVE Calls \/ Quiet
  BY <1>3, RunCalls, OperatorCalls, DeliveryCalls, BlockCalls DEF Continue
<1>4. CASE \/ \E p \in Processes : LoseAnswer(p)
           \/ \E t \in turns : Serve(t)
           \/ \E n \in 1..Len(approvals) : Expire(n)
           \/ Crash \/ Push
  BY <1>4, WorldCalls
<1>5. CASE UNCHANGED protocolVars
  BY <1>5, SameIsQuiet DEF protocolVars, storeVars
<1> QED
  BY <1>1, <1>2, <1>3, <1>4, <1>5 DEF Next

-----------------------------------------------------------------------------
(* The delivery attempts.                                                  *)

\* The one approval that changes, in its new form.
LEMMA ReplacedShape ==
  ASSUME ProtocolTypeOK, NEW n \in 1..Len(approvals), NEW a \in Approval,
         approvals' = [approvals EXCEPT ![n] = a]
  PROVE  /\ Len(approvals') = Len(approvals) /\ approvals'[n] = a
         /\ \A k \in 1..Len(approvals) : k # n => approvals'[k] = approvals[k]
BY ApprovalChanged DEF ProtocolTypeOK

\* An approval that changes in one field is one still, and the other fields stay.
LEMMA ApprovalFields ==
  ASSUME NEW a \in Approval
  PROVE  /\ \A d \in {"pending", "approved", "rejected", "cancelled"} :
              /\ [a EXCEPT !.decision = d] \in Approval
              /\ Shown([a EXCEPT !.decision = d]) = [Shown(a) EXCEPT !.decision = d]
              /\ [a EXCEPT !.decision = d].intent = a.intent
              /\ [a EXCEPT !.decision = d].result <=> a.result
         /\ /\ [a EXCEPT !.live = FALSE] \in Approval
            /\ Shown([a EXCEPT !.live = FALSE]) = [Shown(a) EXCEPT !.live = FALSE]
            /\ [a EXCEPT !.live = FALSE].intent = a.intent
            /\ [a EXCEPT !.live = FALSE].result <=> a.result
         /\ \A x \in {"pending", "completed"} :
              /\ [a EXCEPT !.intent = x] \in Approval
              /\ Shown([a EXCEPT !.intent = x]) = [Shown(a) EXCEPT !.intent = x]
              /\ [a EXCEPT !.intent = x].intent = x
              /\ [a EXCEPT !.intent = x].result <=> a.result
         /\ /\ [a EXCEPT !.result = TRUE] \in Approval
            /\ Shown([a EXCEPT !.result = TRUE]) = [Shown(a) EXCEPT !.pr = "pull"]
            /\ [a EXCEPT !.result = TRUE].intent = a.intent
            /\ [a EXCEPT !.result = TRUE].result
<1>1. ASSUME NEW d \in {"pending", "approved", "rejected", "cancelled"}
      PROVE  /\ [a EXCEPT !.decision = d] \in Approval
             /\ Shown([a EXCEPT !.decision = d]) = [Shown(a) EXCEPT !.decision = d]
             /\ [a EXCEPT !.decision = d].intent = a.intent
             /\ [a EXCEPT !.decision = d].result <=> a.result
  BY DEF Approval, Shown
<1>2. /\ [a EXCEPT !.live = FALSE] \in Approval
      /\ Shown([a EXCEPT !.live = FALSE]) = [Shown(a) EXCEPT !.live = FALSE]
      /\ [a EXCEPT !.live = FALSE].intent = a.intent
      /\ [a EXCEPT !.live = FALSE].result <=> a.result
  <2> DEFINE b == [a EXCEPT !.live = FALSE]
  <2>1. b \in Approval
    BY DEF Approval
  <2>2. /\ b.intent = a.intent /\ (b.result <=> a.result) /\ b.live = FALSE
        /\ b.decision = a.decision
    BY DEF Approval
  <2> HIDE DEF b
  <2>3. Pull(b.result) = Pull(a.result)
    BY <2>2 DEF Pull
  <2>4. Shown(b) = [Shown(a) EXCEPT !.live = FALSE]
    <3> DEFINE q == Pull(a.result)
    <3>1. Shown(b) = [item |-> I, attempt |-> 1, handoff |-> 1, review |-> 1,
                      decision |-> a.decision, live |-> FALSE, intent |-> a.intent, pr |-> q]
      BY <2>2, <2>3, Zenon DEF Shown
    <3>2. Shown(a) = [item |-> I, attempt |-> 1, handoff |-> 1, review |-> 1,
                      decision |-> a.decision, live |-> a.live, intent |-> a.intent, pr |-> q]
      BY Zenon DEF Shown
    <3> HIDE DEF q
    <3>3. \A x : [Shown(a) EXCEPT !.live = x]
                  = [item |-> I, attempt |-> 1, handoff |-> 1, review |-> 1,
                     decision |-> a.decision, live |-> x, intent |-> a.intent, pr |-> q]
      BY <3>2
    <3> QED
      BY <3>1, <3>3, Zenon
  <2> QED
    BY <2>1, <2>2, <2>4 DEF b
<1>3. ASSUME NEW x \in {"pending", "completed"}
      PROVE  /\ [a EXCEPT !.intent = x] \in Approval
             /\ Shown([a EXCEPT !.intent = x]) = [Shown(a) EXCEPT !.intent = x]
             /\ [a EXCEPT !.intent = x].intent = x
             /\ [a EXCEPT !.intent = x].result <=> a.result
  BY DEF Approval, Shown
<1>4. /\ [a EXCEPT !.result = TRUE] \in Approval
      /\ Shown([a EXCEPT !.result = TRUE]) = [Shown(a) EXCEPT !.pr = "pull"]
      /\ [a EXCEPT !.result = TRUE].intent = a.intent
      /\ [a EXCEPT !.result = TRUE].result
  <2> DEFINE b == [a EXCEPT !.result = TRUE]
  <2>1. b \in Approval
    BY DEF Approval
  <2>2. /\ b.intent = a.intent /\ b.result = TRUE /\ b.live = a.live
        /\ b.decision = a.decision
    BY DEF Approval
  <2> HIDE DEF b
  <2>3. Shown(b) = [Shown(a) EXCEPT !.pr = "pull"]
    BY <2>2 DEF Shown, Pull
  <2> QED
    BY <2>1, <2>2, <2>3 DEF b
<1> QED
  BY <1>1, <1>2, <1>3, <1>4

\* The history after a request.
LEMMA RequestShape ==
  ASSUME ProtocolTypeOK, approvals' = Append(approvals, NewApproval)
  PROVE  /\ Len(approvals) \in Nat /\ Len(approvals') = Len(approvals) + 1
         /\ approvals'[Len(approvals) + 1] = NewApproval
         /\ \A k \in 1..Len(approvals) : approvals'[k] = approvals[k]
<1>1. NewApproval \in Approval /\ approvals \in Seq(Approval)
  BY DEF NewApproval, Approval, ProtocolTypeOK
<1> QED
  BY <1>1, AppendProperties, LenProperties

\* No call notes a result without its attempt, or completes an attempt without the record.
LEMMA AttemptsKept ==
  ASSUME ProtocolInv, AttemptsInv, Calls \/ Quiet
  PROVE  AttemptsInv'
<1>0. ProtocolTypeOK
  BY DEF ProtocolInv
<1>1. CASE Quiet
  <2>1. ASSUME NEW n \in 1..Len(approvals)
        PROVE  /\ approvals'[n].intent = approvals[n].intent
               /\ approvals'[n].result => approvals[n].result
    <3>1. Shown(approvals'[n]) = Shown(approvals[n])
      BY <1>1 DEF Quiet
    <3> DEFINE b == approvals'[n]
    <3>2. Shown(b).intent = b.intent /\ Shown(b).pr = IF b.result THEN "pull" ELSE "none"
      BY DEF Shown, Pull
    <3>3. /\ Shown(approvals[n]).intent = approvals[n].intent
          /\ Shown(approvals[n]).pr = IF approvals[n].result THEN "pull" ELSE "none"
      BY DEF Shown, Pull
    <3> QED
      BY <3>1, <3>2, <3>3
  <2> QED
    BY <1>1, <2>1 DEF Quiet, AttemptsInv
<1>2. CASE Requests
  <2>1. approvals' = Append(approvals, NewApproval) /\ delivery' = delivery
    BY <1>2 DEF Requests
  <2>2. \A n \in 1..Len(approvals') : n \in 1..Len(approvals) \/ approvals'[n] = NewApproval
    BY <1>0, <2>1, RequestShape
  <2>3. NewApproval.intent = "none" /\ NewApproval.result = FALSE
    BY DEF NewApproval
  <2> QED
    BY <1>0, <2>1, <2>2, <2>3, RequestShape DEF AttemptsInv
<1>3. ASSUME NEW n \in 1..Len(approvals), NEW a \in Approval,
             approvals' = [approvals EXCEPT ![n] = a],
             delivery' = delivery \/ delivery = 0,
             a.result => a.intent # "none",
             a.intent = "completed" => delivery' = n
      PROVE  AttemptsInv'
  <2>1. /\ Len(approvals') = Len(approvals) /\ approvals'[n] = a
        /\ \A k \in 1..Len(approvals) : k # n => approvals'[k] = approvals[k]
    BY <1>0, <1>3, ReplacedShape
  <2> QED
    BY <1>3, <2>1 DEF AttemptsInv
<1>4. ASSUME NEW n \in 1..Len(approvals),
             \/ \E d \in {"approved", "rejected", "cancelled"} : Decides(n, d)
             \/ Expires(n) \/ Intends(n) \/ Results(n) \/ Records(n)
      PROVE  AttemptsInv'
  <2> DEFINE a == approvals[n]
  <2>0. /\ a \in Approval /\ n # 0
        /\ a.result => a.intent # "none"
        /\ a.intent = "completed" => delivery = n
    BY <1>0, ElementOfSeq DEF ProtocolTypeOK, AttemptsInv
  <2> HIDE DEF a
  <2>1. ASSUME NEW d \in {"approved", "rejected", "cancelled"}, Decides(n, d)
        PROVE  AttemptsInv'
    <3> DEFINE b == [a EXCEPT !.decision = d]
    <3>0. d \in {"pending", "approved", "rejected", "cancelled"}
      OBVIOUS
    <3>1. b \in Approval /\ b.intent = a.intent /\ (b.result <=> a.result)
      BY <2>0, <3>0, ApprovalFields, Zenon
    <3>2. approvals' = [approvals EXCEPT ![n] = b] /\ delivery' = delivery
      BY <2>1 DEF Decides, Replaced, a
    <3> HIDE DEF b
    <3> QED
      BY <1>3, <2>0, <3>1, <3>2
  <2>2. CASE Expires(n)
    BY <1>3, <2>0, <2>2, ApprovalFields DEF Expires, Replaced, a
  <2>3. CASE Intends(n)
    BY <1>3, <2>0, <2>3, ApprovalFields DEF Intends, Replaced, a
  <2>4. CASE Results(n)
    <3> DEFINE b == [a EXCEPT !.result = TRUE]
    <3>1. b \in Approval /\ b.intent = a.intent
      BY <2>0, ApprovalFields
    <3>2. /\ approvals' = [approvals EXCEPT ![n] = b] /\ delivery' = delivery
          /\ a.intent # "none"
      BY <2>4 DEF Results, Replaced, a
    <3> HIDE DEF b
    <3> QED
      BY <1>3, <2>0, <3>1, <3>2
  <2>5. CASE Records(n)
    BY <1>3, <2>0, <2>5, ApprovalFields DEF Records, MayRecord, a
  <2> QED
    BY <1>4, <2>1, <2>2, <2>3, <2>4, <2>5
<1>5. CASE \/ \E to \in {"delivering", "blocked"} : TicketGoes(to)
           \/ \E to \in {"awaiting_approval", "verifying", "blocked"} : MissionGoes(to)
  BY <1>5 DEF TicketGoes, MissionGoes, AttemptsInv
<1> QED
  BY <1>1, <1>2, <1>4, <1>5 DEF Calls

\* The attempts are in order in every reachable state.
LEMMA AttemptsInvariant == Spec => []AttemptsInv
<1>1. Init => AttemptsInv
  <2> SUFFICES ASSUME Init, NEW n \in 1..Len(approvals)
               PROVE  approvals[n].result = FALSE /\ approvals[n].intent = "none"
    BY DEF AttemptsInv
  <2>1. CASE kind = "head"
    <3>1. approvals = <<NewApproval>> /\ n = 1
      BY <2>1 DEF Init
    <3> QED
      BY <3>1 DEF NewApproval
  <2>2. CASE kind # "head"
    BY <2>2 DEF Init
  <2> QED
    BY <2>1, <2>2
<1>2. ProtocolInv /\ AttemptsInv /\ [Next]_protocolVars => AttemptsInv'
  BY NextCalls, AttemptsKept
<1> QED
  BY <1>1, <1>2, ProtocolInvariant, PTL DEF Spec

-----------------------------------------------------------------------------
(* Each call is one of the service.                                        *)

\* The history as shown has the length of the history.
LEMMA ShownLength ==
  ASSUME ProtocolTypeOK
  PROVE  /\ ShownApprovals \in Seq({Shown(a) : a \in Approval})
         /\ Len(ShownApprovals) = Len(approvals) /\ Len(approvals) \in Nat
         /\ \A n \in 1..Len(approvals) :
              ShownApprovals[n] = Shown(approvals[n]) /\ approvals[n] \in Approval
<1>1. /\ Len(approvals) \in Nat
      /\ \A n \in 1..Len(approvals) : approvals[n] \in Approval
  BY ElementOfSeq, LenProperties DEF ProtocolTypeOK
<1>2. ShownApprovals \in [1..Len(approvals) -> {Shown(a) : a \in Approval}]
  BY <1>1 DEF ShownApprovals
<1>3. ShownApprovals \in Seq({Shown(a) : a \in Approval})
  BY <1>1, <1>2, SeqDef
<1>4. Len(ShownApprovals) = Len(approvals)
  BY <1>1, <1>2, <1>3, LenProperties
<1> QED
  BY <1>1, <1>3, <1>4 DEF ShownApprovals

\* A step that leaves the ticket alone leaves all of the service's work items alone.
LEMMA SameTicket ==
  ASSUME ticket' = ticket
  PROVE  UNCHANGED Gate!vars
BY DEF Gate!vars

\* A quiet step changes nothing that the service keeps.
LEMMA QuietShown ==
  ASSUME Quiet
  PROVE  UNCHANGED Gate!allVars
<1>1. ShownApprovals' = ShownApprovals
  BY DEF ShownApprovals, Quiet
<1>2. UNCHANGED Gate!vars
  BY SameTicket DEF Quiet
<1>3. UNCHANGED <<mission, ShownDelivery>>
  BY DEF Quiet, ShownDelivery
<1> QED
  BY <1>1, <1>2, <1>3 DEF Gate!allVars, Gate!gateVars, ShownApprovals, ShownDelivery, Shown,
                          Pull, I

\* One approval changes.
LEMMA ChangedShown ==
  ASSUME ProtocolTypeOK, NEW n \in 1..Len(approvals), NEW a \in Approval,
         approvals' = [approvals EXCEPT ![n] = a]
  PROVE  ShownApprovals' = [ShownApprovals EXCEPT ![n] = Shown(a)]
<1>1. /\ Len(approvals') = Len(approvals) /\ approvals'[n] = a
      /\ \A k \in 1..Len(approvals) : k # n => approvals'[k] = approvals[k]
  BY ReplacedShape
<1>2. ShownApprovals' = [k \in 1..Len(approvals) |-> Shown(approvals'[k])]
  BY <1>1 DEF ShownApprovals
<1>3. \A k \in 1..Len(approvals) :
        Shown(approvals'[k]) = IF k = n THEN Shown(a) ELSE Shown(approvals[k])
  BY <1>1
<1> QED
  BY <1>2, <1>3 DEF ShownApprovals

\* One approval is requested.
LEMMA RequestShown ==
  ASSUME ProtocolTypeOK, ProtocolTypeOK', approvals' = Append(approvals, NewApproval)
  PROVE  ShownApprovals' = Append(ShownApprovals, Shown(NewApproval))
<1> DEFINE s == Append(ShownApprovals, Shown(NewApproval))
           S == {Shown(a) : a \in Approval}
<1>1. /\ ShownApprovals \in Seq(S) /\ Len(ShownApprovals) = Len(approvals)
      /\ Len(approvals) \in Nat
  BY ShownLength
<1>2. NewApproval \in Approval
  BY DEF NewApproval, Approval
<1>3. Shown(NewApproval) \in S
  BY <1>2
<1>4. /\ s \in Seq(S) /\ Len(s) = Len(approvals) + 1
      /\ s[Len(approvals) + 1] = Shown(NewApproval)
      /\ \A k \in 1..Len(approvals) : s[k] = ShownApprovals[k]
  BY <1>1, <1>3, AppendProperties
<1>5. /\ Len(approvals') = Len(approvals) + 1
      /\ approvals'[Len(approvals) + 1] = NewApproval
      /\ \A k \in 1..Len(approvals) : approvals'[k] = approvals[k]
  BY RequestShape
<1>6. s = [k \in 1..(Len(approvals) + 1) |-> s[k]]
  BY <1>4, LenProperties
<1>7. \A k \in 1..(Len(approvals) + 1) : s[k] = Shown(approvals'[k])
  <2> SUFFICES ASSUME NEW k \in 1..(Len(approvals) + 1) PROVE s[k] = Shown(approvals'[k])
    OBVIOUS
  <2>1. k \in 1..Len(approvals) \/ k = Len(approvals) + 1
    BY <1>1
  <2>2. CASE k \in 1..Len(approvals)
    BY <1>4, <1>5, <2>2 DEF ShownApprovals
  <2>3. CASE k = Len(approvals) + 1
    BY <1>4, <1>5, <2>3
  <2> QED
    BY <2>1, <2>2, <2>3
<1>8. ShownApprovals' = [k \in 1..(Len(approvals) + 1) |-> Shown(approvals'[k])]
  BY <1>5 DEF ShownApprovals
<1> QED
  BY <1>6, <1>7, <1>8

\* updateCurrentAttempt: the attempt follows the ticket.
LEMMA TrackedShown ==
  ASSUME NEW to, ticket' = to
  PROVE  ShownAttempts' = Gate!Tracked(I, to, {})
<1> DEFINE a == [Gate!Current(I) EXCEPT !.status = to,
                                        !.findings = IF {} = {} THEN @ ELSE {}]
<1>1. Gate!Current(I) = ShownAttempt
  BY DEF Gate!Current, Gate!Number, I, ShownAttempt
<1>2. a = ShownAttempt'
  <2>1. ShownAttempt.findings = {}
    BY DEF ShownAttempt
  <2>2. a = [[ShownAttempt EXCEPT !.status = to] EXCEPT !.findings = {}]
    BY <1>1, <2>1, Zenon
  <2>3. [ShownAttempt EXCEPT !.status = to] = ShownAttempt'
    BY DEF ShownAttempt
  <2>4. [ShownAttempt' EXCEPT !.findings = {}] = ShownAttempt'
    BY DEF ShownAttempt
  <2> QED
    BY <2>2, <2>3, <2>4
<1>3. Gate!WithCurrent(I, a) = [i \in {I} |-> <<a>>]
  <2> HIDE DEF a
  <2> QED
    BY DEF Gate!WithCurrent, I
<1>4. Gate!Tracked(I, to, {}) = Gate!WithCurrent(I, a)
  BY DEF Gate!Tracked, I
<1> QED
  BY <1>2, <1>3, <1>4 DEF ShownAttempts

\* Validation lets the result of the step be saved.
SavedStep == (Gate!Valid /\ Gate!ValidGate)'

\* Whether the mission is open, and an approval may be carried out, as the service asks.
LEMMA GuardsAsShown ==
  ASSUME ProtocolTypeOK
  PROVE  /\ Open => Gate!Open
         /\ \A n \in 1..Len(approvals) :
              Executable(n) => Gate!Executable(Shown(approvals[n]))
<1>1. Open => Gate!Open
  BY DEF Open, Gate!Open, ProtocolTypeOK
<1>2. ASSUME NEW n \in 1..Len(approvals), Executable(n)
      PROVE  Gate!Executable(Shown(approvals[n]))
  <2>1. Gate!Number(I) = 1 /\ Gate!Current(I) = ShownAttempt
    BY TicketAsShown
  <2>2. ticket \in {"awaiting_approval", "delivering"}
    BY <1>2 DEF Executable, Correlated, Active
  <2>3. Gate!CurrentCorrelation(Shown(approvals[n]))
    BY <2>1, <2>2 DEF Gate!CurrentCorrelation, Shown, I, ShownAttempt
  <2> QED
    BY <1>2, <2>3 DEF Executable, Gate!Executable, Shown
<1> QED
  BY <1>1, <1>2

\* requestActionApproval is a request for the current attempt, handoff and review.
LEMMA RequestsIsACall ==
  ASSUME ProtocolTypeOK, ProtocolTypeOK', SavedStep, Requests
  PROVE  Gate!GateNext
<1> DEFINE pins == <<1, 1, 1>>
<1>1. pins \in Gate!Pins(I)
  BY TicketAsShown DEF Gate!Pins, I
<1>2. Gate!Open /\ Len(ShownApprovals) < MaxApprovals /\ Gate!Present = {I}
  BY GuardsAsShown, TicketAsShown, ShownLength DEF Requests
<1>3. ShownApprovals' = Append(ShownApprovals,
        [item |-> I, attempt |-> pins[1], handoff |-> pins[2], review |-> pins[3],
         decision |-> "pending", live |-> TRUE, intent |-> "none", pr |-> "none"])
  BY RequestShown DEF Requests, Shown, NewApproval, Pull
<1>4. UNCHANGED Gate!vars /\ UNCHANGED <<mission, ShownDelivery>>
  BY SameTicket DEF Requests, ShownDelivery
<1>5. Gate!GateSaved
  BY DEF SavedStep, Gate!GateSaved
<1>6. Gate!RequestApproval(I, pins)
  BY <1>2, <1>3, <1>4, <1>5 DEF Gate!RequestApproval, ShownApprovals, ShownDelivery, Shown, Pull, I
<1> QED
  BY <1>1, <1>6 DEF Gate!GateNext, I

\* What the service keeps when only approval n changes, to a.
LEMMA ReplacedShown ==
  ASSUME ProtocolTypeOK, NEW n \in 1..Len(approvals), NEW a \in Approval, Replaced(n, a)
  PROVE  /\ n \in 1..Len(ShownApprovals)
         /\ ShownApprovals' = [ShownApprovals EXCEPT ![n] = Shown(a)]
         /\ ShownApprovals[n] = Shown(approvals[n]) /\ approvals[n] \in Approval
         /\ UNCHANGED Gate!vars /\ UNCHANGED <<mission, ShownDelivery>>
<1>1. UNCHANGED Gate!vars /\ UNCHANGED <<mission, ShownDelivery>>
  BY SameTicket DEF Replaced, ShownDelivery
<1> QED
  BY <1>1, ShownLength, ChangedShown DEF Replaced

\* decidePrimaryDelivery decides under the state that was read.
LEMMA DecidesIsACall ==
  ASSUME ProtocolTypeOK, SavedStep, NEW n \in 1..Len(approvals),
         NEW d \in {"approved", "rejected", "cancelled"}, Decides(n, d)
  PROVE  Gate!GateNext
<1> DEFINE a == approvals[n]
           b == [a EXCEPT !.decision = d]
<1>1. a \in Approval /\ d \in {"pending", "approved", "rejected", "cancelled"}
  BY ShownLength
<1>2. b \in Approval /\ Shown(b) = [Shown(a) EXCEPT !.decision = d]
  BY <1>1, ApprovalFields, Zenon
<1>3. Replaced(n, b) /\ MayDecide(n, d)
  BY DEF Decides
<1> HIDE DEF b
<1>4. /\ n \in 1..Len(ShownApprovals)
      /\ ShownApprovals' = [ShownApprovals EXCEPT ![n] = Shown(b)]
      /\ ShownApprovals[n] = Shown(a)
      /\ UNCHANGED Gate!vars /\ UNCHANGED <<mission, ShownDelivery>>
  BY <1>2, <1>3, ReplacedShown
<1>5. ShownApprovals' = [ShownApprovals EXCEPT ![n].decision = d]
  BY <1>2, <1>4
<1>6. Gate!Open /\ Gate!Decidable(ShownApprovals[n], d)
  BY <1>3, <1>4, GuardsAsShown DEF MayDecide, Gate!Decidable, Shown
<1>7. Gate!DecideApproval(n, d)
  BY <1>4, <1>5, <1>6 DEF Gate!DecideApproval, SavedStep, Gate!GateSaved, ShownApprovals,
                          ShownDelivery, Shown, Pull, I
<1> QED
  BY <1>4, <1>7 DEF Gate!GateNext, ShownApprovals, Shown, Pull, I

\* An approval expires.
LEMMA ExpiresIsACall ==
  ASSUME ProtocolTypeOK, NEW n \in 1..Len(approvals), Expires(n)
  PROVE  Gate!GateNext
<1> DEFINE a == approvals[n]
           b == [a EXCEPT !.live = FALSE]
<1>1. a \in Approval
  BY ShownLength
<1>2. b \in Approval /\ Shown(b) = [Shown(a) EXCEPT !.live = FALSE]
  BY <1>1, ApprovalFields
<1>3. Replaced(n, b) /\ a.live
  BY DEF Expires
<1> HIDE DEF b
<1>4. /\ n \in 1..Len(ShownApprovals)
      /\ ShownApprovals' = [ShownApprovals EXCEPT ![n] = Shown(b)]
      /\ ShownApprovals[n] = Shown(a)
      /\ UNCHANGED Gate!vars /\ UNCHANGED <<mission, ShownDelivery>>
  BY <1>2, <1>3, ReplacedShown
<1>5. ShownApprovals' = [ShownApprovals EXCEPT ![n].live = FALSE]
  BY <1>2, <1>4
<1>6. ShownApprovals[n].live
  BY <1>3, <1>4 DEF Shown
<1>7. Gate!Expire(n)
  BY <1>4, <1>5, <1>6 DEF Gate!Expire, ShownApprovals, ShownDelivery, Shown, Pull, I
<1> QED
  BY <1>4, <1>7 DEF Gate!GateNext, ShownApprovals, Shown, Pull, I

\* recordDeliveryAttempt makes the intent durable.
LEMMA IntendsIsACall ==
  ASSUME ProtocolTypeOK, SavedStep, NEW n \in 1..Len(approvals), Intends(n)
  PROVE  Gate!GateNext
<1> DEFINE a == approvals[n]
           b == [a EXCEPT !.intent = "pending"]
<1>1. a \in Approval
  BY ShownLength
<1>2. b \in Approval /\ Shown(b) = [Shown(a) EXCEPT !.intent = "pending"]
  BY <1>1, ApprovalFields
<1>3. Replaced(n, b) /\ Open /\ Executable(n) /\ a.intent = "none"
  BY DEF Intends
<1> HIDE DEF b
<1>4. /\ n \in 1..Len(ShownApprovals)
      /\ ShownApprovals' = [ShownApprovals EXCEPT ![n] = Shown(b)]
      /\ ShownApprovals[n] = Shown(a)
      /\ UNCHANGED Gate!vars /\ UNCHANGED <<mission, ShownDelivery>>
  BY <1>2, <1>3, ReplacedShown
<1>5. ShownApprovals' = [ShownApprovals EXCEPT ![n].intent = "pending"]
  BY <1>2, <1>4
<1>6. /\ Gate!Open /\ Gate!Executable(ShownApprovals[n])
      /\ ShownApprovals[n].item # "none" /\ ShownApprovals[n].intent = "none"
  BY <1>3, <1>4, GuardsAsShown DEF Shown, I
<1>7. Gate!RecordDeliveryAttempt(n)
  BY <1>4, <1>5, <1>6 DEF Gate!RecordDeliveryAttempt, SavedStep, Gate!GateSaved, ShownApprovals,
                          ShownDelivery, Shown, Pull, I
<1> QED
  BY <1>4, <1>7 DEF Gate!GateNext, ShownApprovals, Shown, Pull, I

\* recordDeliveryAttemptResult notes the first result.
LEMMA ResultsIsACall ==
  ASSUME ProtocolTypeOK, SavedStep, NEW n \in 1..Len(approvals), Results(n)
  PROVE  Gate!GateNext
<1> DEFINE a == approvals[n]
           b == [a EXCEPT !.result = TRUE]
<1>1. a \in Approval
  BY ShownLength
<1>2. b \in Approval /\ Shown(b) = [Shown(a) EXCEPT !.pr = "pull"]
  BY <1>1, ApprovalFields
<1>3. Replaced(n, b) /\ a.intent # "none" /\ ~a.result
  BY DEF Results
<1> HIDE DEF b
<1>4. /\ n \in 1..Len(ShownApprovals)
      /\ ShownApprovals' = [ShownApprovals EXCEPT ![n] = Shown(b)]
      /\ ShownApprovals[n] = Shown(a)
      /\ UNCHANGED Gate!vars /\ UNCHANGED <<mission, ShownDelivery>>
  BY <1>2, <1>3, ReplacedShown
<1>5. ShownApprovals' = [ShownApprovals EXCEPT ![n].pr = "pull"]
  BY <1>2, <1>4
<1>6. ShownApprovals[n].intent # "none" /\ ShownApprovals[n].pr = "none"
  BY <1>3, <1>4 DEF Shown, Pull
<1>7. Gate!RecordDeliveryAttemptResult(n, "pull")
  BY <1>4, <1>5, <1>6 DEF Gate!RecordDeliveryAttemptResult, Gate!FirstResult, SavedStep,
                          Gate!GateSaved, ShownApprovals, ShownDelivery, Shown, Pull, I
<1> QED
  BY <1>4, <1>7 DEF Gate!GateNext, ShownApprovals, Shown, Pull, I

\* The work items after the ticket and its attempt have moved.
LEMMA MovedTicket ==
  ASSUME NEW to, ticket' = to
  PROVE  /\ ShownStatus' = [ShownStatus EXCEPT ![I] = to]
         /\ ShownAttempts' = Gate!Tracked(I, to, {})
         /\ [i \in {I} |-> {}] = [[i \in {I} |-> {}] EXCEPT ![I] = {}]
BY TrackedShown DEF ShownStatus, I

\* updateTicket and blocking: a transition of the ticket under its trigger.
LEMMA TicketIsACall ==
  ASSUME ProtocolTypeOK, SavedStep, NEW to \in {"delivering", "blocked"}, TicketGoes(to)
  PROVE  Gate!GateNext
<1> DEFINE t == IF to = "delivering" THEN "approval" ELSE "failure"
<1>1. /\ ticket' = to /\ Gate!Open
      /\ UNCHANGED <<mission, approvals, delivery>>
  BY GuardsAsShown DEF TicketGoes
<1>2. /\ t \in {"human", "execution", "proof", "approval", "failure"}
      /\ t \in Gate!SystemTriggers /\ to \in Gate!TicketStatuses
  BY DEF Gate!SystemTriggers, Gate!TicketStatuses
<1>3. Gate!LegalSystemEdge(I, t, ticket, to)
  BY DEF TicketGoes, Active, Gate!LegalSystemEdge
<1>4. Gate!FindingsAfter(I, to) = {}
  BY DEF Gate!FindingsAfter, I
<1>5. /\ ShownStatus' = [ShownStatus EXCEPT ![I] = to]
      /\ ShownAttempts' = Gate!Tracked(I, to, Gate!FindingsAfter(I, to))
      /\ [i \in {I} |-> {}] = [[i \in {I} |-> {}] EXCEPT ![I] = Gate!FindingsAfter(I, to)]
  BY <1>1, <1>4, MovedTicket
<1>6. Gate!Saved /\ Gate!GateSaved
  BY DEF SavedStep, Gate!Saved, Gate!GateSaved
<1> HIDE DEF t
<1>7. Gate!TransitionSystemWorkItem(I, t, to)
  BY <1>2, <1>3, <1>5, <1>6 DEF Gate!TransitionSystemWorkItem, Gate!workVars, ShownStatus,
                                ShownAttempts, ShownAttempt, I
<1>8. Gate!Handle(I)
  BY <1>2, <1>7 DEF Gate!Handle
<1>9. UNCHANGED <<mission, ShownApprovals, ShownDelivery>>
  BY <1>1 DEF ShownApprovals, ShownDelivery
<1>10. Gate!QueueCall
  BY <1>1, <1>6, <1>8, <1>9 DEF Gate!QueueCall, Gate!gateVars, ShownApprovals, ShownDelivery,
                               Shown, Pull, I
<1> QED
  BY <1>10 DEF Gate!GateNext

\* transitionMission, whose tickets admit the transition.
LEMMA MissionIsACall ==
  ASSUME ProtocolTypeOK, SavedStep, NEW to \in {"awaiting_approval", "verifying", "blocked"},
         MissionGoes(to)
  PROVE  Gate!GateNext
<1>1. /\ mission' = to /\ UNCHANGED <<ticket, approvals, delivery>>
      /\ mission \in Gate!MissionStatuses /\ to \in Gate!MissionStatuses
  BY DEF MissionGoes, ProtocolTypeOK, Gate!MissionStatuses
<1>2. to \in Gate!MissionEdges[mission] \ {"delivered"}
  BY <1>1 DEF MissionGoes, Gate!MissionEdges, Gate!MissionStatuses
<1>3. Gate!ProductItems = {I} /\ Gate!Implementer(I)
  BY TicketAsShown
<1>4. to = "awaiting_approval" => Gate!QueueApprovalReady
  BY <1>3 DEF MissionGoes, Gate!QueueApprovalReady, Gate!QueueReady, I
<1>5. to = "verifying" => Gate!QueueVerificationReady
  BY <1>3 DEF MissionGoes, Gate!QueueVerificationReady, Gate!QueueReady, Gate!Completed, I
<1>6. UNCHANGED Gate!vars /\ UNCHANGED <<ShownApprovals, ShownDelivery>>
  BY <1>1, SameTicket DEF ShownApprovals, ShownDelivery
<1>7. Gate!TransitionMission(to)
  BY <1>1, <1>2, <1>4, <1>5, <1>6 DEF Gate!TransitionMission, SavedStep, Gate!GateSaved,
                                      ShownApprovals, ShownDelivery, Shown, Pull, I
<1> QED
  BY <1>1, <1>7 DEF Gate!GateNext

\* recordDelivery of the current attempt, with the result that was noted.
LEMMA RecordsIsACall ==
  ASSUME ProtocolTypeOK, SavedStep, NEW n \in 1..Len(approvals), Records(n)
  PROVE  Gate!GateNext
<1> DEFINE a == approvals[n]
           b == [a EXCEPT !.intent = "completed"]
<1>0. /\ a \in Approval /\ n # 0
      /\ MayRecord(n) /\ ticket = "delivering" /\ a.intent # "none" /\ a.result
      /\ delivery' = n /\ ticket' = "done" /\ mission' = "delivered"
  BY ShownLength DEF Records
<1>1. /\ mission = "verifying" /\ delivery = 0 /\ Executable(n)
  BY <1>0 DEF MayRecord
<1>2. b \in Approval /\ Shown(b) = [Shown(a) EXCEPT !.intent = "completed"]
  BY <1>0, ApprovalFields
<1>3. approvals' = [approvals EXCEPT ![n] = b]
  BY DEF Records
<1> HIDE DEF b
<1>4. /\ n \in 1..Len(ShownApprovals)
      /\ ShownApprovals' = [ShownApprovals EXCEPT ![n] = Shown(b)]
      /\ ShownApprovals[n] = Shown(a)
  BY <1>2, <1>3, ChangedShown, ShownLength
<1>5. ShownApprovals' = [ShownApprovals EXCEPT ![n].intent = "completed"]
  BY <1>2, <1>4
<1>6. /\ Gate!Number(I) = 1 /\ Gate!Present = {I} /\ Gate!ProductItems = {I}
      /\ Gate!Implementer(I) /\ Gate!AcceptedReview(I)
  BY TicketAsShown
<1>7. Gate!Open /\ Gate!Executable(ShownApprovals[n])
  BY <1>1, <1>4, GuardsAsShown DEF Open
<1>8. Gate!QueueDeliveryComplete(I, 1)
  BY <1>0, <1>6 DEF Gate!QueueDeliveryComplete, Gate!AllComplete, I
<1>9. /\ ShownApprovals[n].item = I /\ ShownApprovals[n].attempt = 1
      /\ ShownApprovals[n].pr = "pull" /\ ShownApprovals[n].intent # "none"
  BY <1>0, <1>4 DEF Shown, Pull
<1>10. ShownDelivery.status = "none"
       /\ ShownDelivery' = [status |-> "delivered", approval |-> n, item |-> I,
                            attempt |-> 1, pr |-> "pull"]
  BY <1>0, <1>1 DEF ShownDelivery
<1>11. Gate!IntentMatches(n, 1, "pull")
  BY <1>9 DEF Gate!IntentMatches, ShownApprovals, Shown, Pull, I
<1>12. Gate!Delivered(I)
  <2>1. /\ ShownStatus' = [ShownStatus EXCEPT ![I] = "done"]
        /\ ShownAttempts' = Gate!Tracked(I, "done", {})
        /\ [i \in {I} |-> {}] = [[i \in {I} |-> {}] EXCEPT ![I] = {}]
    BY <1>0, MovedTicket
  <2> QED
    BY <1>0, <1>6, <2>1 DEF Gate!Delivered, Gate!DeliveredStatus, Gate!workVars, ShownStatus,
                            ShownAttempts, ShownAttempt, I
<1>13. Gate!RecordDelivery(n, I, 1, "pull")
  BY <1>0, <1>1, <1>5, <1>6, <1>7, <1>8, <1>9, <1>10, <1>11, <1>12
     DEF Gate!RecordDelivery, SavedStep, Gate!GateSaved, ShownApprovals, ShownDelivery, Shown,
         Pull, I
<1> QED
  BY <1>4, <1>9, <1>13 DEF Gate!GateNext, ShownApprovals, Shown, Pull, I

\* Every call of the protocol is one that the service admits.
LEMMA CallsAreCalls ==
  ASSUME ProtocolInv, ProtocolInv', SavedStep, Calls
  PROVE  Gate!GateNext
<1>1. ProtocolTypeOK /\ ProtocolTypeOK'
  BY DEF ProtocolInv
<1> QED
  BY <1>1, RequestsIsACall, DecidesIsACall, ExpiresIsACall, IntendsIsACall, ResultsIsACall,
     RecordsIsACall, TicketIsACall, MissionIsACall DEF Calls

\* A step of the protocol is a call that MissionService admits for a ticket of one
\* implementation and whose result it saves, or changes nothing that it keeps: whatever
\* crashes, is lost or runs in between, the delivery goes through the gate.
THEOREM DeliveryGoesThroughTheGate == Spec => StepsAreServiceCalls
<1>1. ProtocolInv /\ AttemptsInv => Gate!Valid /\ Gate!ValidGate
  BY ShownIsValid
<1>2. Spec => [](ProtocolInv /\ AttemptsInv /\ Gate!Valid /\ Gate!ValidGate)
  BY <1>1, ProtocolInvariant, AttemptsInvariant, PTL
<1>3. ProtocolInv /\ ProtocolInv' /\ (Gate!Valid /\ Gate!ValidGate)' /\ [Next]_protocolVars
        => [Gate!GateNext]_(Gate!allVars)
  <2> SUFFICES ASSUME ProtocolInv, ProtocolInv', (Gate!Valid /\ Gate!ValidGate)',
                      [Next]_protocolVars
               PROVE  Gate!GateNext \/ UNCHANGED Gate!allVars
    OBVIOUS
  <2>1. SavedStep
    BY DEF SavedStep
  <2>2. CASE Calls
    BY <2>1, <2>2, CallsAreCalls
  <2>3. CASE Quiet
    BY <2>3, QuietShown
  <2> QED
    BY <2>2, <2>3, NextCalls
<1> QED
  BY <1>2, <1>3, PTL DEF Spec, StepsAreServiceCalls
=============================================================================
